--------------------------- MODULE UserAdminProofs ---------------------------
(***************************************************************************)
(* Proofs about UserAdmin, for any users, roles, threads and initial       *)
(* table. Approved says what the rules have established about a thread's   *)
(* copies by the time it writes; it is what makes the action properties    *)
(* inductive, because the copies no longer change once they are approved.  *)
(* Sequential says that without overlap the copies are also current.       *)
(***************************************************************************)
EXTENDS UserAdmin, TLAPS

Reads == {"read", "select", "fill"}
Writes == {"update", "ucommit"}
Deletes == {"delete", "dcommit"}

\* The rules allowed thread t to write, or to delete, the record it holds.
Approved(t) ==
  /\ pc[t] \in Writes =>
       \/ IsRoot(caller[t])
       \/ /\ existing[t].role # "root"
          /\ \/ existing[t].id = caller[t].id
             \/ IsAdmin(caller[t]) /\ existing[t].createdBy = caller[t].id
  /\ pc[t] \in Deletes =>
       \/ IsRoot(caller[t])
       \/ IsAdmin(caller[t]) /\ existing[t].createdBy = caller[t].id

LocalsOK ==
  \A t \in Threads :
    /\ pc[t] \in Reads => /\ target[t] \in Users
                          /\ kind[t] \in {"auth", "put", "delete", "answer"}
    /\ pc[t] = "fill" => existing[t] \in Record
    /\ pc[t] = "idle" \/ (pc[t] = "decide" /\ kind[t] = "auth") => existing[t] = None
    /\ pc[t] = "decide" => /\ caller[t] \in Record
                           /\ kind[t] \in {"auth", "put", "delete"}
                           /\ kind[t] # "auth" => existing[t] \in Record /\ target[t] \in Users
    /\ pc[t] \in Reads /\ kind[t] # "auth" => caller[t] \in Record
    /\ pc[t] \in Writes \cup Deletes =>
         /\ existing[t] \in Record
         /\ target[t] \in Users
         /\ caller[t] \in Record
    /\ existing[t] # None => existing[t].id = target[t]
    /\ Approved(t)

\* A row is locked by the thread that is about to commit a change of it.
LockOK ==
  \A u \in Users : lock[u] # None =>
    /\ pc[lock[u]] \in {"ucommit", "dcommit"}
    /\ target[lock[u]] = u
    /\ db[u] # None

\* An id has been given out when a copy of its record exists.
UsedOK ==
  /\ \A u \in Users : db[u] # None \/ cache[u] # None => u \in used
  /\ \A t \in Threads : existing[t] # None => target[t] \in used

\* Every copy of u's record is u's and names the creator c.
CopiesOf(u, c) ==
  /\ db[u] # None => db[u].id = u /\ db[u].createdBy = c
  /\ cache[u] # None => cache[u].id = u /\ cache[u].createdBy = c
  /\ \A t \in Threads : existing[t] # None /\ target[t] = u
                          => existing[t].createdBy = c

OneCreator == \A u \in Users : \E c \in Users \cup {None} : CopiesOf(u, c)

IInv == TypeOK /\ LocalsOK /\ LockOK /\ UsedOK /\ OneCreator

LEMMA InitIInv == Init => IInv
  <1> SUFFICES ASSUME Init PROVE IInv
    OBVIOUS
  <1> USE ConstantsAssumption DEF Init
  <1>1. TypeOK
    BY DEF TypeOK, PCs
  <1>2. LocalsOK
    BY DEF LocalsOK, Approved, Reads, Writes, Deletes
  <1>3. LockOK /\ UsedOK
    BY DEF LockOK, UsedOK
  <1>4. OneCreator
    <2> USE DEF OneCreator
    <2> TAKE u \in Users
    <2>1. CASE Initial[u] = None
      BY <2>1 DEF CopiesOf
    <2>2. CASE Initial[u] # None
      <3>1. Initial[u] \in Record
        BY <2>2
      <3>2. Initial[u].createdBy \in Users \cup {None}
        BY <3>1 DEF Record
      <3>3. CopiesOf(u, Initial[u].createdBy)
        BY <2>2 DEF CopiesOf
      <3>. QED
        BY <3>2, <3>3
    <2>. QED
      BY <2>1, <2>2
  <1>. QED
    BY <1>1, <1>2, <1>3, <1>4 DEF IInv

\* What DoPut writes back is the record it has read, with another role or status.
LEMMA ChangedRecord ==
  ASSUME NEW e \in Record, NEW r \in Roles, NEW s \in BOOLEAN
  PROVE  LET n == [e EXCEPT !.role = r, !.suspended = s]
         IN n \in Record /\ n.id = e.id /\ n.createdBy = e.createdBy /\ n.role = r
  BY DEF Record

\* A record carries the id it is stored under.
LEMMA RowIds ==
  ASSUME OneCreator
  PROVE  \A u \in Users : /\ db[u] # None => db[u].id = u
                          /\ cache[u] # None => cache[u].id = u
  BY DEF OneCreator, CopiesOf

LEMMA TypeNext ==
  ASSUME TypeOK, LocalsOK, [Next]_vars
  PROVE  TypeOK'
  <1> overlap' \in BOOLEAN
    BY DEF Next, vars, TypeOK
  <1> USE ConstantsAssumption DEF TypeOK, LocalsOK, Reads, Writes, Deletes, RequestKinds, PCs
  <1>1. ASSUME NEW t \in Threads, Step(t) PROVE TypeOK'
    <2>1. CASE ReadCache(t)
      BY <2>1 DEF ReadCache, HaveRecord, Goto, Return
    <2>2. CASE ReadTable(t)
      BY <2>2 DEF ReadTable, Return
    <2>3. CASE FillCache(t)
      BY <2>3 DEF FillCache, HaveRecord, Return
    <2>4. CASE ResetMFA(t)
      BY <2>4 DEF ResetMFA, Goto
    <2>5. CASE ApproveDelete(t)
      BY <2>5 DEF ApproveDelete, Goto
    <2>6. CASE Refuse(t)
      BY <2>6 DEF Refuse, Return
    <2>7. CASE UpdateExec(t)
      BY <2>7 DEF UpdateExec, Goto
    <2>8. CASE UpdateCommit(t)
      BY <2>8 DEF UpdateCommit
    <2>9. CASE DeleteExec(t)
      BY <2>9 DEF DeleteExec, Goto
    <2>10. CASE DeleteCommit(t)
      BY <2>10 DEF DeleteCommit, Return
    <2>11. ASSUME NEW u \in Users, Authenticate(t, u) PROVE TypeOK'
      BY <2>11 DEF Authenticate
    <2>12. ASSUME NEW k \in Kinds, NEW u \in Users, Choose(t, k, u) PROVE TypeOK'
      BY <2>12 DEF Choose
    <2>13. ASSUME NEW u \in Users, NEW r \in Roles, Create(t, u, r) PROVE TypeOK'
      <3>1. pc[t] = "decide" /\ caller[t] \in Record
        BY <2>13 DEF Create
      <3>2. [id |-> u, role |-> r, createdBy |-> caller[t].id, suspended |-> FALSE] \in Record
        BY <3>1 DEF Record
      <3>. QED
        BY <2>13, <3>2 DEF Create
    <2>14. ASSUME NEW r \in Roles, NEW s \in Statuses, ApplyChanges(t, r, s) PROVE TypeOK'
      BY <2>14, ChangedRecord DEF ApplyChanges
    <2>. QED
      BY <1>1, <2>1, <2>2, <2>3, <2>4, <2>5, <2>6, <2>7, <2>8, <2>9,
         <2>10, <2>11, <2>12, <2>13, <2>14 DEF Step
  <1>2. ASSUME NEW v \in Users, Evict(v) PROVE TypeOK'
    BY <1>2 DEF Evict, threadVars
  <1>3. CASE UNCHANGED vars
    BY <1>3 DEF vars, threadVars
  <1>. QED
    BY <1>1, <1>2, <1>3 DEF Next

LEMMA LocalsNext ==
  ASSUME IInv, [Next]_vars
  PROVE  LocalsOK'
  <1> USE ConstantsAssumption DEF IInv, TypeOK, LocalsOK, Reads, Writes, Deletes, RequestKinds, Approved
  <1>1. ASSUME NEW t \in Threads, Step(t) PROVE LocalsOK'
    <2>1. CASE ReadCache(t)
      BY <2>1, RowIds DEF ReadCache, HaveRecord, Goto, Return
    <2>2. CASE ReadTable(t)
      BY <2>2, RowIds DEF ReadTable, Return
    <2>3. CASE FillCache(t)
      BY <2>3 DEF FillCache, HaveRecord, Return
    <2>4. CASE ResetMFA(t)
      BY <2>4 DEF ResetMFA, Goto, IsRoot, IsAdmin, IsSelf, WasCreatedBy, IsNonRootTarget, CanCreateUserRecord, CanModifyUserRecord, CanDeleteUserRecord, CanResetUserMFA, CanChangeUserRole, IsSelfServiceCaller
    <2>5. CASE ApproveDelete(t)
      BY <2>5 DEF ApproveDelete, Goto, IsRoot, IsAdmin, IsSelf, WasCreatedBy, IsNonRootTarget, CanCreateUserRecord, CanModifyUserRecord, CanDeleteUserRecord, CanResetUserMFA, CanChangeUserRole, IsSelfServiceCaller
    <2>6. CASE Refuse(t)
      BY <2>6 DEF Refuse, Return
    <2>7. CASE UpdateExec(t)
      BY <2>7 DEF UpdateExec, Goto
    <2>8. CASE UpdateCommit(t)
      BY <2>8 DEF UpdateCommit
    <2>9. CASE DeleteExec(t)
      BY <2>9 DEF DeleteExec, Goto
    <2>10. CASE DeleteCommit(t)
      BY <2>10 DEF DeleteCommit, Return
    <2>11. ASSUME NEW u \in Users, Authenticate(t, u) PROVE LocalsOK'
      BY <2>11 DEF Authenticate
    <2>12. ASSUME NEW k \in Kinds, NEW u \in Users, Choose(t, k, u) PROVE LocalsOK'
      BY <2>12 DEF Choose
    <2>13. ASSUME NEW u \in Users, NEW r \in Roles, Create(t, u, r) PROVE LocalsOK'
      BY <2>13 DEF Create, Record, IsRoot, IsAdmin, CanCreateUserRecord, IsNonRootTarget
    <2>14. ASSUME NEW r \in Roles, NEW s \in Statuses, ApplyChanges(t, r, s) PROVE LocalsOK'
      <3> DEFINE n == [existing[t] EXCEPT !.role = r, !.suspended = s]
      <3>1. existing[t] \in Record /\ s \in BOOLEAN
        BY <2>14 DEF ApplyChanges
      <3>2. n \in Record /\ n.id = existing[t].id /\ n.createdBy = existing[t].createdBy /\ n.role = r
        BY <3>1 DEF Record
      <3>3. existing' = [existing EXCEPT ![t] = n]
        BY <2>14 DEF ApplyChanges
      <3> HIDE DEF n
      <3>. QED
        BY <2>14, <3>1, <3>2, <3>3 DEF ApplyChanges, IsRoot, IsAdmin, IsSelf, WasCreatedBy,
           IsNonRootTarget, CanModifyUserRecord, CanChangeUserRole
    <2>. QED
      BY <1>1, <2>1, <2>2, <2>3, <2>4, <2>5, <2>6, <2>7, <2>8, <2>9,
         <2>10, <2>11, <2>12, <2>13, <2>14 DEF Step
  <1>2. ASSUME NEW v \in Users, Evict(v) PROVE LocalsOK'
    BY <1>2 DEF Evict, threadVars
  <1>3. CASE UNCHANGED vars
    BY <1>3 DEF vars, threadVars
  <1>. QED
    BY <1>1, <1>2, <1>3 DEF Next

LEMMA LockNext ==
  ASSUME IInv, [Next]_vars
  PROVE  LockOK'
  <1> USE ConstantsAssumption DEF IInv, TypeOK, LocalsOK, Reads, Writes, Deletes, RequestKinds, LockOK, UsedOK
  <1>1. ASSUME NEW t \in Threads, Step(t) PROVE LockOK'
    <2>1. CASE ReadCache(t)
      BY <2>1 DEF ReadCache, HaveRecord, Goto, Return
    <2>2. CASE ReadTable(t)
      BY <2>2 DEF ReadTable, Return
    <2>3. CASE FillCache(t)
      BY <2>3 DEF FillCache, HaveRecord, Return
    <2>4. CASE ResetMFA(t)
      BY <2>4 DEF ResetMFA, Goto
    <2>5. CASE ApproveDelete(t)
      BY <2>5 DEF ApproveDelete, Goto
    <2>6. CASE Refuse(t)
      BY <2>6 DEF Refuse, Return
    <2>7. CASE UpdateExec(t)
      BY <2>7 DEF UpdateExec, Goto
    <2>8. CASE UpdateCommit(t)
      BY <2>8 DEF UpdateCommit
    <2>9. CASE DeleteExec(t)
      BY <2>9 DEF DeleteExec, Goto
    <2>10. CASE DeleteCommit(t)
      BY <2>10 DEF DeleteCommit, Return
    <2>11. ASSUME NEW u \in Users, Authenticate(t, u) PROVE LockOK'
      BY <2>11 DEF Authenticate
    <2>12. ASSUME NEW k \in Kinds, NEW u \in Users, Choose(t, k, u) PROVE LockOK'
      BY <2>12 DEF Choose
    <2>13. ASSUME NEW u \in Users, NEW r \in Roles, Create(t, u, r) PROVE LockOK'
      BY <2>13 DEF Create, Record
    <2>14. ASSUME NEW r \in Roles, NEW s \in Statuses, ApplyChanges(t, r, s) PROVE LockOK'
      BY <2>14 DEF ApplyChanges
    <2>. QED
      BY <1>1, <2>1, <2>2, <2>3, <2>4, <2>5, <2>6, <2>7, <2>8, <2>9,
         <2>10, <2>11, <2>12, <2>13, <2>14 DEF Step
  <1>2. ASSUME NEW v \in Users, Evict(v) PROVE LockOK'
    BY <1>2 DEF Evict, threadVars
  <1>3. CASE UNCHANGED vars
    BY <1>3 DEF vars, threadVars
  <1>. QED
    BY <1>1, <1>2, <1>3 DEF Next

LEMMA UsedNext ==
  ASSUME IInv, [Next]_vars
  PROVE  UsedOK'
  <1> USE ConstantsAssumption DEF IInv, TypeOK, LocalsOK, Reads, Writes, Deletes, RequestKinds, LockOK, UsedOK
  <1>1. ASSUME NEW t \in Threads, Step(t) PROVE UsedOK'
    <2>1. CASE ReadCache(t)
      BY <2>1 DEF ReadCache, HaveRecord, Goto, Return
    <2>2. CASE ReadTable(t)
      BY <2>2 DEF ReadTable, Return
    <2>3. CASE FillCache(t)
      BY <2>3 DEF FillCache, HaveRecord, Return
    <2>4. CASE ResetMFA(t)
      BY <2>4 DEF ResetMFA, Goto
    <2>5. CASE ApproveDelete(t)
      BY <2>5 DEF ApproveDelete, Goto
    <2>6. CASE Refuse(t)
      BY <2>6 DEF Refuse, Return
    <2>7. CASE UpdateExec(t)
      BY <2>7 DEF UpdateExec, Goto
    <2>8. CASE UpdateCommit(t)
      BY <2>8 DEF UpdateCommit
    <2>9. CASE DeleteExec(t)
      BY <2>9 DEF DeleteExec, Goto
    <2>10. CASE DeleteCommit(t)
      BY <2>10 DEF DeleteCommit, Return
    <2>11. ASSUME NEW u \in Users, Authenticate(t, u) PROVE UsedOK'
      BY <2>11 DEF Authenticate
    <2>12. ASSUME NEW k \in Kinds, NEW u \in Users, Choose(t, k, u) PROVE UsedOK'
      BY <2>12 DEF Choose
    <2>13. ASSUME NEW u \in Users, NEW r \in Roles, Create(t, u, r) PROVE UsedOK'
      BY <2>13 DEF Create
    <2>14. ASSUME NEW r \in Roles, NEW s \in Statuses, ApplyChanges(t, r, s) PROVE UsedOK'
      <3> DEFINE n == [existing[t] EXCEPT !.role = r, !.suspended = s]
      <3>1. existing[t] \in Record /\ s \in BOOLEAN
        BY <2>14 DEF ApplyChanges
      <3>2. n \in Record /\ n.id = existing[t].id /\ n.createdBy = existing[t].createdBy /\ n.role = r
        BY <3>1 DEF Record
      <3>3. existing' = [existing EXCEPT ![t] = n]
        BY <2>14 DEF ApplyChanges
      <3> HIDE DEF n
      <3>. QED
        BY <2>14, <3>1, <3>2, <3>3 DEF ApplyChanges, IsRoot, IsAdmin, IsSelf, WasCreatedBy,
           IsNonRootTarget, CanModifyUserRecord, CanChangeUserRole
    <2>. QED
      BY <1>1, <2>1, <2>2, <2>3, <2>4, <2>5, <2>6, <2>7, <2>8, <2>9,
         <2>10, <2>11, <2>12, <2>13, <2>14 DEF Step
  <1>2. ASSUME NEW v \in Users, Evict(v) PROVE UsedOK'
    BY <1>2 DEF Evict, threadVars
  <1>3. CASE UNCHANGED vars
    BY <1>3 DEF vars, threadVars
  <1>. QED
    BY <1>1, <1>2, <1>3 DEF Next

LEMMA CopiesNext ==
  ASSUME IInv, NEW w \in Users, NEW c \in Users \cup {None}, CopiesOf(w, c), w \in used, [Next]_vars
  PROVE  CopiesOf(w, c)'
  <1> USE ConstantsAssumption DEF IInv, TypeOK, LocalsOK, Reads, Writes, Deletes, RequestKinds, LockOK, UsedOK, CopiesOf
  <1>1. ASSUME NEW t \in Threads, Step(t) PROVE CopiesOf(w, c)'
    <2>1. CASE ReadCache(t)
      BY <2>1 DEF ReadCache, HaveRecord, Goto, Return
    <2>2. CASE ReadTable(t)
      BY <2>2 DEF ReadTable, Return
    <2>3. CASE FillCache(t)
      BY <2>3 DEF FillCache, HaveRecord, Return
    <2>4. CASE ResetMFA(t)
      BY <2>4 DEF ResetMFA, Goto
    <2>5. CASE ApproveDelete(t)
      BY <2>5 DEF ApproveDelete, Goto
    <2>6. CASE Refuse(t)
      BY <2>6 DEF Refuse, Return
    <2>7. CASE UpdateExec(t)
      BY <2>7 DEF UpdateExec, Goto
    <2>8. CASE UpdateCommit(t)
      BY <2>8 DEF UpdateCommit
    <2>9. CASE DeleteExec(t)
      BY <2>9 DEF DeleteExec, Goto
    <2>10. CASE DeleteCommit(t)
      BY <2>10 DEF DeleteCommit, Return
    <2>11. ASSUME NEW u \in Users, Authenticate(t, u) PROVE CopiesOf(w, c)'
      BY <2>11 DEF Authenticate
    <2>12. ASSUME NEW k \in Kinds, NEW u \in Users, Choose(t, k, u) PROVE CopiesOf(w, c)'
      BY <2>12 DEF Choose
    <2>13. ASSUME NEW u \in Users, NEW r \in Roles, Create(t, u, r) PROVE CopiesOf(w, c)'
      BY <2>13 DEF Create
    <2>14. ASSUME NEW r \in Roles, NEW s \in Statuses, ApplyChanges(t, r, s) PROVE CopiesOf(w, c)'
      <3> DEFINE n == [existing[t] EXCEPT !.role = r, !.suspended = s]
      <3>1. existing[t] \in Record /\ s \in BOOLEAN
        BY <2>14 DEF ApplyChanges
      <3>2. n \in Record /\ n.id = existing[t].id /\ n.createdBy = existing[t].createdBy /\ n.role = r
        BY <3>1 DEF Record
      <3>3. existing' = [existing EXCEPT ![t] = n]
        BY <2>14 DEF ApplyChanges
      <3> HIDE DEF n
      <3>. QED
        BY <2>14, <3>1, <3>2, <3>3 DEF ApplyChanges, IsRoot, IsAdmin, IsSelf, WasCreatedBy,
           IsNonRootTarget, CanModifyUserRecord, CanChangeUserRole
    <2>. QED
      BY <1>1, <2>1, <2>2, <2>3, <2>4, <2>5, <2>6, <2>7, <2>8, <2>9,
         <2>10, <2>11, <2>12, <2>13, <2>14 DEF Step
  <1>2. ASSUME NEW v \in Users, Evict(v) PROVE CopiesOf(w, c)'
    BY <1>2 DEF Evict, threadVars
  <1>3. CASE UNCHANGED vars
    BY <1>3 DEF vars, threadVars
  <1>. QED
    BY <1>1, <1>2, <1>3 DEF Next


LEMMA CreatorNext ==
  ASSUME IInv, [Next]_vars
  PROVE  OneCreator'
  <1> SUFFICES ASSUME NEW w \in Users PROVE \E c \in Users \cup {None} : CopiesOf(w, c)'
    BY DEF OneCreator
  <1>1. CASE w \in used
    <2>1. PICK c \in Users \cup {None} : CopiesOf(w, c)
      BY DEF IInv, OneCreator
    <2>. QED
      BY <1>1, <2>1, CopiesNext
  <1>2. CASE w \notin used
    \* No copy exists yet: the only step that makes one is the creation of w.
    <2> USE DEF IInv, TypeOK, LocalsOK, UsedOK, Reads, Writes, Deletes
    <2>1. ASSUME NEW t \in Threads, NEW u \in Users, NEW r \in Roles, Create(t, u, r), u = w
          PROVE  \E c \in Users \cup {None} : CopiesOf(w, c)'
      <3>1. caller[t] \in Record /\ caller[t].id \in Users
        BY <2>1 DEF Create, Record
      <3>2. PICK c \in Users : c = caller[t].id
        BY <3>1
      <3>3. CopiesOf(w, c)'
        BY <1>2, <2>1, <3>1, <3>2, ConstantsAssumption DEF CopiesOf, Create
      <3>. QED
        BY <3>3
    <2>2. CASE w \notin used'
      <3>1. UsedOK'
        BY UsedNext
      <3>2. CopiesOf(w, None)'
        BY <2>2, <3>1 DEF CopiesOf
      <3>. QED
        BY <3>2
    <2>3. CASE w \in used'
      <3>1. PICK t \in Threads : Step(t)
        BY <1>2, <2>3 DEF Next, Evict, vars, threadVars
      <3>2. \E u \in Users, r \in Roles : Create(t, u, r)
        BY <1>2, <2>3, <3>1 DEF Step, ReadCache, ReadTable, FillCache, Authenticate, Choose,
           ApplyChanges, ResetMFA, ApproveDelete, Refuse, UpdateExec, UpdateCommit,
           DeleteExec, DeleteCommit
      <3>3. PICK u \in Users, r \in Roles : Create(t, u, r)
        BY <3>2
      <3>4. u = w
        BY <1>2, <2>3, <3>3 DEF Create
      <3>. QED
        BY <2>1, <3>3, <3>4
    <2>. QED
      BY <2>2, <2>3
  <1>. QED
    BY <1>1, <1>2

\* The inductive invariant holds in every reachable state.
THEOREM Invariance == Spec => []IInv
  <1>1. IInv /\ [Next]_vars => IInv'
    <2> SUFFICES ASSUME IInv, [Next]_vars PROVE IInv'
      OBVIOUS
    <2>1. TypeOK'
      BY TypeNext DEF IInv
    <2>. QED
      BY <2>1, LocalsNext, LockNext, UsedNext, CreatorNext DEF IInv
  <1>. QED
    BY <1>1, InitIInv, PTL DEF Spec

\* The tables, locks and locals of the user handler stay well typed.
THEOREM TypeCorrect == Spec => []TypeOK
  BY Invariance, PTL DEF IInv


\* What a step may do to the table, relative to the caller of the thread that
\* takes it.
LEMMA WritesApproved ==
  ASSUME IInv, [Next]_vars, NEW u \in Users, db'[u] # db[u]
  PROVE  \E t \in Threads :
           /\ Acts(t)
           /\ \/ IsRoot(caller[t])
              \/ /\ db'[u] # None => db'[u].role # "root"
                 /\ \/ caller[t].id = u
                    \/ /\ IsAdmin(caller[t])
                       /\ {db[u], db'[u]} \ {None}
                            \subseteq {r \in Record : r.createdBy = caller[t].id}
  <1> USE ConstantsAssumption
  <1>1. PICK t \in Threads : Step(t)
    BY DEF Next, Evict, vars, threadVars
  <1>2. PICK c \in Users \cup {None} : CopiesOf(u, c)
    BY DEF IInv, OneCreator
  <1>3. TypeOK'
    BY TypeNext DEF IInv
  <1>4. CASE UpdateCommit(t)
    <2>1. /\ u = target[t] /\ lock[u] = t /\ db'[u] = existing[t]
          /\ Acts(t) /\ existing[t] \in Record /\ caller[t] \in Record
      BY <1>4 DEF UpdateCommit, Acts, IInv, TypeOK, LocalsOK, Writes
    <2>2. db[u] \in Record /\ db[u].createdBy = c /\ existing[t].createdBy = c
      BY <1>2, <2>1 DEF IInv, TypeOK, LockOK, CopiesOf
    <2>3. existing[t].id = u
      BY <2>1 DEF IInv, LocalsOK
    <2>4. Approved(t) /\ pc[t] \in Writes
      BY <1>4 DEF UpdateCommit, IInv, LocalsOK, Writes
    <2>. QED
      BY <2>1, <2>2, <2>3, <2>4 DEF Approved, Writes
  <1>5. CASE DeleteCommit(t)
    <2>1. /\ u = target[t] /\ lock[u] = t /\ db'[u] = None
          /\ Acts(t) /\ existing[t] \in Record /\ caller[t] \in Record
      BY <1>5 DEF DeleteCommit, Return, Acts, IInv, TypeOK, LocalsOK, Deletes
    <2>2. db[u] \in Record /\ db[u].createdBy = c /\ existing[t].createdBy = c
      BY <1>2, <2>1 DEF IInv, TypeOK, LockOK, CopiesOf
    <2>3. Approved(t) /\ pc[t] \in Deletes
      BY <1>5 DEF DeleteCommit, IInv, LocalsOK, Deletes
    <2>. QED
      BY <2>1, <2>2, <2>3 DEF Approved, Deletes
  <1>6. ASSUME NEW v \in Users, NEW r \in Roles, Create(t, v, r)
        PROVE  \E s \in Threads :
                 /\ Acts(s)
                 /\ \/ IsRoot(caller[s])
                    \/ /\ db'[u] # None => db'[u].role # "root"
                       /\ \/ caller[s].id = u
                          \/ /\ IsAdmin(caller[s])
                             /\ {db[u], db'[u]} \ {None}
                                  \subseteq {x \in Record : x.createdBy = caller[s].id}
    <2>1. u = v /\ db[u] = None /\ Acts(t)
      BY <1>6 DEF Create, Acts, IInv, TypeOK, UsedOK
    <2>2. /\ db'[u] \in Record /\ db'[u].createdBy = caller[t].id
          /\ IsRoot(caller[t]) \/ (IsAdmin(caller[t]) /\ db'[u].role # "root")
      BY <1>3, <1>6, <2>1 DEF Create, IInv, TypeOK, CanCreateUserRecord, IsNonRootTarget
    <2>. QED
      BY <2>1, <2>2
  <1>7. UpdateCommit(t) \/ DeleteCommit(t) \/ \E v \in Users, r \in Roles : Create(t, v, r)
    BY <1>1 DEF Step, ReadCache, ReadTable, FillCache, Authenticate, Choose, ApplyChanges,
       ResetMFA, ApproveDelete, Refuse, UpdateExec, DeleteExec
  <1>. QED
    BY <1>4, <1>5, <1>6, <1>7

\* A user becomes root only by the request of a caller authenticated as root
\* (CanCreateUserRecord, CanModifyUserRecord, CanChangeUserRole).
THEOREM RootsMadeByRoots == Spec => OnlyRootsMakeRoots
  <1>1. IInv /\ [Next]_vars =>
          [\A u \in Users :
             /\ IsRow(db', u) /\ db'[u].role = "root"
             /\ ~(IsRow(db, u) /\ db[u].role = "root")
             => \E t \in Threads : Acts(t) /\ IsRoot(caller[t])]_vars
    BY WritesApproved DEF IsRow
  <1>. QED
    BY <1>1, Invariance, PTL DEF Spec, OnlyRootsMakeRoots

\* Callers who are not root reach only themselves and those they created, and
\* createdBy never changes (WasCreatedBy, DoPost).
THEOREM CreatorsKeepScope == Spec => CreatorScope
  <1>1. ASSUME IInv, [Next]_vars, NEW u \in Users, IsRow(db, u), IsRow(db', u)
        PROVE  db'[u].createdBy = db[u].createdBy
    <2>1. PICK c \in Users \cup {None} : CopiesOf(u, c)
      BY <1>1 DEF IInv, OneCreator
    <2>2. CopiesOf(u, c)'
      BY <1>1, <2>1, CopiesNext DEF IInv, UsedOK, IsRow
    <2>. QED
      BY <1>1, <2>1, <2>2 DEF CopiesOf, IsRow
  <1>2. IInv /\ [Next]_vars =>
          [\A u \in Users : db'[u] # db[u] =>
             /\ IsRow(db, u) /\ IsRow(db', u) => db'[u].createdBy = db[u].createdBy
             /\ \E t \in Threads :
                  /\ Acts(t)
                  /\ \/ IsRoot(caller[t])
                     \/ caller[t].id = u
                     \/ /\ IsAdmin(caller[t])
                        /\ {db[u], db'[u]} \ {None} \subseteq
                             {r \in Record : r.createdBy = caller[t].id}]_vars
    BY <1>1, WritesApproved
  <1>. QED
    BY <1>2, Invariance, PTL DEF Spec, CreatorScope

\* UpdateRecord never brings a deleted user's row back (the row locks of the
\* database order it against DeleteRecord).
THEOREM RowsStayDeleted == Spec => NoRowRevival
  <1>1. ASSUME IInv, [Next]_vars, NEW u \in used, ~IsRow(db, u)
        PROVE  ~IsRow(db', u)
    <2> USE DEF IInv, TypeOK, LockOK, IsRow
    <2>1. ASSUME NEW t \in Threads, Step(t) PROVE ~IsRow(db', u)
      <3>1. CASE UpdateCommit(t)
        BY <1>1, <3>1, ConstantsAssumption DEF UpdateCommit, LocalsOK, Writes
      <3>2. CASE DeleteCommit(t)
        BY <1>1, <3>2 DEF DeleteCommit
      <3>3. ASSUME NEW v \in Users, NEW r \in Roles, Create(t, v, r) PROVE ~IsRow(db', u)
        BY <1>1, <3>3 DEF Create
      <3>. QED
        BY <1>1, <2>1, <3>1, <3>2, <3>3 DEF Step, ReadCache, ReadTable, FillCache,
           Authenticate, Choose, ApplyChanges, ResetMFA, ApproveDelete, Refuse,
           UpdateExec, DeleteExec
    <2>. QED
      BY <1>1, <2>1 DEF Next, Evict, vars
  <1>2. IInv /\ [Next]_vars => [\A u \in used : ~IsRow(db, u) => ~IsRow(db', u)]_vars
    BY <1>1
  <1>. QED
    BY <1>2, Invariance, PTL DEF Spec, NoRowRevival

-----------------------------------------------------------------------------
(* Requests one at a time.  As long as no two requests have overlapped, the *)
(* copies that a request decides on are the rows of the table.              *)

(* The thread has its caller and has not written yet.                       *)
Asking(t) == \/ pc[t] \in Writes \cup Deletes \cup {"decide"}
             \/ pc[t] \in Reads /\ kind[t] \in {"put", "delete"}

(* A root's request leaves the caller a root; another caller's does not     *)
(* reach a root.                                                            *)
SparesRoot(t) ==
  \/ /\ IsRoot(caller[t])
     /\ pc[t] \in Writes /\ target[t] = caller[t].id => existing[t].role = "root"
     /\ pc[t] \in Deletes => target[t] # caller[t].id
  \/ db[target[t]].role # "root"

CacheCurrent ==
  \A u \in Users : cache[u] # None =>
    \/ cache[u] = db[u]
    \/ \E t \in Threads : pc[t] = "ucommit" /\ target[t] = u /\ cache[u] = existing[t]

CopiesCurrent(t) ==
  /\ pc[t] = "fill" => existing[t] = db[target[t]]
  /\ Asking(t) => db[caller[t].id] = caller[t]
  /\ pc[t] = "decide" /\ kind[t] \in {"put", "delete"} => existing[t] = db[target[t]]
  /\ pc[t] \in Writes => db[target[t]] # None
  /\ pc[t] = "ucommit" => /\ lock[target[t]] = t
                         /\ cache[target[t]] \in {existing[t], None}
  /\ pc[t] = "dcommit" => cache[target[t]] = None
  /\ pc[t] \in Writes \cup Deletes => SparesRoot(t)

Sequential ==
  ~overlap => ~Overlapping /\ CacheCurrent /\ \A t \in Threads : CopiesCurrent(t)

(* A step of one thread while no requests overlap: the others are idle.     *)
LEMMA AloneIdle ==
  ASSUME IInv, Sequential, ~overlap, ~Overlapping', NEW t \in Threads, Step(t)
  PROVE  \A w \in Threads : w # t => pc[w] = "idle" /\ pc'[w] = "idle"
  <1>1. \A w \in Threads : w # t => pc'[w] = pc[w]
    BY DEF IInv, TypeOK, Step, ReadCache, ReadTable, FillCache, HaveRecord, Authenticate, Choose,
       Create, ApplyChanges, ResetMFA, ApproveDelete, Refuse, UpdateExec, UpdateCommit,
       DeleteExec, DeleteCommit, Goto, Return
  <1>2. CASE pc[t] # "idle"
    BY <1>1, <1>2 DEF Sequential, Overlapping
  <1>3. CASE pc[t] = "idle"
    <2>1. pc'[t] = "read"
      BY <1>3 DEF IInv, TypeOK, Step, ReadCache, ReadTable, FillCache, Authenticate, Choose,
         Create, ApplyChanges, ResetMFA, ApproveDelete, Refuse, UpdateExec, UpdateCommit,
         DeleteExec, DeleteCommit
    <2>. QED
      BY <1>1, <2>1 DEF Overlapping
  <1>. QED
    BY <1>2, <1>3

(* An idle thread has no copies.                                            *)
LEMMA IdleCurrent ==
  ASSUME NEW t \in Threads, pc'[t] = "idle"
  PROVE  CopiesCurrent(t)'
  BY DEF CopiesCurrent, Asking, Reads, Writes, Deletes

LEMMA SequentialStep ==
  ASSUME IInv, IInv', Sequential, ~overlap, ~Overlapping', NEW t \in Threads, Step(t)
  PROVE  CacheCurrent' /\ CopiesCurrent(t)'
  <1> USE ConstantsAssumption
  <1>0. /\ \A w \in Threads : w # t => pc[w] = "idle" /\ pc'[w] = "idle"
        /\ CopiesCurrent(t)
        /\ \A u \in Users : cache[u] # None =>
              cache[u] = db[u] \/ (pc[t] = "ucommit" /\ target[t] = u)
    BY AloneIdle DEF Sequential, CacheCurrent
  <1>1. \A u \in Users : /\ db[u] # None => db[u].id = u /\ db[u] \in Record
                         /\ cache[u] # None => cache[u].id = u /\ cache[u] \in Record
    BY RowIds DEF IInv, TypeOK
  <1>2. ASSUME \A u \in Users : cache'[u] # None => cache'[u] = db'[u]
        PROVE  CacheCurrent'
    BY <1>2 DEF CacheCurrent
  <1> USE DEF IInv, TypeOK, LocalsOK, CopiesCurrent, Asking, SparesRoot, Reads, Writes, Deletes,
          RequestKinds, IsRoot
  <1>3. CASE ReadCache(t)
    BY <1>0, <1>1, <1>2, <1>3 DEF ReadCache, HaveRecord, Goto, Return
  <1>4. CASE ReadTable(t)
    BY <1>0, <1>1, <1>2, <1>4 DEF ReadTable, Return
  <1>5. CASE FillCache(t)
    BY <1>0, <1>1, <1>2, <1>5 DEF FillCache, HaveRecord, Return
  <1>6. CASE ResetMFA(t)
    BY <1>0, <1>1, <1>2, <1>6 DEF ResetMFA, Goto, CanModifyUserRecord, IsSelf, IsAdmin,
       IsNonRootTarget, WasCreatedBy
  <1>7. CASE ApproveDelete(t)
    BY <1>0, <1>1, <1>2, <1>7 DEF ApproveDelete, Goto, CanDeleteUserRecord, IsSelf, IsAdmin,
       IsNonRootTarget, WasCreatedBy
  <1>8. CASE Refuse(t)
    BY <1>0, <1>1, <1>2, <1>8 DEF Refuse, Return
  <1>9. CASE UpdateExec(t)
    BY <1>0, <1>1, <1>9 DEF UpdateExec, Goto, CacheCurrent
  <1>10. CASE UpdateCommit(t)
    BY <1>0, <1>1, <1>2, <1>10 DEF UpdateCommit
  <1>11. CASE DeleteExec(t)
    BY <1>0, <1>1, <1>2, <1>11 DEF DeleteExec, Goto
  <1>12. CASE DeleteCommit(t)
    BY <1>0, <1>1, <1>2, <1>12 DEF DeleteCommit, Return
  <1>13. ASSUME NEW u \in Users, Authenticate(t, u)
         PROVE  CacheCurrent' /\ CopiesCurrent(t)'
    BY <1>0, <1>1, <1>2, <1>13 DEF Authenticate
  <1>14. ASSUME NEW k \in Kinds, NEW u \in Users, Choose(t, k, u)
         PROVE  CacheCurrent' /\ CopiesCurrent(t)'
    BY <1>0, <1>1, <1>2, <1>14 DEF Choose
  <1>15. ASSUME NEW u \in Users, NEW r \in Roles, Create(t, u, r)
         PROVE  CacheCurrent' /\ CopiesCurrent(t)'
    <2> DEFINE n == [id |-> u, role |-> r, createdBy |-> caller[t].id, suspended |-> FALSE]
    <2>1. /\ pc[t] = "decide" /\ kind[t] = "auth" /\ u \notin used
          /\ db' = [db EXCEPT ![u] = n] /\ existing' = [existing EXCEPT ![t] = n]
          /\ target' = [target EXCEPT ![t] = u]
          /\ UNCHANGED <<cache, lock, caller>>
          /\ pc' = [pc EXCEPT ![t] = "update"] \/ pc' = [pc EXCEPT ![t] = "read"]
          /\ pc' = [pc EXCEPT ![t] = "read"] => kind' = [kind EXCEPT ![t] = "answer"]
          /\ IsRoot(caller[t]) \/ r # "root"
      BY <1>15 DEF Create, CanCreateUserRecord, IsNonRootTarget
    <2>2. n # None /\ n.role = r
      <3>1. caller[t] \in Record
        BY <2>1
      <3>2. caller[t].id \in Users
        BY <3>1 DEF Record
      <3>3. n \in Record
        BY <3>2 DEF Record
      <3>. QED
        BY <3>3
    <2> HIDE DEF n
    <2>3. cache[u] = None /\ caller[t].id # u /\ caller[t].id \in Users
      BY <1>0, <2>1 DEF UsedOK, Record
    <2>. QED
      BY <1>0, <1>2, <2>1, <2>2, <2>3
  <1>16. ASSUME NEW r \in Roles, NEW s \in Statuses, ApplyChanges(t, r, s)
         PROVE  CacheCurrent' /\ CopiesCurrent(t)'
    <2> DEFINE n == [existing[t] EXCEPT !.role = r, !.suspended = s]
    <2>1. existing[t] \in Record /\ s \in BOOLEAN
      BY <1>16 DEF ApplyChanges
    <2>2. n \in Record /\ n.id = existing[t].id /\ n.role = r
      BY <2>1 DEF Record
    <2>3. existing' = [existing EXCEPT ![t] = n]
      BY <1>16 DEF ApplyChanges
    <2> HIDE DEF n
    <2>. QED
      BY <1>0, <1>1, <1>2, <1>16, <2>1, <2>2, <2>3 DEF ApplyChanges, IsAdmin, IsSelf,
         WasCreatedBy, IsNonRootTarget, CanModifyUserRecord, CanChangeUserRole
  <1>. QED
    BY <1>3, <1>4, <1>5, <1>6, <1>7, <1>8, <1>9, <1>10, <1>11, <1>12, <1>13, <1>14, <1>15,
       <1>16 DEF Step

LEMMA SequentialNext ==
  ASSUME IInv, IInv', Sequential, [Next]_vars
  PROVE  Sequential'
  <1> SUFFICES ASSUME ~overlap'
               PROVE  ~Overlapping' /\ CacheCurrent' /\ \A w \in Threads : CopiesCurrent(w)'
    BY DEF Sequential
  <1>1. CASE UNCHANGED vars
    BY <1>1 DEF Sequential, Overlapping, CacheCurrent, CopiesCurrent, Asking, SparesRoot, vars,
       threadVars
  <1>2. ASSUME overlap' = (overlap \/ Overlapping'), NEW u \in Users, Evict(u)
        PROVE  ~Overlapping' /\ CacheCurrent' /\ \A w \in Threads : CopiesCurrent(w)'
    <2>1. /\ ~overlap /\ ~Overlapping' /\ UNCHANGED <<db, used, lock, threadVars>>
          /\ \A v \in Users : cache'[v] = cache[v] \/ cache'[v] = None
      BY <1>2 DEF Evict, IInv, TypeOK
    <2>2. CacheCurrent'
      BY <2>1 DEF Sequential, CacheCurrent, threadVars
    <2>3. ASSUME NEW w \in Threads PROVE CopiesCurrent(w)'
      <3>1. CopiesCurrent(w) /\ (pc[w] \in Writes \cup Deletes => target[w] \in Users)
        BY <2>1 DEF Sequential, IInv, LocalsOK
      <3>. QED
        BY <2>1, <3>1 DEF CopiesCurrent, Asking, SparesRoot, Writes, Deletes, threadVars
    <2>. QED
      BY <2>1, <2>2, <2>3
  <1>3. ASSUME overlap' = (overlap \/ Overlapping'), NEW t \in Threads, Step(t)
        PROVE  ~Overlapping' /\ CacheCurrent' /\ \A w \in Threads : CopiesCurrent(w)'
    <2>1. ~overlap /\ ~Overlapping'
      BY <1>3
    <2>2. CacheCurrent' /\ CopiesCurrent(t)'
      BY <1>3, <2>1, SequentialStep
    <2>3. \A w \in Threads : w # t => CopiesCurrent(w)'
      BY <1>3, <2>1, AloneIdle, IdleCurrent
    <2>. QED
      BY <2>1, <2>2, <2>3
  <1>. QED
    BY <1>1, <1>2, <1>3 DEF Next

(* With requests one at a time, the copies a request decides on are current *)
(* when it writes.                                                          *)
THEOREM SequentialInvariance == Spec => [](IInv /\ Sequential)
  <1>1. Init => Sequential
    BY DEF Init, Sequential, Overlapping, CacheCurrent, CopiesCurrent, Asking, Reads, Writes,
       Deletes
  <1>2. IInv /\ IInv' /\ Sequential /\ [Next]_vars => Sequential'
    BY SequentialNext
  <1>. QED
    BY <1>1, <1>2, Invariance, PTL DEF Spec

(* What a commit does to the roots, when no requests have overlapped.       *)
LEMMA CommitsSpareRoots ==
  ASSUME IInv, Sequential, ~overlap, [Next]_vars,
         NEW u \in Users, IsRow(db, u), db[u].role = "root",
         ~(IsRow(db', u) /\ db'[u].role = "root")
  PROVE  \E t \in Threads : /\ Acts(t)
                            /\ IsRoot(caller[t])
                            /\ caller[t].id \in Users
                            /\ caller[t].id # u
                            /\ db[caller[t].id] = caller[t] /\ caller[t] # None
                            /\ \A v \in Users : v # u => db'[v] = db[v]
  <1> USE ConstantsAssumption DEF IsRow
  <1>1. PICK t \in Threads : Step(t)
    BY DEF Next, Evict, vars
  <1>2. CopiesCurrent(t)
    BY DEF Sequential
  <1>3. CASE UpdateCommit(t)
    <2>1. /\ pc[t] = "ucommit" /\ u = target[t] /\ db' = [db EXCEPT ![u] = existing[t]]
          /\ existing[t] \in Record /\ caller[t] \in Record /\ Acts(t)
      BY <1>3 DEF UpdateCommit, Acts, IInv, TypeOK, LocalsOK, Writes
    <2>2. db'[u] = existing[t] /\ \A v \in Users : v # u => db'[v] = db[v]
      BY <2>1 DEF IInv, TypeOK
    <2>3. existing[t].role # "root"
      BY <2>1, <2>2
    <2>. QED
      BY <1>2, <2>1, <2>2, <2>3 DEF CopiesCurrent, Asking, SparesRoot, Writes, Deletes, Record
  <1>4. CASE DeleteCommit(t)
    <2>1. /\ pc[t] = "dcommit" /\ u = target[t] /\ db' = [db EXCEPT ![u] = None]
          /\ caller[t] \in Record /\ Acts(t)
      BY <1>4 DEF DeleteCommit, Return, Acts, IInv, TypeOK, LocalsOK, Deletes
    <2>2. \A v \in Users : v # u => db'[v] = db[v]
      BY <2>1 DEF IInv, TypeOK
    <2>. QED
      BY <1>2, <2>1, <2>2 DEF CopiesCurrent, Asking, SparesRoot, Writes, Deletes, Record
  <1>5. ASSUME NEW v \in Users, NEW r \in Roles, Create(t, v, r)
        PROVE  FALSE
    <2>1. v # u
      BY <1>5 DEF Create, IInv, UsedOK
    <2>. QED
      BY <1>5, <2>1 DEF Create, IInv, TypeOK
  <1>6. UpdateCommit(t) \/ DeleteCommit(t) \/ \E v \in Users, r \in Roles : Create(t, v, r)
    BY <1>1 DEF Step, ReadCache, ReadTable, FillCache, Authenticate, Choose, ApplyChanges,
       ResetMFA, ApproveDelete, Refuse, UpdateExec, DeleteExec
  <1>. QED
    BY <1>3, <1>4, <1>5, <1>6

(* The rules of ACLProcessor are complete: a system that starts with a root *)
(* (InitializeDefaultUser) keeps one through every sequence of requests one *)
(* at a time; only requests that overlap can leave it without.              *)
THEOREM RulesAlwaysKeepARoot == Spec /\ NotRootless => []RulesKeepARoot
  <1>1. NotRootless => RulesKeepARoot
    BY DEF RulesKeepARoot
  <1>2. IInv /\ Sequential /\ RulesKeepARoot /\ [Next]_vars => RulesKeepARoot'
    <2> SUFFICES ASSUME IInv, Sequential, RulesKeepARoot, [Next]_vars, ~overlap'
                 PROVE  NotRootless'
      BY DEF RulesKeepARoot
    <2>1. ~overlap
      BY DEF Next, vars
    <2>2. PICK u \in Users : IsRow(db, u) /\ db[u].role = "root"
      BY <2>1 DEF RulesKeepARoot, NotRootless
    <2>3. CASE IsRow(db', u) /\ db'[u].role = "root"
      BY <2>3 DEF NotRootless
    <2>4. CASE ~(IsRow(db', u) /\ db'[u].role = "root")
      <3>1. PICK t \in Threads : /\ IsRoot(caller[t])
                                 /\ caller[t].id \in Users
                                 /\ caller[t].id # u
                                 /\ db[caller[t].id] = caller[t] /\ caller[t] # None
                                 /\ \A v \in Users : v # u => db'[v] = db[v]
        BY <2>1, <2>2, <2>4, CommitsSpareRoots
      <3>2. db'[caller[t].id] = caller[t]
        BY <3>1
      <3>. QED
        BY <3>1, <3>2 DEF NotRootless, IsRow, IsRoot
    <2>. QED
      BY <2>3, <2>4
  <1>. QED
    BY <1>1, <1>2, SequentialInvariance, PTL DEF Spec

(* With requests one at a time, only a root deletes a root or takes the     *)
(* role away (CanDeleteUserRecord, CanChangeUserRole), whatever was created *)
(* and promoted before.                                                     *)
THEOREM RootsFallOnlyToRoots == Spec => RootsFallToRootsOnly
  <1>1. IInv /\ Sequential /\ [Next]_vars =>
          [\A u \in Users :
             IsRow(db, u) /\ db[u].role = "root"
               /\ ~(IsRow(db', u) /\ db'[u].role = "root")
             => \/ overlap
                \/ \E t \in Threads : Acts(t) /\ IsRoot(caller[t])]_vars
    BY CommitsSpareRoots
  <1>. QED
    BY <1>1, SequentialInvariance, PTL DEF Spec, RootsFallToRootsOnly
=============================================================================
