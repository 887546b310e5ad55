------------------------ MODULE PasswordLoginProofs ------------------------
(***************************************************************************)
(* TypeOK, HistoryConsistent and GateHolds for every number of accounts,   *)
(* passwords, threads and remembered passwords, and every account table at *)
(* start.  A record is only copied, or changed by SetPassword after its    *)
(* test on the same copy, so that what SetPassword keeps of a list is kept *)
(* in every copy: HistoryInv, inductive with TypeOK.  GateHolds needs what *)
(* a request without overlap knows of the row.                             *)
(***************************************************************************)
EXTENDS PasswordLogin, TLAPS

USE PasswordAssumption

\* What SetPassword makes of a record is a record.
LEMMA SetPasswordType ==
  ASSUME NEW r \in UserInfo, NEW n \in Passwords
  PROVE  SetPassword(r, n) \in UserInfo
<1>1. PushPassword(r.lastPasswords, n) \in Seq(Passwords)
  BY DEF UserInfo, PushPassword
<1> QED
  BY <1>1 DEF UserInfo, SetPassword

\* What SetPassword makes of a list: it stays in order when the test has passed,
\* a list within the limit stays within it, and a longer one is not cut.
LEMMA SetPasswordHistory ==
  ASSUME NEW r \in UserInfo, NEW n \in Passwords, MaySetPassword(r, n)
  PROVE  /\ InOrder(r) => InOrder(SetPassword(r, n))
         /\ Short(r) => Short(SetPassword(r, n))
         /\ ~Short(r) => Len(SetPassword(r, n).lastPasswords) = Len(r.lastPasswords) + 1
<1> DEFINE s == r.lastPasswords
           k == IF Len(s) = HowManyOldPassword THEN Tail(s) ELSE s
           w == PushPassword(s, n)
<1>1. s \in Seq(Passwords) /\ Len(s) \in Nat
  BY DEF UserInfo
<1>2. \A i \in 1 .. Len(s) : s[i] # n
  BY DEF MaySetPassword, Listed
<1>3. /\ k \in Seq(Passwords) /\ Len(k) \in Nat
      /\ Len(k) = (IF Len(s) = HowManyOldPassword THEN Len(s) - 1 ELSE Len(s))
      /\ \E d \in {0, 1} : \A i \in 1 .. Len(k) : i + d \in 1 .. Len(s) /\ k[i] = s[i + d]
  <2>1. CASE Len(s) = HowManyOldPassword
    <3>1. s # << >>
      BY <2>1, <1>1
    <3>2. /\ Tail(s) \in Seq(Passwords) /\ Len(Tail(s)) = Len(s) - 1
          /\ \A i \in 1 .. Len(s) - 1 : Tail(s)[i] = s[i + 1]
      BY <3>1, <1>1
    <3>3. k = Tail(s)
      BY <2>1
    <3> HIDE DEF s, k
    <3>4. \A i \in 1 .. Len(k) : i + 1 \in 1 .. Len(s) /\ k[i] = s[i + 1]
      BY <3>2, <3>3, <1>1
    <3> QED
      BY <2>1, <3>2, <3>3, <3>4, <1>1
  <2>2. CASE Len(s) # HowManyOldPassword
    <3>1. k = s
      BY <2>2
    <3> HIDE DEF s, k
    <3>2. \A i \in 1 .. Len(k) : i + 0 \in 1 .. Len(s) /\ k[i] = s[i + 0]
      BY <3>1, <1>1
    <3> QED
      BY <2>2, <3>1, <3>2, <1>1
  <2> QED
    BY <2>1, <2>2
<1> HIDE DEF k
<1>4. /\ w = Append(k, n) /\ w \in Seq(Passwords) /\ Len(w) = Len(k) + 1
      /\ w[Len(w)] = n
      /\ \A i \in 1 .. Len(k) : w[i] = k[i]
  BY <1>3 DEF PushPassword, k
<1>5. w # << >>
  BY <1>3, <1>4
<1>6. /\ SetPassword(r, n).lastPasswords = w
      /\ SetPassword(r, n).currentPassword = n
  BY DEF SetPassword, UserInfo
<1> HIDE DEF w, s
<1>7. ASSUME \A i, j \in 1 .. Len(s) : s[i] = s[j] => i = j
      PROVE  \A i, j \in 1 .. Len(w) : w[i] = w[j] => i = j
  <2>1. PICK d \in {0, 1} :
          \A i \in 1 .. Len(k) : i + d \in 1 .. Len(s) /\ k[i] = s[i + d]
    BY <1>3
  <2>2. \A i, j \in 1 .. Len(k) : k[i] = k[j] => i = j
    BY <2>1, <1>7
  <2>3. \A i \in 1 .. Len(k) : k[i] # n
    BY <2>1, <1>2
  <2>4. \A i \in 1 .. Len(w) : i \in 1 .. Len(k) \/ i = Len(w)
    BY <1>3, <1>4
  <2> QED
    BY <2>2, <2>3, <2>4, <1>4
<1>8. InOrder(r) => InOrder(SetPassword(r, n))
  BY <1>4, <1>5, <1>6, <1>7 DEF InOrder, s
<1>9. Short(r) => Len(w) <= HowManyOldPassword
  BY <1>1, <1>3, <1>4 DEF Short, s
<1>10. ~Short(r) => Len(w) = Len(s) + 1
  BY <1>1, <1>3, <1>4 DEF Short, s
<1> QED
  BY <1>6, <1>8, <1>9, <1>10 DEF Short, s

\* The other changes of a record keep its type and its list.
LEMMA OtherChanges ==
  ASSUME NEW r \in UserInfo, NEW c \in BOOLEAN, NEW st \in SUBSET Flags
  PROVE  LET q == [r EXCEPT !.changePassword = c, !.status = st]
             v == [r EXCEPT !.status = st]
         IN /\ q \in UserInfo /\ v \in UserInfo
            /\ q.lastPasswords = r.lastPasswords /\ v.lastPasswords = r.lastPasswords
            /\ q.currentPassword = r.currentPassword /\ v.currentPassword = r.currentPassword
BY DEF UserInfo

-----------------------------------------------------------------------------
(* The inductive invariant: the types, with records that kept their list.   *)

\* The records an account can have, with a list as the requests leave it; one that
\* starts beyond the limit does not get shorter.
GoodRecords(a) ==
  {r \in UserInfo :
     /\ KeepsHistory(Initial[a], r)
     /\ ~Short(Initial[a]) => Len(r.lastPasswords) >= Len(Initial[a].lastPasswords)}

\* The records of the table, of the cache and of the requests are such records.
HistoryInv ==
  /\ \A a \in Accounts : db[a] \in GoodRecords(a) /\ cache[a] \in GoodRecords(a) \cup {None}
  /\ \A t \in Threads :
       /\ existing[t] # None => acct[t] \in Accounts /\ existing[t] \in GoodRecords(acct[t])
       /\ pc[t] \in {"idle", "read", "select"} => existing[t] = None

IInv == TypeOK /\ HistoryInv

LEMMA GoodIsRecord == \A a \in Accounts : GoodRecords(a) \subseteq UserInfo /\ None \notin GoodRecords(a)
BY DEF GoodRecords

\* The invariant gives the property.
LEMMA IInvImplies == IInv => TypeOK /\ HistoryConsistent
<1>1. \A a \in Accounts : \A r \in GoodRecords(a) : KeepsHistory(Initial[a], r)
  BY DEF GoodRecords
<1> QED
  BY <1>1 DEF IInv, HistoryInv, HistoryConsistent

\* It holds at start.
LEMMA IInvInit == Init => IInv
<1>1. \A a \in Accounts : Initial[a] \in GoodRecords(a)
  <2> SUFFICES ASSUME NEW a \in Accounts PROVE Initial[a] \in GoodRecords(a)
    OBVIOUS
  <2>1. Initial[a] \in UserInfo /\ Len(Initial[a].lastPasswords) \in Nat
    BY DEF UserInfo
  <2> QED
    BY <2>1 DEF GoodRecords, KeepsHistory
<1> QED
  BY <1>1 DEF Init, IInv, TypeOK, HistoryInv

\* SetPassword after its test.
LEMMA SetPasswordGood ==
  ASSUME NEW a \in Accounts, NEW r \in GoodRecords(a), NEW n \in Passwords, MaySetPassword(r, n)
  PROVE  SetPassword(r, n) \in GoodRecords(a)
<1> DEFINE q == SetPassword(r, n)
<1>1. r \in UserInfo /\ Initial[a] \in UserInfo
  BY DEF GoodRecords
<1>2. Len(r.lastPasswords) \in Nat /\ Len(Initial[a].lastPasswords) \in Nat
  BY <1>1 DEF UserInfo
<1>3. q \in UserInfo
  BY <1>1, SetPasswordType
<1>4. /\ InOrder(r) => InOrder(q)
      /\ Short(r) => Short(q)
      /\ ~Short(r) => Len(q.lastPasswords) = Len(r.lastPasswords) + 1
  BY <1>1, SetPasswordHistory
<1>5. ~Short(Initial[a]) => ~Short(r)
  BY <1>2 DEF GoodRecords, Short
<1> HIDE DEF q
<1>6. KeepsHistory(Initial[a], q)
  BY <1>4 DEF GoodRecords, KeepsHistory
<1>7. ~Short(Initial[a]) => Len(q.lastPasswords) >= Len(Initial[a].lastPasswords)
  BY <1>2, <1>4, <1>5 DEF GoodRecords
<1>8. q \in GoodRecords(a)
  BY <1>3, <1>6, <1>7 DEF GoodRecords
<1> QED
  BY <1>8 DEF q

\* A change of the flags.
LEMMA OtherChangesGood ==
  ASSUME NEW a \in Accounts, NEW r \in GoodRecords(a), NEW c \in BOOLEAN, NEW st \in SUBSET Flags
  PROVE  /\ [r EXCEPT !.changePassword = c, !.status = st] \in GoodRecords(a)
         /\ [r EXCEPT !.status = st] \in GoodRecords(a)
<1>1. r \in UserInfo
  BY DEF GoodRecords
<1>2. ASSUME NEW q \in UserInfo, q.lastPasswords = r.lastPasswords,
             q.currentPassword = r.currentPassword
      PROVE  q \in GoodRecords(a)
  BY <1>2 DEF GoodRecords, KeepsHistory, InOrder, Short
<1> QED
  BY <1>1, <1>2, OtherChanges

\* The write of a good record keeps the invariant.
LEMMA WriteGood ==
  ASSUME IInv, NEW t \in Threads, NEW r \in GoodRecords(acct[t]), pc[t] = "decide", Write(t, r)
  PROVE  IInv'
<1>1. acct[t] \in Accounts
  BY DEF IInv, TypeOK
<1>2. r \in UserInfo /\ r # None
  BY <1>1, GoodIsRecord
<1>3. TypeOK'
  BY <1>2 DEF IInv, TypeOK, Write
<1>4. HistoryInv'
  BY <1>1 DEF IInv, TypeOK, HistoryInv, Write
<1> QED
  BY <1>3, <1>4 DEF IInv

\* The end of a request keeps it.
LEMMA ReturnGood ==
  ASSUME IInv, NEW t \in Threads, Return(t), authLock' \in Threads \cup {None},
         UNCHANGED <<db, cache, lock, overlap>>
  PROVE  IInv'
BY DEF IInv, TypeOK, HistoryInv, Return

\* One step per action.
LEMMA IInvNext == IInv /\ [Next]_vars => IInv'
<1> SUFFICES ASSUME IInv, [Next]_vars PROVE IInv'
  OBVIOUS
<1> USE GoodIsRecord
<1>1. ASSUME NEW t \in Threads, NEW o \in Ops, NEW a \in Accounts, Begin(t, o, a)
      PROVE  IInv'
  BY <1>1 DEF IInv, TypeOK, HistoryInv, Begin
<1>2. ASSUME NEW t \in Threads, ReadCache(t)
      PROVE  IInv'
  <2>1. CASE cache[acct[t]] = None
    BY <1>2, <2>1 DEF IInv, TypeOK, HistoryInv, ReadCache, Goto
  <2>2. CASE cache[acct[t]] # None /\ op[t] = "call"
    BY <1>2, <2>2, ReturnGood DEF IInv, TypeOK, ReadCache, HaveRecord
  <2>3. CASE cache[acct[t]] # None /\ op[t] # "call"
    BY <1>2, <2>3 DEF IInv, TypeOK, HistoryInv, ReadCache, HaveRecord
  <2> QED
    BY <2>1, <2>2, <2>3
<1>3. ASSUME NEW t \in Threads, ReadTable(t)
      PROVE  IInv'
  BY <1>3 DEF IInv, TypeOK, HistoryInv, ReadTable
<1>4. ASSUME NEW t \in Threads, FillCache(t)
      PROVE  IInv'
  BY <1>4 DEF IInv, TypeOK, HistoryInv, FillCache, HaveRecord, Return
<1>5. ASSUME NEW t \in Threads, NEW p \in Passwords, NEW n \in Passwords \cup {None},
             Login(t, p, n)
      PROVE  IInv'
  <2>1. CASE Authorize(existing[t], p, n) # "SUCCESS"
    <3>1. Return(t) /\ authLock' = None /\ UNCHANGED <<db, cache, lock, overlap>>
      BY <1>5, <2>1 DEF Login
    <3> QED
      BY <3>1, ReturnGood
  <2>2. CASE Authorize(existing[t], p, n) = "SUCCESS" /\ n = None
    BY <1>5, <2>2 DEF Login, IInv, TypeOK, HistoryInv, Goto
  <2>3. CASE Authorize(existing[t], p, n) = "SUCCESS" /\ n # None
    <3>1. acct[t] \in Accounts /\ existing[t] \in GoodRecords(acct[t]) /\ n \in Passwords
      BY <1>5, <2>3 DEF IInv, TypeOK, HistoryInv, Login
    <3>2. MaySetPassword(existing[t], n)
      BY <2>3, <3>1 DEF Authorize, UserInfo, Flags
    <3>3. pc[t] = "decide" /\ Write(t, SetPassword(existing[t], n))
      BY <1>5, <2>3 DEF Login
    <3> QED
      BY <3>1, <3>2, <3>3, SetPasswordGood, WriteGood
  <2> QED
    BY <2>1, <2>2, <2>3
<1>6. ASSUME NEW t \in Threads, CreateToken(t)
      PROVE  IInv'
  BY <1>6, ReturnGood DEF CreateToken
<1>7. ASSUME NEW t \in Threads, NEW c \in BOOLEAN, NEW verify \in BOOLEAN,
             NEW st \in SUBSET Settable, NEW n \in Passwords \cup {None},
             Put(t, c, st, verify, n)
      PROVE  IInv'
  <2> DEFINE ns == (existing[t].status \ Settable) \cup st
                     \cup (IF verify THEN {"waitingForEmailCheck"} ELSE {})
             r == [existing[t] EXCEPT !.changePassword = c, !.status = ns]
  <2>1. acct[t] \in Accounts /\ existing[t] \in GoodRecords(acct[t]) /\ pc[t] = "decide"
    BY <1>7 DEF IInv, TypeOK, HistoryInv, Put
  <2>2. ns \in SUBSET Flags
    <3>1. existing[t].status \in SUBSET Flags /\ Settable \subseteq Flags
      BY <2>1 DEF UserInfo, Flags
    <3>2. {"waitingForEmailCheck"} \subseteq Flags
      BY DEF Flags
    <3> QED
      BY <3>1, <3>2
  <2>3. r \in GoodRecords(acct[t])
    BY <2>1, <2>2, OtherChangesGood
  <2>4. \/ Write(t, r)
        \/ n \in ValidPasswords /\ MaySetPassword(r, n) /\ Write(t, SetPassword(r, n))
    BY <1>7 DEF Put
  <2> HIDE DEF r
  <2> QED
    BY <2>1, <2>3, <2>4, SetPasswordGood, WriteGood
<1>8. ASSUME NEW t \in Threads, NEW n \in Passwords, NEW verify \in BOOLEAN,
             UseLink(t, n, verify)
      PROVE  IInv'
  <2> DEFINE r == SetPassword(existing[t], n)
             v == [r EXCEPT !.status = r.status \ {"waitingForEmailCheck"}]
  <2>1. /\ acct[t] \in Accounts /\ existing[t] \in GoodRecords(acct[t]) /\ pc[t] = "decide"
        /\ MaySetPassword(existing[t], n)
    BY <1>8 DEF IInv, TypeOK, HistoryInv, UseLink
  <2>2. r \in GoodRecords(acct[t])
    BY <2>1, SetPasswordGood
  <2>3. Write(t, r) \/ Write(t, v)
    BY <1>8 DEF UseLink
  <2> HIDE DEF r
  <2>4. r.status \ {"waitingForEmailCheck"} \in SUBSET Flags
    BY <2>1, <2>2 DEF UserInfo
  <2>5. v \in GoodRecords(acct[t])
    BY <2>1, <2>2, <2>4, OtherChangesGood
  <2> HIDE DEF v
  <2> QED
    BY <2>1, <2>2, <2>3, <2>5, WriteGood
<1>9. ASSUME NEW t \in Threads, VerifyEmail(t)
      PROVE  IInv'
  <2> DEFINE v == [existing[t] EXCEPT !.status = existing[t].status \ {"waitingForEmailCheck"}]
  <2>1. acct[t] \in Accounts /\ existing[t] \in GoodRecords(acct[t]) /\ pc[t] = "decide"
    BY <1>9 DEF IInv, TypeOK, HistoryInv, VerifyEmail
  <2>2. existing[t].status \ {"waitingForEmailCheck"} \in SUBSET Flags
    BY <2>1 DEF UserInfo
  <2>3. v \in GoodRecords(acct[t])
    BY <2>1, <2>2, OtherChangesGood
  <2>4. Write(t, v)
    BY <1>9 DEF VerifyEmail
  <2> HIDE DEF v
  <2> QED
    BY <2>1, <2>3, <2>4, WriteGood
<1>10. ASSUME NEW t \in Threads, Refuse(t)
       PROVE  IInv'
  BY <1>10, ReturnGood DEF Refuse, IInv, TypeOK
<1>11. ASSUME NEW t \in Threads, UpdateExec(t)
       PROVE  IInv'
  BY <1>11 DEF IInv, TypeOK, HistoryInv, UpdateExec, Goto
<1>12. ASSUME NEW t \in Threads, UpdateCommit(t)
       PROVE  IInv'
  <2>1. acct[t] \in Accounts /\ existing[t] \in GoodRecords(acct[t])
    BY <1>12 DEF IInv, TypeOK, HistoryInv, UpdateCommit
  <2>2. /\ db' \in [Accounts -> UserInfo] /\ \A a \in Accounts : db'[a] \in GoodRecords(a)
        /\ lock' \in [Accounts -> Threads \cup {None}]
        /\ UNCHANGED <<cache, authLock, overlap>>
    BY <1>12, <2>1 DEF IInv, TypeOK, HistoryInv, UpdateCommit
  <2>3. CASE op[t] = "login" /\ Goto(t, "token")
    BY <1>12, <2>2, <2>3 DEF IInv, TypeOK, HistoryInv, UpdateCommit, Goto
  <2>4. CASE op[t] = "link" /\ Return(t)
    BY <2>2, <2>4 DEF IInv, TypeOK, HistoryInv, Return
  <2>5. CASE /\ op[t] = "put"
             /\ pc' = [pc EXCEPT ![t] = "read"]
             /\ op' = [op EXCEPT ![t] = "call"]
             /\ existing' = [existing EXCEPT ![t] = None]
             /\ UNCHANGED acct
    <3>1. "call" \in Ops /\ "call" # None
      BY DEF Ops
    <3> QED
      BY <1>12, <2>2, <2>5, <3>1 DEF IInv, TypeOK, HistoryInv, UpdateCommit
  <2> QED
    BY <1>12, <2>3, <2>4, <2>5 DEF UpdateCommit
<1>13. ASSUME NEW a \in Accounts, Evict(a)
       PROVE  IInv'
  BY <1>13 DEF IInv, TypeOK, HistoryInv, Evict, locals
<1>14. CASE UNCHANGED vars
  BY <1>14 DEF IInv, TypeOK, HistoryInv, vars, locals
<1> QED
  BY <1>1, <1>2, <1>3, <1>4, <1>5, <1>6, <1>7, <1>8, <1>9, <1>10, <1>11, <1>12, <1>13, <1>14
     DEF Next, Step

\* Types hold for every configuration: a request that goes on has an account
\* and, from its read on, a record.
THEOREM TypeCorrect == Spec => []TypeOK
<1> QED
  BY IInvImplies, IInvInit, IInvNext, PTL DEF Spec

\* The list of the last passwords keeps its order and its limit in every copy of a
\* record, whatever requests overwrite each other, from any account table.
THEOREM HistoryAlwaysConsistent == Spec => []HistoryConsistent
<1> QED
  BY IInvImplies, IInvInit, IInvNext, PTL DEF Spec

\* A list that starts longer than the limit (lastPasswords in the body of a POST, or
\* a limit lowered since) is never cut: SetPassword only cuts one of exactly the limit.
LongListsUncut ==
  \A a \in Accounts :
    Len(Initial[a].lastPasswords) > HowManyOldPassword =>
      /\ Len(db[a].lastPasswords) >= Len(Initial[a].lastPasswords)
      /\ \A t \in Threads : existing[t] # None /\ acct[t] = a =>
           Len(existing[t].lastPasswords) >= Len(Initial[a].lastPasswords)

\* What becomes of such a list, for every limit and number of requests.
THEOREM LongListsNeverCut == Spec => []LongListsUncut
<1>1. IInv => LongListsUncut
  <2>1. \A a \in Accounts : Len(Initial[a].lastPasswords) \in Nat
    BY DEF UserInfo
  <2> QED
    BY <2>1 DEF IInv, HistoryInv, GoodRecords, Short, LongListsUncut
<1> QED
  BY <1>1, IInvInit, IInvNext, PTL DEF Spec

-----------------------------------------------------------------------------
(* Logins that no other request overlaps with                               *)

\* A record that lets a login through.
Passes(r) == r.status \subseteq {"blackListed"} /\ ~r.changePassword

\* At most one request is under way.
OneAtATime == \A t, u \in Threads : pc[t] # "idle" /\ pc[u] # "idle" => t = u

\* A cached record is the row, or what the request in its commit makes of it.
CacheIsRow ==
  \A a \in Accounts : cache[a] # None =>
    /\ \A t \in Threads : pc[t] = "commit" /\ acct[t] = a => cache[a] = existing[t]
    /\ (\A t \in Threads : ~(pc[t] = "commit" /\ acct[t] = a)) => cache[a] = db[a]

\* A request decides on the row, and a login only goes on with a record that
\* lets it through.
DecidesOnRow ==
  \A t \in Threads :
    /\ pc[t] \in {"fill", "decide", "token"} => existing[t] = db[acct[t]]
    /\ \/ pc[t] = "token"
       \/ pc[t] \in {"update", "commit"} /\ op[t] = "login"
       => Passes(existing[t])

\* What holds as long as requests do not overlap.
Sequential == ~overlap => OneAtATime /\ CacheIsRow /\ DecidesOnRow

\* A request that is the only one goes on within the decision, or ends: the
\* table and the cache stay.
LEMMA LocalStep ==
  ASSUME IInv, NEW t \in Threads, OneAtATime, CacheIsRow, DecidesOnRow,
         pc[t] \notin {"idle", "commit"},
         UNCHANGED <<db, cache>>, \A u \in Threads \ {t} :
           pc'[u] = pc[u] /\ op'[u] = op[u] /\ acct'[u] = acct[u] /\ existing'[u] = existing[u],
         acct'[t] \in {acct[t], None},
         pc'[t] \in {"idle", "read", "select", "fill", "decide", "update", "token"},
         pc'[t] \in {"fill", "decide", "token"} => existing'[t] = db[acct'[t]],
         \/ pc'[t] = "token"
         \/ pc'[t] = "update" /\ op'[t] = "login"
         => Passes(existing'[t])
  PROVE  (OneAtATime /\ CacheIsRow /\ DecidesOnRow)'
<1>1. \A u \in Threads \ {t} : pc[u] = "idle" /\ pc'[u] = "idle"
  BY DEF OneAtATime
<1>2. OneAtATime'
  BY <1>1 DEF OneAtATime
<1>3. \A u \in Threads : pc[u] # "commit" /\ pc'[u] # "commit"
  BY <1>1
<1>4. CacheIsRow'
  BY <1>3 DEF CacheIsRow
<1>5. ASSUME NEW u \in Threads
      PROVE  /\ pc'[u] \in {"fill", "decide", "token"} => existing'[u] = db'[acct'[u]]
             /\ \/ pc'[u] = "token"
                \/ pc'[u] \in {"update", "commit"} /\ op'[u] = "login"
                => Passes(existing'[u])
  <2>1. CASE u = t
    BY <1>3, <2>1
  <2>2. CASE u # t
    BY <1>1, <2>2
  <2> QED BY <2>1, <2>2
<1>6. DecidesOnRow'
  BY <1>5 DEF DecidesOnRow, Passes
<1> QED BY <1>2, <1>4, <1>6

\* The same for the two steps of the write, one per step.
LEMMA ExecStep ==
  ASSUME IInv, NEW t \in Threads, OneAtATime, CacheIsRow, DecidesOnRow, UpdateExec(t)
  PROVE  (OneAtATime /\ CacheIsRow /\ DecidesOnRow)'
<1>1. /\ pc[t] = "update" /\ acct[t] \in Accounts /\ existing[t] # None
      /\ pc' = [pc EXCEPT ![t] = "commit"] /\ UNCHANGED <<op, acct, existing, db>>
      /\ cache' = [cache EXCEPT ![acct[t]] = existing[t]]
  BY DEF UpdateExec, Goto, IInv, TypeOK
<1>2. \A u \in Threads \ {t} : pc[u] = "idle" /\ pc'[u] = "idle"
  BY <1>1 DEF OneAtATime, IInv, TypeOK
<1>3. pc'[t] = "commit"
  BY <1>1 DEF IInv, TypeOK
<1>4. OneAtATime'
  BY <1>2 DEF OneAtATime
<1>5. CacheIsRow'
  <2> SUFFICES ASSUME NEW a \in Accounts, cache'[a] # None
               PROVE  /\ \A u \in Threads : pc'[u] = "commit" /\ acct'[u] = a
                                              => cache'[a] = existing'[u]
                      /\ (\A u \in Threads : ~(pc'[u] = "commit" /\ acct'[u] = a))
                           => cache'[a] = db'[a]
    BY DEF CacheIsRow
  <2>1. CASE a = acct[t]
    <3>1. cache'[a] = existing[t]
      BY <1>1, <2>1 DEF IInv, TypeOK
    <3> QED BY <1>1, <1>2, <1>3, <2>1, <3>1
  <2>2. CASE a # acct[t]
    <3>1. cache'[a] = cache[a]
      BY <1>1, <2>2 DEF IInv, TypeOK
    <3>2. cache[a] = db[a]
      BY <1>1, <1>2, <2>2, <3>1 DEF CacheIsRow
    <3> QED BY <1>1, <1>2, <1>3, <2>2, <3>1, <3>2
  <2> QED BY <2>1, <2>2
<1>6. DecidesOnRow'
  <2>1. op[t] = "login" => Passes(existing[t])
    BY <1>1 DEF DecidesOnRow
  <2> QED BY <1>1, <1>2, <1>3, <2>1 DEF DecidesOnRow, Passes
<1> QED BY <1>4, <1>5, <1>6

LEMMA CommitStep ==
  ASSUME IInv, NEW t \in Threads, OneAtATime, CacheIsRow, DecidesOnRow, UpdateCommit(t)
  PROVE  (OneAtATime /\ CacheIsRow /\ DecidesOnRow)'
<1>1. /\ pc[t] = "commit" /\ acct[t] \in Accounts /\ existing[t] # None
      /\ db' = [db EXCEPT ![acct[t]] = existing[t]] /\ UNCHANGED cache
  BY DEF UpdateCommit, IInv, TypeOK
<1>2. \/ op[t] = "login" /\ Goto(t, "token")
      \/ op[t] = "link" /\ Return(t)
      \/ /\ op[t] = "put"
         /\ pc' = [pc EXCEPT ![t] = "read"]
         /\ op' = [op EXCEPT ![t] = "call"]
         /\ existing' = [existing EXCEPT ![t] = None]
         /\ UNCHANGED acct
  BY DEF UpdateCommit
<1>3. \A u \in Threads \ {t} : pc[u] = "idle" /\ pc'[u] = "idle"
  BY <1>1, <1>2 DEF OneAtATime, IInv, TypeOK, Goto, Return
<1>4. /\ pc'[t] \in {"token", "idle", "read"}
      /\ pc'[t] = "token" =>
           op[t] = "login" /\ acct'[t] = acct[t] /\ existing'[t] = existing[t]
  BY <1>1, <1>2 DEF IInv, TypeOK, Goto, Return
<1>5. OneAtATime'
  BY <1>3 DEF OneAtATime
<1>6. CacheIsRow'
  <2>1. \A u \in Threads : pc'[u] # "commit"
    BY <1>3, <1>4
  <2>2. ASSUME NEW a \in Accounts, cache[a] # None
        PROVE  cache[a] = db'[a]
    <3>1. CASE a = acct[t]
      BY <1>1, <2>2, <3>1 DEF CacheIsRow, IInv, TypeOK
    <3>2. CASE a # acct[t]
      BY <1>1, <1>3, <2>2, <3>2 DEF CacheIsRow, IInv, TypeOK
    <3> QED BY <3>1, <3>2
  <2> QED BY <1>1, <2>1, <2>2 DEF CacheIsRow
<1>7. DecidesOnRow'
  <2>1. op[t] = "login" => Passes(existing[t])
    BY <1>1 DEF DecidesOnRow
  <2>2. db'[acct[t]] = existing[t]
    BY <1>1 DEF IInv, TypeOK
  <2> QED BY <1>3, <1>4, <2>1, <2>2 DEF DecidesOnRow, Passes
<1> QED BY <1>5, <1>6, <1>7

\* What Authorize lets through.
LEMMA AuthorizePasses ==
  ASSUME NEW r \in UserInfo, NEW p \in Passwords, NEW n \in Passwords \cup {None},
         Authorize(r, p, n) = "SUCCESS"
  PROVE  /\ n = None => Passes(r)
         /\ n # None => Passes(SetPassword(r, n))
<1>1. r.status \subseteq {"blackListed"}
  BY DEF Authorize, UserInfo, Flags
<1>2. n = None => ~r.changePassword
  BY <1>1 DEF Authorize
<1>3. SetPassword(r, n).status = r.status /\ ~SetPassword(r, n).changePassword
  BY DEF SetPassword, UserInfo
<1> QED BY <1>1, <1>2, <1>3 DEF Passes

\* One step per action: the only request decides on what the table holds.
LEMMA SequentialNext ==
  ASSUME IInv, Sequential, [Next]_vars
  PROVE  Sequential'
<1> SUFFICES ASSUME ~overlap' PROVE (OneAtATime /\ CacheIsRow /\ DecidesOnRow)'
  BY DEF Sequential
<1>0. ASSUME NEW t \in Threads, NEW o \in Ops, NEW a \in Accounts, Begin(t, o, a)
      PROVE  (OneAtATime /\ CacheIsRow /\ DecidesOnRow)'
  <2>1. ~overlap /\ \A u \in Threads : pc[u] = "idle"
    BY <1>0 DEF Begin
  <2>2. pc' = [pc EXCEPT ![t] = "read"] /\ UNCHANGED <<db, cache, existing>>
    BY <1>0 DEF Begin
  <2>3. pc'[t] = "read" /\ \A u \in Threads \ {t} : pc'[u] = "idle"
    BY <2>1, <2>2 DEF IInv, TypeOK
  <2>4. OneAtATime'
    BY <2>3 DEF OneAtATime
  <2>5. CacheIsRow'
    BY <2>1, <2>2, <2>3 DEF Sequential, CacheIsRow
  <2>6. DecidesOnRow'
    BY <2>3 DEF DecidesOnRow
  <2> QED BY <2>4, <2>5, <2>6
<1>1. ASSUME NEW t \in Threads, Step(t)
      PROVE  (OneAtATime /\ CacheIsRow /\ DecidesOnRow)'
  <2> USE GoodIsRecord
  <2>0. ~overlap /\ OneAtATime /\ CacheIsRow /\ DecidesOnRow
    <3>1. ASSUME NEW p, NEW n, Login(t, p, n)
          PROVE  overlap' = overlap
      BY <3>1 DEF Login, Write
    <3>2. ASSUME NEW c, NEW st, NEW verify, NEW n, Put(t, c, st, verify, n)
          PROVE  overlap' = overlap
      BY <3>2 DEF Put, Write
    <3>3. ASSUME NEW n, NEW verify, UseLink(t, n, verify)
          PROVE  overlap' = overlap
      BY <3>3 DEF UseLink, Write
    <3>4. VerifyEmail(t) => overlap' = overlap
      BY DEF VerifyEmail, Write
    <3>5. overlap' = overlap
      BY <1>1, <3>4, <3>1, <3>2, <3>3 DEF Step, ReadCache, ReadTable, FillCache, CreateToken,
                                    Refuse, UpdateExec, UpdateCommit
    <3> QED BY <3>5 DEF Sequential
  <2>1. CASE ReadCache(t)
    <3>1. pc[t] = "read" /\ acct[t] \in Accounts /\ UNCHANGED <<db, cache>>
      BY <2>1 DEF ReadCache, IInv, TypeOK
    <3>2. \A u \in Threads : pc[u] # "commit"
      BY <2>0, <3>1 DEF OneAtATime
    <3>3. cache[acct[t]] # None => cache[acct[t]] = db[acct[t]]
      BY <2>0, <3>1, <3>2 DEF CacheIsRow
    <3>4. CASE cache[acct[t]] = None
      BY <2>0, <2>1, <3>1, <3>4, LocalStep DEF ReadCache, Goto, IInv, TypeOK
    <3>5. CASE cache[acct[t]] # None /\ op[t] = "call"
      BY <2>0, <2>1, <3>1, <3>5, LocalStep DEF ReadCache, HaveRecord, Return, IInv, TypeOK
    <3>6. CASE cache[acct[t]] # None /\ op[t] # "call"
      BY <2>0, <2>1, <3>1, <3>3, <3>6, LocalStep DEF ReadCache, HaveRecord, IInv, TypeOK
    <3> QED BY <3>4, <3>5, <3>6
  <2>2. CASE ReadTable(t)
    BY <2>0, <2>2, LocalStep DEF ReadTable, IInv, TypeOK
  <2>3. CASE FillCache(t)
    <3>1. /\ pc[t] = "fill" /\ acct[t] \in Accounts /\ existing[t] = db[acct[t]]
          /\ cache' = [cache EXCEPT ![acct[t]] = existing[t]] /\ UNCHANGED db
      BY <2>0, <2>3 DEF FillCache, IInv, TypeOK, DecidesOnRow
    <3>2. \A u \in Threads \ {t} : pc[u] = "idle" /\ pc'[u] = "idle"
      BY <2>0, <2>3, <3>1 DEF OneAtATime, FillCache, HaveRecord, Return, IInv, TypeOK
    <3>3. /\ pc'[t] \in {"idle", "decide"}
          /\ pc'[t] = "decide" => existing'[t] = existing[t] /\ acct'[t] = acct[t]
      BY <2>3 DEF FillCache, HaveRecord, Return, IInv, TypeOK
    <3>4. OneAtATime'
      BY <3>2 DEF OneAtATime
    <3>5. CacheIsRow'
      <4>1. \A u \in Threads : pc[u] # "commit" /\ pc'[u] # "commit"
        BY <3>1, <3>2, <3>3
      <4>2. \A a \in Accounts : cache'[a] # None => cache'[a] = db[a]
        BY <2>0, <3>1, <4>1 DEF CacheIsRow, IInv, TypeOK
      <4> QED BY <3>1, <4>1, <4>2 DEF CacheIsRow
    <3>6. DecidesOnRow'
      BY <3>1, <3>2, <3>3 DEF DecidesOnRow
    <3> QED BY <3>4, <3>5, <3>6
  <2>4. ASSUME NEW p \in Passwords, NEW n \in Passwords \cup {None}, Login(t, p, n)
        PROVE  (OneAtATime /\ CacheIsRow /\ DecidesOnRow)'
    <3>1. /\ pc[t] = "decide" /\ op[t] = "login" /\ existing[t] = db[acct[t]]
          /\ existing[t] \in UserInfo
      BY <2>0, <2>4 DEF Login, DecidesOnRow, IInv, TypeOK
    <3>2. CASE Authorize(existing[t], p, n) # "SUCCESS"
      BY <2>0, <2>4, <3>1, <3>2, LocalStep DEF Login, Return, IInv, TypeOK
    <3>3. CASE Authorize(existing[t], p, n) = "SUCCESS" /\ n = None
      <4>1. Passes(existing[t])
        BY <3>1, <3>3, AuthorizePasses
      <4> QED BY <2>0, <2>4, <3>1, <3>3, <4>1, LocalStep DEF Login, Goto, IInv, TypeOK
    <3>4. CASE Authorize(existing[t], p, n) = "SUCCESS" /\ n # None
      <4> DEFINE r == SetPassword(existing[t], n)
      <4>1. Passes(r)
        BY <3>1, <3>4, AuthorizePasses
      <4>2. Write(t, r)
        BY <2>4, <3>4 DEF Login
      <4> HIDE DEF r
      <4> QED BY <2>0, <3>1, <4>1, <4>2, LocalStep DEF Write, IInv, TypeOK
    <3> QED BY <3>2, <3>3, <3>4
  <2>5. CASE CreateToken(t)
    BY <2>0, <2>5, LocalStep DEF CreateToken, Return, IInv, TypeOK
  <2>6. ASSUME NEW r, pc[t] = "decide", op[t] \in {"put", "link"}, Write(t, r)
        PROVE  (OneAtATime /\ CacheIsRow /\ DecidesOnRow)'
    BY <2>0, <2>6, LocalStep DEF Write, IInv, TypeOK
  <2>7. ASSUME NEW c \in BOOLEAN, NEW verify \in BOOLEAN, NEW st \in SUBSET Settable,
               NEW n \in Passwords \cup {None}, Put(t, c, st, verify, n)
        PROVE  (OneAtATime /\ CacheIsRow /\ DecidesOnRow)'
    BY <2>6, <2>7 DEF Put
  <2>8. ASSUME NEW n \in Passwords, NEW verify \in BOOLEAN, UseLink(t, n, verify)
        PROVE  (OneAtATime /\ CacheIsRow /\ DecidesOnRow)'
    BY <2>6, <2>8 DEF UseLink
  <2>12. CASE VerifyEmail(t)
    BY <2>6, <2>12 DEF VerifyEmail
  <2>9. CASE Refuse(t)
    BY <2>0, <2>9, LocalStep DEF Refuse, Return, IInv, TypeOK
  <2>10. CASE UpdateExec(t)
    BY <2>0, <2>10, ExecStep
  <2>11. CASE UpdateCommit(t)
    BY <2>0, <2>11, CommitStep
  <2> QED
    BY <1>1, <2>1, <2>2, <2>3, <2>4, <2>5, <2>7, <2>8, <2>9, <2>10, <2>11, <2>12
       DEF Step
<1>2. ASSUME NEW a \in Accounts, Evict(a)
      PROVE  (OneAtATime /\ CacheIsRow /\ DecidesOnRow)'
  <2>1. ~overlap /\ UNCHANGED <<db, pc, op, acct, existing>>
    BY <1>2 DEF Evict, locals
  <2>2. \A b \in Accounts : cache'[b] # None => cache'[b] = cache[b]
    BY <1>2 DEF Evict, IInv, TypeOK
  <2>3. CacheIsRow'
    BY <2>1, <2>2 DEF Sequential, CacheIsRow
  <2> QED BY <2>1, <2>3 DEF Sequential, OneAtATime, DecidesOnRow, Passes
<1>3. CASE UNCHANGED vars
  BY <1>3 DEF vars, locals, Sequential, OneAtATime, CacheIsRow, DecidesOnRow, Passes
<1> QED BY <1>0, <1>1, <1>2, <1>3 DEF Next

\* For any number of accounts and threads: a login no other request overlaps
\* with gets its token for the row as it is, and only when that row is neither
\* suspended, nor unverified, nor due for a change of its password.
THEOREM GateAlwaysHolds == Spec => []GateHolds
<1>1. Init => Sequential
  <2> SUFFICES ASSUME Init PROVE OneAtATime /\ CacheIsRow /\ DecidesOnRow
    BY DEF Sequential
  <2>1. /\ \A t \in Threads : pc[t] = "idle"
        /\ \A a \in Accounts : cache[a] = None
    BY DEF Init
  <2> QED BY <2>1 DEF OneAtATime, CacheIsRow, DecidesOnRow
<1>2. Sequential => GateHolds
  <2> SUFFICES ASSUME Sequential, ~overlap, NEW t \in Threads, pc[t] = "token"
               PROVE  /\ db[acct[t]].status \subseteq {"blackListed"}
                      /\ ~db[acct[t]].changePassword
                      /\ db[acct[t]] = existing[t]
    BY DEF GateHolds
  <2>1. existing[t] = db[acct[t]] /\ Passes(existing[t])
    BY DEF Sequential, DecidesOnRow
  <2> QED BY <2>1 DEF Passes
<1> QED BY <1>1, <1>2, IInvInit, IInvNext, SequentialNext, PTL DEF Spec
=============================================================================
