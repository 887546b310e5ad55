--------------------------- MODULE PasswordLogin ---------------------------
(***************************************************************************)
(* Passwords: the login (AuthService::Authorize, AuthorizeSub), the forced *)
(* change of a password, the list of the last passwords, and the requests  *)
(* that write the same record as a whole: DoPut of an administrator or of  *)
(* the user, and the form behind a link that resets a password or verifies *)
(* an address.  A login holds the mutex of AuthService from its read to    *)
(* its token; the other requests do not, and nothing ties their read of a  *)
(* record, which may come from the cache, to their write.  Of the other    *)
(* holders of that mutex IsValidToken and IsValidApiKey read a record and  *)
(* are calls here, free to come at any time, and Logout touches none.      *)
(*                                                                         *)
(* A hash with its salt stands for the password it was made from: what is  *)
(* compared is whether a password fits.  Users and subscribers run the     *)
(* same code over different tables.                                        *)
(***************************************************************************)
EXTENDS Naturals, Sequences, FiniteSets

CONSTANTS Accounts,
          Passwords,           \* what can be entered
          ValidPasswords,      \* those ValidatePassword accepts
          HowManyOldPassword,  \* authentication.oldpasswords
          Settable,            \* the status flags administrators set
          Threads,             \* REST server threads
          Initial,             \* the account table at start
          None

Ops == {"login", "put", "link", "call"}

Flags == {"suspended", "blackListed", "waitingForEmailCheck"}

UserInfo == [currentPassword : Passwords \cup {None}, lastPasswords : Seq(Passwords),
             changePassword : BOOLEAN, status : SUBSET Flags]

\* The passwords in a list.
Listed(s) == {s[i] : i \in 1 .. Len(s)}

\* The list ends with the current password and has no password twice.
InOrder(r) ==
  LET s == r.lastPasswords
  IN /\ \A i, j \in 1 .. Len(s) : s[i] = s[j] => i = j
     /\ r.currentPassword = IF s = << >> THEN None ELSE s[Len(s)]

\* The list has no more entries than configured.
Short(r) == Len(r.lastPasswords) <= HowManyOldPassword

ASSUME PasswordAssumption ==
  /\ ValidPasswords \subseteq Passwords
  /\ HowManyOldPassword \in Nat \ {0}
  /\ Settable \subseteq {"suspended", "blackListed"}
  /\ None \notin Passwords /\ None \notin Threads /\ None \notin UserInfo
  /\ None \notin Accounts /\ None \notin Ops
  /\ Initial \in [Accounts -> UserInfo]

VARIABLES
  db,        \* the committed rows of the account table
  cache,     \* UserCache
  lock,      \* the thread with an uncommitted write on a row
  authLock,  \* the holder of AuthService::Mutex_
  pc,        \* where each thread is
  op,        \* its request
  acct,      \* the account the request is about
  existing,  \* its copy of the record
  overlap    \* history: two requests have run at the same time

locals == <<pc, op, acct, existing>>
vars == <<db, cache, lock, authLock, locals, overlap>>

\* Types; a request has an account, and a record from its read on.
TypeOK ==
  /\ db \in [Accounts -> UserInfo]
  /\ cache \in [Accounts -> UserInfo \cup {None}]
  /\ lock \in [Accounts -> Threads \cup {None}]
  /\ authLock \in Threads \cup {None}
  /\ pc \in [Threads -> {"idle", "read", "select", "fill", "decide", "update",
                         "commit", "token"}]
  /\ op \in [Threads -> Ops \cup {None}]
  /\ acct \in [Threads -> Accounts \cup {None}]
  /\ existing \in [Threads -> UserInfo \cup {None}]
  /\ overlap \in BOOLEAN
  /\ \A t \in Threads :
       /\ pc[t] # "idle" => op[t] # None /\ acct[t] # None
       /\ pc[t] \in {"fill", "decide", "update", "commit", "token"} => existing[t] # None

Init ==
  /\ db = Initial
  /\ cache = [a \in Accounts |-> None]
  /\ lock = [a \in Accounts |-> None]
  /\ authLock = None
  /\ pc = [t \in Threads |-> "idle"]
  /\ op = [t \in Threads |-> None]
  /\ acct = [t \in Threads |-> None]
  /\ existing = [t \in Threads |-> None]
  /\ overlap = FALSE

-----------------------------------------------------------------------------
(* The rules, over one record.                                              *)

\* ValidatePasswordHash: a record without a password fits none.
ValidatePasswordHash(r, p) == r.currentPassword = p

\* Mutant: the oldest entry is dropped one change late.
PushPasswordLate(s, p) ==
  Append(IF Len(s) = HowManyOldPassword + 1 THEN Tail(s) ELSE s, p)

\* The end of SetPassword: the oldest entry makes room.
PushPassword(s, p) == Append(IF Len(s) = HowManyOldPassword THEN Tail(s) ELSE s, p)

\* SetPassword refuses what is in the list.
MaySetPassword(r, p) == p \notin Listed(r.lastPasswords)

SetPassword(r, p) ==
  [r EXCEPT !.lastPasswords = PushPassword(@, p), !.currentPassword = p,
            !.changePassword = FALSE]

\* What Authorize answers to a password and a new password (None: left out),
\* the tests in their order.
Authorize(r, p, n) ==
  CASE "suspended" \in r.status -> "ACCOUNT_SUSPENDED"
    [] "suspended" \notin r.status /\ "waitingForEmailCheck" \in r.status
         -> "USERNAME_PENDING_VERIFICATION"
    [] r.status \subseteq {"blackListed"} /\ ~ValidatePasswordHash(r, p)
         -> "INVALID_CREDENTIALS"
    [] r.status \subseteq {"blackListed"} /\ ValidatePasswordHash(r, p) ->
         IF n = None
           THEN IF r.changePassword THEN "PASSWORD_CHANGE_REQUIRED" ELSE "SUCCESS"
           ELSE IF n \notin ValidPasswords THEN "PASSWORD_INVALID"
                ELSE IF MaySetPassword(r, n) THEN "SUCCESS" ELSE "PASSWORD_ALREADY_USED"

-----------------------------------------------------------------------------
(* Requests.                                                                *)

Goto(t, p) == pc' = [pc EXCEPT ![t] = p] /\ UNCHANGED <<op, acct, existing>>

Return(t) ==
  /\ pc' = [pc EXCEPT ![t] = "idle"]
  /\ op' = [op EXCEPT ![t] = None]
  /\ acct' = [acct EXCEPT ![t] = None]
  /\ existing' = [existing EXCEPT ![t] = None]

\* A request comes in.  A login takes the mutex; "call" is any request that
\* only reads the record, as IsAuthorized does for each of them.
Begin(t, o, a) ==
  /\ pc[t] = "idle"
  /\ IF o = "login" THEN authLock = None /\ authLock' = t ELSE UNCHANGED authLock
  /\ pc' = [pc EXCEPT ![t] = "read"]
  /\ op' = [op EXCEPT ![t] = o]
  /\ acct' = [acct EXCEPT ![t] = a]
  /\ overlap' = (overlap \/ \E u \in Threads : pc[u] # "idle")
  /\ UNCHANGED <<db, cache, lock, existing>>

\* GetRecord: the cache, else the table and then the cache.
HaveRecord(t, r) ==
  IF op[t] = "call" THEN Return(t)
  ELSE /\ existing' = [existing EXCEPT ![t] = r]
       /\ pc' = [pc EXCEPT ![t] = "decide"]
       /\ UNCHANGED <<op, acct>>

\* Mutant: the test for an empty answer of the cache is missing.
ReadCacheUntested(t) ==
  /\ pc[t] = "read"
  /\ HaveRecord(t, cache[acct[t]])
  /\ UNCHANGED <<db, cache, lock, authLock, overlap>>

ReadCache(t) ==
  /\ pc[t] = "read"
  /\ IF cache[acct[t]] # None THEN HaveRecord(t, cache[acct[t]]) ELSE Goto(t, "select")
  /\ UNCHANGED <<db, cache, lock, authLock, overlap>>

ReadTable(t) ==
  /\ pc[t] = "select"
  /\ existing' = [existing EXCEPT ![t] = db[acct[t]]]
  /\ pc' = [pc EXCEPT ![t] = "fill"]
  /\ UNCHANGED <<db, cache, lock, authLock, op, acct, overlap>>

FillCache(t) ==
  /\ pc[t] = "fill"
  /\ cache' = [cache EXCEPT ![acct[t]] = existing[t]]
  /\ HaveRecord(t, existing[t])
  /\ UNCHANGED <<db, lock, authLock, overlap>>

\* The record is to be written as r.
Write(t, r) ==
  /\ existing' = [existing EXCEPT ![t] = r]
  /\ pc' = [pc EXCEPT ![t] = "update"]
  /\ UNCHANGED <<db, cache, lock, authLock, op, acct, overlap>>

\* The rest of Authorize: refusal, a change of the password, or the token.
Login(t, p, n) ==
  /\ pc[t] = "decide" /\ op[t] = "login"
  /\ \/ /\ Authorize(existing[t], p, n) # "SUCCESS"
        /\ Return(t)
        /\ authLock' = None
        /\ UNCHANGED <<db, cache, lock, overlap>>
     \/ /\ Authorize(existing[t], p, n) = "SUCCESS"
        /\ n = None
        /\ Goto(t, "token")
        /\ UNCHANGED <<db, cache, lock, authLock, overlap>>
     \/ /\ Authorize(existing[t], p, n) = "SUCCESS"
        /\ n # None
        /\ Write(t, SetPassword(existing[t], n))

\* SetLastLogin, which updates one column of the row, and CreateToken; the mutex
\* is free again.
CreateToken(t) ==
  /\ pc[t] = "token"
  /\ lock[acct[t]] = None
  /\ Return(t)
  /\ authLock' = None
  /\ UNCHANGED <<db, cache, lock, overlap>>

\* DoPut: changePassword and the status may be in the body, and a new password,
\* which clears changePassword again (SetPassword waits for the mutex); a
\* verification of the address may be asked for.  With the values unchanged it
\* is resetMFA, or a change of other fields.
Put(t, change, status, verify, n) ==
  /\ pc[t] = "decide" /\ op[t] = "put"
  /\ LET waiting == IF verify THEN {"waitingForEmailCheck"} ELSE {}
         r == [existing[t] EXCEPT !.changePassword = change,
                                  !.status = (@ \ Settable) \cup status \cup waiting]
     IN \/ n = None /\ Write(t, r)
        \/ /\ n \in ValidPasswords /\ authLock = None /\ MaySetPassword(r, n)
           /\ Write(t, SetPassword(r, n))

\* CompleteResetPassword and CompleteSubVerification; the password of the form
\* is tested before the record is read.
UseLink(t, n, verify) ==
  /\ pc[t] = "decide" /\ op[t] = "link"
  /\ existing[t].status \cap {"suspended", "blackListed"} = {}
  /\ n \in ValidPasswords /\ authLock = None /\ MaySetPassword(existing[t], n)
  /\ LET r == SetPassword(existing[t], n)
     IN Write(t, IF verify THEN [r EXCEPT !.status = @ \ {"waitingForEmailCheck"}] ELSE r)

\* DoEmailVerification of a subscriber: the record as it was read, without the
\* mark, whatever its other flags are.
VerifyEmail(t) ==
  /\ pc[t] = "decide" /\ op[t] = "link"
  /\ Write(t, [existing[t] EXCEPT !.status = @ \ {"waitingForEmailCheck"}])

\* A rule, or something the model leaves out, refuses the request; a
\* forgotPassword request changes its copy only.
Refuse(t) ==
  /\ pc[t] = "decide" /\ op[t] \in {"put", "link"}
  /\ Return(t)
  /\ UNCHANGED <<db, cache, lock, authLock, overlap>>

\* Mutant: UpdateRecord leaves the cache alone.
UpdateExecUncached(t) ==
  /\ pc[t] = "update"
  /\ lock[acct[t]] = None
  /\ lock' = [lock EXCEPT ![acct[t]] = t]
  /\ Goto(t, "commit")
  /\ UNCHANGED <<db, cache, authLock, overlap>>

\* UpdateRecord: the statement and the cache ...
UpdateExec(t) ==
  /\ pc[t] = "update"
  /\ lock[acct[t]] = None
  /\ lock' = [lock EXCEPT ![acct[t]] = t]
  /\ cache' = [cache EXCEPT ![acct[t]] = existing[t]]
  /\ Goto(t, "commit")
  /\ UNCHANGED <<db, authLock, overlap>>

\* ... and the commit.  DoPut reads the record once more for its answer.
UpdateCommit(t) ==
  /\ pc[t] = "commit"
  /\ db' = [db EXCEPT ![acct[t]] = existing[t]]
  /\ lock' = [lock EXCEPT ![acct[t]] = None]
  /\ \/ op[t] = "login" /\ Goto(t, "token")
     \/ op[t] = "link" /\ Return(t)
     \/ /\ op[t] = "put"
        /\ pc' = [pc EXCEPT ![t] = "read"]
        /\ op' = [op EXCEPT ![t] = "call"]
        /\ existing' = [existing EXCEPT ![t] = None]
        /\ UNCHANGED acct
  /\ UNCHANGED <<cache, authLock, overlap>>

\* Mutant: an entry goes only when it has been looked up (no age limit).
EvictWhenRead(a) ==
  /\ cache[a] # None
  /\ \E t \in Threads : pc[t] = "read" /\ acct[t] = a
  /\ cache' = [cache EXCEPT ![a] = None]
  /\ UNCHANGED <<db, lock, authLock, locals, overlap>>

\* A cached record reaches its age limit.
Evict(a) ==
  /\ cache[a] # None
  /\ cache' = [cache EXCEPT ![a] = None]
  /\ UNCHANGED <<db, lock, authLock, locals, overlap>>

Step(t) ==
  \/ ReadCache(t) \/ ReadTable(t) \/ FillCache(t)
  \/ \E p \in Passwords, n \in Passwords \cup {None} : Login(t, p, n)
  \/ CreateToken(t)
  \/ \E change, verify \in BOOLEAN, status \in SUBSET Settable,
        n \in Passwords \cup {None} : Put(t, change, status, verify, n)
  \/ \E n \in Passwords, verify \in BOOLEAN : UseLink(t, n, verify)
  \/ VerifyEmail(t) \/ Refuse(t) \/ UpdateExec(t) \/ UpdateCommit(t)

Next ==
  \/ \E t \in Threads, o \in Ops, a \in Accounts : Begin(t, o, a)
  \/ \E t \in Threads : Step(t)
  \/ \E a \in Accounts : Evict(a)

Spec == Init /\ [][Next]_vars

\* Requests go on, also those that wait for a row (its lock is granted in the
\* end); cached records age.
FairSpec ==
  /\ Spec
  /\ \A t \in Threads : SF_vars(Step(t))
  /\ \A a \in Accounts : WF_vars(Evict(a))
-----------------------------------------------------------------------------
(* Properties.                                                              *)

\* What the requests keep of the list that r0 had at the start.
KeepsHistory(r0, r) ==
  /\ InOrder(r0) => InOrder(r)
  /\ Short(r0) => Short(r)

\* Whatever requests run at the same time, every copy of a record (the row,
\* the cached one, the one of a request) has a list of passwords that ends with
\* the current one and repeats none, if it had one at the start, and no request
\* brings a list beyond the configured length that was within it: one entry more
\* and SetPassword, which cuts a list of exactly that length, would never cut it.
HistoryConsistent ==
  /\ \A a \in Accounts :
       /\ KeepsHistory(Initial[a], db[a])
       /\ cache[a] # None => KeepsHistory(Initial[a], cache[a])
  /\ \A t \in Threads :
       existing[t] # None => KeepsHistory(Initial[acct[t]], existing[t])

\* Authorize decides on a copy that may come from the cache, and creates the
\* token in a later step.  As long as requests do not overlap, that copy is the
\* row: no token for an account that is suspended, not verified or due to
\* change its password.
GateHolds ==
  \A t \in Threads : ~overlap /\ pc[t] = "token" =>
    /\ db[acct[t]].status \subseteq {"blackListed"}
    /\ ~db[acct[t]].changePassword
    /\ db[acct[t]] = existing[t]

\* A change settles, whatever requests overlapped with it: when the password in
\* the table stays, the logins that succeed are in the end those with that
\* password, and when the row stays suspended there are no more logins.
ChangesSettle ==
  \A a \in Accounts :
    /\ \A p \in Passwords :
         <>[](db[a].currentPassword = p)
           => <>[](\A t \in Threads : pc[t] = "token" /\ acct[t] = a
                                        => existing[t].currentPassword = p)
    /\ <>[]("suspended" \in db[a].status)
         => <>[](\A t \in Threads : ~(pc[t] = "token" /\ acct[t] = a))
=============================================================================
