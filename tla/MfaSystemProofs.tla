-------------------------- MODULE MfaSystemProofs --------------------------
(***************************************************************************)
(* Multi-factor authentication for any number of accounts, tokens, numbers *)
(* and threads.  A login cannot bypass its challenge because every copy of *)
(* a user's record has what its method needs, and because the token of an  *)
(* unanswered login is its own; that a secret has been proven by two codes *)
(* holds when enrolments do not overlap, since nothing locks them.  That a *)
(* number has been reached holds for any number of threads.                *)
(***************************************************************************)
EXTENDS MfaSystem, FiniteSetTheorems, WellFoundedInduction, TLAPS

\* Types, but for the list of SMSSender, which ListCompleted is about.
MfaTypes ==
  /\ now \in Nat /\ TotpTypeOK /\ MfaTypeOK
  /\ settings \in [Accounts -> Settings \cup {None}]
  /\ rows \subseteq Tokens /\ held \subseteq Tokens /\ answered \subseteq Tokens
  /\ pc \in [Threads -> {"idle", "login", "write"}]
  /\ DOMAIN work = Threads
  /\ \A t \in Threads : /\ pc[t] = "login" => work[t] \in Tokens
                        /\ pc[t] = "write" => work[t] \in Write
  /\ login \in [Tokens -> LoginRecord \cup {None}]

\* The settings have what SendChallenge needs.
Complete(s) ==
  s.enabled => /\ s.method = "sms" => s.mobile # None
               /\ s.method = "authenticator" => s.secret # None

\* So have all copies of a user's record: in the table, about to be written, and
\* read by a login.
RecordsComplete ==
  /\ \A a \in Accounts : settings[a] # None => Complete(settings[a])
  /\ \A t \in Threads : pc[t] = "write" => Complete(work[t].record)
  /\ \A k \in Tokens : login[k] # None => Complete(login[k].UInfo)

\* A login that has not been answered works on a token of its own, which nobody
\* has and no challenge is about, and sees the channels as they were.  The token is
\* in the table unless it has become too old.
FreshLogin(t) ==
  /\ login[work[t]] # None
  /\ login[work[t]].sent <=> MethodEnabled(login[work[t]].UInfo.method)
  /\ work[t] \notin held /\ challenges[work[t]] = None
  /\ settings[login[work[t]].user] # None => work[t] \in rows \/ Aged(work[t])

LoginsFresh ==
  /\ \A t \in Threads : pc[t] = "login" => FreshLogin(t)
  /\ \A t, u \in Threads : pc[t] = "login" /\ pc[u] = "login" /\ work[t] = work[u] => t = u
  /\ \A k \in Tokens : login[k] = None => k \notin held /\ challenges[k] = None

\* The inductive invariant of the logins.
LoginInv ==
  /\ MfaTypes /\ RecordsComplete /\ LoginsFresh
  /\ NoSilentBypass /\ PendingTokensWithheld /\ ChallengesHaveTokens

-----------------------------------------------------------------------------
(* Types of the enrolments                                                  *)

LEMMA TotpStartType ==
  ASSUME TotpTypeOK, now \in Nat, NEW t \in Threads, NEW a \in Accounts, NEW reset,
         TotpStart(t, a, reset)
  PROVE  TotpTypeOK'
<1> DEFINE e == [Start |-> now, Done |-> FALSE, Verifications |-> 0,
                 Secret |-> secrets + 1, LastCode |-> None]
<1>1. secrets + 1 \in Secrets /\ secrets' \in 0 .. MaxSecrets
  BY TotpAssumption DEF TotpStart, TotpTypeOK, Secrets
<1>2. e \in Entry
  BY <1>1 DEF Entry
<1>3. totp' = [totp EXCEPT ![a] = e] /\ UNCHANGED <<job, accepted, returned>>
  BY DEF TotpStart
<1> HIDE DEF e
<1> QED BY <1>1, <1>2, <1>3 DEF TotpTypeOK

LEMMA TotpTestType ==
  ASSUME TotpTypeOK, now \in Nat, NEW t \in Threads, NEW a \in Accounts, NEW index,
         NEW c \in Codes, TotpTest(t, a, index, c)
  PROVE  TotpTypeOK'
<1> DEFINE j == [op |-> IF index = 1 THEN "first" ELSE "second", user |-> a, code |-> c]
<1>1. j \in Job
  BY DEF Job
<1>2. totp[a] \in Entry /\ totp[a].Secret \in Secrets
  BY DEF TotpTest, InWindow, TotpTypeOK, Entry
<1>3. /\ job' = [job EXCEPT ![t] = j] /\ UNCHANGED <<totp, secrets, returned>>
      /\ accepted' = [accepted EXCEPT ![totp[a].Secret] = @ \cup {c}]
  BY DEF TotpTest
<1> HIDE DEF j
<1> QED BY <1>1, <1>2, <1>3 DEF TotpTypeOK

\* What a mark makes of an entry.
LEMMA MarkedEntry ==
  ASSUME NEW e \in Entry, NEW c \in Codes \cup {None}
  PROVE  /\ [e EXCEPT !.Verifications = @ + 1, !.LastCode = c] \in Entry
         /\ [e EXCEPT !.Done = TRUE] \in Entry
<1> DEFINE v == e.Verifications + 1
<1>1. v \in Nat
  BY DEF Entry
<1> HIDE DEF v
<1>2. [e EXCEPT !.Verifications = v, !.LastCode = c] \in Entry
  BY <1>1 DEF Entry
<1>3. [e EXCEPT !.Done = TRUE] \in Entry
  BY DEF Entry
<1> QED BY <1>2, <1>3 DEF v

LEMMA TotpMarkType ==
  ASSUME TotpTypeOK, NEW t \in Threads, TotpMark(t)
  PROVE  TotpTypeOK'
<1> DEFINE a == job[t].user
           c == job[t].code
<1>1. a \in Accounts /\ c \in Codes \cup {None}
  BY DEF TotpMark, TotpTypeOK, Job
<1>2. job' \in [Threads -> Job \cup {None}] /\ UNCHANGED <<secrets, accepted, returned>>
  BY DEF TotpMark, TotpTypeOK
<1>3. CASE totp[a] = None
  BY <1>2, <1>3 DEF TotpMark, TotpTypeOK
<1>4. CASE totp[a] # None
  <2>1. totp[a] \in Entry
    BY <1>1, <1>4 DEF TotpTypeOK
  <2> DEFINE e1 == [totp[a] EXCEPT !.Verifications = @ + 1, !.LastCode = c]
             e2 == [totp[a] EXCEPT !.Done = TRUE]
  <2>3. e1 \in Entry /\ e2 \in Entry
    BY <1>1, <2>1, MarkedEntry
  <2>4. job[t].op = "first" => totp' = [totp EXCEPT ![a] = e1]
    BY <1>4 DEF TotpMark
  <2>5. job[t].op # "first" => totp' = [totp EXCEPT ![a] = e2]
    BY <1>4 DEF TotpMark
  <2> HIDE DEF e1, e2
  <2>2. \E e \in Entry : totp' = [totp EXCEPT ![a] = e]
    BY <2>3, <2>4, <2>5
  <2> HIDE DEF a
  <2> QED BY <1>1, <1>2, <2>2 DEF TotpTypeOK
<1> QED BY <1>3, <1>4

LEMMA TotpCopyType ==
  ASSUME TotpTypeOK, now \in Nat, NEW t \in Threads, NEW a \in Accounts, TotpCopy(t, a)
  PROVE  TotpTypeOK' /\ totp[a] \in Entry /\ totp[a].Secret \in Secrets
<1> DEFINE j == [op |-> "erase", user |-> a, code |-> None]
<1>1. j \in Job
  BY DEF Job
<1>2. totp[a] \in Entry /\ totp[a].Secret \in Secrets
  BY DEF TotpCopy, CanComplete, InWindow, TotpTypeOK, Entry
<1>3. /\ job' = [job EXCEPT ![t] = j] /\ UNCHANGED <<totp, secrets, accepted>>
      /\ returned' = returned \cup {totp[a].Secret}
  BY DEF TotpCopy
<1> HIDE DEF j
<1> QED BY <1>1, <1>2, <1>3 DEF TotpTypeOK

LEMMA TotpStepType ==
  ASSUME TotpTypeOK, now \in Nat, NEW t \in Threads, TotpStep(t)
  PROVE  TotpTypeOK'
<1>1. CASE TotpErase(t)
  BY <1>1 DEF TotpErase, TotpTypeOK, Job
<1> QED BY <1>1, TotpStartType, TotpTestType, TotpMarkType DEF TotpStep

-----------------------------------------------------------------------------
(* The steps                                                                *)

\* A step of an enrolment, of the clock or of SMSSender.
LEMMA OtherStep ==
  ASSUME LoginInv, UNCHANGED <<mfaVars, sysVars>>, now' \in Nat, now <= now', TotpTypeOK'
  PROVE  LoginInv'
<1>1. \A k \in Tokens : login[k] # None /\ Aged(k) => Aged(k)'
  BY SystemAssumption DEF LoginInv, MfaTypes, LoginRecord, sysVars, Aged
<1>2. UNCHANGED <<challenges, configured, undelivered, settings, rows, held, pc, work, login,
                 answered>>
  BY DEF mfaVars, sysVars
<1>3. MfaTypes'
  BY <1>2 DEF LoginInv, MfaTypes, MfaTypeOK
<1>4. RecordsComplete' /\ NoSilentBypass' /\ PendingTokensWithheld'
  BY <1>2 DEF LoginInv, RecordsComplete, NoSilentBypass, PendingTokensWithheld, Complete
<1>5. LoginsFresh'
  <2>1. ASSUME NEW t \in Threads, pc[t] = "login"
        PROVE  FreshLogin(t)'
    <3>1. FreshLogin(t) /\ work[t] \in Tokens
      BY <2>1 DEF LoginInv, LoginsFresh, MfaTypes
    <3> QED BY <1>1, <1>2, <3>1 DEF FreshLogin, MethodEnabled
  <2> QED BY <1>2, <2>1 DEF LoginInv, LoginsFresh
<1>6. ChallengesHaveTokens'
  BY <1>1, <1>2 DEF LoginInv, LoginsFresh, ChallengesHaveTokens
<1> QED BY <1>3, <1>4, <1>5, <1>6 DEF LoginInv

\* A request goes on to write a complete record.
LEMMA WriteBackStep ==
  ASSUME LoginInv, NEW t \in Threads, NEW a \in Accounts, NEW s \in Settings, Complete(s),
         pc[t] = "idle", WriteBack(t, a, s), UNCHANGED <<now, mfaVars>>, TotpTypeOK'
  PROVE  LoginInv'
<1> DEFINE w == [user |-> a, record |-> s]
<1>1. w \in Write /\ w.record = s
  BY DEF Write
<1>2. /\ pc' = [pc EXCEPT ![t] = "write"] /\ work' = [work EXCEPT ![t] = w]
      /\ UNCHANGED <<settings, rows, held, login, answered, challenges, configured,
                     undelivered, now>>
  BY DEF WriteBack, mfaVars
<1> HIDE DEF w
<1>3. /\ pc'[t] = "write" /\ work'[t] = w
      /\ \A u \in Threads : u # t => pc'[u] = pc[u] /\ work'[u] = work[u]
  BY <1>2 DEF LoginInv, MfaTypes
<1>4. MfaTypes'
  <2>1. pc' \in [Threads -> {"idle", "login", "write"}] /\ DOMAIN work' = Threads
    BY <1>2 DEF LoginInv, MfaTypes
  <2>2. MfaTypeOK'
    BY <1>2 DEF LoginInv, MfaTypes, MfaTypeOK
  <2>3. \A u \in Threads : /\ pc'[u] = "login" => work'[u] \in Tokens
                           /\ pc'[u] = "write" => work'[u] \in Write
    BY <1>1, <1>3 DEF LoginInv, MfaTypes
  <2> QED BY <1>2, <2>1, <2>2, <2>3 DEF LoginInv, MfaTypes
<1>5. RecordsComplete'
  BY <1>1, <1>2, <1>3 DEF LoginInv, RecordsComplete, Complete
<1>6. LoginsFresh'
  BY <1>2, <1>3 DEF LoginInv, LoginsFresh, FreshLogin, MethodEnabled, Aged
<1>7. NoSilentBypass' /\ PendingTokensWithheld' /\ ChallengesHaveTokens'
  BY <1>2 DEF LoginInv, NoSilentBypass, PendingTokensWithheld, ChallengesHaveTokens, Aged
<1> QED BY <1>4, <1>5, <1>6, <1>7 DEF LoginInv

\* What the requests write.
LEMMA ChangedRecord ==
  ASSUME NEW s \in Settings, Complete(s)
  PROVE  /\ Disabled(s) \in Settings /\ Complete(Disabled(s))
         /\ ByEmail(s) \in Settings /\ Complete(ByEmail(s))
         /\ \A n \in Numbers : BySms(s, n) \in Settings /\ Complete(BySms(s, n))
         /\ \A x \in Secrets : /\ ByAuthenticator(s, x) \in Settings
                               /\ Complete(ByAuthenticator(s, x))
<1> USE SystemAssumption, TotpAssumption
<1>1. Disabled(s) \in Settings /\ Complete(Disabled(s))
  BY DEF Disabled, Settings, Complete
<1>2. ByEmail(s) \in Settings /\ Complete(ByEmail(s))
  BY DEF ByEmail, Settings, Complete, Methods, Channels
<1>3. ASSUME NEW n \in Numbers
      PROVE  BySms(s, n) \in Settings /\ Complete(BySms(s, n))
  BY DEF BySms, Settings, Complete, Methods, Channels
<1>4. ASSUME NEW x \in Secrets
      PROVE  ByAuthenticator(s, x) \in Settings /\ Complete(ByAuthenticator(s, x))
  BY DEF ByAuthenticator, Settings, Complete, Methods, Channels
<1> QED BY <1>1, <1>2, <1>3, <1>4

LEMMA ChangeStep ==
  ASSUME LoginInv, NEW t \in Threads, NEW c \in Accounts, NEW a \in Accounts,
         Change(t, c, a)
  PROVE  LoginInv'
<1> DEFINE s == settings[a]
<1>1. pc[t] = "idle" /\ s # None
  BY DEF Change, PutDisable, PutEmail, PutAuthenticator, ResetMFA, PutSms, Idle, MayChange
<1>2. s \in Settings /\ Complete(s)
  BY <1>1 DEF LoginInv, MfaTypes, RecordsComplete
<1>3. TotpTypeOK /\ now \in Nat
  BY DEF LoginInv, MfaTypes
<1>4. UNCHANGED totpVars => TotpTypeOK'
  BY <1>3 DEF totpVars, TotpTypeOK
<1>5. ASSUME NEW r \in Settings, Complete(r), WriteBack(t, a, r), UNCHANGED <<now, mfaVars>>,
             TotpTypeOK'
      PROVE  LoginInv'
  BY <1>1, <1>5, WriteBackStep
<1>6. CASE PutDisable(t, c, a)
  BY <1>2, <1>4, <1>5, <1>6, ChangedRecord DEF PutDisable
<1>7. CASE PutEmail(t, c, a)
  BY <1>2, <1>4, <1>5, <1>7, ChangedRecord DEF PutEmail
<1>8. ASSUME NEW n \in Numbers, PutSms(t, c, a, n)
      PROVE  LoginInv'
  BY <1>2, <1>4, <1>5, <1>8, ChangedRecord DEF PutSms
<1>9. CASE PutAuthenticator(t, c, a)
  <2>1. UNCHANGED <<now, mfaVars>>
    BY <1>9 DEF PutAuthenticator
  <2>2. CASE s.secret # None
    <3>1. s.secret \in Secrets
      BY <1>2, <2>2 DEF Settings
    <3>2. WriteBack(t, a, ByAuthenticator(s, s.secret)) /\ UNCHANGED totpVars
      BY <1>9, <2>2 DEF PutAuthenticator
    <3> QED BY <1>2, <1>4, <1>5, <2>1, <3>1, <3>2, ChangedRecord
  <2>3. CASE s.secret = None
    <3>1. TotpCopy(t, c) /\ WriteBack(t, a, ByAuthenticator(s, totp[c].Secret))
      BY <1>9, <2>3 DEF PutAuthenticator
    <3>2. TotpTypeOK' /\ totp[c].Secret \in Secrets
      BY <1>3, <3>1, TotpCopyType
    <3> QED BY <1>2, <1>5, <2>1, <3>1, <3>2, ChangedRecord
  <2> QED BY <2>2, <2>3
<1>10. CASE ResetMFA(t, c, a)
  <2> DEFINE r == [s EXCEPT !.enabled = FALSE, !.method = None, !.mobile = None]
  <2>1. r \in Settings /\ Complete(r)
    BY <1>2 DEF Settings, Complete
  <2>2. WriteBack(t, a, r) /\ UNCHANGED <<now, totpVars, mfaVars>>
    BY <1>10 DEF ResetMFA
  <2> HIDE DEF r
  <2> QED BY <1>4, <1>5, <2>1, <2>2
<1> QED BY <1>6, <1>7, <1>8, <1>9, <1>10 DEF Change

LEMMA SubChangeStep ==
  ASSUME LoginInv, NEW t \in Threads, NEW a \in Accounts, SubChange(t, a)
  PROVE  LoginInv'
<1> DEFINE s == settings[a]
<1>1. pc[t] = "idle" /\ s # None /\ UNCHANGED <<now, totpVars, mfaVars>>
  BY DEF SubChange, SubDisable, SubEmail, SubSms, Idle
<1>2. s \in Settings /\ Complete(s)
  BY <1>1 DEF LoginInv, MfaTypes, RecordsComplete
<1>3. TotpTypeOK'
  BY <1>1 DEF LoginInv, MfaTypes, totpVars, TotpTypeOK
<1>4. ASSUME NEW r \in Settings, Complete(r), WriteBack(t, a, r)
      PROVE  LoginInv'
  BY <1>1, <1>3, <1>4, WriteBackStep
<1>5. CASE SubDisable(t, a)
  <2> DEFINE r == [s EXCEPT !.enabled = FALSE]
  <2>1. r \in Settings /\ Complete(r)
    BY <1>2 DEF Settings, Complete
  <2>2. WriteBack(t, a, r)
    BY <1>5 DEF SubDisable
  <2> HIDE DEF r
  <2> QED BY <1>4, <2>1, <2>2
<1>6. CASE SubEmail(t, a)
  <2> DEFINE r == [s EXCEPT !.enabled = TRUE, !.method = "email"]
  <2>1. r \in Settings /\ Complete(r)
    BY <1>2 DEF Settings, Complete, Methods, Channels
  <2>2. WriteBack(t, a, r)
    BY <1>6 DEF SubEmail
  <2> HIDE DEF r
  <2> QED BY <1>4, <2>1, <2>2
<1>7. ASSUME NEW n \in Numbers, NEW c \in Codes, SubSms(t, a, n, c)
      PROVE  LoginInv'
  <2> DEFINE r == [s EXCEPT !.enabled = TRUE, !.method = "sms", !.mobile = n]
  <2>1. r \in Settings /\ Complete(r)
    BY <1>2, SystemAssumption DEF Settings, Complete, Methods, Channels
  <2>2. WriteBack(t, a, r)
    BY <1>7 DEF SubSms
  <2> HIDE DEF r
  <2> QED BY <1>4, <2>1, <2>2
<1> QED BY <1>5, <1>6, <1>7 DEF SubChange

\* A thread that comes to its end has no part in the invariant any more.
LEMMA EndOfRequest ==
  ASSUME MfaTypes, NEW t \in Threads, pc' = [pc EXCEPT ![t] = "idle"],
         work' = [work EXCEPT ![t] = None]
  PROVE  /\ pc' \in [Threads -> {"idle", "login", "write"}] /\ DOMAIN work' = Threads
         /\ pc'[t] = "idle"
         /\ \A u \in Threads : u # t => pc'[u] = pc[u] /\ work'[u] = work[u]
         /\ \A u \in Threads : /\ pc'[u] = "login" => work'[u] \in Tokens
                               /\ pc'[u] = "write" => work'[u] \in Write
BY DEF MfaTypes

LEMMA UpdateStep ==
  ASSUME LoginInv, NEW t \in Threads, Update(t)
  PROVE  LoginInv'
<1> DEFINE a == work[t].user
           r == work[t].record
<1>1. a \in Accounts /\ r \in Settings /\ Complete(r)
  BY DEF LoginInv, MfaTypes, Update, Write, RecordsComplete
<1>2. /\ settings' = IF settings[a] = None THEN settings ELSE [settings EXCEPT ![a] = r]
      /\ pc' = [pc EXCEPT ![t] = "idle"] /\ work' = [work EXCEPT ![t] = None]
      /\ UNCHANGED <<now, totp, secrets, job, accepted, returned, challenges, configured,
                     undelivered, rows, held, login, answered>>
  BY DEF Update, totpVars, mfaVars
<1> HIDE DEF a, r
<1>3. /\ settings' \in [Accounts -> Settings \cup {None}]
      /\ \A b \in Accounts : settings'[b] # None => settings[b] # None /\ Complete(settings'[b])
  BY <1>1, <1>2 DEF LoginInv, MfaTypes, RecordsComplete
<1>4. MfaTypes'
  <2>1. TotpTypeOK' /\ MfaTypeOK'
    BY <1>2 DEF LoginInv, MfaTypes, TotpTypeOK, MfaTypeOK
  <2> QED BY <1>2, <1>3, <2>1, EndOfRequest DEF LoginInv, MfaTypes
<1>5. RecordsComplete'
  BY <1>2, <1>3, EndOfRequest DEF LoginInv, RecordsComplete, Complete
<1>6. \A k \in Tokens : login[k] # None => login[k].user \in Accounts
  BY DEF LoginInv, MfaTypes, LoginRecord
<1>7. LoginsFresh'
  <2>1. \A u \in Threads : pc'[u] = "login" =>
          u # t /\ pc[u] = "login" /\ work'[u] = work[u] /\ work[u] \in Tokens
    BY <1>2, EndOfRequest DEF LoginInv, MfaTypes
  <2> QED BY <1>2, <1>3, <1>6, <2>1 DEF LoginInv, LoginsFresh, FreshLogin, MethodEnabled, Aged
<1>8. NoSilentBypass' /\ PendingTokensWithheld'
  BY <1>2 DEF LoginInv, NoSilentBypass, PendingTokensWithheld
<1>9. ChallengesHaveTokens'
  BY <1>2, <1>3, <1>6 DEF LoginInv, ChallengesHaveTokens, LoginsFresh, FreshLogin, Aged
<1> QED BY <1>4, <1>5, <1>7, <1>8, <1>9 DEF LoginInv

LEMMA LoginStep ==
  ASSUME LoginInv, NEW t \in Threads, NEW a \in Accounts, NEW k \in Tokens, Login(t, a, k)
  PROVE  LoginInv'
<1> DEFINE e == [user |-> a, UInfo |-> settings[a],
                 sent |-> MethodEnabled(settings[a].method), created |-> now]
<1>1. settings[a] \in Settings /\ Complete(settings[a])
  BY DEF LoginInv, MfaTypes, Login, RecordsComplete
<1>2. MethodEnabled(settings[a].method) \in BOOLEAN
  BY DEF MethodEnabled
<1>3. /\ e \in LoginRecord /\ e.user = a /\ e.UInfo = settings[a]
      /\ e.sent = MethodEnabled(settings[a].method)
  BY <1>1, <1>2 DEF LoginRecord, LoginInv, MfaTypes
<1>4. /\ pc[t] = "idle" /\ settings[a] # None /\ login[k] = None
      /\ rows' = rows \cup {k} /\ login' = [login EXCEPT ![k] = e]
      /\ pc' = [pc EXCEPT ![t] = "login"] /\ work' = [work EXCEPT ![t] = k]
      /\ UNCHANGED <<now, totp, secrets, job, accepted, returned, challenges, configured,
                     undelivered, settings, held, answered>>
  BY DEF Login, Idle, totpVars, mfaVars
<1> HIDE DEF e
<1>5. /\ pc'[t] = "login" /\ work'[t] = k /\ login'[k] = e /\ e # None
      /\ \A u \in Threads : u # t => pc'[u] = pc[u] /\ work'[u] = work[u]
      /\ \A j \in Tokens : j # k => login'[j] = login[j]
  BY <1>3, <1>4, SystemAssumption DEF LoginInv, MfaTypes
<1>6. \A u \in Threads : pc[u] = "login" => work[u] \in Tokens /\ work[u] # k
  BY <1>4 DEF LoginInv, MfaTypes, LoginsFresh, FreshLogin, Aged
<1>7. k \notin held /\ challenges[k] = None
  BY <1>4 DEF LoginInv, LoginsFresh, FreshLogin, Aged
<1>8. MfaTypes'
  <2>1. TotpTypeOK' /\ MfaTypeOK'
    BY <1>4 DEF LoginInv, MfaTypes, TotpTypeOK, MfaTypeOK
  <2>2. login' \in [Tokens -> LoginRecord \cup {None}] /\ rows' \subseteq Tokens
    BY <1>3, <1>4 DEF LoginInv, MfaTypes
  <2>3. pc' \in [Threads -> {"idle", "login", "write"}] /\ DOMAIN work' = Threads
    BY <1>4 DEF LoginInv, MfaTypes
  <2>4. \A u \in Threads : /\ pc'[u] = "login" => work'[u] \in Tokens
                           /\ pc'[u] = "write" => work'[u] \in Write
    BY <1>5 DEF LoginInv, MfaTypes
  <2> QED BY <1>4, <2>1, <2>2, <2>3, <2>4 DEF LoginInv, MfaTypes
<1>9. RecordsComplete'
  BY <1>1, <1>3, <1>4, <1>5 DEF LoginInv, RecordsComplete, Complete
<1>10. LoginsFresh'
  <2>1. ASSUME NEW u \in Threads, pc'[u] = "login"
        PROVE  FreshLogin(u)'
    <3>1. CASE u = t
      <4>1. e.sent <=> MethodEnabled(settings[a].method)
        BY <1>2, <1>3
      <4>2. /\ login'[work'[t]] = e /\ e # None /\ e.UInfo = settings[a]
            /\ configured' = configured /\ work'[t] = k /\ k \in rows' /\ held' = held
            /\ challenges' = challenges
        BY <1>3, <1>4, <1>5
      <4> QED BY <1>7, <3>1, <4>1, <4>2 DEF FreshLogin, MethodEnabled, Aged
    <3>2. CASE u # t
      <4>1. /\ pc[u] = "login" /\ work'[u] = work[u] /\ work[u] \in Tokens
            /\ login'[work[u]] = login[work[u]]
        BY <1>5, <1>6, <2>1, <3>2
      <4> QED BY <1>4, <4>1 DEF LoginInv, LoginsFresh, FreshLogin, MethodEnabled, Aged
    <3> QED BY <3>1, <3>2
  <2>2. \A u, v \in Threads : pc'[u] = "login" /\ pc'[v] = "login" /\ work'[u] = work'[v]
                                 => u = v
    BY <1>5, <1>6 DEF LoginInv, LoginsFresh, FreshLogin, Aged
  <2>3. \A j \in Tokens : login'[j] = None => j \notin held' /\ challenges'[j] = None
    BY <1>4, <1>5 DEF LoginInv, LoginsFresh, FreshLogin, Aged
  <2> QED BY <2>1, <2>2, <2>3 DEF LoginsFresh
<1>11. NoSilentBypass'
  BY <1>4, <1>5, <1>7 DEF LoginInv, MfaTypes, NoSilentBypass
<1>12. PendingTokensWithheld'
  BY <1>4 DEF LoginInv, PendingTokensWithheld
<1>13. ChallengesHaveTokens'
  BY <1>4, <1>5, <1>7 DEF LoginInv, ChallengesHaveTokens, Aged
<1> QED BY <1>8, <1>9, <1>10, <1>11, <1>12, <1>13 DEF LoginInv

\* A challenge with complete settings goes out, unless the provider refuses it.
LEMMA ChallengeSent ==
  ASSUME NEW s \in Settings, Complete(s), RequiresMFA(s), configured \subseteq Channels
  PROVE  SendChallenge(s, TRUE)
BY DEF RequiresMFA, MethodEnabled, SendChallenge, Complete, Channels

\* CleanCache removes challenges and leaves the others.
LEMMA CleanedChallenges ==
  ASSUME MfaTypes
  PROVE  /\ Cleaned \in [Tokens -> MFACacheEntry \cup {None}]
         /\ \A j \in Tokens : Cleaned[j] # None => Cleaned[j] = challenges[j]
BY DEF MfaTypes, MfaTypeOK, Cleaned

LEMMA AnswerLogin ==
  ASSUME LoginInv, NEW t \in Threads, NEW c \in Codes, NEW taken \in BOOLEAN,
         LoginAnswer(t, c, taken)
  PROVE  LoginInv'
<1> DEFINE k == work[t]
           s == login[k].UInfo
           e == [UInfo |-> s, Answer |-> c, Created |-> now]
<1>1. /\ pc[t] = "login" /\ k \in Tokens /\ login[k] # None /\ k \notin held
      /\ challenges[k] = None /\ MfaTypes
      /\ login[k].sent <=> MethodEnabled(s.method)
      /\ settings[login[k].user] # None => k \in rows \/ Aged(k)
  BY DEF LoginAnswer, LoginInv, MfaTypes, LoginsFresh, FreshLogin, Aged
<1>2. s \in Settings /\ Complete(s) /\ login[k].sent \in BOOLEAN
  BY <1>1 DEF LoginInv, MfaTypes, LoginRecord, RecordsComplete
<1>3. e \in MFACacheEntry
  BY <1>1, <1>2 DEF MFACacheEntry, MfaTypes
<1>4. /\ pc' = [pc EXCEPT ![t] = "idle"] /\ work' = [work EXCEPT ![t] = None]
      /\ UNCHANGED <<now, totp, secrets, job, accepted, returned, settings, rows, login,
                     answered>>
  BY DEF LoginAnswer, totpVars
<1>5. /\ RequiresMFA(s) => /\ StartMFAChallenge(k, s, c, taken)
                           /\ held' = IF SendChallenge(s, taken) THEN held ELSE held \cup {k}
      /\ ~RequiresMFA(s) => held' = held \cup {k} /\ UNCHANGED mfaVars
  BY DEF LoginAnswer
<1>6. RequiresMFA(s) /\ ~SendChallenge(s, taken) => ~taken
  BY <1>1, <1>2, ChallengeSent DEF MfaTypes, MfaTypeOK
<1>7. RequiresMFA(s) => /\ challenges' = [Cleaned EXCEPT ![k] = e]
                        /\ undelivered' = IF taken THEN undelivered ELSE undelivered \cup {k}
                        /\ UNCHANGED configured
  BY <1>5 DEF StartMFAChallenge, RequiresMFA
<1>8. UNCHANGED configured
  BY <1>5, <1>7 DEF mfaVars
<1> HIDE DEF k, e
<1>9. /\ challenges' \in [Tokens -> MFACacheEntry \cup {None}]
      /\ \A j \in Tokens : challenges'[j] # None =>
           \/ j # k /\ challenges[j] # None
           \/ j = k /\ RequiresMFA(s)
  BY <1>1, <1>3, <1>5, <1>7, CleanedChallenges DEF mfaVars, MfaTypes, MfaTypeOK
<1>10. /\ undelivered \subseteq undelivered' /\ undelivered' \subseteq undelivered \cup {k}
       /\ held \subseteq held' /\ held' \subseteq held \cup {k}
  BY <1>5, <1>7 DEF mfaVars
<1>11. \A u \in Threads : pc'[u] = "login" =>
         pc[u] = "login" /\ work'[u] = work[u] /\ work[u] \in Tokens /\ work[u] # k
  BY <1>1, <1>4, EndOfRequest DEF LoginInv, LoginsFresh, FreshLogin, MfaTypes, k, Aged
<1>12. MfaTypes'
  <2>1. TotpTypeOK' /\ MfaTypeOK'
    BY <1>1, <1>4, <1>8, <1>9, <1>10 DEF MfaTypes, TotpTypeOK, MfaTypeOK
  <2> QED BY <1>1, <1>4, <1>10, <2>1, EndOfRequest DEF MfaTypes
<1>13. RecordsComplete'
  <2>1. \A u \in Threads : pc'[u] = "write" => pc[u] = "write" /\ work'[u] = work[u]
    BY <1>1, <1>4, EndOfRequest
  <2> QED BY <1>4, <2>1 DEF LoginInv, RecordsComplete, Complete
<1>14. LoginsFresh'
  <2>1. ASSUME NEW u \in Threads, pc'[u] = "login"
        PROVE  FreshLogin(u)'
    <3>1. pc[u] = "login" /\ work'[u] = work[u] /\ work[u] \in Tokens /\ work[u] # k
      BY <1>11, <2>1
    <3>2. challenges'[work[u]] = None /\ work[u] \notin held'
      BY <1>9, <1>10, <3>1 DEF LoginInv, LoginsFresh, FreshLogin, Aged
    <3> QED BY <1>4, <1>8, <3>1, <3>2 DEF LoginInv, LoginsFresh, FreshLogin, MethodEnabled, Aged
  <2>2. \A u, v \in Threads : pc'[u] = "login" /\ pc'[v] = "login" /\ work'[u] = work'[v]
                                 => u = v
    BY <1>11 DEF LoginInv, LoginsFresh, FreshLogin, Aged
  <2>3. \A j \in Tokens : login'[j] = None => j \notin held' /\ challenges'[j] = None
    BY <1>1, <1>4, <1>9, <1>10 DEF LoginInv, LoginsFresh, FreshLogin, Aged
  <2> QED BY <2>1, <2>2, <2>3 DEF LoginsFresh
<1>15. NoSilentBypass'
  <2> SUFFICES ASSUME NEW j \in held', login[j].UInfo.enabled, login[j].sent
               PROVE  j \in answered \cup undelivered'
    BY <1>4 DEF NoSilentBypass
  <2>1. CASE j \in held
    BY <1>10, <2>1 DEF LoginInv, NoSilentBypass
  <2>2. CASE j = k /\ j \notin held
    <3>1. RequiresMFA(s)
      BY <1>1, <2>2 DEF RequiresMFA, k
    <3>2. ~SendChallenge(s, taken)
      BY <1>5, <2>2, <3>1 DEF k
    <3> QED BY <1>6, <1>7, <2>2, <3>1, <3>2
  <2> QED BY <1>10, <2>1, <2>2
<1>16. PendingTokensWithheld'
  <2> SUFFICES ASSUME NEW j \in Tokens, challenges'[j] # None, j \notin undelivered'
               PROVE  j \notin held'
    BY DEF PendingTokensWithheld
  <2>1. CASE j # k
    BY <1>9, <1>10, <2>1 DEF LoginInv, PendingTokensWithheld
  <2>2. CASE j = k
    <3>1. RequiresMFA(s)
      BY <1>9, <2>2
    <3>2. taken
      BY <1>7, <2>2, <3>1
    <3>3. held' = held
      BY <1>5, <1>6, <3>1, <3>2 DEF k
    <3> QED BY <1>1, <2>2, <3>3
  <2> QED BY <2>1, <2>2
<1>17. ChallengesHaveTokens'
  <2> SUFFICES ASSUME NEW j \in Tokens, challenges'[j] # None,
                      settings[login[j].user] # None
               PROVE  j \in rows \cup undelivered' \/ Aged(j)
    BY <1>4 DEF ChallengesHaveTokens, Aged
  <2>1. CASE j # k
    BY <1>9, <1>10, <2>1 DEF LoginInv, ChallengesHaveTokens, Aged
  <2>2. CASE j = k
    BY <1>1, <2>2
  <2> QED BY <2>1, <2>2
<1> QED BY <1>12, <1>13, <1>14, <1>15, <1>16, <1>17 DEF LoginInv

LEMMA AnswerStep ==
  ASSUME LoginInv, NEW k \in Tokens, NEW c \in Codes, Answer(k, c)
  PROVE  LoginInv'
<1>1. /\ challenges[k] # None /\ challenges' = [challenges EXCEPT ![k] = None]
      /\ held' = held \cup {k} /\ answered' = answered \cup {k}
      /\ UNCHANGED <<configured, undelivered, now, totp, secrets, job, accepted, returned,
                     settings, rows, pc, work, login>>
  BY DEF Answer, CompleteMFAChallenge, RightAnswer, totpVars
<1>2. \A j \in Tokens : challenges'[j] # None => j # k /\ challenges'[j] = challenges[j]
  BY <1>1 DEF LoginInv, MfaTypes, MfaTypeOK
<1>3. MfaTypes'
  <2>1. TotpTypeOK' /\ MfaTypeOK'
    BY <1>1 DEF LoginInv, MfaTypes, TotpTypeOK, MfaTypeOK
  <2> QED BY <1>1, <2>1 DEF LoginInv, MfaTypes
<1>4. RecordsComplete'
  BY <1>1 DEF LoginInv, RecordsComplete, Complete
<1>5. LoginsFresh'
  <2>1. ASSUME NEW u \in Threads, pc[u] = "login"
        PROVE  FreshLogin(u)'
    <3>1. work[u] \in Tokens /\ FreshLogin(u)
      BY <2>1 DEF LoginInv, MfaTypes, LoginsFresh
    <3>2. work[u] # k
      BY <1>1, <3>1 DEF FreshLogin, Aged
    <3> QED BY <1>1, <1>2, <3>1, <3>2 DEF FreshLogin, MethodEnabled, Aged
  <2>2. \A j \in Tokens : login[j] = None => j \notin held' /\ challenges'[j] = None
    BY <1>1, <1>2 DEF LoginInv, LoginsFresh
  <2> QED BY <1>1, <2>1, <2>2 DEF LoginInv, LoginsFresh
<1>6. NoSilentBypass'
  BY <1>1 DEF LoginInv, NoSilentBypass
<1>7. PendingTokensWithheld' /\ ChallengesHaveTokens'
  BY <1>1, <1>2 DEF LoginInv, PendingTokensWithheld, ChallengesHaveTokens, Aged
<1> QED BY <1>3, <1>4, <1>5, <1>6, <1>7 DEF LoginInv

LEMMA LogoutStep ==
  ASSUME LoginInv, NEW k \in Tokens, Logout(k)
  PROVE  LoginInv'
<1>1. /\ k \in held /\ rows' = rows \ {k}
      /\ UNCHANGED <<now, totp, secrets, job, accepted, returned, challenges, configured,
                     undelivered, settings, held, pc, work, login, answered>>
  BY DEF Logout, totpVars, mfaVars
<1>2. MfaTypes'
  <2>1. TotpTypeOK' /\ MfaTypeOK'
    BY <1>1 DEF LoginInv, MfaTypes, TotpTypeOK, MfaTypeOK
  <2> QED BY <1>1, <2>1 DEF LoginInv, MfaTypes
<1>3. RecordsComplete'
  BY <1>1 DEF LoginInv, RecordsComplete, Complete
<1>4. LoginsFresh'
  BY <1>1 DEF LoginInv, LoginsFresh, FreshLogin, MethodEnabled, Aged
<1>5. NoSilentBypass' /\ PendingTokensWithheld'
  BY <1>1 DEF LoginInv, NoSilentBypass, PendingTokensWithheld
<1>6. ChallengesHaveTokens'
  BY <1>1 DEF LoginInv, PendingTokensWithheld, ChallengesHaveTokens, Aged
<1> QED BY <1>2, <1>3, <1>4, <1>5, <1>6 DEF LoginInv

\* The archiver leaves the tokens that are not old.
LEMMA CleanStep ==
  ASSUME LoginInv, CleanExpiredTokens
  PROVE  LoginInv'
<1>1. /\ rows' = {k \in rows : ~Aged(k)}
      /\ UNCHANGED <<now, totp, secrets, job, accepted, returned, challenges, configured,
                     undelivered, settings, held, pc, work, login, answered>>
  BY DEF CleanExpiredTokens, totpVars, mfaVars
<1>2. MfaTypes'
  <2>1. TotpTypeOK' /\ MfaTypeOK'
    BY <1>1 DEF LoginInv, MfaTypes, TotpTypeOK, MfaTypeOK
  <2> QED BY <1>1, <2>1 DEF LoginInv, MfaTypes
<1>3. \A k \in Tokens : Aged(k)' <=> Aged(k)
  BY <1>1 DEF Aged
<1>4. RecordsComplete' /\ NoSilentBypass' /\ PendingTokensWithheld'
  BY <1>1 DEF LoginInv, RecordsComplete, Complete, NoSilentBypass, PendingTokensWithheld
<1>5. LoginsFresh'
  <2>1. ASSUME NEW u \in Threads, pc[u] = "login"
        PROVE  FreshLogin(u)'
    <3>1. work[u] \in Tokens /\ FreshLogin(u)
      BY <2>1 DEF LoginInv, MfaTypes, LoginsFresh
    <3> QED BY <1>1, <1>3, <3>1 DEF FreshLogin, MethodEnabled
  <2> QED BY <1>1, <2>1 DEF LoginInv, LoginsFresh
<1>6. ChallengesHaveTokens'
  BY <1>1, <1>3 DEF LoginInv, ChallengesHaveTokens
<1> QED BY <1>2, <1>4, <1>5, <1>6 DEF LoginInv

LEMMA DeleteStep ==
  ASSUME LoginInv, NEW a \in Accounts, DeleteUser(a)
  PROVE  LoginInv'
<1>1. /\ settings' = [settings EXCEPT ![a] = None]
      /\ rows' = {k \in rows : login[k].user # a}
      /\ UNCHANGED <<now, totp, secrets, job, accepted, returned, challenges, configured,
                     undelivered, held, pc, work, login, answered>>
  BY DEF DeleteUser, totpVars, mfaVars
<1>2. \A b \in Accounts : settings'[b] # None => b # a /\ settings'[b] = settings[b]
  BY <1>1 DEF LoginInv, MfaTypes
<1>3. \A k \in Tokens : login[k] # None => login[k].user \in Accounts
  BY DEF LoginInv, MfaTypes, LoginRecord
<1>4. MfaTypes'
  <2>1. TotpTypeOK' /\ MfaTypeOK'
    BY <1>1 DEF LoginInv, MfaTypes, TotpTypeOK, MfaTypeOK
  <2> QED BY <1>1, <2>1 DEF LoginInv, MfaTypes
<1>5. RecordsComplete'
  BY <1>1, <1>2 DEF LoginInv, RecordsComplete, Complete
<1>6. LoginsFresh'
  <2>1. ASSUME NEW u \in Threads, pc[u] = "login"
        PROVE  FreshLogin(u)'
    <3>1. work[u] \in Tokens /\ FreshLogin(u)
      BY <2>1 DEF LoginInv, MfaTypes, LoginsFresh
    <3> QED BY <1>1, <1>2, <1>3, <3>1 DEF FreshLogin, MethodEnabled, Aged
  <2> QED BY <1>1, <2>1 DEF LoginInv, LoginsFresh
<1>7. NoSilentBypass' /\ PendingTokensWithheld'
  BY <1>1 DEF LoginInv, NoSilentBypass, PendingTokensWithheld
<1>8. ChallengesHaveTokens'
  <2> SUFFICES ASSUME NEW k \in Tokens, challenges[k] # None,
                      settings'[login[k].user] # None
               PROVE  k \in rows' \cup undelivered \/ Aged(k)
    BY <1>1 DEF ChallengesHaveTokens, Aged
  <2>1. login[k] # None
    BY DEF LoginInv, LoginsFresh
  <2>2. login[k].user # a /\ settings[login[k].user] # None
    BY <1>2, <1>3, <2>1
  <2> QED BY <1>1, <2>2 DEF LoginInv, ChallengesHaveTokens, Aged
<1> QED BY <1>4, <1>5, <1>6, <1>7, <1>8 DEF LoginInv

LEMMA RestartStep ==
  ASSUME LoginInv, NEW channels \in SUBSET Channels, Restart(channels)
  PROVE  LoginInv'
<1>1. /\ totp' = [a \in Accounts |-> None] /\ job' = [t \in Threads |-> None]
      /\ challenges' = [k \in Tokens |-> None] /\ configured' = channels
      /\ pc' = [t \in Threads |-> "idle"] /\ work' = [t \in Threads |-> None]
      /\ UNCHANGED <<now, secrets, accepted, returned, undelivered, settings, rows, held,
                     login, answered>>
  BY DEF Restart
<1>2. MfaTypes'
  <2>1. TotpTypeOK' /\ MfaTypeOK'
    BY <1>1 DEF LoginInv, MfaTypes, TotpTypeOK, MfaTypeOK
  <2> QED BY <1>1, <2>1 DEF LoginInv, MfaTypes
<1>3. RecordsComplete'
  BY <1>1 DEF LoginInv, RecordsComplete, Complete
<1>4. LoginsFresh' /\ PendingTokensWithheld' /\ ChallengesHaveTokens'
  BY <1>1 DEF LoginInv, LoginsFresh, PendingTokensWithheld, ChallengesHaveTokens, Aged
<1>5. NoSilentBypass'
  BY <1>1 DEF LoginInv, NoSilentBypass
<1> QED BY <1>2, <1>3, <1>4, <1>5 DEF LoginInv

\* Every user starts with multi-factor authentication off.
LEMMA LoginInvInit == Init => LoginInv
<1> SUFFICES ASSUME Init PROVE LoginInv
  OBVIOUS
<1>1. NewSettings \in Settings /\ ~NewSettings.enabled
  BY DEF NewSettings, Settings
<1>2. TotpTypeOK
  BY TotpAssumption DEF Init, TotpInit, TotpTypeOK
<1>3. MfaTypeOK
  BY DEF Init, MfaInit, MfaTypeOK
<1>4. /\ now = 0 /\ settings = [a \in Accounts |-> NewSettings]
      /\ rows = {} /\ held = {} /\ answered = {}
      /\ pc = [t \in Threads |-> "idle"] /\ work = [t \in Threads |-> None]
      /\ login = [k \in Tokens |-> None] /\ challenges = [k \in Tokens |-> None]
  BY DEF Init, MfaInit
<1>5. MfaTypes
  BY <1>1, <1>2, <1>3, <1>4 DEF MfaTypes
<1>6. RecordsComplete
  BY <1>1, <1>4 DEF RecordsComplete, Complete
<1>7. LoginsFresh /\ NoSilentBypass /\ PendingTokensWithheld /\ ChallengesHaveTokens
  BY <1>4 DEF LoginsFresh, NoSilentBypass, PendingTokensWithheld, ChallengesHaveTokens
<1> QED BY <1>5, <1>6, <1>7 DEF LoginInv

\* One step, the steps of enrolments and validations included.
LEMMA LoginInvNext == LoginInv /\ [Next]_vars => LoginInv'
<1> SUFFICES ASSUME LoginInv, [Next]_vars PROVE LoginInv'
  OBVIOUS
<1>0. TotpTypeOK /\ now \in Nat /\ (UNCHANGED totpVars => TotpTypeOK')
  BY DEF LoginInv, MfaTypes, totpVars, TotpTypeOK
<1>1. ASSUME NEW t \in Threads, Enroll(t)
      PROVE  LoginInv'
  <2>1. TotpTypeOK' /\ now' \in Nat /\ now <= now' /\ UNCHANGED <<mfaVars, sysVars>>
    BY <1>0, <1>1, TotpStepType DEF Enroll
  <2> QED BY <2>1, OtherStep
<1>2. ASSUME NEW a \in Accounts, NEW n \in Numbers, NEW c \in Codes,
             ValidateNumber(a, n, c) \/ CompleteNumber(a, n, c)
      PROVE  LoginInv'
  <2>1. TotpTypeOK' /\ now' \in Nat /\ now <= now' /\ UNCHANGED <<mfaVars, sysVars>>
    BY <1>0, <1>2 DEF ValidateNumber, CompleteNumber
  <2> QED BY <2>1, OtherStep
<1>3. CASE Tick /\ UNCHANGED <<smsVars, totpVars, mfaVars, sysVars>>
  <2>1. TotpTypeOK' /\ now' \in Nat /\ now <= now' /\ UNCHANGED <<mfaVars, sysVars>>
    BY <1>0, <1>3 DEF Tick
  <2> QED BY <2>1, OtherStep
<1>4. CASE UNCHANGED vars
  <2>1. TotpTypeOK' /\ now' \in Nat /\ now <= now' /\ UNCHANGED <<mfaVars, sysVars>>
    BY <1>0, <1>4 DEF vars
  <2> QED BY <2>1, OtherStep
<1> QED
  BY <1>1, <1>2, <1>3, <1>4, ChangeStep, SubChangeStep, UpdateStep, LoginStep, AnswerLogin,
     AnswerStep, LogoutStep, CleanStep, DeleteStep, RestartStep DEF Next

\* The invariant of the logins: every copy of a user's record has what its
\* method needs, and an unanswered login's token is its own.
THEOREM LoginInvariance == Spec => []LoginInv
BY LoginInvInit, LoginInvNext, PTL DEF Spec

\* For any number of accounts, tokens and threads, and whatever changes,
\* deletions and restarts are interleaved: a login that multi-factor
\* authentication applies to gets its token by the right answer, or because the
\* provider did not take the message.
THEOREM NeverSilentBypass == Spec => []NoSilentBypass
<1>1. LoginInv => NoSilentBypass
  BY DEF LoginInv
<1> QED BY <1>1, LoginInvariance, PTL

\* The token behind an open challenge whose code went out is with no client.
THEOREM PendingTokensAlwaysWithheld == Spec => []PendingTokensWithheld
<1>1. LoginInv => PendingTokensWithheld
  BY DEF LoginInv
<1> QED BY <1>1, LoginInvariance, PTL

\* A challenge of a user who still exists is about a token in the table, unless
\* the login that could not be challenged gave it away or the archiver found it
\* too old.
THEOREM ChallengesAlwaysHaveTokens == Spec => []ChallengesHaveTokens
<1>1. LoginInv => ChallengesHaveTokens
  BY DEF LoginInv
<1> QED BY <1>1, LoginInvariance, PTL

-----------------------------------------------------------------------------
(* Secrets that have been proven                                            *)

\* Requests come one after the other.
OneThread == \A t, u \in Threads : t = u

\* No other request changes the entry of an account while one of its requests is
\* between the tests of ContinueValidation and the update: what a lock over both would
\* guarantee.
Untouched ==
  \A t \in Threads : job[t] # None /\ job[t].op # "erase" /\ job'[t] = job[t]
                        => totp'[job[t].user] = totp[job[t].user]

UpdatesFollowTests == [][Untouched]_vars

TwoCodes(x) == \E c, d \in accepted[x] : c # d

Proven(x) == x \in returned /\ TwoCodes(x)

\* A secret in a user's record, or about to be written there, is proven.
SecretsProven ==
  /\ \A a \in Accounts : settings[a] # None /\ settings[a].secret # None
                           => Proven(settings[a].secret)
  /\ \A t \in Threads : pc[t] = "write" /\ work[t].record.secret # None
                          => Proven(work[t].record.secret)

\* An enrolment has as many codes as it says ...
EnrolmentsCounted ==
  \A a \in Accounts : totp[a] # None =>
    /\ totp[a].Verifications = 1 => totp[a].LastCode \in accepted[totp[a].Secret]
    /\ totp[a].Done => TwoCodes(totp[a].Secret)

\* ... and the request that is about to change it has tested it as it is.
JobsCurrent ==
  \A t \in Threads : job[t] # None /\ job[t].op # "erase" /\ totp[job[t].user] # None =>
    LET e == totp[job[t].user]
    IN /\ job[t].code \in accepted[e.Secret]
       /\ job[t].op = "first" => e.Verifications = 0
       /\ job[t].op = "second" => e.Verifications = 1 /\ e.LastCode # job[t].code

EnrolmentInv == SecretsProven /\ EnrolmentsCounted /\ JobsCurrent

\* Codes that have been accepted and secrets that have been returned stay so.
Grows ==
  /\ \A x \in Secrets : accepted[x] \subseteq accepted'[x]
  /\ returned \subseteq returned'

\* A request that goes on after its test finds the entry that it has tested.
LEMMA JobsKept ==
  ASSUME TotpTypeOK, JobsCurrent, Grows, [Untouched]_vars, NEW t \in Threads, job'[t] = job[t]
  PROVE  job'[t] # None /\ job'[t].op # "erase" /\ totp'[job'[t].user] # None =>
           LET e == totp'[job'[t].user]
           IN /\ job'[t].code \in accepted'[e.Secret]
              /\ job'[t].op = "first" => e.Verifications = 0
              /\ job'[t].op = "second" => e.Verifications = 1 /\ e.LastCode # job'[t].code
<1> SUFFICES ASSUME job[t] # None, job[t].op # "erase", totp'[job[t].user] # None
             PROVE  LET e == totp'[job[t].user]
                    IN /\ job[t].code \in accepted'[e.Secret]
                       /\ job[t].op = "first" => e.Verifications = 0
                       /\ job[t].op = "second" => e.Verifications = 1 /\ e.LastCode # job[t].code
  OBVIOUS
<1>1. totp'[job[t].user] = totp[job[t].user]
  BY DEF Untouched, vars, totpVars
<1>2. totp[job[t].user].Secret \in Secrets
  BY <1>1 DEF TotpTypeOK, Entry, Job
<1> QED BY <1>1, <1>2 DEF JobsCurrent, Grows

LEMMA ProvenStays ==
  ASSUME TotpTypeOK, Grows, NEW x
  PROVE  /\ x \in Secrets /\ TwoCodes(x) => TwoCodes(x)'
         /\ Proven(x) => Proven(x)'
BY DEF TotpTypeOK, Grows, Proven, TwoCodes

\* A step that writes what has been read before.
LEMMA SecretsStay ==
  ASSUME LoginInv, SecretsProven, Grows,
         \A a \in Accounts : settings'[a] # None =>
           \/ settings[a] # None /\ settings'[a] = settings[a]
           \/ \E t \in Threads : pc[t] = "write" /\ settings'[a] = work[t].record,
         \A t \in Threads : pc'[t] = "write" => pc[t] = "write" /\ work'[t] = work[t]
  PROVE  SecretsProven'
<1>1. TotpTypeOK
  BY DEF LoginInv, MfaTypes
<1>2. ASSUME NEW a \in Accounts, settings'[a] # None, settings'[a].secret # None
      PROVE  Proven(settings'[a].secret)
  BY <1>2 DEF SecretsProven
<1>3. ASSUME NEW t \in Threads, pc'[t] = "write", work'[t].record.secret # None
      PROVE  Proven(work'[t].record.secret)
  BY <1>3 DEF SecretsProven
<1> QED BY <1>1, <1>2, <1>3, ProvenStays DEF SecretsProven, Proven, TwoCodes

\* A step that is to write a record with a proven secret.
LEMMA WriteBackProven ==
  ASSUME LoginInv, SecretsProven, Grows, NEW t \in Threads, NEW a \in Accounts,
         NEW s \in Settings, WriteBack(t, a, s),
         s.secret # None => Proven(s.secret)'
  PROVE  SecretsProven'
<1> DEFINE w == [user |-> a, record |-> s]
<1>1. TotpTypeOK
  BY DEF LoginInv, MfaTypes
<1>2. w.record = s
  OBVIOUS
<1>3. /\ pc' = [pc EXCEPT ![t] = "write"] /\ work' = [work EXCEPT ![t] = w]
      /\ UNCHANGED settings
  BY DEF WriteBack
<1> HIDE DEF w
<1>4. /\ work'[t] = w
      /\ \A u \in Threads : u # t => pc'[u] = pc[u] /\ work'[u] = work[u]
  BY <1>3 DEF LoginInv, MfaTypes
<1>5. ASSUME NEW b \in Accounts, settings[b] # None, settings[b].secret # None
      PROVE  Proven(settings[b].secret)
  BY <1>5 DEF SecretsProven
<1>6. ASSUME NEW u \in Threads, u # t, pc[u] = "write", work[u].record.secret # None
      PROVE  Proven(work[u].record.secret)
  BY <1>6 DEF SecretsProven
<1>7. ASSUME NEW b \in Accounts, settings'[b] # None, settings'[b].secret # None
      PROVE  Proven(settings[b].secret)'
  <2>1. settings'[b] = settings[b] /\ Proven(settings[b].secret)
    BY <1>3, <1>5, <1>7
  <2> QED BY <1>1, <2>1, ProvenStays, <1>3 DEF Proven, TwoCodes
<1>8. ASSUME NEW u \in Threads, pc'[u] = "write", work'[u].record.secret # None
      PROVE  Proven(work[u].record.secret)'
  <2>1. CASE u = t
    BY <1>2, <1>4, <1>8, <2>1 DEF Proven, TwoCodes
  <2>2. CASE u # t
    <3>1. work'[u] = work[u] /\ Proven(work[u].record.secret)
      BY <1>4, <1>6, <1>8, <2>2
    <3> QED BY <1>1, <3>1, ProvenStays DEF Proven, TwoCodes
  <2> QED BY <2>1, <2>2
<1> QED BY <1>7, <1>8 DEF SecretsProven

\* A step that leaves the enrolments alone.
LEMMA EnrolmentsStay ==
  ASSUME EnrolmentsCounted, JobsCurrent, UNCHANGED <<totp, accepted, job>>
  PROVE  EnrolmentsCounted' /\ JobsCurrent'
BY DEF EnrolmentsCounted, JobsCurrent, TwoCodes

LEMMA ChangeProven ==
  ASSUME LoginInv, EnrolmentInv, [Untouched]_vars, NEW t \in Threads, NEW c \in Accounts,
         NEW a \in Accounts, Change(t, c, a)
  PROVE  EnrolmentInv'
<1> DEFINE s == settings[a]
<1>1. s # None
  BY DEF Change, PutDisable, PutEmail, PutAuthenticator, ResetMFA, PutSms, MayChange
<1>2. s \in Settings /\ Complete(s) /\ TotpTypeOK /\ now \in Nat
  BY <1>1 DEF LoginInv, MfaTypes, RecordsComplete
<1>3. s.secret # None => Proven(s.secret)
  BY <1>1 DEF EnrolmentInv, SecretsProven
<1>4. UNCHANGED totpVars => Grows /\ EnrolmentsCounted' /\ JobsCurrent'
  BY EnrolmentsStay DEF totpVars, Grows, EnrolmentInv
<1>5. ASSUME NEW r \in Settings, r.secret \in {None, s.secret}, WriteBack(t, a, r),
             UNCHANGED totpVars
      PROVE  EnrolmentInv'
  <2>1. r.secret # None => Proven(r.secret)'
    BY <1>3, <1>5 DEF Proven, TwoCodes, totpVars
  <2> QED BY <1>4, <1>5, <2>1, WriteBackProven DEF EnrolmentInv
<1>6. CASE PutDisable(t, c, a)
  <2>1. Disabled(s).secret = None
    BY <1>2 DEF Disabled, Settings
  <2> QED BY <1>2, <1>5, <1>6, <2>1, ChangedRecord DEF PutDisable
<1>7. CASE PutEmail(t, c, a)
  <2>1. ByEmail(s).secret = None
    BY DEF ByEmail
  <2> QED BY <1>2, <1>5, <1>7, <2>1, ChangedRecord DEF PutEmail
<1>8. ASSUME NEW n \in Numbers, PutSms(t, c, a, n)
      PROVE  EnrolmentInv'
  <2>1. BySms(s, n).secret = None
    BY DEF BySms
  <2> QED BY <1>2, <1>5, <1>8, <2>1, ChangedRecord DEF PutSms
<1>9. CASE PutAuthenticator(t, c, a)
  <2>1. CASE s.secret # None
    <3>1. s.secret \in Secrets /\ ByAuthenticator(s, s.secret).secret = s.secret
      BY <1>2, <2>1 DEF Settings, ByAuthenticator
    <3>2. WriteBack(t, a, ByAuthenticator(s, s.secret)) /\ UNCHANGED totpVars
      BY <1>9, <2>1 DEF PutAuthenticator
    <3> QED BY <1>2, <1>5, <3>1, <3>2, ChangedRecord
  <2>2. CASE s.secret = None
    <3> DEFINE x == totp[c].Secret
               r == ByAuthenticator(s, x)
    <3>1. TotpCopy(t, c) /\ WriteBack(t, a, r)
      BY <1>9, <2>2 DEF PutAuthenticator
    <3>2. x \in Secrets
      BY <1>2, <3>1, TotpCopyType
    <3>3. r \in Settings /\ r.secret = x
      BY <1>2, <3>2, ChangedRecord DEF ByAuthenticator
    <3>4. totp[c] # None /\ totp[c].Done
      BY <3>1 DEF TotpCopy, CanComplete, InWindow
    <3>5. TwoCodes(x)
      BY <3>4 DEF EnrolmentInv, EnrolmentsCounted
    <3>6. UNCHANGED <<totp, accepted>> /\ returned' = returned \cup {x}
      BY <3>1 DEF TotpCopy
    <3> HIDE DEF x, r
    <3>7. Grows /\ (x \in returned' /\ \E d, e \in accepted'[x] : d # e)
      BY <3>5, <3>6 DEF Grows, TwoCodes
    <3>8. SecretsProven'
      BY <3>1, <3>3, <3>7, WriteBackProven DEF Proven, TwoCodes, EnrolmentInv
    <3>9. EnrolmentsCounted'
      BY <3>6 DEF EnrolmentInv, EnrolmentsCounted, TwoCodes
    <3>10. JobsCurrent'
      <4>1. job'[t].op = "erase" /\ \A u \in Threads \ {t} : job'[u] = job[u]
        BY <1>2, <3>1 DEF TotpCopy, TotpTypeOK
      <4> QED BY <1>2, <3>7, <4>1, JobsKept DEF EnrolmentInv, JobsCurrent
    <3> QED BY <3>8, <3>9, <3>10 DEF EnrolmentInv
  <2> QED BY <2>1, <2>2
<1>10. CASE ResetMFA(t, c, a)
  <2> DEFINE r == [s EXCEPT !.enabled = FALSE, !.method = None, !.mobile = None]
  <2>1. r \in Settings /\ r.secret = s.secret
    BY <1>2 DEF Settings
  <2>2. WriteBack(t, a, r) /\ UNCHANGED totpVars
    BY <1>10 DEF ResetMFA
  <2> HIDE DEF r
  <2> QED BY <1>5, <2>1, <2>2
<1> QED BY <1>6, <1>7, <1>8, <1>9, <1>10 DEF Change

LEMMA SubChangeProven ==
  ASSUME LoginInv, EnrolmentInv, NEW t \in Threads, NEW a \in Accounts, SubChange(t, a)
  PROVE  EnrolmentInv'
<1> DEFINE s == settings[a]
<1>1. s # None /\ UNCHANGED totpVars
  BY DEF SubChange, SubDisable, SubEmail, SubSms
<1>2. s \in Settings /\ (s.secret # None => Proven(s.secret))
  BY <1>1 DEF LoginInv, MfaTypes, EnrolmentInv, SecretsProven
<1>3. Grows /\ EnrolmentsCounted' /\ JobsCurrent'
  BY <1>1, EnrolmentsStay DEF totpVars, Grows, EnrolmentInv
<1>4. ASSUME NEW r \in Settings, r.secret = s.secret, WriteBack(t, a, r)
      PROVE  EnrolmentInv'
  <2>1. r.secret # None => Proven(r.secret)'
    BY <1>1, <1>2, <1>4 DEF Proven, TwoCodes, totpVars
  <2> QED BY <1>3, <1>4, <2>1, WriteBackProven DEF EnrolmentInv
<1>5. CASE SubDisable(t, a)
  <2> DEFINE r == [s EXCEPT !.enabled = FALSE]
  <2>1. r \in Settings /\ r.secret = s.secret /\ WriteBack(t, a, r)
    BY <1>2, <1>5 DEF Settings, SubDisable
  <2> HIDE DEF r
  <2> QED BY <1>4, <2>1
<1>6. CASE SubEmail(t, a)
  <2> DEFINE r == [s EXCEPT !.enabled = TRUE, !.method = "email"]
  <2>1. r \in Settings /\ r.secret = s.secret /\ WriteBack(t, a, r)
    BY <1>2, <1>6 DEF Settings, Methods, Channels, SubEmail
  <2> HIDE DEF r
  <2> QED BY <1>4, <2>1
<1>7. ASSUME NEW n \in Numbers, NEW c \in Codes, SubSms(t, a, n, c)
      PROVE  EnrolmentInv'
  <2> DEFINE r == [s EXCEPT !.enabled = TRUE, !.method = "sms", !.mobile = n]
  <2>1. r \in Settings /\ r.secret = s.secret
    BY <1>2 DEF Settings, Methods, Channels
  <2>2. WriteBack(t, a, r)
    BY <1>7 DEF SubSms
  <2> HIDE DEF r
  <2> QED BY <1>4, <2>1, <2>2
<1> QED BY <1>5, <1>6, <1>7 DEF SubChange

\* The steps of the only enrolment.
LEMMA EnrolProven ==
  ASSUME LoginInv, EnrolmentInv, [Untouched]_vars, NEW t \in Threads, TotpStep(t),
         UNCHANGED <<settings, pc, work>>
  PROVE  EnrolmentInv'
<1>0. TotpTypeOK
  BY DEF LoginInv, MfaTypes
<1>1. Grows => SecretsProven'
  BY SecretsStay DEF EnrolmentInv
<1>2. ASSUME NEW a \in Accounts, NEW reset, TotpStart(t, a, reset)
      PROVE  EnrolmentInv'
  <2> DEFINE e == [Start |-> now, Done |-> FALSE, Verifications |-> 0,
                   Secret |-> secrets + 1, LastCode |-> None]
  <2>1. /\ job[t] = None /\ totp' = [totp EXCEPT ![a] = e]
        /\ UNCHANGED <<job, accepted, returned>>
    BY <1>2 DEF TotpStart
  <2>2. e.Verifications = 0 /\ e.Done = FALSE
    OBVIOUS
  <2> HIDE DEF e
  <2>3. \A b \in Accounts : totp'[b] = IF b = a THEN e ELSE totp[b]
    BY <1>0, <2>1 DEF TotpTypeOK
  <2>4. EnrolmentsCounted'
    BY <2>1, <2>2, <2>3 DEF EnrolmentInv, EnrolmentsCounted, TwoCodes
  <2>5. Grows
    BY <2>1 DEF Grows
  <2>6. JobsCurrent'
    BY <1>0, <2>1, <2>5, JobsKept DEF EnrolmentInv, JobsCurrent
  <2> QED BY <1>1, <2>4, <2>5, <2>6 DEF EnrolmentInv
<1>3. ASSUME NEW a \in Accounts, NEW index \in 1 .. 2, NEW c \in Codes, TotpTest(t, a, index, c)
      PROVE  EnrolmentInv'
  <2> DEFINE x == totp[a].Secret
             j == [op |-> IF index = 1 THEN "first" ELSE "second", user |-> a, code |-> c]
  <2>1. totp[a] # None /\ x \in Secrets
    BY <1>0, <1>3 DEF TotpTest, InWindow, TotpTypeOK, Entry
  <2>2. /\ job' = [job EXCEPT ![t] = j] /\ UNCHANGED <<totp, returned>>
        /\ accepted' = [accepted EXCEPT ![x] = @ \cup {c}]
        /\ \/ index = 1 /\ totp[a].Verifications = 0
           \/ index = 2 /\ totp[a].Verifications = 1 /\ c # totp[a].LastCode
    BY <1>3 DEF TotpTest
  <2>3. /\ j.user = a /\ j.code = c
        /\ j.op = "first" => index = 1
        /\ j.op = "second" => index # 1
    OBVIOUS
  <2> HIDE DEF j
  <2>4. job'[t] = j /\ \A u \in Threads \ {t} : job'[u] = job[u]
    BY <1>0, <2>2 DEF TotpTypeOK
  <2>5. c \in accepted'[x] /\ Grows
    BY <1>0, <2>1, <2>2 DEF TotpTypeOK, Grows
  <2>6. EnrolmentsCounted'
    <3> SUFFICES ASSUME NEW b \in Accounts, totp[b] # None
                 PROVE  /\ totp[b].Verifications = 1
                             => totp[b].LastCode \in accepted'[totp[b].Secret]
                        /\ totp[b].Done => TwoCodes(totp[b].Secret)'
      BY <2>2 DEF EnrolmentsCounted, TwoCodes
    <3>1. totp[b].Secret \in Secrets
      BY <1>0 DEF TotpTypeOK, Entry
    <3> QED BY <2>2, <2>5, <3>1 DEF Grows, EnrolmentInv, EnrolmentsCounted, TwoCodes
  <2>7. JobsCurrent'
    <3>1. /\ j.code \in accepted'[totp'[j.user].Secret]
          /\ j.op = "first" => totp'[j.user].Verifications = 0
          /\ j.op = "second" => /\ totp'[j.user].Verifications = 1
                                /\ totp'[j.user].LastCode # j.code
      BY <2>2, <2>3, <2>5
    <3> QED BY <1>0, <2>4, <2>5, <3>1, JobsKept DEF EnrolmentInv, JobsCurrent
  <2> QED BY <1>1, <2>5, <2>6, <2>7 DEF EnrolmentInv
<1>4. ASSUME TotpMark(t)
      PROVE  EnrolmentInv'
  <2> DEFINE a == job[t].user
             c == job[t].code
             e == totp[a]
             e1 == [e EXCEPT !.Verifications = e.Verifications + 1, !.LastCode = c]
             e2 == [e EXCEPT !.Done = TRUE]
  <2>1. /\ job[t] # None /\ job[t].op \in {"first", "second"} /\ a \in Accounts
        /\ job' = [job EXCEPT ![t] = None] /\ UNCHANGED <<accepted, returned>>
        /\ e = None => totp' = totp
        /\ e # None /\ job[t].op = "first" => totp' = [totp EXCEPT ![a] = e1]
        /\ e # None /\ job[t].op = "second" => totp' = [totp EXCEPT ![a] = e2]
    BY <1>0, <1>4 DEF TotpMark, TotpTypeOK, Job
  <2>2. e # None => /\ e \in Entry /\ c \in accepted[e.Secret]
                    /\ job[t].op = "first" => e.Verifications = 0
                    /\ job[t].op = "second" => e.Verifications = 1 /\ e.LastCode # c
    BY <1>0, <2>1 DEF TotpTypeOK, EnrolmentInv, JobsCurrent
  <2>3. e # None => /\ e.Verifications = 1 => e.LastCode \in accepted[e.Secret]
                    /\ e.Done => TwoCodes(e.Secret)
    BY <2>1 DEF EnrolmentInv, EnrolmentsCounted
  <2>4. e # None => /\ e1.Secret = e.Secret /\ e1.LastCode = c /\ e1.Done = e.Done
                    /\ e2.Secret = e.Secret /\ e2.LastCode = e.LastCode
                    /\ e2.Verifications = e.Verifications
    BY <2>2 DEF Entry
  <2>5. job'[t] = None /\ \A u \in Threads \ {t} : job'[u] = job[u]
    BY <1>0, <2>1 DEF TotpTypeOK
  <2> HIDE DEF a, c, e, e1, e2
  <2>6. Grows /\ JobsCurrent'
    <3>1. Grows
      BY <2>1 DEF Grows
    <3> QED BY <1>0, <2>5, <3>1, JobsKept DEF EnrolmentInv, JobsCurrent
  <2>7. EnrolmentsCounted'
    <3>1. CASE e = None
      BY <2>1, <3>1 DEF EnrolmentInv, EnrolmentsCounted, TwoCodes
    <3>2. CASE e # None /\ job[t].op = "first"
      <4>1. \A b \in Accounts : totp'[b] = IF b = a THEN e1 ELSE totp[b]
        BY <1>0, <2>1, <3>2 DEF TotpTypeOK
      <4>2. /\ e1.LastCode \in accepted[e1.Secret]
            /\ e1.Done => TwoCodes(e1.Secret)
        BY <2>2, <2>3, <2>4, <3>2
      <4> QED BY <2>1, <4>1, <4>2 DEF EnrolmentInv, EnrolmentsCounted, TwoCodes
    <3>3. CASE e # None /\ job[t].op = "second"
      <4>1. \A b \in Accounts : totp'[b] = IF b = a THEN e2 ELSE totp[b]
        BY <1>0, <2>1, <3>3 DEF TotpTypeOK
      <4>2. e2.LastCode \in accepted[e2.Secret] /\ TwoCodes(e2.Secret)
        BY <2>2, <2>3, <2>4, <3>3 DEF TwoCodes
      <4> QED BY <2>1, <4>1, <4>2 DEF EnrolmentInv, EnrolmentsCounted, TwoCodes
    <3> QED BY <2>1, <3>1, <3>2, <3>3
  <2> QED BY <1>1, <2>6, <2>7 DEF EnrolmentInv
<1>5. ASSUME TotpErase(t)
      PROVE  EnrolmentInv'
  <2>1. /\ totp' = [totp EXCEPT ![job[t].user] = None] /\ job'[t] = None
        /\ \A u \in Threads \ {t} : job'[u] = job[u]
        /\ UNCHANGED <<accepted, returned>>
    BY <1>0, <1>5 DEF TotpErase, TotpTypeOK
  <2>2. \A b \in Accounts : totp'[b] # None => totp'[b] = totp[b]
    BY <1>0, <2>1 DEF TotpTypeOK
  <2>3. EnrolmentsCounted'
    BY <2>1, <2>2 DEF EnrolmentInv, EnrolmentsCounted, TwoCodes
  <2>4. Grows /\ JobsCurrent'
    <3>1. Grows
      BY <2>1 DEF Grows
    <3> QED BY <1>0, <2>1, <3>1, JobsKept DEF EnrolmentInv, JobsCurrent
  <2> QED BY <1>1, <2>3, <2>4 DEF EnrolmentInv
<1> QED BY <1>2, <1>3, <1>4, <1>5 DEF TotpStep

\* One step.
LEMMA EnrolmentNext ==
  LoginInv /\ EnrolmentInv /\ [Untouched]_vars /\ [Next]_vars => EnrolmentInv'
<1> SUFFICES ASSUME LoginInv, EnrolmentInv, [Untouched]_vars, [Next]_vars PROVE EnrolmentInv'
  OBVIOUS
<1>0. ASSUME UNCHANGED totpVars,
             \A a \in Accounts : settings'[a] # None =>
               \/ settings[a] # None /\ settings'[a] = settings[a]
               \/ \E t \in Threads : pc[t] = "write" /\ settings'[a] = work[t].record,
             \A t \in Threads : pc'[t] = "write" => pc[t] = "write" /\ work'[t] = work[t]
      PROVE  EnrolmentInv'
  <2>1. Grows /\ EnrolmentsCounted' /\ JobsCurrent'
    BY <1>0, EnrolmentsStay DEF totpVars, Grows, EnrolmentInv
  <2> QED BY <1>0, <2>1, SecretsStay DEF EnrolmentInv
<1>1. ASSUME NEW t \in Threads, Update(t)
      PROVE  EnrolmentInv'
  <2>1. /\ pc[t] = "write" /\ UNCHANGED totpVars
        /\ \A a \in Accounts : settings'[a] # None =>
             \/ settings[a] # None /\ settings'[a] = settings[a]
             \/ settings'[a] = work[t].record
    BY <1>1 DEF Update, LoginInv, MfaTypes
  <2>2. \A u \in Threads : pc'[u] = "write" => pc[u] = "write" /\ work'[u] = work[u]
    BY <1>1, EndOfRequest DEF Update, LoginInv
  <2> QED BY <1>0, <2>1, <2>2
<1>2. ASSUME NEW t \in Threads, Enroll(t)
      PROVE  EnrolmentInv'
  BY <1>2, EnrolProven DEF Enroll, sysVars
<1>3. ASSUME NEW a \in Accounts, NEW n \in Numbers, NEW c \in Codes,
             ValidateNumber(a, n, c) \/ CompleteNumber(a, n, c)
      PROVE  EnrolmentInv'
  <2>1. UNCHANGED <<totpVars, settings, pc, work>>
    BY <1>3 DEF ValidateNumber, CompleteNumber, sysVars
  <2> QED BY <1>0, <2>1
<1>4. ASSUME NEW t \in Threads, NEW a \in Accounts, NEW k \in Tokens, Login(t, a, k)
      PROVE  EnrolmentInv'
  <2>1. UNCHANGED <<totpVars, settings>>
        /\ pc' = [pc EXCEPT ![t] = "login"] /\ work' = [work EXCEPT ![t] = k]
    BY <1>4 DEF Login
  <2>2. \A u \in Threads : pc'[u] = "write" => pc[u] = "write" /\ work'[u] = work[u]
    BY <2>1 DEF LoginInv, MfaTypes
  <2> QED BY <1>0, <2>1, <2>2
<1>5. ASSUME NEW t \in Threads, NEW c \in Codes, NEW taken \in BOOLEAN, LoginAnswer(t, c, taken)
      PROVE  EnrolmentInv'
  <2>1. UNCHANGED <<totpVars, settings>>
        /\ pc' = [pc EXCEPT ![t] = "idle"] /\ work' = [work EXCEPT ![t] = None]
    BY <1>5 DEF LoginAnswer
  <2>2. \A u \in Threads : pc'[u] = "write" => pc[u] = "write" /\ work'[u] = work[u]
    BY <2>1, EndOfRequest DEF LoginInv
  <2> QED BY <1>0, <2>1, <2>2
<1>6. ASSUME NEW k \in Tokens, NEW c \in Codes, Answer(k, c)
      PROVE  EnrolmentInv'
  <2>1. UNCHANGED <<totpVars, settings, pc, work>>
    BY <1>6 DEF Answer
  <2> QED BY <1>0, <2>1
<1>7. ASSUME CleanExpiredTokens \/ \E k \in Tokens : Logout(k)
      PROVE  EnrolmentInv'
  <2>1. UNCHANGED <<totpVars, settings, pc, work>>
    BY <1>7 DEF CleanExpiredTokens, Logout
  <2> QED BY <1>0, <2>1
<1>8. ASSUME NEW a \in Accounts, DeleteUser(a)
      PROVE  EnrolmentInv'
  <2>1. UNCHANGED <<totpVars, pc, work>>
        /\ \A b \in Accounts : settings'[b] # None => settings'[b] = settings[b]
    BY <1>8 DEF DeleteUser, LoginInv, MfaTypes
  <2> QED BY <1>0, <2>1
<1>9. ASSUME NEW channels \in SUBSET Channels, Restart(channels)
      PROVE  EnrolmentInv'
  <2>1. /\ totp' = [a \in Accounts |-> None] /\ job' = [t \in Threads |-> None]
        /\ pc' = [t \in Threads |-> "idle"] /\ UNCHANGED <<accepted, returned, settings>>
    BY <1>9 DEF Restart
  <2>2. Grows /\ EnrolmentsCounted' /\ JobsCurrent'
    BY <2>1 DEF Grows, EnrolmentsCounted, JobsCurrent
  <2> QED BY <2>1, <2>2, SecretsStay DEF EnrolmentInv
<1>10. CASE UNCHANGED <<totpVars, sysVars>>
  <2>1. UNCHANGED <<totpVars, settings, pc, work>>
    BY <1>10 DEF sysVars
  <2> QED BY <1>0, <2>1
<1>11. CASE (Tick /\ UNCHANGED <<smsVars, totpVars, mfaVars, sysVars>>) \/ UNCHANGED vars
  BY <1>10, <1>11 DEF vars
<1> QED
  BY <1>1, <1>2, <1>3, <1>4, <1>5, <1>6, <1>7, <1>8, <1>9, <1>11, ChangeProven,
     SubChangeProven DEF Next

\* Two accepted codes are two.
LEMMA TwoCodesCounted ==
  ASSUME TotpTypeOK, NEW x \in Secrets, TwoCodes(x)
  PROVE  Cardinality(accepted[x]) >= 2
<1>1. accepted[x] \subseteq Codes
  BY DEF TotpTypeOK
<1>2. PICK c \in accepted[x], d \in accepted[x] : c # d
  BY DEF TwoCodes
<1>3. IsFiniteSet(accepted[x])
  BY <1>1, TotpAssumption, FS_Subset
<1>4. {c, d} \subseteq accepted[x] /\ Cardinality({c, d}) = 2
  <2>1. IsFiniteSet({c}) /\ Cardinality({c}) = 1
    BY FS_Singleton
  <2>2. {c, d} = {c} \cup {d} /\ d \notin {c}
    BY <1>2
  <2>3. Cardinality({c} \cup {d}) = Cardinality({c}) + 1
    BY <2>1, <2>2, FS_AddElement
  <2> QED BY <2>1, <2>2, <2>3
<1>5. Cardinality({c, d}) <= Cardinality(accepted[x])
  BY <1>3, <1>4, FS_Subset
<1>6. Cardinality(accepted[x]) \in Nat
  BY <1>3, FS_CardinalityType
<1> QED BY <1>4, <1>5, <1>6

\* When nothing touches an enrolment while ContinueValidation is between its tests and
\* its update, the secret behind an account that relies on its authenticator has
\* been returned by CompleteValidation, after two different codes of it were
\* accepted: for any number of accounts, secrets and threads.
THEOREM SecretsAlwaysConfirmed == Spec /\ UpdatesFollowTests => []SecretsConfirmed
<1>1. Init => EnrolmentInv
  <2> SUFFICES ASSUME Init PROVE EnrolmentInv
    OBVIOUS
  <2>1. /\ \A a \in Accounts : settings[a] = NewSettings /\ totp[a] = None
        /\ \A t \in Threads : pc[t] = "idle" /\ job[t] = None
    BY DEF Init, TotpInit
  <2>2. NewSettings.secret = None
    BY DEF NewSettings
  <2> QED BY <2>1, <2>2 DEF EnrolmentInv, SecretsProven, EnrolmentsCounted, JobsCurrent
<1>2. LoginInv /\ EnrolmentInv => SecretsConfirmed
  <2> SUFFICES ASSUME LoginInv, EnrolmentInv, NEW a \in Accounts, settings[a] # None,
                      settings[a].enabled, settings[a].method = "authenticator"
               PROVE  /\ settings[a].secret \in returned
                      /\ Cardinality(accepted[settings[a].secret]) >= 2
    BY DEF SecretsConfirmed
  <2>1. TotpTypeOK /\ settings[a].secret # None
    BY DEF LoginInv, MfaTypes, RecordsComplete, Complete
  <2>2. settings[a].secret \in returned /\ TwoCodes(settings[a].secret)
    BY <2>1 DEF EnrolmentInv, SecretsProven, Proven
  <2>3. settings[a].secret \in Secrets
    BY <2>1, <2>2 DEF TotpTypeOK
  <2> QED BY <2>1, <2>2, <2>3, TwoCodesCounted
<1>3. LoginInv /\ EnrolmentInv /\ [Untouched]_vars /\ [Next]_vars => EnrolmentInv'
  BY EnrolmentNext
<1> QED BY <1>1, <1>2, <1>3, LoginInvInit, LoginInvNext, PTL DEF Spec, UpdatesFollowTests

\* With one thread nothing does.
THEOREM OneThreadFollowsTests == Spec /\ OneThread => UpdatesFollowTests
<1>1. OneThread /\ LoginInv /\ [Next]_vars => [Untouched]_vars
  <2> SUFFICES ASSUME OneThread, LoginInv, Next, NEW t \in Threads, job[t] # None,
                      job'[t] = job[t]
               PROVE  totp' = totp
    BY DEF Untouched
  <2>0. TotpTypeOK /\ \A u \in Threads : u = t
    BY DEF LoginInv, MfaTypes, OneThread
  <2>1. CASE Enroll(t)
    BY <2>0, <2>1 DEF Enroll, TotpStep, TotpStart, TotpTest, TotpMark, TotpErase, TotpTypeOK
  <2>2. ASSUME NEW c \in Accounts, NEW a \in Accounts, Change(t, c, a)
        PROVE  totp' = totp
    BY <2>2 DEF Change, PutDisable, PutEmail, PutAuthenticator, ResetMFA, PutSms, TotpCopy,
                totpVars
  <2>3. ASSUME NEW a \in Accounts, SubChange(t, a)
        PROVE  totp' = totp
    BY <2>3 DEF SubChange, SubDisable, SubEmail, SubSms, totpVars
  <2>4. ASSUME NEW channels \in SUBSET Channels, Restart(channels)
        PROVE  FALSE
    BY <2>0, <2>4 DEF Restart
  <2> QED BY <2>0, <2>1, <2>2, <2>3, <2>4 DEF Next, Update, ValidateNumber, CompleteNumber,
             Login, LoginAnswer, Answer, Logout, CleanExpiredTokens, DeleteUser, totpVars
<1>2. OneThread => OneThread'
  BY DEF OneThread
<1> QED BY <1>1, <1>2, LoginInvInit, LoginInvNext, PTL DEF Spec, UpdatesFollowTests
-----------------------------------------------------------------------------
(* The numbers.  Induction over the list of SMSSender takes the form of     *)
(* sets of natural numbers: the provers cannot instantiate a predicate.     *)

\* A set of natural numbers has a least element.
LEMMA LeastNatural ==
  ASSUME NEW S \in SUBSET Nat, S # {}
  PROVE  \E m \in S : \A k \in S : m <= k
<1> DEFINE Less == {ss \in Nat \X Nat : ss[1] < ss[2]}
<1>1. IsWellFoundedOn(Less, Nat)
  BY NatLessThanWellFounded DEF OpToRel
<1> HIDE DEF Less
<1>2. PICK m \in S : \A k \in S : <<k, m>> \notin Less
  BY <1>1, WFMin
<1>3. \A j, k \in Nat : j < k => <<j, k>> \in Less
  BY DEF Less
<1>4. ASSUME NEW k \in S PROVE m <= k
  <2>1. k \in Nat /\ m \in Nat /\ <<k, m>> \notin Less
    BY <1>2
  <2>2. ~(k < m)
    BY <1>3, <2>1
  <2> QED BY <2>1, <2>2
<1> QED BY <1>4

\* Induction for sets of natural numbers.
LEMMA UpTo ==
  ASSUME NEW n \in Nat, NEW S \in SUBSET Nat, 0 \in S,
         \A i \in Nat : i \in S /\ i < n => i + 1 \in S
  PROVE  0 .. n \subseteq S
<1> SUFFICES ASSUME NEW j \in 0 .. n, j \notin S PROVE FALSE
  OBVIOUS
<1> DEFINE T == {i \in 0 .. n : i \notin S}
<1>1. PICK m \in T : \A k \in T : m <= k
  <2>1. T \in SUBSET Nat /\ T # {}
    OBVIOUS
  <2> HIDE DEF T
  <2> QED BY <2>1, LeastNatural
<1>2. m \in Nat \ {0} /\ m <= n /\ m - 1 \in S
  <2>1. m \in 0 .. n /\ m \notin S /\ m # 0
    OBVIOUS
  <2>2. m - 1 \in 0 .. n
    BY <2>1
  <2>3. m - 1 \notin T
    BY <1>1, <2>1, <2>2
  <2> QED BY <2>1, <2>2, <2>3
<1>3. m \in S
  BY <1>2
<1> QED BY <1>3

\* The entry that SelectInSeq finds.
LEMMA FirstOf ==
  ASSUME NEW s, Len(s) \in Nat, NEW I \in SUBSET (1 .. Len(s)), NEW i,
         i = IF I # {} THEN Min(I) ELSE 0, i # 0
  PROVE  i \in I
<1>1. I # {} /\ I \in SUBSET Nat
  OBVIOUS
<1>2. \E m \in I : \A k \in I : m <= k
  BY <1>1, LeastNatural
<1> QED BY <1>1, <1>2 DEF Min

\* A valid number has a validated entry of the account.
LEMMA NumberValid ==
  ASSUME sms \in Seq(SMSValidationCacheEntry), NEW n, NEW a, IsNumberValid(n, a)
  PROVE  \E i \in 1 .. Len(sms) : sms[i].number = n /\ sms[i].user = a /\ sms[i].validated
<1> DEFINE I == {i \in 1 .. Len(sms) : sms[i].number = n /\ sms[i].user = a}
           j == IF I # {} THEN Min(I) ELSE 0
<1>1. j # 0 /\ sms[j].validated
  BY DEF IsNumberValid, SelectInSeq
<1>2. j \in I
  <2>1. I \in SUBSET (1 .. Len(sms)) /\ Len(sms) \in Nat
    OBVIOUS
  <2> HIDE DEF I
  <2> QED BY <1>1, <2>1, FirstOf
<1> QED BY <1>1, <1>2

\* Completing a validation marks one entry of the account and the number.
LEMMA NumberCompleted ==
  ASSUME sms \in Seq(SMSValidationCacheEntry), NEW a, NEW n, NEW c, SmsComplete(a, n, c)
  PROVE  \E i \in 1 .. Len(sms) :
           /\ sms[i].number = n /\ sms[i].user = a
           /\ sms' = [sms EXCEPT ![i].validated = TRUE]
<1> DEFINE I == {i \in 1 .. Len(sms) : sms[i].code = c /\ sms[i].number = n /\ sms[i].user = a}
           j == IF I # {} THEN Min(I) ELSE 0
<1>1. j # 0 /\ sms' = [sms EXCEPT ![j].validated = TRUE]
  BY DEF SmsComplete, SelectInSeq
<1>2. j \in I
  <2>1. I \in SUBSET (1 .. Len(sms)) /\ Len(sms) \in Nat
    OBVIOUS
  <2> HIDE DEF I
  <2> QED BY <1>1, <2>1, FirstOf
<1> QED BY <1>1, <1>2

\* CleanCache keeps entries of the list and adds none.
LEMMA CleanKeeps ==
  ASSUME NEW E, NEW s \in Seq(E)
  PROVE  CleanCache(s) \in Seq({s[i] : i \in 1 .. Len(s)})
<1> DEFINE R == {s[i] : i \in 1 .. Len(s)}
           Body(f, i) == IF i = 0 THEN << >>
                         ELSE IF now - s[i].created > SmsLife THEN f[i - 1]
                         ELSE Append(f[i - 1], s[i])
           Works(f, m) == /\ f \in [0 .. m -> Seq(R)]
                          /\ \A i \in 0 .. m : f[i] = Body(f, i)
           M == {m \in 0 .. Len(s) : \E f \in [0 .. m -> Seq(R)] : Works(f, m)}
<1>0. Len(s) \in Nat /\ \A i \in 1 .. Len(s) : s[i] \in R
  OBVIOUS
<1>1. 0 \in M
  <2> DEFINE f0 == [i \in 0 .. 0 |-> << >>]
  <2>1. f0 \in [0 .. 0 -> Seq(R)]
    OBVIOUS
  <2>2. \A i \in 0 .. 0 : f0[i] = Body(f0, i)
    OBVIOUS
  <2>3. Works(f0, 0)
    BY <2>1, <2>2
  <2> HIDE DEF f0, R
  <2> QED BY <1>0, <2>1, <2>3
<1>2. ASSUME NEW m \in Nat, m \in M, m < Len(s) PROVE m + 1 \in M
  <2>1. PICK f \in [0 .. m -> Seq(R)] : Works(f, m)
    BY <1>2
  <2>2. Body(f, m + 1) \in Seq(R)
    <3>0. m \in 0 .. m /\ m + 1 \in 1 .. Len(s)
      BY <1>0, <1>2
    <3>1. f[m] \in Seq(R) /\ s[m + 1] \in R
      <4> HIDE DEF R, Works
      <4> QED BY <1>0, <2>1, <3>0
    <3> HIDE DEF R
    <3> QED BY <1>2, <3>1
  <2> DEFINE g == [i \in 0 .. (m + 1) |-> IF i = m + 1 THEN Body(f, m + 1) ELSE f[i]]
  <2>3. g \in [0 .. (m + 1) -> Seq(R)]
    <3> HIDE DEF R, Body
    <3> QED BY <1>2, <2>1, <2>2
  <2>4. ASSUME NEW i \in 0 .. (m + 1) PROVE g[i] = Body(g, i)
    <3>1. CASE i = m + 1
      <4>1. g[m] = f[m] /\ g[i] = Body(f, m + 1)
        <5> HIDE DEF Body
        <5> QED BY <1>2, <3>1
      <4> HIDE DEF g
      <4> QED BY <1>2, <3>1, <4>1
    <3>2. CASE i # m + 1
      <4>1. g[i] = f[i] /\ f[i] = Body(f, i) /\ (i # 0 => g[i - 1] = f[i - 1])
        <5> HIDE DEF Body
        <5> QED BY <1>2, <2>1, <2>4, <3>2
      <4> HIDE DEF g
      <4> QED BY <4>1
    <3> QED BY <3>1, <3>2
  <2>5. Works(g, m + 1)
    <3> HIDE DEF g, Body
    <3> QED BY <2>3, <2>4
  <2>6. m + 1 \in 0 .. Len(s)
    BY <1>0, <1>2
  <2> HIDE DEF g, Works, R
  <2> QED BY <2>3, <2>5, <2>6
<1>3. Len(s) \in M
  <2>1. M \in SUBSET Nat
    OBVIOUS
  <2> HIDE DEF M
  <2>2. \A i \in Nat : i \in M /\ i < Len(s) => i + 1 \in M
    BY <1>2
  <2>3. 0 .. Len(s) \subseteq M
    BY <1>0, <1>1, <2>1, <2>2, UpTo
  <2> QED BY <1>0, <2>3
<1>4. PICK f \in [0 .. Len(s) -> Seq(R)] : Works(f, Len(s))
  BY <1>3
<1> DEFINE Clean == CHOOSE h : h = [i \in 0 .. Len(s) |-> Body(h, i)]
<1>5. Clean = [i \in 0 .. Len(s) |-> Body(Clean, i)]
  <2>1. f = [i \in 0 .. Len(s) |-> Body(f, i)]
    <3> HIDE DEF Body
    <3> QED BY <1>4
  <2> HIDE DEF Body
  <2> QED BY <2>1
<1>6. CleanCache(s) = Clean[Len(s)]
  BY DEF CleanCache
<1> HIDE DEF Clean
<1>7. {i \in 0 .. Len(s) : Clean[i] \in Seq(R)} = 0 .. Len(s)
  <2> DEFINE N == {i \in 0 .. Len(s) : Clean[i] \in Seq(R)}
  <2>1. 0 \in N
    BY <1>0, <1>5
  <2>2. ASSUME NEW i \in Nat, i \in N, i < Len(s) PROVE i + 1 \in N
    <3>0. i + 1 \in 0 .. Len(s) /\ i + 1 \in 1 .. Len(s) /\ i \in 0 .. Len(s)
      BY <1>0, <2>2
    <3>1. Clean[i] \in Seq(R) /\ s[i + 1] \in R
      <4> HIDE DEF R
      <4> QED BY <1>0, <2>2, <3>0
    <3>3. Clean[i + 1] = Body(Clean, i + 1)
      <4> HIDE DEF Body
      <4> QED BY <1>5, <3>0
    <3>2. Body(Clean, i + 1) \in Seq(R)
      <4> HIDE DEF R
      <4> QED BY <2>2, <3>1
    <3> HIDE DEF Body, R
    <3> QED BY <3>0, <3>3, <3>2
  <2>3. N \in SUBSET Nat
    OBVIOUS
  <2>4. 0 .. Len(s) \subseteq N
    <3> HIDE DEF N
    <3> QED BY <1>0, <2>1, <2>2, <2>3, UpTo
  <2> QED BY <2>4
<1>8. Clean[Len(s)] \in Seq(R)
  <2> HIDE DEF R
  <2> QED BY <1>0, <1>7
<1> QED BY <1>6, <1>8

\* The list holds validations, and one that is marked has been completed.
ListCompleted ==
  /\ SmsTypeOK
  /\ \A i \in 1 .. Len(sms) : sms[i].validated => <<sms[i].user, sms[i].number>> \in completed

\* A record that relies on a number relies on one that has been reached.
Reached(s) ==
  s.enabled /\ s.method = "sms" => \E c \in Accounts : <<c, s.mobile>> \in completed

RecordsReached ==
  /\ \A a \in Accounts : settings[a] # None => Reached(settings[a])
  /\ \A t \in Threads : pc[t] = "write" => Reached(work[t].record)

\* The inductive invariant of the numbers.
NumbersInv == ListCompleted /\ RecordsReached

LEMMA ListStarted ==
  ASSUME ListCompleted, now \in Nat, NEW a \in Accounts, NEW n \in Numbers,
         NEW c \in Codes, SmsStart(a, n, c)
  PROVE  ListCompleted'
<1> DEFINE kept == CleanCache(sms)
           e == [user |-> a, number |-> n, code |-> c, created |-> now, validated |-> FALSE]
           S == {sms[i] : i \in 1 .. Len(sms)}
<1>1. sms \in Seq(SMSValidationCacheEntry) /\ completed \subseteq Accounts \X Numbers
  BY DEF ListCompleted, SmsTypeOK
<1>2. kept \in Seq(S)
  BY <1>1, CleanKeeps
<1>3. \A x \in S : /\ x \in SMSValidationCacheEntry
                   /\ x.validated => <<x.user, x.number>> \in completed
  BY <1>1 DEF ListCompleted
<1>4. e \in SMSValidationCacheEntry /\ ~e.validated
  BY DEF SMSValidationCacheEntry
<1>5. sms' = Append(kept, e) /\ completed' = completed
  BY DEF SmsStart
<1> HIDE DEF kept, e, S
<1>6. \A i \in 1 .. Len(kept) : kept[i] \in S
  BY <1>2
<1>7. kept \in Seq(SMSValidationCacheEntry)
  <2>1. S \subseteq SMSValidationCacheEntry
    BY <1>3
  <2> QED BY <1>2, <2>1
<1>8. sms' \in Seq(SMSValidationCacheEntry) /\ Len(sms') = Len(kept) + 1
  BY <1>4, <1>5, <1>7
<1>9. ASSUME NEW i \in 1 .. Len(sms'), sms'[i].validated
      PROVE  <<sms'[i].user, sms'[i].number>> \in completed
  <2>1. CASE i = Len(kept) + 1
    BY <1>4, <1>5, <1>7, <1>9, <2>1
  <2>2. CASE i # Len(kept) + 1
    <3>1. i \in 1 .. Len(kept) /\ sms'[i] = kept[i]
      BY <1>5, <1>7, <1>8, <2>2
    <3>2. sms'[i] \in S
      BY <1>6, <3>1
    <3> QED BY <1>3, <1>9, <3>2
  <2> QED BY <2>1, <2>2
<1> QED BY <1>1, <1>5, <1>8, <1>9 DEF ListCompleted, SmsTypeOK

LEMMA ListMarked ==
  ASSUME ListCompleted, NEW a \in Accounts, NEW n \in Numbers, NEW c, SmsComplete(a, n, c)
  PROVE  ListCompleted' /\ completed \subseteq completed' /\ <<a, n>> \in completed'
<1>1. sms \in Seq(SMSValidationCacheEntry) /\ completed \subseteq Accounts \X Numbers
  BY DEF ListCompleted, SmsTypeOK
<1>2. PICK j \in 1 .. Len(sms) : /\ sms[j].number = n /\ sms[j].user = a
                                 /\ sms' = [sms EXCEPT ![j].validated = TRUE]
  BY <1>1, NumberCompleted
<1>3. completed' = completed \cup {<<a, n>>}
  BY DEF SmsComplete
<1> DEFINE e == [sms[j] EXCEPT !.validated = TRUE]
<1>4. /\ sms[j] \in SMSValidationCacheEntry
      /\ sms' = [sms EXCEPT ![j] = e]
  BY <1>1, <1>2
<1>5. e \in SMSValidationCacheEntry /\ e.user = a /\ e.number = n
  BY <1>2, <1>4 DEF SMSValidationCacheEntry
<1> HIDE DEF e
<1>6. /\ sms' \in Seq(SMSValidationCacheEntry) /\ Len(sms') = Len(sms)
      /\ \A i \in 1 .. Len(sms) : sms'[i] = IF i = j THEN e ELSE sms[i]
  BY <1>1, <1>4, <1>5
<1>7. ASSUME NEW i \in 1 .. Len(sms'), sms'[i].validated
      PROVE  <<sms'[i].user, sms'[i].number>> \in completed'
  <2>1. CASE i = j
    BY <1>3, <1>5, <1>6, <2>1
  <2>2. CASE i # j
    <3>1. sms'[i] = sms[i] /\ i \in 1 .. Len(sms)
      BY <1>6, <2>2
    <3> QED BY <1>3, <1>7, <3>1 DEF ListCompleted
  <2> QED BY <2>1, <2>2
<1>8. completed' \subseteq Accounts \X Numbers
  BY <1>1, <1>3
<1> QED BY <1>3, <1>6, <1>7, <1>8 DEF ListCompleted, SmsTypeOK

\* A step after which every record was one before.
LEMMA RecordsStay ==
  ASSUME RecordsReached, completed \subseteq completed',
         \A a \in Accounts : settings'[a] # None =>
           \/ settings[a] # None /\ settings'[a] = settings[a]
           \/ \E t \in Threads : pc[t] = "write" /\ settings'[a] = work[t].record,
         \A t \in Threads : pc'[t] = "write" => pc[t] = "write" /\ work'[t] = work[t]
  PROVE  RecordsReached'
<1>1. ASSUME NEW a \in Accounts, settings'[a] # None, settings'[a].enabled,
             settings'[a].method = "sms"
      PROVE  \E c \in Accounts : <<c, settings'[a].mobile>> \in completed'
  BY <1>1 DEF RecordsReached, Reached
<1>2. ASSUME NEW t \in Threads, pc'[t] = "write", work'[t].record.enabled,
             work'[t].record.method = "sms"
      PROVE  \E c \in Accounts : <<c, work'[t].record.mobile>> \in completed'
  BY <1>2 DEF RecordsReached, Reached
<1> QED BY <1>1, <1>2 DEF RecordsReached, Reached

\* A step that is to write a record whose number has been reached.
LEMMA WriteBackReached ==
  ASSUME LoginInv, RecordsReached, completed \subseteq completed', NEW t \in Threads,
         NEW a \in Accounts, NEW s \in Settings, WriteBack(t, a, s),
         s.enabled /\ s.method = "sms" => \E c \in Accounts : <<c, s.mobile>> \in completed'
  PROVE  RecordsReached'
<1> DEFINE w == [user |-> a, record |-> s]
<1>1. w.record = s
  OBVIOUS
<1>2. /\ pc' = [pc EXCEPT ![t] = "write"] /\ work' = [work EXCEPT ![t] = w]
      /\ UNCHANGED settings
  BY DEF WriteBack
<1> HIDE DEF w
<1>3. /\ work'[t] = w
      /\ \A u \in Threads : u # t => pc'[u] = pc[u] /\ work'[u] = work[u]
  BY <1>2 DEF LoginInv, MfaTypes
<1>4. ASSUME NEW b \in Accounts, settings'[b] # None, settings'[b].enabled,
             settings'[b].method = "sms"
      PROVE  \E c \in Accounts : <<c, settings'[b].mobile>> \in completed'
  BY <1>2, <1>4 DEF RecordsReached, Reached
<1>5. ASSUME NEW u \in Threads, pc'[u] = "write", work'[u].record.enabled,
             work'[u].record.method = "sms"
      PROVE  \E c \in Accounts : <<c, work'[u].record.mobile>> \in completed'
  <2>1. CASE u = t
    BY <1>1, <1>3, <1>5, <2>1
  <2>2. CASE u # t
    BY <1>3, <1>5, <2>2 DEF RecordsReached, Reached
  <2> QED BY <2>1, <2>2
<1> QED BY <1>4, <1>5 DEF RecordsReached, Reached

LEMMA ChangeReached ==
  ASSUME LoginInv, NumbersInv, NEW t \in Threads, NEW c \in Accounts,
         NEW a \in Accounts, Change(t, c, a)
  PROVE  NumbersInv'
<1> DEFINE s == settings[a]
<1>1. s # None /\ UNCHANGED <<sms, completed>>
  BY DEF Change, PutDisable, PutEmail, PutAuthenticator, ResetMFA, PutSms, MayChange, smsVars
<1>2. s \in Settings /\ Complete(s) /\ TotpTypeOK /\ now \in Nat
  BY <1>1 DEF LoginInv, MfaTypes, RecordsComplete
<1>3. ListCompleted' /\ ListCompleted /\ RecordsReached
  BY <1>1 DEF NumbersInv, ListCompleted, SmsTypeOK
<1>4. ASSUME NEW r \in Settings, WriteBack(t, a, r),
             r.enabled /\ r.method = "sms" => \E d \in Accounts : <<d, r.mobile>> \in completed
      PROVE  NumbersInv'
  BY <1>1, <1>3, <1>4, WriteBackReached DEF NumbersInv
<1>5. CASE PutDisable(t, c, a)
  <2>1. Disabled(s).enabled = FALSE
    BY <1>2 DEF Disabled, Settings
  <2> QED BY <1>2, <1>4, <1>5, <2>1, ChangedRecord DEF PutDisable
<1>6. CASE PutEmail(t, c, a)
  <2>1. ByEmail(s).method # "sms"
    BY DEF ByEmail
  <2> QED BY <1>2, <1>4, <1>6, <2>1, ChangedRecord DEF PutEmail
<1>7. ASSUME NEW n \in Numbers, PutSms(t, c, a, n)
      PROVE  NumbersInv'
  <2>1. BySms(s, n).mobile = n
    BY DEF BySms
  <2>2. IsNumberValid(n, c) /\ sms \in Seq(SMSValidationCacheEntry)
    BY <1>3, <1>7 DEF PutSms, ListCompleted, SmsTypeOK
  <2>3. \E i \in 1 .. Len(sms) : sms[i].number = n /\ sms[i].user = c /\ sms[i].validated
    BY <2>2, NumberValid
  <2>4. <<c, n>> \in completed
    BY <1>3, <2>3 DEF ListCompleted
  <2> QED BY <1>2, <1>4, <1>7, <2>1, <2>4, ChangedRecord DEF PutSms
<1>8. CASE PutAuthenticator(t, c, a)
  <2>1. ASSUME NEW x \in Secrets, WriteBack(t, a, ByAuthenticator(s, x)) PROVE NumbersInv'
    <3>1. ByAuthenticator(s, x).method # "sms"
      BY DEF ByAuthenticator
    <3> QED BY <1>2, <1>4, <2>1, <3>1, ChangedRecord
  <2>2. CASE s.secret # None
    <3>1. s.secret \in Secrets
      BY <1>2, <2>2 DEF Settings
    <3>2. WriteBack(t, a, ByAuthenticator(s, s.secret))
      BY <1>8, <2>2 DEF PutAuthenticator
    <3> QED BY <2>1, <3>1, <3>2
  <2>3. CASE s.secret = None
    <3>1. TotpCopy(t, c) /\ WriteBack(t, a, ByAuthenticator(s, totp[c].Secret))
      BY <1>8, <2>3 DEF PutAuthenticator
    <3>2. totp[c].Secret \in Secrets
      BY <1>2, <3>1, TotpCopyType
    <3> QED BY <2>1, <3>1, <3>2
  <2> QED BY <2>2, <2>3
<1>9. CASE ResetMFA(t, c, a)
  <2> DEFINE r == [s EXCEPT !.enabled = FALSE, !.method = None, !.mobile = None]
  <2>1. r \in Settings /\ r.enabled = FALSE
    BY <1>2 DEF Settings
  <2>2. WriteBack(t, a, r)
    BY <1>9 DEF ResetMFA
  <2> HIDE DEF r
  <2> QED BY <1>4, <2>1, <2>2
<1> QED BY <1>5, <1>6, <1>7, <1>8, <1>9 DEF Change

LEMMA SubChangeReached ==
  ASSUME LoginInv, NumbersInv, NEW t \in Threads, NEW a \in Accounts, SubChange(t, a)
  PROVE  NumbersInv'
<1> DEFINE s == settings[a]
<1>1. s # None
  BY DEF SubChange, SubDisable, SubEmail, SubSms
<1>2. s \in Settings /\ ListCompleted /\ RecordsReached
  BY <1>1 DEF LoginInv, MfaTypes, NumbersInv
<1>3. UNCHANGED smsVars => ListCompleted' /\ completed' = completed
  BY <1>2 DEF smsVars, ListCompleted, SmsTypeOK
<1>4. CASE SubDisable(t, a)
  <2> DEFINE r == [s EXCEPT !.enabled = FALSE]
  <2>1. r \in Settings /\ r.enabled = FALSE /\ WriteBack(t, a, r) /\ UNCHANGED smsVars
    BY <1>2, <1>4 DEF Settings, SubDisable
  <2> HIDE DEF r
  <2> QED BY <1>2, <1>3, <2>1, WriteBackReached DEF NumbersInv
<1>5. CASE SubEmail(t, a)
  <2> DEFINE r == [s EXCEPT !.enabled = TRUE, !.method = "email"]
  <2>1. r \in Settings /\ r.method # "sms" /\ WriteBack(t, a, r) /\ UNCHANGED smsVars
    BY <1>2, <1>5 DEF Settings, Methods, Channels, SubEmail
  <2> HIDE DEF r
  <2> QED BY <1>2, <1>3, <2>1, WriteBackReached DEF NumbersInv
<1>6. ASSUME NEW n \in Numbers, NEW c \in Codes, SubSms(t, a, n, c)
      PROVE  NumbersInv'
  <2> DEFINE r == [s EXCEPT !.enabled = TRUE, !.method = "sms", !.mobile = n]
  <2>1. r \in Settings /\ r.mobile = n
    BY <1>2 DEF Settings, Methods, Channels
  <2>2. WriteBack(t, a, r) /\ SmsComplete(a, n, c)
    BY <1>6 DEF SubSms
  <2>3. ListCompleted' /\ completed \subseteq completed' /\ <<a, n>> \in completed'
    BY <1>2, <2>2, ListMarked
  <2> HIDE DEF r
  <2>4. RecordsReached'
    BY <1>2, <2>1, <2>2, <2>3, WriteBackReached
  <2> QED BY <2>3, <2>4 DEF NumbersInv
<1> QED BY <1>4, <1>5, <1>6 DEF SubChange

\* One step.
LEMMA NumbersNext == LoginInv /\ NumbersInv /\ [Next]_vars => NumbersInv'
<1> SUFFICES ASSUME LoginInv, NumbersInv, [Next]_vars PROVE NumbersInv'
  OBVIOUS
<1>0. ASSUME UNCHANGED smsVars,
             \A a \in Accounts : settings'[a] # None =>
               \/ settings[a] # None /\ settings'[a] = settings[a]
               \/ \E t \in Threads : pc[t] = "write" /\ settings'[a] = work[t].record,
             \A t \in Threads : pc'[t] = "write" => pc[t] = "write" /\ work'[t] = work[t]
      PROVE  NumbersInv'
  <2>1. ListCompleted' /\ completed' = completed
    BY <1>0 DEF smsVars, NumbersInv, ListCompleted, SmsTypeOK
  <2> QED BY <1>0, <2>1, RecordsStay DEF NumbersInv
<1>1. ASSUME NEW t \in Threads, Update(t)
      PROVE  NumbersInv'
  <2>1. /\ pc[t] = "write" /\ UNCHANGED smsVars
        /\ \A a \in Accounts : settings'[a] # None =>
             \/ settings[a] # None /\ settings'[a] = settings[a]
             \/ settings'[a] = work[t].record
    BY <1>1 DEF Update, LoginInv, MfaTypes
  <2>2. \A u \in Threads : pc'[u] = "write" => pc[u] = "write" /\ work'[u] = work[u]
    BY <1>1, EndOfRequest DEF Update, LoginInv
  <2> QED BY <1>0, <2>1, <2>2
<1>2. CASE UNCHANGED <<smsVars, sysVars>>
  <2>1. UNCHANGED <<smsVars, settings, pc, work>>
    BY <1>2 DEF sysVars
  <2> QED BY <1>0, <2>1
<1>3. ASSUME NEW t \in Threads, Enroll(t)
      PROVE  NumbersInv'
  BY <1>2, <1>3 DEF Enroll
<1>4. ASSUME NEW a \in Accounts, NEW n \in Numbers, NEW c \in Codes,
             ValidateNumber(a, n, c) \/ CompleteNumber(a, n, c)
      PROVE  NumbersInv'
  <2>1. /\ UNCHANGED <<settings, pc, work>>
        /\ SmsStart(a, n, c) \/ SmsComplete(a, n, c)
    BY <1>4 DEF ValidateNumber, CompleteNumber, sysVars
  <2>2. now \in Nat /\ ListCompleted /\ RecordsReached
    BY DEF LoginInv, MfaTypes, NumbersInv
  <2>3. ListCompleted' /\ completed \subseteq completed'
    <3>1. CASE SmsStart(a, n, c)
      BY <2>2, <3>1, ListStarted DEF SmsStart
    <3>2. CASE SmsComplete(a, n, c)
      BY <2>2, <3>2, ListMarked
    <3> QED BY <2>1, <3>1, <3>2
  <2> QED BY <2>1, <2>2, <2>3, RecordsStay DEF NumbersInv
<1>5. ASSUME NEW t \in Threads, NEW a \in Accounts, NEW k \in Tokens, Login(t, a, k)
      PROVE  NumbersInv'
  <2>1. UNCHANGED <<smsVars, settings>>
        /\ pc' = [pc EXCEPT ![t] = "login"] /\ work' = [work EXCEPT ![t] = k]
    BY <1>5 DEF Login
  <2>2. \A u \in Threads : pc'[u] = "write" => pc[u] = "write" /\ work'[u] = work[u]
    BY <2>1 DEF LoginInv, MfaTypes
  <2> QED BY <1>0, <2>1, <2>2
<1>6. ASSUME NEW t \in Threads, NEW c \in Codes, NEW taken \in BOOLEAN, LoginAnswer(t, c, taken)
      PROVE  NumbersInv'
  <2>1. UNCHANGED <<smsVars, settings>>
        /\ pc' = [pc EXCEPT ![t] = "idle"] /\ work' = [work EXCEPT ![t] = None]
    BY <1>6 DEF LoginAnswer
  <2>2. \A u \in Threads : pc'[u] = "write" => pc[u] = "write" /\ work'[u] = work[u]
    BY <2>1, EndOfRequest DEF LoginInv
  <2> QED BY <1>0, <2>1, <2>2
<1>7. ASSUME NEW k \in Tokens, NEW c \in Codes, Answer(k, c)
      PROVE  NumbersInv'
  <2>1. UNCHANGED <<smsVars, settings, pc, work>>
    BY <1>7 DEF Answer
  <2> QED BY <1>0, <2>1
<1>8. ASSUME NEW k \in Tokens, Logout(k)
      PROVE  NumbersInv'
  <2>1. UNCHANGED <<smsVars, settings, pc, work>>
    BY <1>8 DEF Logout
  <2> QED BY <1>0, <2>1
<1>9. ASSUME NEW a \in Accounts, DeleteUser(a)
      PROVE  NumbersInv'
  <2>1. UNCHANGED <<smsVars, pc, work>>
        /\ \A b \in Accounts : settings'[b] # None => settings'[b] = settings[b]
    BY <1>9 DEF DeleteUser, LoginInv, MfaTypes
  <2> QED BY <1>0, <2>1
<1>10. ASSUME NEW channels \in SUBSET Channels, Restart(channels)
       PROVE  NumbersInv'
  <2>1. /\ sms' = << >> /\ pc' = [t \in Threads |-> "idle"]
        /\ UNCHANGED <<completed, settings>>
    BY <1>10 DEF Restart
  <2>2. ListCompleted'
    BY <2>1 DEF NumbersInv, ListCompleted, SmsTypeOK
  <2>3. RecordsReached'
    BY <2>1, RecordsStay DEF NumbersInv
  <2> QED BY <2>2, <2>3 DEF NumbersInv
<1>11. CASE (Tick /\ UNCHANGED <<smsVars, totpVars, mfaVars, sysVars>>) \/ UNCHANGED vars
  BY <1>2, <1>11 DEF vars
<1>12. ASSUME CleanExpiredTokens
       PROVE  NumbersInv'
  <2>1. UNCHANGED <<smsVars, settings, pc, work>>
    BY <1>12 DEF CleanExpiredTokens
  <2> QED BY <1>0, <2>1
<1> QED
  BY <1>1, <1>3, <1>4, <1>5, <1>6, <1>7, <1>8, <1>9, <1>10, <1>11, <1>12, ChangeReached,
     SubChangeReached DEF Next

LEMMA NumbersInit == Init => NumbersInv
<1> SUFFICES ASSUME Init PROVE NumbersInv
  OBVIOUS
<1>1. /\ sms = << >> /\ completed = {}
      /\ \A a \in Accounts : settings[a] = NewSettings
      /\ \A t \in Threads : pc[t] = "idle"
  BY DEF Init, SmsInit
<1>2. NewSettings.enabled = FALSE
  BY DEF NewSettings
<1> QED BY <1>1, <1>2 DEF NumbersInv, ListCompleted, SmsTypeOK, RecordsReached, Reached

\* Whatever requests, deletions and restarts are interleaved, the number of an
\* account that relies on text messages has answered with its code: the validations
\* that CleanCache keeps and the records that are being written never say more than
\* was confirmed.
THEOREM NumbersAlwaysConfirmed == Spec => []NumbersConfirmed
<1>1. NumbersInv => NumbersConfirmed
  BY DEF NumbersInv, RecordsReached, Reached, NumbersConfirmed
<1> QED BY <1>1, LoginInvInit, LoginInvNext, NumbersInit, NumbersNext, PTL DEF Spec

\* When updates of enrolments follow their tests, every account that relies on a
\* number or a secret relies on a confirmed one.
THEOREM ChannelsAlwaysConfirmed == Spec /\ UpdatesFollowTests => []ChannelConfirmed
<1>1. NumbersConfirmed /\ SecretsConfirmed => ChannelConfirmed
  BY DEF ChannelConfirmed
<1> QED BY <1>1, NumbersAlwaysConfirmed, SecretsAlwaysConfirmed, PTL

\* What the types say beyond the invariants above: an idle thread has no work,
\* and an answered token has been given.
RestTypes ==
  /\ \A t \in Threads : pc[t] = "idle" => work[t] = None
  /\ answered \subseteq held

LEMMA RestTypesNext == LoginInv /\ RestTypes /\ [Next]_vars => RestTypes'
<1> SUFFICES ASSUME LoginInv, RestTypes, [Next]_vars PROVE RestTypes'
  OBVIOUS
<1> USE DEF RestTypes
<1>0. pc \in [Threads -> {"idle", "login", "write"}] /\ DOMAIN work = Threads
  BY DEF LoginInv, MfaTypes
<1>1. ASSUME NEW t \in Threads, NEW a, NEW s, WriteBack(t, a, s)
      PROVE  RestTypes'
  BY <1>0, <1>1 DEF WriteBack
<1>2. ASSUME NEW t \in Threads, NEW c \in Accounts, NEW a \in Accounts, Change(t, c, a)
      PROVE  RestTypes'
  BY <1>1, <1>2 DEF Change, PutDisable, PutEmail, PutSms, PutAuthenticator, ResetMFA
<1>3. ASSUME NEW t \in Threads, NEW a \in Accounts, SubChange(t, a)
      PROVE  RestTypes'
  BY <1>1, <1>3 DEF SubChange, SubDisable, SubEmail, SubSms
<1>4. ASSUME NEW t \in Threads, Update(t)
      PROVE  RestTypes'
  BY <1>0, <1>4 DEF Update
<1>5. CASE UNCHANGED sysVars
  BY <1>5 DEF sysVars
<1>6. ASSUME NEW t \in Threads, NEW a \in Accounts, NEW k \in Tokens, Login(t, a, k)
      PROVE  RestTypes'
  BY <1>0, <1>6 DEF Login
<1>7. ASSUME NEW t \in Threads, NEW c \in Codes, NEW taken \in BOOLEAN, LoginAnswer(t, c, taken)
      PROVE  RestTypes'
  <2>1. /\ pc' = [pc EXCEPT ![t] = "idle"] /\ work' = [work EXCEPT ![t] = None]
        /\ UNCHANGED answered /\ held \subseteq held'
    BY <1>7 DEF LoginAnswer
  <2> QED BY <1>0, <2>1
<1>8. ASSUME NEW k \in Tokens, NEW c \in Codes, Answer(k, c)
      PROVE  RestTypes'
  BY <1>8 DEF Answer
<1>9. ASSUME NEW k \in Tokens, Logout(k)
      PROVE  RestTypes'
  BY <1>9 DEF Logout
<1>10. ASSUME NEW a \in Accounts, DeleteUser(a)
       PROVE  RestTypes'
  BY <1>10 DEF DeleteUser
<1>11. ASSUME NEW channels \in SUBSET Channels, Restart(channels)
       PROVE  RestTypes'
  BY <1>11 DEF Restart
<1>12. ASSUME NEW t \in Threads, Enroll(t)
       PROVE  RestTypes'
  BY <1>5, <1>12 DEF Enroll
<1>13. ASSUME NEW a \in Accounts, NEW n \in Numbers, NEW c \in Codes,
              ValidateNumber(a, n, c) \/ CompleteNumber(a, n, c)
       PROVE  RestTypes'
  BY <1>5, <1>13 DEF ValidateNumber, CompleteNumber
<1>14. CASE (Tick /\ UNCHANGED <<smsVars, totpVars, mfaVars, sysVars>>) \/ UNCHANGED vars
  BY <1>5, <1>14 DEF vars
<1>15. ASSUME CleanExpiredTokens
       PROVE  RestTypes'
  BY <1>15 DEF CleanExpiredTokens
<1> HIDE DEF RestTypes
<1> QED
  BY <1>2, <1>3, <1>4, <1>6, <1>7, <1>8, <1>9, <1>10, <1>11, <1>12, <1>13, <1>14, <1>15
  DEF Next

\* The composed system is type-correct: every request finds in its thread the token
\* or the record that its next step works on.
THEOREM MfaTypesInvariance == Spec => []TypeOK
<1>1. Init => RestTypes
  BY DEF Init, RestTypes
<1>2. LoginInv /\ NumbersInv /\ RestTypes => TypeOK
  <2> SUFFICES ASSUME LoginInv, NumbersInv, RestTypes PROVE TypeOK
    OBVIOUS
  <2>1. MfaTypes /\ SmsTypeOK
    BY DEF LoginInv, NumbersInv, ListCompleted
  <2>2. ASSUME NEW t \in Threads
        PROVE  work[t] \in CASE pc[t] = "idle" -> {None}
                             [] pc[t] = "login" -> Tokens
                             [] pc[t] = "write" -> Write
    BY <2>1 DEF MfaTypes, RestTypes
  <2> QED BY <2>1, <2>2 DEF TypeOK, MfaTypes, RestTypes
<1> QED
  BY <1>1, <1>2, LoginInvInit, LoginInvNext, NumbersInit, NumbersNext, RestTypesNext, PTL
  DEF Spec
=============================================================================
