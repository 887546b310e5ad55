----------------------------- MODULE MfaSystem -----------------------------
(***************************************************************************)
(* Multi-factor authentication as a whole: the settings in the user        *)
(* records, changed by RESTAPI_user_handler and RESTAPI_submfa_handler     *)
(* (whole records are read, changed and written back); the validations of  *)
(* SMSSender and TotpCache these changes depend on; and the login of       *)
(* RESTAPI_oauth2_handler, which stores the token first and then either    *)
(* answers with it or starts a challenge of MFAServer.                     *)
(***************************************************************************)
EXTENDS MfaServer

CONSTANTS Admins,       \* accounts that may change other accounts
          Subscribers,  \* accounts of the subscriber tables
          Offered,      \* the methods that occur in requests
          TokenLife     \* authentication.token.ageing, 30 days

\* What a login has read, whether its method was offered then, and when.
LoginRecord == [user : Accounts, UInfo : Settings, sent : BOOLEAN, created : Nat]

ASSUME SystemAssumption ==
  /\ Admins \subseteq Accounts
  /\ Subscribers \subseteq Accounts
  /\ Offered \subseteq Methods
  /\ TokenLife \in Nat
  /\ None \notin Methods /\ None \notin Numbers /\ None \notin LoginRecord

VARIABLES
  settings,  \* the MFA part of the user table; None: no such user
  rows,      \* the token table
  held,      \* the tokens clients have been given
  pc,        \* what each thread is about to do
  work,      \* what it does it with: a token, or the record to write
  login,     \* history: the account, settings and time of each login
  answered   \* history: the tokens given for a right answer

sysVars == <<settings, rows, held, pc, work, login, answered>>

vars == <<now, smsVars, totpVars, mfaVars, sysVars>>

Write == [user : Accounts, record : Settings]

TypeOK ==
  /\ now \in Nat
  /\ SmsTypeOK /\ TotpTypeOK /\ MfaTypeOK
  /\ settings \in [Accounts -> Settings \cup {None}]
  /\ rows \subseteq Tokens
  /\ held \subseteq Tokens
  /\ pc \in [Threads -> {"idle", "login", "write"}]
  /\ \A t \in Threads : work[t] \in CASE pc[t] = "idle" -> {None}
                                      [] pc[t] = "login" -> Tokens
                                      [] pc[t] = "write" -> Write
  /\ login \in [Tokens -> LoginRecord \cup {None}]
  /\ answered \subseteq held

\* "You cannot enable MFA during user creation"
NewSettings == [enabled |-> FALSE, method |-> None, mobile |-> None, secret |-> None]

Init ==
  /\ now = 0
  /\ SmsInit /\ TotpInit /\ MfaInit
  /\ settings = [a \in Accounts |-> NewSettings]
  /\ rows = {} /\ held = {} /\ answered = {}
  /\ pc = [t \in Threads |-> "idle"]
  /\ work = [t \in Threads |-> None]
  /\ login = [k \in Tokens |-> None]

Idle(t) == pc[t] = "idle" /\ job[t] = None

-----------------------------------------------------------------------------
(* Changing the settings: ApplyMfaChange on the record that was read.       *)

Disabled(s) == [s EXCEPT !.enabled = FALSE, !.mobile = None, !.secret = None]

ByEmail(s) == [enabled |-> TRUE, method |-> "email", mobile |-> None, secret |-> None]

BySms(s, n) == [enabled |-> TRUE, method |-> "sms", mobile |-> n, secret |-> None]

ByAuthenticator(s, x) ==
  [enabled |-> TRUE, method |-> "authenticator", mobile |-> None, secret |-> x]

\* The thread goes on with the update of account a's record.
WriteBack(t, a, s) ==
  /\ pc' = [pc EXCEPT ![t] = "write"]
  /\ work' = [work EXCEPT ![t] = [user |-> a, record |-> s]]
  /\ UNCHANGED <<settings, rows, held, login, answered>>

MayChange(c, a) == settings[a] # None /\ (c = a \/ c \in Admins)

PutDisable(t, c, a) ==
  /\ Idle(t) /\ MayChange(c, a)
  /\ WriteBack(t, a, Disabled(settings[a]))
  /\ UNCHANGED <<now, smsVars, totpVars, mfaVars>>

PutEmail(t, c, a) ==
  /\ Idle(t) /\ MayChange(c, a)
  /\ "email" \in Offered \cap configured
  /\ WriteBack(t, a, ByEmail(settings[a]))
  /\ UNCHANGED <<now, smsVars, totpVars, mfaVars>>

\* The number must have been validated by the caller.
PutSms(t, c, a, n) ==
  /\ Idle(t) /\ MayChange(c, a)
  /\ "sms" \in Offered \cap configured
  /\ IsNumberValid(n, c)
  /\ WriteBack(t, a, BySms(settings[a], n))
  /\ UNCHANGED <<now, smsVars, totpVars, mfaVars>>

\* The old secret stays; without one, that of the caller's enrolment is taken.
PutAuthenticator(t, c, a) ==
  /\ Idle(t) /\ MayChange(c, a)
  /\ "authenticator" \in Offered
  /\ IF settings[a].secret # None
       THEN /\ WriteBack(t, a, ByAuthenticator(settings[a], settings[a].secret))
            /\ UNCHANGED totpVars
       ELSE /\ TotpCopy(t, c)
            /\ WriteBack(t, a, ByAuthenticator(settings[a], totp[c].Secret))
  /\ UNCHANGED <<now, smsVars, mfaVars>>

\* HandleResetMFA: the secret stays in the record.
ResetMFA(t, c, a) ==
  /\ Idle(t) /\ MayChange(c, a)
  /\ WriteBack(t, a, [settings[a] EXCEPT !.enabled = FALSE, !.method = None, !.mobile = None])
  /\ UNCHANGED <<now, smsVars, totpVars, mfaVars>>

\* RESTAPI_submfa_handler::DoPut: a subscriber's own settings.
SubDisable(t, a) ==
  /\ Idle(t) /\ a \in Subscribers /\ settings[a] # None
  /\ WriteBack(t, a, [settings[a] EXCEPT !.enabled = FALSE])
  /\ UNCHANGED <<now, smsVars, totpVars, mfaVars>>

SubEmail(t, a) ==
  /\ Idle(t) /\ a \in Subscribers /\ settings[a] # None
  /\ "email" \in Offered
  /\ WriteBack(t, a, [settings[a] EXCEPT !.enabled = TRUE, !.method = "email"])
  /\ UNCHANGED <<now, smsVars, totpVars, mfaVars>>

SubSms(t, a, n, c) ==
  /\ Idle(t) /\ a \in Subscribers /\ settings[a] # None
  /\ "sms" \in Offered \cap configured
  /\ SmsComplete(a, n, c)
  /\ WriteBack(t, a, [settings[a] EXCEPT !.enabled = TRUE, !.method = "sms", !.mobile = n])
  /\ UNCHANGED <<now, totpVars, mfaVars>>

\* UpdateUserInfo: there may be no row any more.
Update(t) ==
  /\ pc[t] = "write" /\ job[t] = None
  /\ settings' = IF settings[work[t].user] = None THEN settings
                 ELSE [settings EXCEPT ![work[t].user] = work[t].record]
  /\ pc' = [pc EXCEPT ![t] = "idle"]
  /\ work' = [work EXCEPT ![t] = None]
  /\ UNCHANGED <<now, smsVars, totpVars, mfaVars, rows, held, login, answered>>

-----------------------------------------------------------------------------
(* The validations.                                                         *)

ValidateNumber(a, n, c) ==
  /\ "sms" \in Offered \cap configured
  /\ SmsStart(a, n, c)
  /\ UNCHANGED <<now, totpVars, mfaVars, sysVars>>

CompleteNumber(a, n, c) ==
  /\ "sms" \in Offered \cap configured
  /\ SmsComplete(a, n, c)
  /\ UNCHANGED <<now, totpVars, mfaVars, sysVars>>

\* The steps of an enrolment, and the erasing in PutAuthenticator.
Enroll(t) ==
  /\ "authenticator" \in Offered
  /\ pc[t] = "idle" \/ job[t] # None
  /\ TotpStep(t)
  /\ UNCHANGED <<now, smsVars, mfaVars, sysVars>>

-----------------------------------------------------------------------------
(* The login.                                                               *)

\* Authorize: the password is right and the token is stored.
Login(t, a, k) ==
  /\ Idle(t) /\ settings[a] # None /\ login[k] = None
  /\ rows' = rows \cup {k}
  /\ login' = [login EXCEPT ![k] = [user |-> a, UInfo |-> settings[a],
                                    sent |-> MethodEnabled(settings[a].method),
                                    created |-> now]]
  /\ pc' = [pc EXCEPT ![t] = "login"]
  /\ work' = [work EXCEPT ![t] = k]
  /\ UNCHANGED <<now, smsVars, totpVars, mfaVars, settings, held, answered>>

\* DoPost after Authorize: a challenge, or the token ("MFA Seems to be
\* broken" when a challenge cannot be sent).
LoginAnswer(t, c, taken) ==
  /\ pc[t] = "login"
  /\ LET k == work[t]
         s == login[k].UInfo
     IN IF RequiresMFA(s)
          THEN /\ StartMFAChallenge(k, s, c, taken)
               /\ held' = IF SendChallenge(s, taken) THEN held ELSE held \cup {k}
          ELSE held' = held \cup {k} /\ UNCHANGED mfaVars
  /\ pc' = [pc EXCEPT ![t] = "idle"]
  /\ work' = [work EXCEPT ![t] = None]
  /\ UNCHANGED <<now, smsVars, totpVars, settings, rows, login, answered>>

\* completeMFAChallenge: the token of the login is the answer.
Answer(k, c) ==
  /\ CompleteMFAChallenge(k, c)
  /\ held' = held \cup {k}
  /\ answered' = answered \cup {k}
  /\ UNCHANGED <<now, smsVars, totpVars, settings, rows, pc, work, login>>

\* The service's own tokens are created at the login and last TokenLife.
Aged(k) == login[k].created + TokenLife <= now

\* Mutant: the clause compares the creation only.
CleanCreatedTokens ==
  /\ rows # {}
  /\ rows' = {k \in rows : login[k].created > now}
  /\ UNCHANGED <<now, smsVars, totpVars, mfaVars, settings, held, pc, work, login, answered>>

\* Archiver::onTimer, once an hour: the rows of old tokens are removed; open
\* challenges are not looked at.
CleanExpiredTokens ==
  /\ \E k \in rows : Aged(k)
  /\ rows' = {k \in rows : ~Aged(k)}
  /\ UNCHANGED <<now, smsVars, totpVars, mfaVars, settings, held, pc, work, login, answered>>

Logout(k) ==
  /\ k \in held \cap rows
  /\ rows' = rows \ {k}
  /\ UNCHANGED <<now, smsVars, totpVars, mfaVars, settings, held, pc, work, login, answered>>

\* DoDelete, which also revokes the user's tokens (SessionStore has the steps).
DeleteUser(a) ==
  /\ settings[a] # None
  /\ settings' = [settings EXCEPT ![a] = None]
  /\ rows' = {k \in rows : login[k].user # a}
  /\ UNCHANGED <<now, smsVars, totpVars, mfaVars, held, pc, work, login, answered>>

\* The process stops and starts again, with these channels configured: the
\* tables stay, the caches and the requests are gone.
Restart(channels) ==
  /\ sms' = << >>
  /\ totp' = [a \in Accounts |-> None]
  /\ job' = [t \in Threads |-> None]
  /\ challenges' = [k \in Tokens |-> None]
  /\ configured' = channels
  /\ pc' = [t \in Threads |-> "idle"]
  /\ work' = [t \in Threads |-> None]
  /\ UNCHANGED <<now, completed, secrets, accepted, returned, undelivered, settings,
                 rows, held, login, answered>>

Change(t, c, a) ==
  \/ PutDisable(t, c, a) \/ PutEmail(t, c, a) \/ PutAuthenticator(t, c, a)
  \/ ResetMFA(t, c, a)
  \/ \E n \in Numbers : PutSms(t, c, a, n)

SubChange(t, a) ==
  \/ SubDisable(t, a) \/ SubEmail(t, a)
  \/ \E n \in Numbers, c \in Codes : SubSms(t, a, n, c)

Next ==
  \/ \E t \in Threads, c, a \in Accounts : Change(t, c, a)
  \/ \E t \in Threads, a \in Accounts : SubChange(t, a)
  \/ \E t \in Threads : Update(t) \/ Enroll(t)
  \/ \E a \in Accounts, n \in Numbers, c \in Codes :
       ValidateNumber(a, n, c) \/ CompleteNumber(a, n, c)
  \/ \E t \in Threads, a \in Accounts, k \in Tokens : Login(t, a, k)
  \/ \E t \in Threads, c \in Codes, taken \in BOOLEAN : LoginAnswer(t, c, taken)
  \/ \E k \in Tokens, c \in Codes : Answer(k, c)
  \/ \E k \in Tokens : Logout(k)
  \/ CleanExpiredTokens
  \/ \E a \in Accounts : DeleteUser(a)
  \/ \E channels \in SUBSET Channels : Restart(channels)
  \/ Tick /\ UNCHANGED <<smsVars, totpVars, mfaVars, sysVars>>

Spec == Init /\ [][Next]_vars

-----------------------------------------------------------------------------

\* No login with multi-factor authentication enabled, by a method the service
\* offers, is given its token without a right answer, unless the provider
\* refused the message: the settings always have what SendChallenge needs,
\* whatever changes, deletions and restarts are interleaved.
NoSilentBypass ==
  \A k \in held : login[k].UInfo.enabled /\ login[k].sent
                    => k \in answered \cup undelivered

\* The number of an account that uses it has been confirmed by a code sent to it.
NumbersConfirmed ==
  \A a \in Accounts :
    settings[a] # None /\ settings[a].enabled /\ settings[a].method = "sms"
      => \E c \in Accounts : <<c, settings[a].mobile>> \in completed

\* The secret of an account that uses it has been confirmed by two of its codes.
SecretsConfirmed ==
  \A a \in Accounts :
    settings[a] # None /\ settings[a].enabled /\ settings[a].method = "authenticator"
      => settings[a].secret \in returned /\ Cardinality(accepted[settings[a].secret]) >= 2

\* What multi-factor authentication relies on has been confirmed.
ChannelConfirmed == NumbersConfirmed /\ SecretsConfirmed

\* While a challenge whose code went out is open, no client has its token:
\* neither the login's own answer nor an earlier answer to the challenge gave
\* it away.
PendingTokensWithheld ==
  \A k \in Tokens : challenges[k] # None /\ k \notin undelivered => k \notin held

\* The challenges a client can still answer are about stored tokens: only the
\* deletion of the user, the archiver once the token has reached its age, or a
\* failed message after which the login gave its token away, leaves a challenge
\* whose answer is a token nobody accepts.
ChallengesHaveTokens ==
  \A k \in Tokens : challenges[k] # None /\ settings[login[k].user] # None
                      => k \in rows \cup undelivered \/ Aged(k)
=============================================================================
