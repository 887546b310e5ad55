----------------------------- MODULE MfaServer -----------------------------
(***************************************************************************)
(* MFAServer: the second step of a login.  StartMFAChallenge keeps the     *)
(* login's user record and token under a fresh uuid until the right answer *)
(* comes.  Old challenges are removed by the next StartMFAChallenge only;  *)
(* CompleteMFAChallenge does not look at the age.  All of it happens under *)
(* one mutex, the sending of the code included.                            *)
(*                                                                         *)
(* A login starts at most one challenge, so challenges are indexed by the  *)
(* login's token instead of the uuid.                                      *)
(***************************************************************************)
EXTENDS SmsValidation, TotpEnrollment

CONSTANTS Tokens,
          MfaLife     \* 300 s

ASSUME MfaAssumption == MfaLife \in Nat

VARIABLES challenges,  \* Cache_
          configured,  \* the channels that are enabled: "sms", "email"
          undelivered  \* history: tokens whose code the provider did not take

mfaVars == <<challenges, configured, undelivered>>

Channels == {"sms", "email"}

Methods == Channels \cup {"authenticator"}

\* userTypeProprietaryInfo: mfa.enabled, mfa.method, mobiles[0].number and
\* authenticatorSecret.
Settings == [enabled : BOOLEAN, method : Methods \cup {None},
             mobile : Numbers \cup {None}, secret : Secrets \cup {None}]

MFACacheEntry == [UInfo : Settings, Answer : Codes, Created : Nat]

MfaTypeOK ==
  /\ challenges \in [Tokens -> MFACacheEntry \cup {None}]
  /\ configured \subseteq Channels
  /\ undelivered \subseteq Tokens

MfaInit ==
  /\ challenges = [k \in Tokens |-> None]
  /\ configured \in SUBSET Channels
  /\ undelivered = {}

MethodEnabled(m) == m = "authenticator" \/ m \in configured

\* AuthService::RequiresMFA
RequiresMFA(s) == s.enabled /\ MethodEnabled(s.method)

\* Mutant: e-mail is forgotten.
SendChallengeNoEmail(s, taken) ==
  \/ s.method = "sms" /\ "sms" \in configured /\ s.mobile # None /\ taken
  \/ s.method = "authenticator" /\ s.secret # None

\* SendChallenge; taken tells whether the provider or the mailer takes the
\* message.  (Every user has an e-mail address.)
SendChallenge(s, taken) ==
  \/ s.method = "sms" /\ "sms" \in configured /\ s.mobile # None /\ taken
  \/ s.method = "email" /\ "email" \in configured /\ taken
  \/ s.method = "authenticator" /\ s.secret # None

\* CleanCache
Cleaned ==
  [k \in Tokens |-> IF challenges[k] # None /\ now - challenges[k].Created > MfaLife
                      THEN None ELSE challenges[k]]

\* StartMFAChallenge: the entry stays when the code cannot be sent.
StartMFAChallenge(k, s, c, taken) ==
  /\ challenges' = IF MethodEnabled(s.method)
                     THEN [Cleaned EXCEPT ![k] =
                             [UInfo |-> s, Answer |-> c, Created |-> now]]
                     ELSE Cleaned
  /\ undelivered' = IF taken THEN undelivered ELSE undelivered \cup {k}
  /\ UNCHANGED configured

\* CompleteMFAChallenge
RightAnswer(k, c) ==
  /\ challenges[k] # None
  /\ IF challenges[k].UInfo.method = "authenticator"
       THEN ValidateCode(challenges[k].UInfo.secret, c)
       ELSE c = challenges[k].Answer

\* Mutant: the challenge stays.
CompleteWithoutErase(k, c) ==
  /\ RightAnswer(k, c)
  /\ UNCHANGED mfaVars

CompleteMFAChallenge(k, c) ==
  /\ RightAnswer(k, c)
  /\ challenges' = [challenges EXCEPT ![k] = None]
  /\ UNCHANGED <<configured, undelivered>>
=============================================================================
