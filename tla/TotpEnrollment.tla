--------------------------- MODULE TotpEnrollment ---------------------------
(***************************************************************************)
(* TotpCache: an account proves that its authenticator has the secret by   *)
(* two different codes, one after the other.  Cache_ is a map from account *)
(* ids to enrolments.  Nothing locks it, so a request that has tested an   *)
(* entry may change it after another request has: what a request does to   *)
(* an entry after its tests is a second step.  (An entry that has been     *)
(* erased in the meantime is freed memory: the second step then has no     *)
(* effect on the map.)                                                     *)
(***************************************************************************)
EXTENDS MfaCommon, FiniteSets

CONSTANTS TotpCode(_, _),  \* the code of a secret at a time (CppTotp)
          TotpWindow,      \* 15 * 60 s
          MaxSecrets       \* bound on the secrets generated

Secrets == 1 .. MaxSecrets

ASSUME TotpAssumption ==
  /\ TotpWindow \in Nat
  /\ MaxSecrets \in Nat
  /\ IsFiniteSet(Codes)
  /\ None \notin Secrets
  /\ \A s \in Secrets, time \in 0 .. MaxTime : TotpCode(s, time) \in Codes

VARIABLES totp,      \* Cache_
          secrets,   \* how many secrets have been generated
          job,       \* the change each thread is about to make
          accepted,  \* history: the codes accepted for each secret
          returned   \* history: the secrets CompleteValidation returned

totpVars == <<totp, secrets, job, accepted, returned>>

Entry == [Start : Nat, Done : BOOLEAN, Verifications : Nat,
          Secret : Secrets, LastCode : Codes \cup {None}]

Job == [op : {"first", "second", "erase"}, user : Accounts, code : Codes \cup {None}]

TotpTypeOK ==
  /\ totp \in [Accounts -> Entry \cup {None}]
  /\ secrets \in 0 .. MaxSecrets
  /\ job \in [Threads -> Job \cup {None}]
  /\ accepted \in [Secrets -> SUBSET Codes]
  /\ returned \subseteq Secrets

TotpInit ==
  /\ totp = [a \in Accounts |-> None]
  /\ secrets = 0
  /\ job = [t \in Threads |-> None]
  /\ accepted = [s \in Secrets |-> {}]
  /\ returned = {}

InWindow(a) == totp[a] # None /\ now - totp[a].Start < TotpWindow

\* ValidateCode
ValidateCode(s, c) == c = TotpCode(s, now)

\* StartValidation: an enrolment that exists is shown again (and left as it
\* is), or reset to a new secret.  (Users and subscribers have different ids,
\* so the flag Subscriber of an entry is the one of its account.)
TotpStart(t, a, reset) ==
  /\ job[t] = None
  /\ totp[a] = None \/ reset
  /\ secrets < MaxSecrets
  /\ secrets' = secrets + 1
  /\ totp' = [totp EXCEPT ![a] =
                [Start |-> now, Done |-> FALSE, Verifications |-> 0,
                 Secret |-> secrets + 1, LastCode |-> None]]
  /\ UNCHANGED <<job, accepted, returned>>

\* ContinueValidation up to its tests; index is NextIndex.
TotpTest(t, a, index, c) ==
  /\ job[t] = None
  /\ InWindow(a)
  /\ ValidateCode(totp[a].Secret, c)
  /\ \/ index = 1 /\ totp[a].Verifications = 0
     \/ index = 2 /\ totp[a].Verifications = 1 /\ c # totp[a].LastCode
  /\ job' = [job EXCEPT ![t] =
              [op |-> IF index = 1 THEN "first" ELSE "second", user |-> a,
               code |-> c]]
  /\ accepted' = [accepted EXCEPT ![totp[a].Secret] = @ \cup {c}]
  /\ UNCHANGED <<totp, secrets, returned>>

\* Mutant: one code is enough.
TotpMarkOnce(t) ==
  /\ job[t] # None
  /\ job[t].op \in {"first", "second"}
  /\ LET a == job[t].user
         e == totp[a]
     IN totp' = IF e = None THEN totp
                ELSE [totp EXCEPT ![a] =
                       [e EXCEPT !.Verifications = e.Verifications + 1, !.Done = TRUE,
                                 !.LastCode = job[t].code]]
  /\ job' = [job EXCEPT ![t] = None]
  /\ UNCHANGED <<secrets, accepted, returned>>

\* ContinueValidation after its tests.
TotpMark(t) ==
  /\ job[t] # None
  /\ job[t].op \in {"first", "second"}
  /\ LET a == job[t].user
         e == totp[a]
     IN totp' = IF e = None THEN totp
                ELSE [totp EXCEPT ![a] =
                       IF job[t].op = "first"
                         THEN [e EXCEPT !.Verifications = e.Verifications + 1,
                                        !.LastCode = job[t].code]
                         ELSE [e EXCEPT !.Done = TRUE]]
  /\ job' = [job EXCEPT ![t] = None]
  /\ UNCHANGED <<secrets, accepted, returned>>

\* CompleteValidation: the secret of a finished enrolment is copied ...
CanComplete(a) == InWindow(a) /\ totp[a].Done

TotpCopy(t, a) ==
  /\ job[t] = None
  /\ CanComplete(a)
  /\ returned' = returned \cup {totp[a].Secret}
  /\ job' = [job EXCEPT ![t] = [op |-> "erase", user |-> a, code |-> None]]
  /\ UNCHANGED <<totp, secrets, accepted>>

\* ... and the enrolment erased.
TotpErase(t) ==
  /\ job[t] # None
  /\ job[t].op = "erase"
  /\ totp' = [totp EXCEPT ![job[t].user] = None]
  /\ job' = [job EXCEPT ![t] = None]
  /\ UNCHANGED <<secrets, accepted, returned>>

-----------------------------------------------------------------------------
(* The requests of RESTAPI_totp_handler and the end of a completion, which  *)
(* RESTAPI_user_handler begins.                                             *)

TotpStep(t) ==
  \/ \E a \in Accounts, reset \in BOOLEAN : TotpStart(t, a, reset)
  \/ \E a \in Accounts, index \in 1 .. 2, c \in Codes : TotpTest(t, a, index, c)
  \/ TotpMark(t)
  \/ TotpErase(t)
=============================================================================
