--------------------------- MODULE SmsValidation ---------------------------
(***************************************************************************)
(* SMSSender: phone numbers are validated by a code sent to them.  Cache_  *)
(* is a list of validations; one is added by every StartValidation, and    *)
(* only StartValidation removes those that are too old.  All of it happens *)
(* under one mutex.                                                        *)
(***************************************************************************)
EXTENDS MfaCommon, SequencesExt

CONSTANTS Numbers,    \* phone numbers
          SmsLife,    \* 300 s
          MaxSms      \* bound on the length of Cache_

ASSUME SmsAssumption == SmsLife \in Nat /\ MaxSms \in Nat

VARIABLES sms,       \* Cache_
          completed  \* history: the <<account, number>> validated so far

smsVars == <<sms, completed>>

SMSValidationCacheEntry == [user : Accounts, number : Numbers, code : Codes,
                            created : Nat, validated : BOOLEAN]

SmsTypeOK ==
  /\ sms \in Seq(SMSValidationCacheEntry)
  /\ completed \subseteq Accounts \X Numbers

SmsInit == sms = << >> /\ completed = {}

\* One entry after the other is left out or kept.
CleanCache(cache) ==
  LET Clean[i \in 0 .. Len(cache)] ==
        IF i = 0 THEN << >>
        ELSE IF now - cache[i].created > SmsLife THEN Clean[i - 1]
        ELSE Append(Clean[i - 1], cache[i])
  IN Clean[Len(cache)]

\* Whether or not the provider takes the message, the entry stays.
SmsStart(a, n, c) ==
  LET kept == CleanCache(sms)
  IN /\ Len(kept) < MaxSms
     /\ sms' = Append(kept, [user |-> a, number |-> n, code |-> c, created |-> now,
                             validated |-> FALSE])
     /\ UNCHANGED completed

\* Mutant: a validation that has been started is enough.
IsNumberKnown(n, a) ==
  SelectInSeq(sms, LAMBDA e : e.number = n /\ e.user = a) # 0

\* The first entry of the number and the account decides.
IsNumberValid(n, a) ==
  LET i == SelectInSeq(sms, LAMBDA e : e.number = n /\ e.user = a)
  IN i # 0 /\ sms[i].validated

\* The first entry with that code is marked, validated already or not.
SmsComplete(a, n, c) ==
  LET i == SelectInSeq(sms, LAMBDA e : e.code = c /\ e.number = n /\ e.user = a)
  IN /\ i # 0
     /\ sms' = [sms EXCEPT ![i].validated = TRUE]
     /\ completed' = completed \cup {<<a, n>>}
=============================================================================
