----------------------------- MODULE MfaCommon -----------------------------
(***************************************************************************)
(* What SMSSender, TotpCache, MFAServer and the handlers above them share: *)
(* accounts, codes, and the clock they read with Utils::Now.  A tick is    *)
(* the time a TOTP code lasts; MaxTime bounds it for model checking.       *)
(***************************************************************************)
EXTENDS Integers

CONSTANTS Accounts,  \* users (by id and e-mail address)
          Codes,     \* six digit codes: few, so that they may coincide
          Threads,   \* REST server threads
          None,
          MaxTime

ASSUME CommonAssumption == MaxTime \in Nat /\ None \notin Codes

VARIABLE now

Tick == now < MaxTime /\ now' = now + 1
=============================================================================
