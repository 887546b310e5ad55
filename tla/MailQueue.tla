----------------------------- MODULE MailQueue -----------------------------
(***************************************************************************)
(* What SMTPMailerService promises to those who call SendMessage: a mail   *)
(* that was posted is kept until it is delivered or given up.  It is kept  *)
(* in memory only: a restart loses what has not been delivered.            *)
(***************************************************************************)
CONSTANT Mails

VARIABLES queued,     \* posted and neither delivered nor given up
          delivered   \* taken by the mail server, at least once

mailVars == <<queued, delivered>>

MailInit == queued = {} /\ delivered = {}

Post(m) == queued' = queued \cup {m} /\ UNCHANGED delivered

\* A mail can be taken by the server and be kept all the same, when the end of
\* the session fails.
Deliver(m) ==
  /\ m \in queued
  /\ delivered' = delivered \cup {m}
  /\ queued' \in {queued, queued \ {m}}

GiveUp(m) == m \in queued /\ queued' = queued \ {m} /\ UNCHANGED delivered

Lose == queued' = {} /\ UNCHANGED delivered

MailNext == Lose \/ \E m \in Mails : Post(m) \/ Deliver(m) \/ GiveUp(m)

MailSpec == MailInit /\ [][MailNext]_mailVars
=============================================================================
