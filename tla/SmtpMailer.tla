----------------------------- MODULE SmtpMailer -----------------------------
(***************************************************************************)
(* SMTPMailerService: SendMessage appends to PendingMessages_ under the    *)
(* lock; the thread takes them over into Messages_ once per pass and then  *)
(* tries every message of the list, keeps it for a later try, or gives it  *)
(* up.  Times are kept as ages, each up to the value beyond which no test  *)
(* of the code tells them apart; only the thread's own waiting (its pause  *)
(* and the sessions with the mail server) makes them grow.                 *)
(***************************************************************************)
EXTENDS Integers, SequencesExt

CONSTANTS Mails,        \* messages, each posted once
          MailRetry,    \* mailer.retry
          MailAbandon,  \* mailer.abandon
          Pause,        \* the sleep between two passes
          MaxSend       \* the longest session with the mail server

ASSUME MailerAssumption ==
  MailRetry \in Nat /\ MailAbandon \in Nat /\ Pause \in Nat \ {0} /\ MaxSend \in Nat

VARIABLES pending,    \* PendingMessages_
          messages,   \* Messages_
          i,          \* the iterator of run(), 0 outside of the loop
          posted,     \* history: the messages posted so far
          delivered,  \* history: those the mail server has taken
          passed      \* history: those the loop has got past in this pass

mailerVars == <<pending, messages, i, posted, delivered, passed>>

\* Never: LastTry = 0.
Never == MailRetry + 2

MessageEvent == [id : Mails, age : 0 .. MailAbandon + 1, lastTry : 0 .. Never]

MailerTypeOK ==
  /\ pending \in Seq(MessageEvent)
  /\ messages \in Seq(MessageEvent)
  /\ i \in 0 .. Len(messages) + 1

Upto(limit, n) == IF n > limit THEN limit ELSE n

Aged(d, e) ==
  [e EXCEPT !.age = Upto(MailAbandon + 1, @ + d),
            !.lastTry = IF @ = Never THEN Never ELSE Upto(MailRetry + 1, @ + d)]

AllAged(d, s) == [k \in DOMAIN s |-> Aged(d, s[k])]

Ids(s) == {s[k].id : k \in DOMAIN s}

MailerInit ==
  /\ pending = << >> /\ messages = << >> /\ i = 0
  /\ posted = {} /\ delivered = {} /\ passed = {}

SendMessage(m) ==
  /\ m \notin posted
  /\ posted' = posted \cup {m}
  /\ pending' = Append(pending, [id |-> m, age |-> 0, lastTry |-> Never])
  /\ UNCHANGED <<messages, i, delivered, passed>>

\* Mutant: what is left of the last pass is overwritten.
SpliceOver ==
  /\ i = 0
  /\ messages' = AllAged(Pause, pending)
  /\ pending' = << >>
  /\ i' = 1
  /\ passed' = {}
  /\ UNCHANGED <<posted, delivered>>

\* The thread sleeps and takes over the new messages.
Splice ==
  /\ i = 0
  /\ messages' = AllAged(Pause, messages \o pending)
  /\ pending' = << >>
  /\ i' = 1
  /\ passed' = {}
  /\ UNCHANGED <<posted, delivered>>

Current == messages[i]

Due == Current.lastTry = Never \/ Current.lastTry > MailRetry

InLoop == i \in 1 .. Len(messages)

\* Mutant: the iterator moves on after an erase, too.
EraseAndStep(d) ==
  /\ messages' = AllAged(d, RemoveAt(messages, i))
  /\ i' = Upto(Len(messages), i + 1)
  /\ passed' = passed \cup {Current.id}

\* Mutant: so that it runs past the end of the list.
EraseUnchecked(d) ==
  /\ messages' = AllAged(d, RemoveAt(messages, i))
  /\ passed' = passed \cup {Current.id}
  /\ i' = i + 1

Erase(d) ==
  /\ messages' = AllAged(d, RemoveAt(messages, i))
  /\ passed' = passed \cup {Current.id}
  /\ UNCHANGED i

Keep(d, e) ==
  /\ messages' = AllAged(d, [messages EXCEPT ![i] = e])
  /\ passed' = passed \cup {Current.id}
  /\ i' = i + 1

\* SendIt takes d units of time, and the mail server takes the message or not: a
\* failure may come before or after, sendMessage and close are two calls.
SendIt(d, taken) ==
  /\ delivered' = IF taken THEN delivered \cup {Current.id} ELSE delivered
  /\ pending' = AllAged(d, pending)
  /\ UNCHANGED posted

Sent(d) == InLoop /\ Due /\ SendIt(d, TRUE) /\ Erase(d)

\* Mutant: the time of the try is not kept.
ResendForgetful(d) ==
  /\ InLoop /\ Due
  /\ \E taken \in BOOLEAN : SendIt(d, taken)
  /\ Keep(d, Current)

NotSentButResend(d) ==
  /\ InLoop /\ Due
  /\ \E taken \in BOOLEAN : SendIt(d, taken)
  /\ Keep(d, [Current EXCEPT !.lastTry = 0])

NotSentDoNotResend(d) ==
  /\ InLoop /\ Due
  /\ \E taken \in BOOLEAN : SendIt(d, taken)
  /\ Erase(d)

TimedOut ==
  /\ InLoop /\ ~Due /\ Current.age > MailAbandon
  /\ Erase(0)
  /\ UNCHANGED <<pending, posted, delivered>>

NotYet ==
  /\ InLoop /\ ~Due /\ Current.age <= MailAbandon
  /\ Keep(0, Current)
  /\ UNCHANGED <<pending, posted, delivered>>

EndOfPass ==
  /\ i > Len(messages)
  /\ i' = 0
  /\ UNCHANGED <<pending, messages, posted, delivered, passed>>

\* A restart: both lists are gone.
Restart ==
  /\ pending' = << >> /\ messages' = << >> /\ i' = 0 /\ passed' = {}
  /\ UNCHANGED <<posted, delivered>>

Run ==
  \/ Splice \/ TimedOut \/ NotYet \/ EndOfPass
  \/ \E d \in 0 .. MaxSend : Sent(d) \/ NotSentButResend(d) \/ NotSentDoNotResend(d)

MailerNext == Run \/ Restart \/ \E m \in Mails : SendMessage(m)

MailerSpec == MailerInit /\ [][MailerNext]_mailerVars

\* The thread runs; the mail server may fail for ever.
MailerFairSpec == MailerSpec /\ WF_mailerVars(Run)

-----------------------------------------------------------------------------

queued == Ids(pending) \cup Ids(messages)

Queue == INSTANCE MailQueue

\* The two lists together are a mail queue: no message disappears, in the
\* hand-over or in the loop that erases while it iterates, without having been
\* taken, refused or timed out.
IsMailQueue == Queue!MailSpec

\* A pass looks at every message that was in the list when it began.
WholePass == i > Len(messages) => Ids(messages) \subseteq passed

\* No message is tried for ever: it leaves the lists in the end, whatever the
\* mail server answers.
MailsLeave == \A m \in Mails : m \in queued ~> m \notin queued
=============================================================================
