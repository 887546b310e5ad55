---------------------------- MODULE ActionLinks ----------------------------
(***************************************************************************)
(* Action links: the links that verify e-mail addresses and reset          *)
(* passwords.  Handlers create them (with the account or for it), the      *)
(* thread of ActionLinkManager posts a mail for those that are not marked  *)
(* as sent and marks them, RESTAPI_action_links uses them, and all three   *)
(* change a link by reading the whole row and writing it back, with        *)
(* nothing to keep them apart.  Accounts are looked up behind UserCache,   *)
(* which keeps what was written or read last, also of an account that is   *)
(* gone.  The process may crash between any two steps: the tables stay,    *)
(* the cache and the mailer's queue do not.                                *)
(***************************************************************************)
EXTENDS Integers, FiniteSets

CONSTANTS Accounts,    \* ids of users and subscribers
          Subs,        \* the subscribers among them
          Links,       \* ids of action links
          Threads,     \* REST server threads
          Manager,     \* the thread of ActionLinkManager
          MaxBatch,    \* 200: how many links GetActions returns
          LinkLife,    \* 24 h: from created to expires
          SignupLife,  \* 1 h: the same for a sign-up
          KeepLinks,   \* 30 days: after which the archiver deletes links
          MaxTime,     \* bound on the clock
          MaxCrashes,  \* bound on the crashes
          MaxFills,    \* bound on the lookups under way
          None, Gone

ASSUME LinksAssumption ==
  /\ Subs \subseteq Accounts
  /\ MaxBatch \in Nat /\ LinkLife \in Nat /\ SignupLife \in Nat /\ KeepLinks \in Nat
  /\ MaxTime \in Nat /\ MaxCrashes \in Nat /\ MaxFills \in Nat
  /\ Manager \notin Threads

VARIABLES
  now,
  users,      \* the account tables: None before creation, Gone after deletion
  links,      \* the Actions table: None before creation, Gone after clean-up
  cached,     \* UserCache: the record of an account, or None
  fills,      \* what lookups have selected and not yet put into the cache
  batch,      \* Links in ActionLinkManager::run: those still to do
  pc,         \* where each thread is
  link,       \* the link each thread works on
  row,        \* its copy of the link's row
  user,       \* its copy of the account's record
  queued,     \* the links whose mail is in the memory of the mailer
  delivered,  \* the links whose mail the mail server has taken
  crashes,
  posted,     \* history: the links for which a mail was posted
  cancelled,  \* history: the links that have been cancelled
  late,       \* history: the request began after its link was cancelled
  dormant     \* history: accounts created to be verified that are not yet

tables == <<users, links>>
userCache == <<cached, fills>>
locals == <<pc, link, row, user>>
mail == <<queued, delivered>>
history == <<posted, cancelled, late, dormant>>
vars == <<now, tables, userCache, batch, locals, mail, crashes, history>>

Mailer == INSTANCE MailQueue WITH Mails <- Links

UserActions == {"FORGOT_PASSWORD", "VERIFY_EMAIL"}
SubActions == {"SUB_FORGOT_PASSWORD", "SUB_VERIFY_EMAIL", "SUB_SIGNUP"}

ActionLink == [action : UserActions \cup SubActions, userId : Accounts,
               created : Nat, sent : BOOLEAN]

\* expires - created
Life(act) == IF act = "SUB_SIGNUP" THEN SignupLife ELSE LinkLife

Expired(r) == now > r.created + Life(r.action)

UserInfo == [waitingForEmailCheck : BOOLEAN, suspended : BOOLEAN]

\* The marks of what is not there are no values.
ASSUME MarksAssumption ==
  /\ None # Gone /\ None \notin Links
  /\ {None, Gone} \cap UserInfo = {} /\ {None, Gone} \cap ActionLink = {}
  /\ None \notin [id : Accounts, record : UserInfo]

Actors == Threads \cup {Manager}

PCs == {"sleep", "next", "mail", "sent",                      \* the manager
        "idle", "verify", "update", "signupLink", "resend",  \* handlers
        "reset", "signup", "confirm", "complete",
        "cancel", "put"}                                      \* both

IsUser(a) == users[a] \in UserInfo
IsLink(l) == links[l] \in ActionLink

TypeOK ==
  /\ now \in Nat
  /\ users \in [Accounts -> UserInfo \cup {None, Gone}]
  /\ links \in [Links -> ActionLink \cup {None, Gone}]
  /\ cached \in [Accounts -> UserInfo \cup {None}]
  /\ fills \subseteq Accounts \X UserInfo
  /\ batch \subseteq Links \X ActionLink
  /\ pc \in [Actors -> PCs]
  /\ link \in [Actors -> Links \cup {None}]
  /\ row \in [Actors -> ActionLink \cup {None}]
  /\ user \in [Actors -> [id : Accounts, record : UserInfo] \cup {None}]
  /\ queued \in SUBSET Links /\ delivered \in SUBSET Links
  /\ \A x \in Actors : pc[x] = "put" => link[x] # None /\ row[x] # None
  /\ \A x \in Actors : pc[x] \in {"update", "verify", "signupLink"} => user[x] # None

AtRest == [x \in Actors |-> IF x = Manager THEN "sleep" ELSE "idle"]
Empty == [x \in Actors |-> None]
NoRecords == [a \in Accounts |-> None]

Init ==
  /\ now = 0
  /\ users = NoRecords
  /\ cached = NoRecords /\ fills = {}
  /\ links = [l \in Links |-> None]
  /\ batch = {}
  /\ pc = AtRest /\ link = Empty /\ row = Empty /\ user = Empty
  /\ Mailer!MailInit
  /\ crashes = 0
  /\ posted = {} /\ cancelled = {} /\ dormant = {}
  /\ late = [x \in Actors |-> FALSE]

-----------------------------------------------------------------------------

(* UserCache: GetUserById and GetUserByEmail are GetRecord.                 *)

Found(a) == cached[a] # None \/ IsUser(a)

Record(a) == IF cached[a] # None THEN cached[a] ELSE users[a]

\* GetRecord: what the cache has, or else the row, which is cached then.
Lookup(a) ==
  /\ cached' = IF Found(a) THEN [cached EXCEPT ![a] = Record(a)] ELSE cached
  /\ UNCHANGED fills

\* Any other request looks an account up, a login for one.  Selecting the row and
\* caching it are two steps: others may come between.
SelectUser(a) ==
  /\ cached[a] = None /\ IsUser(a)
  /\ \/ Lookup(a)
     \/ /\ Cardinality(fills) < MaxFills
        /\ fills' = fills \cup {<<a, users[a]>>} /\ UNCHANGED cached
  /\ UNCHANGED <<now, tables, batch, locals, mail, crashes, history>>

\* Several lookups may have selected the same.
CacheUser(f) ==
  /\ cached' = [cached EXCEPT ![f[1]] = f[2]]
  /\ fills' \in {fills, fills \ {f}}
  /\ UNCHANGED <<now, tables, batch, locals, mail, crashes, history>>

\* Poco's ExpireLRUCache drops what is old.
AgeUser(a) ==
  /\ cached[a] # None
  /\ cached' = [cached EXCEPT ![a] = None]
  /\ UNCHANGED <<now, tables, fills, batch, locals, mail, crashes, history>>

CacheStep ==
  \/ \E a \in Accounts : SelectUser(a) \/ AgeUser(a)
  \/ \E f \in fills : CacheUser(f)

-----------------------------------------------------------------------------

Goto(x, p) == pc' = [pc EXCEPT ![x] = p] /\ UNCHANGED <<link, row, user>>

\* A thread is done with its request; the manager with one link of its batch.
Done(x) ==
  /\ pc' = [pc EXCEPT ![x] = IF x = Manager THEN "next" ELSE "idle"]
  /\ link' = [link EXCEPT ![x] = None]
  /\ row' = [row EXCEPT ![x] = None]
  /\ user' = [user EXCEPT ![x] = None]
  /\ late' = [late EXCEPT ![x] = FALSE]

NewLink(l, act, a) ==
  /\ links[l] = None
  /\ links' = [links EXCEPT ![l] = [action |-> act, userId |-> a, created |-> now,
                                    sent |-> FALSE]]

\* SentAction, CompleteAction and CancelAction: GetRecord, change one field ...
\* (nothing reads the fields completed and canceled; the write-back matters).
Mark(x, changed) ==
  /\ IF IsLink(link[x])
       THEN /\ row' = [row EXCEPT ![x] = changed]
            /\ pc' = [pc EXCEPT ![x] = "put"]
            /\ UNCHANGED <<link, user, late>>
       ELSE Done(x)
  /\ UNCHANGED <<now, tables, userCache, batch, mail, crashes, posted, dormant>>

CancelAction(x) ==
  /\ pc[x] = "cancel"
  /\ Mark(x, links[link[x]])
  /\ cancelled' = cancelled \cup {link[x]}

SentAction ==
  /\ pc[Manager] = "sent"
  /\ Mark(Manager, [links[link[Manager]] EXCEPT !.sent = TRUE])
  /\ UNCHANGED cancelled

CompleteAction(t) ==
  /\ pc[t] = "complete"
  /\ Mark(t, links[link[t]])
  /\ UNCHANGED cancelled

\* ... and UpdateRecord: the whole row (one that is gone stays gone).
Put(x) ==
  /\ pc[x] = "put"
  /\ links' = IF IsLink(link[x]) THEN [links EXCEPT ![link[x]] = row[x]] ELSE links
  /\ Done(x)
  /\ UNCHANGED <<now, users, userCache, batch, mail, crashes, posted, cancelled, dormant>>

-----------------------------------------------------------------------------
(* ActionLinkManager::run                                                   *)

\* GetActions: at most MaxBatch rows with sent=0, which ones the database says.
GetActions ==
  /\ pc[Manager] = "sleep"
  /\ LET unsent == {l \in Links : IsLink(l) /\ ~links[l].sent}
     IN \E b \in SUBSET unsent :
          /\ Cardinality(b) <= MaxBatch
          /\ b = unsent \/ Cardinality(b) = MaxBatch
          /\ batch' = {<<l, links[l]>> : l \in b}
  /\ Goto(Manager, "next")
  /\ UNCHANGED <<now, tables, userCache, mail, crashes, history>>

\* The next link of the batch, whose account is looked up: without one the link
\* is cancelled.  The batch holds copies, so the row may be gone.
NextLink ==
  /\ pc[Manager] = "next"
  /\ \/ batch = {} /\ Goto(Manager, "sleep") /\ UNCHANGED <<batch, userCache>>
     \/ \E b \in batch :
          /\ batch' = batch \ {b}
          /\ link' = [link EXCEPT ![Manager] = b[1]]
          /\ row' = [row EXCEPT ![Manager] = b[2]]
          /\ pc' = [pc EXCEPT ![Manager] =
                      IF Found(b[2].userId) THEN "mail" ELSE "cancel"]
          /\ Lookup(b[2].userId)
          /\ UNCHANGED user
  /\ UNCHANGED <<now, tables, mail, crashes, history>>

\* Mutant: the link is marked before its mail is posted.
SendEmailLast ==
  /\ pc[Manager] = "mail"
  /\ links' = IF IsLink(link[Manager])
                THEN [links EXCEPT ![link[Manager]].sent = TRUE] ELSE links
  /\ Goto(Manager, "sent")
  /\ UNCHANGED <<now, users, userCache, batch, mail, crashes, history>>

\* SendEmailToUser, SendEmailToSubUser: the account is looked up once more, by
\* its e-mail address; the link is marked whether it was found or not.
SendEmail ==
  /\ pc[Manager] = "mail"
  /\ Lookup(row[Manager].userId)
  /\ IF Found(row[Manager].userId)
       THEN Mailer!Post(link[Manager]) /\ posted' = posted \cup {link[Manager]}
       ELSE UNCHANGED <<mail, posted>>
  /\ Goto(Manager, "sent")
  /\ UNCHANGED <<now, tables, batch, crashes, cancelled, late, dormant>>

ManagerStep ==
  \/ GetActions \/ NextLink \/ SendEmail \/ SentAction
  \/ CancelAction(Manager) \/ Put(Manager)

-----------------------------------------------------------------------------
(* Accounts: RESTAPI_user_handler, RESTAPI_subuser_handler and              *)
(* RESTAPI_signup_handler.                                                  *)

Verification(a) == IF a \in Subs THEN "SUB_VERIFY_EMAIL" ELSE "VERIFY_EMAIL"

Begin(t, a, record, p) ==
  /\ user' = [user EXCEPT ![t] = [id |-> a, record |-> record]]
  /\ pc' = [pc EXCEPT ![t] = p]
  /\ UNCHANGED <<link, row>>

\* DoPost: CreateUser, and with email_verification then VerifyEmail ...
CreateUser(t, a) ==
  /\ pc[t] = "idle" /\ users[a] = None
  /\ LET record == [waitingForEmailCheck |-> FALSE, suspended |-> FALSE]
     IN /\ users' = [users EXCEPT ![a] = record]
        /\ \/ UNCHANGED <<locals, dormant>>
           \/ Begin(t, a, record, "verify") /\ dormant' = dormant \cup {a}
  /\ UNCHANGED <<now, links, userCache, batch, mail, crashes, posted, cancelled, late>>

\* Mutant: the flag is not set.
VerifyEmailUnflagged(t, l) ==
  /\ pc[t] = "verify"
  /\ NewLink(l, Verification(user[t].id), user[t].id)
  /\ pc' = [pc EXCEPT ![t] = "update"]
  /\ UNCHANGED <<now, users, userCache, batch, mail, crashes, history, link, row, user>>

\* ... and then UpdateUserInfo with the flag that VerifyEmail has set.
VerifyEmail(t, l) ==
  /\ pc[t] = "verify"
  /\ NewLink(l, Verification(user[t].id), user[t].id)
  /\ user' = [user EXCEPT ![t].record.waitingForEmailCheck = TRUE]
  /\ pc' = [pc EXCEPT ![t] = "update"]
  /\ UNCHANGED <<now, users, userCache, batch, mail, crashes, history, link, row>>

\* DoPut: the record is changed in a copy; it may ask for a verification.
DoPut(t, a, s, verification) ==
  /\ pc[t] = "idle" /\ Found(a) /\ Lookup(a)
  /\ Begin(t, a, [Record(a) EXCEPT !.suspended = s],
           IF verification THEN "verify" ELSE "update")
  /\ UNCHANGED <<now, tables, batch, mail, crashes, history>>

\* DoPut refused for its MFA settings: the link was created before.
DoPutRefused(a, l) ==
  /\ Found(a) /\ Lookup(a)
  /\ NewLink(l, Verification(a), a)
  /\ UNCHANGED <<now, users, batch, locals, mail, crashes, history>>

\* HandleForgotPassword, the same in RESTAPI_subuser_handler, and
\* forgotPassword of the login handlers.
ForgotPassword(a, l) ==
  /\ Found(a) /\ Lookup(a)
  /\ NewLink(l, IF a \in Subs THEN "SUB_FORGOT_PASSWORD" ELSE "FORGOT_PASSWORD", a)
  /\ UNCHANGED <<now, users, batch, locals, mail, crashes, history>>

\* RESTAPI_signup_handler::DoPost: the subscriber is created, or found waiting
\* and with resend written back as it was read; then the link is created.
Signup(t, a) ==
  /\ pc[t] = "idle" /\ a \in Subs
  /\ LET record == [waitingForEmailCheck |-> TRUE, suspended |-> FALSE]
     IN \/ /\ users[a] = None
           /\ users' = [users EXCEPT ![a] = record]
           /\ Begin(t, a, record, "signupLink")
           /\ dormant' = dormant \cup {a}
           /\ UNCHANGED userCache
        \/ /\ Found(a) /\ Record(a).waitingForEmailCheck
           /\ Lookup(a)
           /\ \E p \in {"resend", "signupLink"} : Begin(t, a, Record(a), p)
           /\ UNCHANGED <<users, dormant>>
  /\ UNCHANGED <<now, links, batch, mail, crashes, posted, cancelled, late>>

\* UpdateUserInfo: the whole record (an account that is gone stays gone).
Written(t) == IF IsUser(user[t].id) THEN [users EXCEPT ![user[t].id] = user[t].record]
                                    ELSE users

\* UpdateRecord caches the record whether or not there was a row.
CacheWritten(t) ==
  cached' = [cached EXCEPT ![user[t].id] = user[t].record] /\ UNCHANGED fills

Resend(t) ==
  /\ pc[t] = "resend"
  /\ users' = Written(t) /\ CacheWritten(t)
  /\ Goto(t, "signupLink")
  /\ UNCHANGED <<now, links, batch, mail, crashes, history>>

SignupLink(t, l) ==
  /\ pc[t] = "signupLink"
  /\ NewLink(l, "SUB_SIGNUP", user[t].id)
  /\ Done(t)
  /\ UNCHANGED <<now, users, userCache, batch, mail, crashes, posted, cancelled, dormant>>

\* Mutant: the record is inserted when there is none.
UpdateUserInfoUpsert(t) ==
  /\ pc[t] = "update"
  /\ users' = [users EXCEPT ![user[t].id] = user[t].record] /\ CacheWritten(t)
  /\ IF link[t] = None
       THEN Done(t) /\ UNCHANGED dormant
       ELSE /\ Goto(t, "complete") /\ UNCHANGED late
            /\ dormant' = IF user[t].record.waitingForEmailCheck THEN dormant
                          ELSE dormant \ {user[t].id}
  /\ UNCHANGED <<now, links, batch, mail, crashes, posted, cancelled>>

\* The end of a request that changes an account; through a link, the link is
\* completed next.
UpdateUserInfo(t) ==
  /\ pc[t] = "update"
  /\ users' = Written(t) /\ CacheWritten(t)
  /\ IF link[t] = None
       THEN Done(t) /\ UNCHANGED dormant
       ELSE /\ Goto(t, "complete") /\ UNCHANGED late
            /\ dormant' = IF user[t].record.waitingForEmailCheck THEN dormant
                          ELSE dormant \ {user[t].id}
  /\ UNCHANGED <<now, links, batch, mail, crashes, posted, cancelled>>

\* DoDelete looks the account up; the row and the entry go, if they are there.
DeleteUser(a) ==
  /\ Found(a)
  /\ users' = [users EXCEPT ![a] = Gone]
  /\ cached' = [cached EXCEPT ![a] = None] /\ UNCHANGED fills
  /\ UNCHANGED <<now, links, batch, locals, mail, crashes, history>>

\* Authorize refuses suspended accounts and those that wait for the check.
MayLogin(a) == Found(a) /\ ~Record(a).suspended /\ ~Record(a).waitingForEmailCheck

-----------------------------------------------------------------------------
(* RESTAPI_action_links                                                     *)

\* Which links a request of a kind accepts, completed and cancelled ones too:
\* CompleteResetPassword, CompleteSubVerification, DoEmailVerification.
Accepts(kind, r) ==
  CASE kind = "reset" -> r.action \in UserActions \cup {"SUB_FORGOT_PASSWORD"}
    [] kind = "signup" -> TRUE
    [] kind = "confirm" -> r.action \in SubActions

\* Mutant: one of the three handlers does not look at expires.
UseLinkLateReset(t, l, kind) ==
  /\ pc[t] = "idle" /\ IsLink(l) /\ l \in delivered
  /\ \/ Expired(links[l]) /\ kind # "reset" /\ pc' = [pc EXCEPT ![t] = "cancel"]
     \/ /\ ~Expired(links[l]) \/ kind = "reset"
        /\ Accepts(kind, links[l])
        /\ pc' = [pc EXCEPT ![t] = kind]
  /\ link' = [link EXCEPT ![t] = l]
  /\ row' = [row EXCEPT ![t] = links[l]]
  /\ late' = [late EXCEPT ![t] = l \in cancelled]
  /\ UNCHANGED <<now, tables, userCache, batch, mail, crashes, posted, cancelled, dormant, user>>

\* A request with the id of a link, which only its mail tells: an expired link
\* is cancelled, another one decides what comes next.
UseLink(t, l, kind) ==
  /\ pc[t] = "idle" /\ IsLink(l) /\ l \in delivered
  /\ \/ Expired(links[l]) /\ pc' = [pc EXCEPT ![t] = "cancel"]
     \/ /\ ~Expired(links[l]) /\ Accepts(kind, links[l])
        /\ pc' = [pc EXCEPT ![t] = kind]
  /\ link' = [link EXCEPT ![t] = l]
  /\ row' = [row EXCEPT ![t] = links[l]]
  /\ late' = [late EXCEPT ![t] = l \in cancelled]
  /\ UNCHANGED <<now, tables, userCache, batch, mail, crashes, posted, cancelled, dormant, user>>

Account(t) == Record(row[t].userId)

Usable(t) ==
  /\ Found(row[t].userId)
  /\ pc[t] = "signup" => row[t].userId \in Subs
  /\ pc[t] # "confirm" => ~Account(t).suspended

\* Mutant: any link to reset a password verifies the address as well.
VerifiesAlways(t) == pc[t] \in {"reset", "signup", "confirm"}

Verifies(t) == pc[t] # "reset" \/ row[t].action = "VERIFY_EMAIL"

\* The account is looked up and changed in a copy; an account that is missing,
\* suspended or blacklisted, or a bad password, ends the request.
ReadUser(t) ==
  /\ pc[t] \in {"reset", "signup", "confirm"}
  /\ Lookup(row[t].userId)
  /\ \/ /\ Usable(t)
        /\ Begin(t, row[t].userId,
                 IF Verifies(t) THEN [Account(t) EXCEPT !.waitingForEmailCheck = FALSE]
                                ELSE Account(t), "update")
        /\ UNCHANGED late
     \/ (Usable(t) => pc[t] # "confirm") /\ Done(t)
  /\ UNCHANGED <<now, tables, batch, mail, crashes, posted, cancelled, dormant>>

HandlerStep(t) ==
  \/ UpdateUserInfo(t) \/ Resend(t) \/ ReadUser(t)
  \/ CompleteAction(t) \/ CancelAction(t) \/ Put(t)
  \/ \E l \in Links : VerifyEmail(t, l) \/ SignupLink(t, l)

Request(t) ==
  \/ \E a \in Accounts : CreateUser(t, a) \/ Signup(t, a)
  \/ \E a \in Accounts, s, v \in BOOLEAN : DoPut(t, a, s, v)
  \/ \E l \in Links, kind \in {"reset", "signup", "confirm"} : UseLink(t, l, kind)

-----------------------------------------------------------------------------

\* The mailer's thread, which this module knows by what it promises.
MailerStep(l) ==
  /\ Mailer!Deliver(l) \/ Mailer!GiveUp(l)
  /\ UNCHANGED <<now, tables, userCache, batch, locals, crashes, history>>

CleanOldActionLinks ==
  /\ LET old == {l \in Links : IsLink(l) /\ links[l].created + KeepLinks <= now}
     IN /\ old # {}
        /\ links' = [l \in Links |-> IF l \in old THEN Gone ELSE links[l]]
  /\ UNCHANGED <<now, users, userCache, batch, locals, mail, crashes, history>>

Crash ==
  /\ crashes < MaxCrashes
  /\ crashes' = crashes + 1
  /\ pc' = AtRest /\ link' = Empty /\ row' = Empty /\ user' = Empty
  /\ cached' = NoRecords /\ fills' = {}
  /\ batch' = {}
  /\ Mailer!Lose
  /\ late' = [x \in Actors |-> FALSE]
  /\ UNCHANGED <<now, tables, posted, cancelled, dormant>>

Tick ==
  /\ now < MaxTime
  /\ now' = now + 1
  /\ UNCHANGED <<tables, userCache, batch, locals, mail, crashes, history>>

Next ==
  \/ ManagerStep
  \/ \E t \in Threads : HandlerStep(t) \/ Request(t)
  \/ \E a \in Accounts : DeleteUser(a)
  \/ \E a \in Accounts, l \in Links : ForgotPassword(a, l) \/ DoPutRefused(a, l)
  \/ \E l \in Links : MailerStep(l)
  \/ CacheStep \/ CleanOldActionLinks \/ Crash \/ Tick

Spec == Init /\ [][Next]_vars

\* The manager's thread goes on.
FairSpec == Spec /\ WF_vars(ManagerStep)

-----------------------------------------------------------------------------

\* A link is marked as sent only when its mail has been posted or its account
\* is gone, whatever crashes and concurrent whole-row updates do: the manager
\* repeats a mail rather than leave it out.
SentAfterPost ==
  \A l \in Links : IsLink(l) /\ links[l].sent
    => l \in posted \/ users[links[l].userId] = Gone

\* No request tests the mark, and still a cancelled link is dead.  It had expired,
\* which every request tests first, or its account was gone: a later request may
\* still find that account, in the cache, but has no row left to change.
CancelledLinksRefused ==
  \A t \in Threads : pc[t] = "update" /\ link[t] # None /\ late[t]
                        => users[user[t].id] = Gone

\* Deleting an account cancels its verification: no request, link or late
\* whole-record update brings it back.
DeletionIsFinal == [][\A a \in Accounts : users[a] = Gone => users'[a] = Gone]_users

\* An account stops waiting only through a link to it that was mailed, and that of
\* a user only through one that verifies the address, not through a password reset
\* (when no request writes an account that another has read and not yet written).
\* A subscriber stops waiting through any link: neither CompleteSubVerification nor
\* DoEmailVerification looks at its action.
WaitingEndsByLink ==
  [][\A a \in Accounts :
       IsUser(a) /\ users[a].waitingForEmailCheck
       /\ IsUser(a)' /\ ~users'[a].waitingForEmailCheck
         => \E t \in Threads : /\ link[t] \in delivered
                               /\ user[t] # None /\ user[t].id = a
                               /\ row[t].userId = a
                               /\ a \in Subs \/ row[t].action = "VERIFY_EMAIL"]_users

\* An account created with e-mail verification cannot log in before a link has
\* verified it, once the request that creates it has ended (under the same condition,
\* with no crash between the insert and the update that sets the flag, and while it
\* exists).
Dormant ==
  \A a \in dormant : IsUser(a) /\ MayLogin(a)
                      => \E t \in Threads : user[t] # None /\ user[t].id = a

\* Every link gets its mail in the end, unless it or its account goes.
LinksGetMailed ==
  \A l \in Links : IsLink(l) ~> (l \in posted \/ ~IsLink(l) \/ ~IsUser(links[l].userId))
=============================================================================
