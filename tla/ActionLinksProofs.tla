------------------------- MODULE ActionLinksProofs -------------------------
(***************************************************************************)
(* Action links.  For any number of accounts, links, threads and crashes:  *)
(* types, SentAfterPost, CancelledLinksRefused and DeletionIsFinal. Rows   *)
(* are copied, kept for a while and written back whole; the argument is    *)
(* that no copy differs from its row in what the properties depend on, but *)
(* for the mark that a mail was sent. For requests that come one at a      *)
(* time: WaitingEndsByLink and Dormant, which overlapping requests break.  *)
(***************************************************************************)
EXTENDS ActionLinks, FiniteSetTheorems, TLAPS

USE LinksAssumption, MarksAssumption

LinkPCs == {"mail", "sent", "reset", "signup", "confirm", "complete", "cancel", "put"}

UserPCs == {"verify", "update", "signupLink", "resend"}

Copy == [id : Accounts, record : UserInfo]

TableTypes ==
  /\ now \in Nat
  /\ users \in [Accounts -> UserInfo \cup {None, Gone}]
  /\ links \in [Links -> ActionLink \cup {None, Gone}]
  /\ batch \subseteq Links \X ActionLink
  /\ queued \in SUBSET Links /\ delivered \in SUBSET Links
  /\ cancelled \in SUBSET Links

\* What the pcs need; a link and the copy of its row come together.
LocalTypes ==
  /\ pc \in [Actors -> PCs]
  /\ link \in [Actors -> Links \cup {None}]
  /\ row \in [Actors -> ActionLink \cup {None}]
  /\ user \in [Actors -> Copy \cup {None}]
  /\ late \in [Actors -> BOOLEAN]
  /\ \A x \in Actors : link[x] # None <=> row[x] # None
  /\ \A x \in Actors : pc[x] \in LinkPCs => link[x] # None
  /\ \A x \in Actors : pc[x] \in UserPCs => user[x] # None

CacheTypes ==
  /\ cached \in [Accounts -> UserInfo \cup {None}]
  /\ fills \subseteq Accounts \X UserInfo

RowTypes == TableTypes /\ LocalTypes

LinkTypes == TableTypes /\ LocalTypes /\ CacheTypes

\* What no update of a row changes.
Same(r, s) == r.action = s.action /\ r.userId = s.userId /\ r.created = s.created

\* The mail of the link was posted, or there is nobody to post it to.
Told(l, r) == l \in posted \/ users[r.userId] = Gone

\* No request may use the row any more.
Dead(r) == Expired(r) \/ users[r.userId] = Gone

LinkOK(l) ==
  /\ IsLink(l) => /\ users[links[l].userId] # None
                  /\ links[l].sent => Told(l, links[l])
  /\ l \in cancelled => /\ links[l] # None
                        /\ IsLink(l) => Dead(links[l])

\* r is a copy, perhaps an old one, of the row of link l.
CopyOK(l, r) ==
  /\ links[l] # None /\ users[r.userId] # None
  /\ IsLink(l) => Same(links[l], r)

\* A thread marks a link as sent when it may and cancels a link when it is dead.  A
\* request that came too late gets to no account that is there; a sign-up is of a
\* subscriber.
LatePCs == {"reset", "signup", "confirm", "update", "complete", "cancel", "put"}

ActorOK(x) ==
  /\ row[x] # None => CopyOK(link[x], row[x])
  /\ user[x] # None => users[user[x].id] # None
  /\ pc[x] = "put" /\ row[x].sent => Told(link[x], row[x])
  /\ pc[x] = "sent" => Told(link[x], row[x])
  /\ pc[x] = "cancel" => Dead(row[x])
  /\ late[x] => /\ row[x] # None /\ pc[x] \in LatePCs
                /\ pc[x] \notin {"cancel", "put"} => users[row[x].userId] = Gone
                /\ pc[x] = "update" => user[x].id = row[x].userId
  /\ pc[x] \in {"resend", "signupLink"} => user[x].id \in Subs

\* The cache and the lookups know accounts that are there or were.
CacheKnown ==
  /\ \A a \in Accounts : cached[a] # None => users[a] # None
  /\ \A f \in fills : users[f[1]] # None

\* The strengthening of SentAfterPost and CancelledLinksRefused.
LinkInv ==
  /\ LinkTypes /\ CacheKnown
  /\ \A l \in Links : LinkOK(l)
  /\ \A b \in batch : CopyOK(b[1], b[2])
  /\ \A x \in Actors : ActorOK(x)

-----------------------------------------------------------------------------
(* Rows and records                                                         *)

LEMMA Rows ==
  /\ \A r \in ActionLink : /\ r.action \in UserActions \cup SubActions
                           /\ r.userId \in Accounts /\ r.created \in Nat
                           /\ r.sent \in BOOLEAN
                           /\ [r EXCEPT !.sent = TRUE] \in ActionLink
                           /\ Same(r, [r EXCEPT !.sent = TRUE])
                           /\ r # None /\ r # Gone
  /\ \A act \in UserActions \cup SubActions, a \in Accounts, n \in Nat :
       LET r == [action |-> act, userId |-> a, created |-> n, sent |-> FALSE]
       IN r \in ActionLink /\ r.userId = a /\ ~r.sent
BY DEF ActionLink, Same

LEMMA Records ==
  /\ \A b \in BOOLEAN : [waitingForEmailCheck |-> b, suspended |-> FALSE] \in UserInfo
  /\ \A r \in UserInfo : /\ \A s \in BOOLEAN : /\ [r EXCEPT !.suspended = s] \in UserInfo
                                               /\ [r EXCEPT !.waitingForEmailCheck = s] \in UserInfo
                         /\ r # None /\ r # Gone
BY DEF UserInfo

LEMMA Copies ==
  /\ \A a \in Accounts, r \in UserInfo :
       LET c == [id |-> a, record |-> r] IN c \in Copy /\ c.id = a /\ c.record = r
  /\ \A c \in Copy : /\ c.id \in Accounts /\ c.record \in UserInfo /\ c # None
                     /\ c = [id |-> c.id, record |-> c.record]
BY DEF Copy

LEMMA Actions ==
  /\ \A a \in Accounts : Verification(a) \in UserActions \cup SubActions
  /\ \A a \in Accounts : (IF a \in Subs THEN "SUB_FORGOT_PASSWORD" ELSE "FORGOT_PASSWORD")
                           \in UserActions \cup SubActions
  /\ "SUB_SIGNUP" \in UserActions \cup SubActions
  /\ \A a \in Accounts : Verification(a) \in SubActions => a \in Subs
  /\ \A a \in Accounts : (IF a \in Subs THEN "SUB_FORGOT_PASSWORD" ELSE "FORGOT_PASSWORD")
                           \in SubActions => a \in Subs
  /\ "VERIFY_EMAIL" \notin SubActions
BY DEF Verification, UserActions, SubActions

LEMMA TypesImplyTypeOK == LinkTypes => TypeOK
BY DEF LinkTypes, TableTypes, LocalTypes, CacheTypes, TypeOK, Copy, LinkPCs, UserPCs

LEMMA RecordTypes ==
  ASSUME LinkTypes, NEW a \in Accounts, Found(a)
  PROVE  Record(a) \in UserInfo
BY DEF LinkTypes, CacheTypes, Found, Record, IsUser

-----------------------------------------------------------------------------
(* Types                                                                    *)

LEMMA DoneTypes ==
  ASSUME LocalTypes, NEW x \in Actors, Done(x)
  PROVE  LocalTypes'
BY DEF LocalTypes, Done, PCs, LinkPCs, UserPCs

LEMMA GotoTypes ==
  ASSUME LocalTypes, NEW x \in Actors, NEW p \in PCs, Goto(x, p), UNCHANGED late,
         p \in LinkPCs => link[x] # None,
         p \in UserPCs => user[x] # None
  PROVE  LocalTypes'
BY DEF LocalTypes, Goto

LEMMA BeginTypes ==
  ASSUME LocalTypes, NEW x \in Actors, NEW a \in Accounts, NEW r \in UserInfo,
         NEW p \in UserPCs, Begin(x, a, r, p), UNCHANGED late
  PROVE  LocalTypes'
<1> DEFINE c == [id |-> a, record |-> r]
<1>1. c \in Copy /\ c # None
  BY Copies
<1>2. user' = [user EXCEPT ![x] = c] /\ pc' = [pc EXCEPT ![x] = p] /\ UNCHANGED <<link, row>>
  BY DEF Begin
<1>3. p \in PCs /\ p \notin LinkPCs
  BY DEF UserPCs, PCs, LinkPCs
<1> HIDE DEF c
<1> QED BY <1>1, <1>2, <1>3 DEF LocalTypes

LEMMA NewLinkTypes ==
  ASSUME TableTypes, NEW l \in Links, NEW act \in UserActions \cup SubActions,
         NEW a \in Accounts, NewLink(l, act, a)
  PROVE  links' \in [Links -> ActionLink \cup {None, Gone}]
<1> DEFINE r == [action |-> act, userId |-> a, created |-> now, sent |-> FALSE]
<1>1. r \in ActionLink
  BY Rows DEF TableTypes
<1>2. links' = [links EXCEPT ![l] = r]
  BY DEF NewLink
<1> HIDE DEF r
<1> QED BY <1>1, <1>2 DEF TableTypes

LEMMA MarkTypes ==
  ASSUME LinkTypes, NEW x \in Actors, link[x] # None,
         NEW r, IsLink(link[x]) => r \in ActionLink, Mark(x, r)
  PROVE  LocalTypes'
<1>1. CASE IsLink(link[x])
  <2>1. /\ row' = [row EXCEPT ![x] = r] /\ pc' = [pc EXCEPT ![x] = "put"]
        /\ UNCHANGED <<link, user, late>> /\ r \in ActionLink
    BY <1>1 DEF Mark
  <2>2. r # None
    BY <2>1, Rows
  <2> QED BY <2>1, <2>2 DEF LinkTypes, LocalTypes, PCs, LinkPCs, UserPCs
<1>2. CASE ~IsLink(link[x])
  BY <1>2, DoneTypes DEF Mark, LinkTypes
<1> QED BY <1>1, <1>2

LEMMA WrittenTypes ==
  ASSUME LinkTypes, NEW t \in Actors, user[t] # None
  PROVE  /\ Written(t) \in [Accounts -> UserInfo \cup {None, Gone}]
         /\ \A a \in Accounts : ~IsUser(a) => Written(t)[a] = users[a]
         /\ \A a \in Accounts : IsUser(a) => Written(t)[a] \in UserInfo
<1>1. user[t] \in Copy
  BY DEF LinkTypes, LocalTypes
<1>2. user[t].id \in Accounts /\ user[t].record \in UserInfo
  BY <1>1, Copies
<1> QED BY <1>2 DEF Written, IsUser, LinkTypes, TableTypes

LEMMA CancelTypes ==
  ASSUME LinkTypes, NEW x \in Actors, CancelAction(x)
  PROVE  RowTypes'
<1>1. link[x] # None /\ link[x] \in Links
  BY DEF CancelAction, LinkTypes, LocalTypes, LinkPCs
<1>2. LocalTypes'
  BY <1>1, MarkTypes DEF CancelAction, IsLink
<1> QED BY <1>1, <1>2 DEF CancelAction, Mark, RowTypes, LinkTypes, TableTypes, tables, mail

LEMMA PutTypes ==
  ASSUME LinkTypes, NEW x \in Actors, Put(x)
  PROVE  RowTypes'
<1>1. link[x] \in Links /\ row[x] \in ActionLink
  BY DEF Put, LinkTypes, LocalTypes, LinkPCs
<1>2. LocalTypes'
  BY DoneTypes DEF Put, LinkTypes
<1> QED BY <1>1, <1>2 DEF Put, RowTypes, LinkTypes, TableTypes, mail

\* The types through a step of the manager, through a step of a handler, and
\* through a request.
LEMMA ManagerTypes == LinkTypes /\ ManagerStep => RowTypes'
<1> SUFFICES ASSUME LinkTypes, ManagerStep PROVE RowTypes'
  OBVIOUS
<1>0. Manager \in Actors
  BY DEF Actors
<1>1. CASE GetActions
  <2>1. batch' \subseteq Links \X ActionLink
    BY <1>1 DEF GetActions, IsLink
  <2>2. LocalTypes'
    BY <1>0, <1>1, GotoTypes DEF GetActions, LinkTypes, history, PCs, LinkPCs, UserPCs
  <2>3. UNCHANGED <<now, users, links, queued, delivered, cancelled>>
    BY <1>1 DEF GetActions, tables, mail, history
  <2> QED BY <2>1, <2>2, <2>3 DEF RowTypes, LinkTypes, TableTypes
<1>2. CASE NextLink
  <2>1. TableTypes'
    <3>1. batch' \subseteq batch
      BY <1>2 DEF NextLink
    <3> QED BY <1>2, <3>1 DEF NextLink, RowTypes, LinkTypes, TableTypes, tables, mail, history
  <2>2. CASE batch = {} /\ Goto(Manager, "sleep")
    <3>1. UNCHANGED late
      BY <1>2 DEF NextLink, history
    <3>2. LocalTypes'
      BY <1>0, <2>2, <3>1, GotoTypes DEF LinkTypes, PCs, LinkPCs, UserPCs
    <3> QED BY <2>1, <3>2 DEF RowTypes, LinkTypes
  <2>3. ASSUME NEW b \in batch,
               link' = [link EXCEPT ![Manager] = b[1]],
               row' = [row EXCEPT ![Manager] = b[2]],
               pc' = [pc EXCEPT ![Manager] = IF Found(b[2].userId) THEN "mail" ELSE "cancel"],
               UNCHANGED user
        PROVE  LocalTypes'
    <3>1. b[1] \in Links /\ b[2] \in ActionLink
      BY DEF LinkTypes, TableTypes
    <3>2. b[1] # None /\ b[2] # None
      BY <3>1, Rows
    <3>3. UNCHANGED late
      BY <1>2 DEF NextLink, history
    <3> QED BY <1>0, <2>3, <3>1, <3>2, <3>3 DEF RowTypes, LinkTypes, LocalTypes, PCs, LinkPCs, UserPCs
  <2> QED BY <1>2, <2>1, <2>2, <2>3 DEF NextLink, RowTypes, LinkTypes
<1>3. CASE SendEmail
  <2>0. pc[Manager] = "mail"
    BY <1>3 DEF SendEmail
  <2>1. link[Manager] \in Links
    BY <1>0, <2>0 DEF LinkTypes, LocalTypes, LinkPCs
  <2>2. queued' \in SUBSET Links /\ delivered' \in SUBSET Links
    BY <1>3, <2>1 DEF SendEmail, Mailer!Post, LinkTypes, TableTypes, mail
  <2>3. LocalTypes'
    BY <1>0, <1>3, <2>0, <2>1, GotoTypes DEF SendEmail, LinkTypes, LocalTypes, PCs, LinkPCs, UserPCs
  <2> QED BY <1>3, <2>2, <2>3 DEF SendEmail, RowTypes, LinkTypes, TableTypes, tables
<1>4. CASE SentAction
  <2> DEFINE r == [links[link[Manager]] EXCEPT !.sent = TRUE]
  <2>1. link[Manager] # None
    BY <1>0, <1>4 DEF SentAction, LinkTypes, LocalTypes, LinkPCs
  <2>2. IsLink(link[Manager]) => r \in ActionLink
    BY Rows DEF IsLink
  <2>3. Mark(Manager, r)
    BY <1>4 DEF SentAction
  <2> HIDE DEF r
  <2>4. LocalTypes'
    BY <1>0, <2>1, <2>2, <2>3, MarkTypes
  <2> QED BY <1>4, <2>3, <2>4 DEF SentAction, Mark, RowTypes, LinkTypes, TableTypes, tables, mail
<1> QED BY <1>0, <1>1, <1>2, <1>3, <1>4, CancelTypes, PutTypes DEF ManagerStep

LEMMA HandlerTypes ==
  ASSUME LinkTypes, NEW t \in Threads, HandlerStep(t)
  PROVE  RowTypes'
<1>0. t \in Actors
  BY DEF Actors
<1>1. CASE UpdateUserInfo(t)
  <2>0. pc[t] = "update" /\ user[t] # None
    BY <1>0, <1>1 DEF UpdateUserInfo, LinkTypes, LocalTypes, UserPCs
  <2>1. users' \in [Accounts -> UserInfo \cup {None, Gone}]
    BY <1>0, <1>1, <2>0, WrittenTypes DEF UpdateUserInfo
  <2>2. CASE link[t] = None
    BY <1>0, <1>1, <2>2, DoneTypes, <2>1 DEF UpdateUserInfo, RowTypes, LinkTypes, TableTypes, mail
  <2>3. CASE link[t] # None
    <3>1. Goto(t, "complete") /\ UNCHANGED late
      BY <1>1, <2>3 DEF UpdateUserInfo
    <3>2. LocalTypes'
      BY <1>0, <2>3, <3>1, GotoTypes DEF LinkTypes, PCs, LinkPCs, UserPCs
    <3> QED BY <1>1, <2>1, <3>2 DEF UpdateUserInfo, RowTypes, LinkTypes, TableTypes, mail
  <2> QED BY <2>2, <2>3
<1>2. CASE Resend(t)
  <2>0. pc[t] = "resend" /\ user[t] # None
    BY <1>0, <1>2 DEF Resend, LinkTypes, LocalTypes, UserPCs
  <2>1. users' \in [Accounts -> UserInfo \cup {None, Gone}]
    BY <1>0, <1>2, <2>0, WrittenTypes DEF Resend
  <2>2. LocalTypes'
    BY <1>0, <1>2, <2>0, GotoTypes DEF Resend, history, LinkTypes, PCs, LinkPCs, UserPCs
  <2> QED BY <1>2, <2>1, <2>2 DEF Resend, RowTypes, LinkTypes, TableTypes, mail, history
<1>3. CASE ReadUser(t)
  <2>0. TableTypes'
    BY <1>3 DEF ReadUser, LinkTypes, TableTypes, tables, mail
  <2>1. row[t] \in ActionLink
    BY <1>0, <1>3 DEF ReadUser, LinkTypes, LocalTypes, LinkPCs
  <2>2. row[t].userId \in Accounts
    BY <2>1, Rows
  <2>3. CASE Done(t)
    BY <1>0, <2>0, <2>3, DoneTypes DEF RowTypes, LinkTypes
  <2>4. CASE Usable(t) /\ ~Done(t)
    <3> DEFINE r == IF Verifies(t) THEN [Account(t) EXCEPT !.waitingForEmailCheck = FALSE]
                                   ELSE Account(t)
    <3>1. Account(t) \in UserInfo
      BY <2>2, <2>4, RecordTypes DEF Usable, Account
    <3>2. r \in UserInfo
      BY <3>1, Records
    <3>3. Begin(t, row[t].userId, r, "update") /\ UNCHANGED late
      BY <1>3, <2>4 DEF ReadUser
    <3> HIDE DEF r
    <3> QED BY <1>0, <2>0, <2>2, <3>2, <3>3, BeginTypes DEF RowTypes, LinkTypes, UserPCs
  <2> QED BY <1>3, <2>3, <2>4 DEF ReadUser
<1>4. CASE CompleteAction(t)
  <2>1. link[t] # None
    BY <1>0, <1>4 DEF CompleteAction, LinkTypes, LocalTypes, LinkPCs
  <2>2. LocalTypes'
    BY <1>0, <1>4, <2>1, MarkTypes DEF CompleteAction, IsLink
  <2> QED BY <1>4, <2>2 DEF CompleteAction, Mark, RowTypes, LinkTypes, TableTypes, tables, mail
<1>5. ASSUME NEW l \in Links, VerifyEmail(t, l) PROVE RowTypes'
  <2>0. pc[t] = "verify" /\ user[t] # None /\ user[t] \in Copy
    BY <1>0, <1>5 DEF VerifyEmail, LinkTypes, LocalTypes, UserPCs
  <2>1. user[t].id \in Accounts
    BY <2>0, Copies
  <2>2. links' \in [Links -> ActionLink \cup {None, Gone}]
    BY <1>5, <2>1, NewLinkTypes, Actions DEF VerifyEmail, LinkTypes
  <2>3. TableTypes'
    BY <1>5, <2>2 DEF VerifyEmail, LinkTypes, TableTypes, mail, history
  <2> DEFINE c == [user[t] EXCEPT !.record.waitingForEmailCheck = TRUE]
  <2>4. c \in Copy
    BY <2>0 DEF Copy, UserInfo
  <2>5. /\ user' = [user EXCEPT ![t] = c] /\ pc' = [pc EXCEPT ![t] = "update"]
        /\ UNCHANGED <<link, row, late>>
    BY <1>5 DEF VerifyEmail, history
  <2> HIDE DEF c
  <2>6. c # None
    BY <2>4, Copies
  <2>7. LocalTypes'
    BY <1>0, <2>4, <2>5, <2>6 DEF LinkTypes, LocalTypes, PCs, LinkPCs, UserPCs
  <2> QED BY <2>3, <2>7 DEF RowTypes, LinkTypes
<1>6. ASSUME NEW l \in Links, SignupLink(t, l) PROVE RowTypes'
  <2>0. user[t] \in Copy
    BY <1>0, <1>6 DEF SignupLink, LinkTypes, LocalTypes, UserPCs
  <2>1. user[t].id \in Accounts
    BY <2>0, Copies
  <2>2. links' \in [Links -> ActionLink \cup {None, Gone}]
    BY <1>6, <2>1, NewLinkTypes, Actions DEF SignupLink, LinkTypes
  <2> QED BY <1>0, <1>6, <2>2, DoneTypes DEF SignupLink, RowTypes, LinkTypes, TableTypes, mail
<1> QED BY <1>0, <1>1, <1>2, <1>3, <1>4, <1>5, <1>6, CancelTypes, PutTypes DEF HandlerStep

LEMMA RequestTypes ==
  ASSUME LinkTypes, NEW t \in Threads, Request(t)
  PROVE  RowTypes'
<1>0. t \in Actors
  BY DEF Actors
<1> DEFINE fresh(b) == [waitingForEmailCheck |-> b, suspended |-> FALSE]
<1>1. ASSUME NEW a \in Accounts, CreateUser(t, a) PROVE RowTypes'
  <2>1. fresh(FALSE) \in UserInfo
    BY Records
  <2>2. /\ users' = [users EXCEPT ![a] = fresh(FALSE)]
        /\ UNCHANGED locals \/ Begin(t, a, fresh(FALSE), "verify")
        /\ UNCHANGED <<now, links, batch, mail, cancelled, late>>
    BY <1>1 DEF CreateUser
  <2> HIDE DEF fresh
  <2>3. TableTypes'
    BY <2>1, <2>2 DEF LinkTypes, TableTypes, mail
  <2>4. CASE UNCHANGED locals
    BY <2>2, <2>3, <2>4 DEF RowTypes, LinkTypes, LocalTypes, locals
  <2>5. CASE Begin(t, a, fresh(FALSE), "verify")
    BY <1>0, <2>1, <2>2, <2>3, <2>5, BeginTypes DEF RowTypes, LinkTypes, UserPCs
  <2> QED BY <2>2, <2>4, <2>5
<1>2. ASSUME NEW a \in Accounts, Signup(t, a) PROVE RowTypes'
  <2>1. fresh(TRUE) \in UserInfo
    BY Records
  <2>2. /\ \/ users' = [users EXCEPT ![a] = fresh(TRUE)] /\ Begin(t, a, fresh(TRUE), "signupLink")
           \/ /\ Found(a) /\ UNCHANGED users
              /\ \E p \in {"resend", "signupLink"} : Begin(t, a, Record(a), p)
        /\ UNCHANGED <<now, links, batch, mail, cancelled, late>>
    BY <1>2 DEF Signup
  <2> HIDE DEF fresh
  <2>3. TableTypes'
    BY <2>1, <2>2 DEF LinkTypes, TableTypes, mail
  <2>4. PICK p \in UserPCs, r \in UserInfo : Begin(t, a, r, p)
    BY <2>1, <2>2, RecordTypes DEF UserPCs
  <2> QED BY <1>0, <2>2, <2>3, <2>4, BeginTypes DEF RowTypes, LinkTypes
<1>3. ASSUME NEW a \in Accounts, NEW s \in BOOLEAN, NEW v \in BOOLEAN, DoPut(t, a, s, v)
      PROVE  RowTypes'
  <2>1. Record(a) \in UserInfo
    BY <1>3, RecordTypes DEF DoPut
  <2>2. [Record(a) EXCEPT !.suspended = s] \in UserInfo
    BY <2>1, Records
  <2>3. LocalTypes'
    BY <1>0, <1>3, <2>2, BeginTypes DEF DoPut, LinkTypes, UserPCs, history
  <2> QED BY <1>3, <2>3 DEF DoPut, RowTypes, LinkTypes, TableTypes, tables, mail, history
<1>4. ASSUME NEW l \in Links, NEW kind \in {"reset", "signup", "confirm"}, UseLink(t, l, kind)
      PROVE  RowTypes'
  <2>1. TableTypes'
    BY <1>4 DEF UseLink, LinkTypes, TableTypes, tables, mail
  <2>2. links[l] \in ActionLink /\ links[l] # None /\ l # None
    BY <1>4, Rows DEF UseLink, IsLink
  <2>3. PICK p \in {"reset", "signup", "confirm", "cancel"} :
          /\ pc' = [pc EXCEPT ![t] = p]
          /\ link' = [link EXCEPT ![t] = l]
          /\ row' = [row EXCEPT ![t] = links[l]]
          /\ late' = [late EXCEPT ![t] = l \in cancelled]
          /\ UNCHANGED user
    BY <1>4 DEF UseLink
  <2>4. late' \in [Actors -> BOOLEAN]
    <3> DEFINE q == l \in cancelled
    <3>1. q \in BOOLEAN /\ late' = [late EXCEPT ![t] = q]
      BY <2>3
    <3> HIDE DEF q
    <3> QED BY <3>1 DEF RowTypes, LinkTypes, LocalTypes
  <2>5. LocalTypes'
    BY <1>0, <2>2, <2>3, <2>4 DEF LinkTypes, LocalTypes, PCs, LinkPCs, UserPCs
  <2> QED BY <2>1, <2>5 DEF RowTypes, LinkTypes
<1> QED BY <1>1, <1>2, <1>3, <1>4 DEF Request

LEMMA TypesInit == Init => LinkTypes
<1> SUFFICES ASSUME Init PROVE LinkTypes
  OBVIOUS
<1>1. TableTypes
  BY DEF Init, TableTypes, NoRecords, Mailer!MailInit
<1>2. LocalTypes
  BY DEF Init, LocalTypes, AtRest, Empty, PCs, LinkPCs, UserPCs
<1>3. CacheTypes
  BY DEF Init, CacheTypes, NoRecords
<1> QED BY <1>1, <1>2, <1>3 DEF LinkTypes

\* What may happen to the entry of an account in the cache: it goes, a lookup puts
\* the row or what a lookup selected before, a thread puts what it writes.
CacheMove(a) ==
  \/ cached'[a] \in {cached[a], None}
  \/ Found(a) /\ cached'[a] = Record(a)
  \/ \E f \in fills : f[1] = a /\ cached'[a] = f[2]
  \/ \E t \in Threads : /\ pc[t] \in {"update", "resend"} /\ user[t] \in Copy
                        /\ user[t].id = a /\ cached'[a] = user[t].record
                        /\ users' = Written(t)

\* A lookup has selected a row that is there.
FillMove(f) ==
  f \in fills \/ (f[1] \in Accounts /\ users[f[1]] \in UserInfo /\ f[2] = users[f[1]]
                 /\ UNCHANGED users)

CacheMoves == (\A a \in Accounts : CacheMove(a)) /\ (\A f \in fills' : FillMove(f))

LEMMA LookupMoves ==
  ASSUME LinkTypes, NEW a \in Accounts, Lookup(a)
  PROVE  CacheTypes' /\ CacheMoves
<1>0. CacheTypes
  BY DEF LinkTypes
<1>1. Found(a) => Record(a) \in UserInfo
  BY RecordTypes
<1>2. /\ \/ cached' = [cached EXCEPT ![a] = Record(a)] /\ Found(a)
         \/ UNCHANGED cached
      /\ UNCHANGED fills
  BY DEF Lookup
<1>3. CacheTypes'
  BY <1>0, <1>1, <1>2 DEF CacheTypes
<1>4. \A b \in Accounts : CacheMove(b)
  BY <1>0, <1>2 DEF CacheTypes, CacheMove
<1> QED BY <1>2, <1>3, <1>4 DEF CacheMoves, FillMove

LEMMA WriteMoves ==
  ASSUME LinkTypes, NEW t \in Threads, pc[t] \in {"update", "resend"},
         users' = Written(t), CacheWritten(t)
  PROVE  CacheTypes' /\ CacheMoves
<1>0. CacheTypes /\ user[t] \in Copy
  BY DEF LinkTypes, LocalTypes, UserPCs, Actors
<1>1. user[t].id \in Accounts /\ user[t].record \in UserInfo
  BY <1>0, Copies
<1>2. cached' = [cached EXCEPT ![user[t].id] = user[t].record] /\ UNCHANGED fills
  BY DEF CacheWritten
<1>3. CacheTypes'
  BY <1>0, <1>1, <1>2 DEF CacheTypes
<1>4. ASSUME NEW b \in Accounts PROVE CacheMove(b)
  <2>1. CASE b = user[t].id
    <3>1. cached'[b] = user[t].record
      BY <1>0, <1>1, <1>2, <2>1 DEF CacheTypes
    <3> QED BY <1>0, <2>1, <3>1 DEF CacheMove
  <2>2. CASE b # user[t].id
    BY <1>0, <1>2, <2>2 DEF CacheTypes, CacheMove
  <2> QED BY <2>1, <2>2
<1> QED BY <1>2, <1>3, <1>4 DEF CacheMoves, FillMove

LEMMA CacheChange ==
  ASSUME LinkTypes, [Next]_vars
  PROVE  CacheTypes' /\ CacheMoves
<1>0. CacheTypes /\ Manager \in Actors /\ Threads \subseteq Actors
  BY DEF LinkTypes, Actors
<1>1. ASSUME UNCHANGED userCache PROVE CacheTypes' /\ CacheMoves
  BY <1>0, <1>1 DEF userCache, CacheTypes, CacheMoves, CacheMove, FillMove
<1>2. CASE ManagerStep
  <2>1. CASE GetActions \/ SentAction \/ CancelAction(Manager) \/ Put(Manager)
    BY <1>1, <2>1 DEF GetActions, SentAction, CancelAction, Put, Mark
  <2>2. CASE NextLink
    <3>1. ASSUME NEW b \in batch, Lookup(b[2].userId) PROVE CacheTypes' /\ CacheMoves
      <4>1. b[2] \in ActionLink
        BY DEF LinkTypes, TableTypes
      <4> QED BY <3>1, <4>1, Rows, LookupMoves
    <3> QED BY <1>1, <2>2, <3>1 DEF NextLink
  <2>3. CASE SendEmail
    <3>1. row[Manager] \in ActionLink
      BY <1>0, <2>3 DEF SendEmail, LinkTypes, LocalTypes, LinkPCs
    <3> QED BY <2>3, <3>1, Rows, LookupMoves DEF SendEmail
  <2> QED BY <1>2, <2>1, <2>2, <2>3 DEF ManagerStep
<1>3. ASSUME NEW t \in Threads, HandlerStep(t) PROVE CacheTypes' /\ CacheMoves
  <2>1. CASE UpdateUserInfo(t) \/ Resend(t)
    BY <2>1, WriteMoves DEF UpdateUserInfo, Resend
  <2>2. CASE ReadUser(t)
    <3>1. row[t] \in ActionLink
      BY <1>0, <2>2 DEF ReadUser, LinkTypes, LocalTypes, LinkPCs
    <3> QED BY <2>2, <3>1, Rows, LookupMoves DEF ReadUser
  <2>3. CASE CompleteAction(t) \/ CancelAction(t) \/ Put(t)
    BY <1>1, <2>3 DEF CompleteAction, CancelAction, Put, Mark
  <2>4. CASE \E l \in Links : VerifyEmail(t, l) \/ SignupLink(t, l)
    BY <1>1, <2>4 DEF VerifyEmail, SignupLink
  <2> QED BY <1>3, <2>1, <2>2, <2>3, <2>4 DEF HandlerStep
<1>4. ASSUME NEW t \in Threads, Request(t) PROVE CacheTypes' /\ CacheMoves
  <2>1. CASE \E a \in Accounts : CreateUser(t, a) \/ Signup(t, a)
    BY <1>1, <2>1, LookupMoves DEF CreateUser, Signup
  <2>2. CASE \E a \in Accounts, s, v \in BOOLEAN : DoPut(t, a, s, v)
    BY <2>2, LookupMoves DEF DoPut
  <2>3. CASE \E l \in Links, kind \in {"reset", "signup", "confirm"} : UseLink(t, l, kind)
    BY <1>1, <2>3 DEF UseLink
  <2> QED BY <1>4, <2>1, <2>2, <2>3 DEF Request
<1>5. ASSUME NEW a \in Accounts, DeleteUser(a) PROVE CacheTypes' /\ CacheMoves
  BY <1>0, <1>5 DEF DeleteUser, CacheTypes, CacheMoves, CacheMove, FillMove
<1>6. ASSUME NEW a \in Accounts, NEW l \in Links, ForgotPassword(a, l) \/ DoPutRefused(a, l)
      PROVE  CacheTypes' /\ CacheMoves
  BY <1>6, LookupMoves DEF ForgotPassword, DoPutRefused
<1>7. CASE CacheStep
  <2>1. ASSUME NEW a \in Accounts, SelectUser(a) PROVE CacheTypes' /\ CacheMoves
    <3>1. CASE Lookup(a)
      BY <3>1, LookupMoves
    <3>2. CASE ~Lookup(a)
      <4> DEFINE f == <<a, users[a]>>
      <4>1. users[a] \in UserInfo /\ fills' = fills \cup {f} /\ UNCHANGED <<cached, users>>
        BY <2>1, <3>2 DEF SelectUser, IsUser, tables
      <4>2. f \in Accounts \X UserInfo /\ f[1] = a /\ f[2] = users[a]
        BY <4>1
      <4> HIDE DEF f
      <4>3. FillMove(f)
        BY <4>1, <4>2 DEF FillMove
      <4> QED BY <1>0, <4>1, <4>2, <4>3 DEF CacheTypes, CacheMoves, CacheMove, FillMove
    <3> QED BY <3>1, <3>2
  <2>2. ASSUME NEW a \in Accounts, AgeUser(a) PROVE CacheTypes' /\ CacheMoves
    BY <1>0, <2>2 DEF AgeUser, CacheTypes, CacheMoves, CacheMove, FillMove
  <2>3. ASSUME NEW f \in fills, CacheUser(f) PROVE CacheTypes' /\ CacheMoves
    <3>1. f[1] \in Accounts /\ f[2] \in UserInfo
      BY <1>0 DEF CacheTypes
    <3>2. cached' = [cached EXCEPT ![f[1]] = f[2]] /\ fills' \subseteq fills
      BY <2>3 DEF CacheUser
    <3>3. ASSUME NEW b \in Accounts PROVE CacheMove(b)
      BY <1>0, <3>1, <3>2 DEF CacheTypes, CacheMove
    <3> QED BY <1>0, <3>1, <3>2, <3>3 DEF CacheTypes, CacheMoves, FillMove
  <2> QED BY <1>7, <2>1, <2>2, <2>3 DEF CacheStep
<1>8. CASE Crash
  BY <1>8 DEF Crash, NoRecords, CacheTypes, CacheMoves, CacheMove, FillMove
<1>9. CASE (\E l \in Links : MailerStep(l)) \/ CleanOldActionLinks \/ Tick \/ UNCHANGED vars
  BY <1>1, <1>9 DEF MailerStep, CleanOldActionLinks, Tick, vars
<1> QED BY <1>2, <1>3, <1>4, <1>5, <1>6, <1>7, <1>8, <1>9 DEF Next

LEMMA TypesNext == LinkTypes /\ [Next]_vars => LinkTypes'
<1> SUFFICES ASSUME LinkTypes, [Next]_vars PROVE RowTypes'
  BY CacheChange DEF RowTypes, LinkTypes
<1>1. ASSUME NEW a \in Accounts, DeleteUser(a) PROVE RowTypes'
  BY <1>1 DEF DeleteUser, RowTypes, LinkTypes, TableTypes, LocalTypes, mail, locals, history
<1>2. ASSUME NEW a \in Accounts, NEW l \in Links, ForgotPassword(a, l) \/ DoPutRefused(a, l)
      PROVE  RowTypes'
  <2>1. /\ links' \in [Links -> ActionLink \cup {None, Gone}]
        /\ UNCHANGED <<now, users, batch, locals, mail, history>>
    BY <1>2, NewLinkTypes, Actions DEF ForgotPassword, DoPutRefused, LinkTypes
  <2> QED BY <2>1 DEF RowTypes, LinkTypes, TableTypes, LocalTypes, mail, locals, history
<1>3. ASSUME NEW l \in Links, MailerStep(l) PROVE RowTypes'
  <2>1. queued' \in SUBSET Links /\ delivered' \in SUBSET Links
    BY <1>3 DEF MailerStep, Mailer!Deliver, Mailer!GiveUp, LinkTypes, TableTypes
  <2> QED BY <1>3, <2>1 DEF MailerStep, RowTypes, LinkTypes, TableTypes, LocalTypes, tables, locals, history
<1>4. CASE CleanOldActionLinks
  <2>1. links' \in [Links -> ActionLink \cup {None, Gone}]
    BY <1>4 DEF CleanOldActionLinks, LinkTypes, TableTypes
  <2> QED BY <1>4, <2>1 DEF CleanOldActionLinks, RowTypes, LinkTypes, TableTypes, LocalTypes, mail, locals, history
<1>5. CASE Crash
  <2>1. TableTypes'
    BY <1>5 DEF Crash, Mailer!Lose, LinkTypes, TableTypes, tables
  <2>2. LocalTypes'
    BY <1>5 DEF Crash, LocalTypes, AtRest, Empty, PCs, LinkPCs, UserPCs
  <2> QED BY <2>1, <2>2 DEF RowTypes
<1>6. CASE Tick
  BY <1>6 DEF Tick, RowTypes, LinkTypes, TableTypes, LocalTypes, tables, mail, locals, history
<1>7. CASE UNCHANGED vars
  BY <1>7 DEF vars, RowTypes, LinkTypes, TableTypes, LocalTypes, tables, mail, locals, history
<1>8. CASE CacheStep
  <2>1. UNCHANGED <<now, tables, batch, locals, mail, history>>
    BY <1>8 DEF CacheStep, SelectUser, CacheUser, AgeUser
  <2> QED BY <2>1 DEF RowTypes, LinkTypes, TableTypes, LocalTypes, tables, mail, locals, history
<1> QED BY <1>1, <1>2, <1>3, <1>4, <1>5, <1>6, <1>7, <1>8, ManagerTypes, HandlerTypes,
           RequestTypes DEF Next

(* The type invariant, for any number of actors and any bounds: a thread    *)
(* has the link, the row and the record that its next step works on.        *)
THEOREM LinkTypesInvariance == Spec => []TypeOK
BY TypesInit, TypesNext, TypesImplyTypeOK, PTL DEF Spec

-----------------------------------------------------------------------------
(* How the tables change                                                    *)

\* Accounts come once and go once.
UsersMove ==
  \A a \in Accounts : /\ users[a] # None => users'[a] # None
                      /\ users[a] = Gone => users'[a] = Gone

\* A row is there once, and keeps what it says of its link.
LinksMove ==
  \A l \in Links : links[l] # None => /\ links'[l] # None
                                      /\ IsLink(l)' => IsLink(l) /\ Same(links[l], links'[l])

\* Posted mails stay posted and time goes on.
Moves ==
  /\ UsersMove /\ LinksMove
  /\ posted \subseteq posted'
  /\ now' \in Nat /\ now <= now'

\* Steps that are not made by the manager, a handler or a request.
OtherStep ==
  \/ \E a \in Accounts : DeleteUser(a)
  \/ \E a \in Accounts, l \in Links : ForgotPassword(a, l) \/ DoPutRefused(a, l)
  \/ \E l \in Links : MailerStep(l)
  \/ CacheStep \/ CleanOldActionLinks \/ Crash \/ Tick

LEMMA CacheLeaves ==
  ASSUME CacheStep
  PROVE  UNCHANGED <<now, tables, batch, locals, mail, crashes, history>>
BY DEF CacheStep, SelectUser, CacheUser, AgeUser

LEMMA UsersChange ==
  ASSUME LinkTypes, CacheKnown, [Next]_vars
  PROVE  \/ UNCHANGED users
         \/ \E a \in Accounts, r \in UserInfo : users[a] = None /\ users' = [users EXCEPT ![a] = r]
         \/ \E t \in Threads : /\ pc[t] \in {"update", "resend"} /\ user[t] # None
                               /\ users' = Written(t) /\ CacheWritten(t)
         \/ \E a \in Accounts : users[a] # None /\ users' = [users EXCEPT ![a] = Gone]
<1>1. CASE ManagerStep
  BY <1>1 DEF ManagerStep, GetActions, NextLink, SendEmail, SentAction, CancelAction, Put,
              Mark, tables
<1>2. ASSUME NEW t \in Threads, HandlerStep(t)
      PROVE  UNCHANGED users \/ (/\ pc[t] \in {"update", "resend"} /\ user[t] # None
                                 /\ users' = Written(t) /\ CacheWritten(t))
  <2>1. CASE UpdateUserInfo(t) \/ Resend(t)
    BY <2>1 DEF UpdateUserInfo, Resend, LinkTypes, LocalTypes, UserPCs, Actors
  <2>2. CASE ReadUser(t) \/ CompleteAction(t) \/ CancelAction(t) \/ Put(t)
    BY <2>2 DEF ReadUser, CompleteAction, CancelAction, Put, Mark, tables
  <2>3. CASE \E l \in Links : VerifyEmail(t, l) \/ SignupLink(t, l)
    BY <2>3 DEF VerifyEmail, SignupLink
  <2> QED BY <1>2, <2>1, <2>2, <2>3 DEF HandlerStep
<1>3. ASSUME NEW t \in Threads, Request(t)
      PROVE  \/ UNCHANGED users
             \/ \E a \in Accounts, r \in UserInfo : users[a] = None /\ users' = [users EXCEPT ![a] = r]
  <2>1. CASE \E a \in Accounts : CreateUser(t, a) \/ Signup(t, a)
    BY <2>1, Records DEF CreateUser, Signup
  <2>2. CASE \E a \in Accounts, s, v \in BOOLEAN : DoPut(t, a, s, v)
    BY <2>2 DEF DoPut, tables
  <2>3. CASE \E l \in Links, kind \in {"reset", "signup", "confirm"} : UseLink(t, l, kind)
    BY <2>3 DEF UseLink, tables
  <2> QED BY <1>3, <2>1, <2>2, <2>3 DEF Request
<1>4. CASE OtherStep
  <2>1. CASE \E a \in Accounts : DeleteUser(a)
    BY <2>1, Records DEF DeleteUser, Found, IsUser, CacheKnown
  <2>2. CASE ~\E a \in Accounts : DeleteUser(a)
    BY <1>4, <2>2, CacheLeaves DEF OtherStep, ForgotPassword, DoPutRefused, MailerStep,
                      CleanOldActionLinks, Crash, Tick, tables
  <2> QED BY <2>1, <2>2
<1>5. CASE UNCHANGED vars
  BY <1>5 DEF vars, tables
<1> QED BY <1>1, <1>2, <1>3, <1>4, <1>5 DEF Next, OtherStep

\* The account a new link is for is there or was, and links of subscribers are
\* for subscribers.
Addressed(act, a) ==
  /\ users[a] # None /\ users'[a] = users[a]
  /\ act \in SubActions => a \in Subs

LEMMA LinksChange ==
  ASSUME LinkInv, [Next]_vars
  PROVE  \/ UNCHANGED links
         \/ \E l \in Links, act \in UserActions \cup SubActions, a \in Accounts :
              Addressed(act, a) /\ NewLink(l, act, a)
         \/ \E x \in Actors : Put(x)
         \/ CleanOldActionLinks
<1>0. Manager \in Actors /\ Threads \subseteq Actors
  BY DEF Actors
<1>1. CASE ManagerStep
  BY <1>0, <1>1 DEF ManagerStep, GetActions, NextLink, SendEmail, SentAction, CancelAction,
              Mark, tables
<1>2. ASSUME NEW t \in Threads, HandlerStep(t)
      PROVE  \/ UNCHANGED links
             \/ \E l \in Links, act \in UserActions \cup SubActions, a \in Accounts :
                  Addressed(act, a) /\ NewLink(l, act, a)
             \/ Put(t)
  <2>1. CASE UpdateUserInfo(t) \/ Resend(t) \/ ReadUser(t)
    BY <2>1 DEF UpdateUserInfo, Resend, ReadUser, tables
  <2>2. CASE CompleteAction(t) \/ CancelAction(t)
    BY <2>2 DEF CompleteAction, CancelAction, Mark, tables
  <2>3. ASSUME NEW l \in Links, VerifyEmail(t, l) \/ SignupLink(t, l)
        PROVE  \E act \in UserActions \cup SubActions, a \in Accounts :
                 Addressed(act, a) /\ NewLink(l, act, a)
    <3>1. user[t] \in Copy /\ user[t] # None
      BY <1>0, <2>3 DEF VerifyEmail, SignupLink, LinkInv, LinkTypes, LocalTypes, UserPCs
    <3>2. user[t].id \in Accounts /\ users[user[t].id] # None
      BY <1>0, <3>1, Copies DEF LinkInv, ActorOK
    <3>3. users' = users
      BY <2>3 DEF VerifyEmail, SignupLink
    <3>4. pc[t] = "signupLink" => user[t].id \in Subs
      BY <1>0 DEF LinkInv, ActorOK
    <3> QED BY <2>3, <3>2, <3>3, <3>4, Actions DEF VerifyEmail, SignupLink, Addressed
  <2> QED BY <1>2, <2>1, <2>2, <2>3 DEF HandlerStep
<1>3. ASSUME NEW t \in Threads, Request(t) PROVE UNCHANGED links
  <2>1. CASE \E a \in Accounts : CreateUser(t, a) \/ Signup(t, a)
    BY <2>1 DEF CreateUser, Signup
  <2>2. CASE \E a \in Accounts, s, v \in BOOLEAN : DoPut(t, a, s, v)
    BY <2>2 DEF DoPut, tables
  <2>3. CASE \E l \in Links, kind \in {"reset", "signup", "confirm"} : UseLink(t, l, kind)
    BY <2>3 DEF UseLink, tables
  <2> QED BY <1>3, <2>1, <2>2, <2>3 DEF Request
<1>4. CASE OtherStep
  <2>1. ASSUME NEW a \in Accounts, NEW l \in Links, ForgotPassword(a, l) \/ DoPutRefused(a, l)
        PROVE  \E act \in UserActions \cup SubActions :
                 Addressed(act, a) /\ NewLink(l, act, a)
    <3>1. users[a] # None /\ users' = users
      BY <2>1, Records DEF ForgotPassword, DoPutRefused, Found, IsUser, LinkInv, CacheKnown
    <3> QED BY <2>1, <3>1, Actions DEF ForgotPassword, DoPutRefused, Addressed
  <2>2. CASE ~\E a \in Accounts, l \in Links : ForgotPassword(a, l) \/ DoPutRefused(a, l)
    BY <1>4, <2>2, CacheLeaves DEF OtherStep, DeleteUser, MailerStep, Crash, Tick, tables
  <2> QED BY <2>1, <2>2
<1>5. CASE UNCHANGED vars
  BY <1>5 DEF vars, tables
<1> QED BY <1>0, <1>1, <1>2, <1>3, <1>4, <1>5 DEF Next, OtherStep

\* Only SendEmail posts, and only Tick moves the clock.
LEMMA HistoryGrows ==
  ASSUME LinkTypes, [Next]_vars
  PROVE  posted \subseteq posted' /\ now' \in Nat /\ now <= now'
<1>1. CASE ManagerStep
  BY <1>1 DEF ManagerStep, GetActions, NextLink, SendEmail, SentAction, CancelAction, Put,
              Mark, history, LinkTypes, TableTypes
<1>2. ASSUME NEW t \in Threads, HandlerStep(t) PROVE UNCHANGED <<posted, now>>
  <2>1. CASE UpdateUserInfo(t) \/ Resend(t) \/ ReadUser(t)
    BY <2>1 DEF UpdateUserInfo, Resend, ReadUser, history
  <2>2. CASE CompleteAction(t) \/ CancelAction(t) \/ Put(t)
    BY <2>2 DEF CompleteAction, CancelAction, Put, Mark
  <2>3. CASE \E l \in Links : VerifyEmail(t, l) \/ SignupLink(t, l)
    BY <2>3 DEF VerifyEmail, SignupLink, history
  <2> QED BY <1>2, <2>1, <2>2, <2>3 DEF HandlerStep
<1>3. ASSUME NEW t \in Threads, Request(t) PROVE UNCHANGED <<posted, now>>
  BY <1>3 DEF Request, CreateUser, Signup, DoPut, UseLink, history
<1>4. CASE OtherStep
  BY <1>4, CacheLeaves DEF OtherStep, DeleteUser, ForgotPassword, DoPutRefused, MailerStep,
              CleanOldActionLinks, Crash, Tick, history, LinkTypes, TableTypes
<1>5. CASE UNCHANGED vars
  BY <1>5 DEF vars, history, LinkTypes, TableTypes
<1> QED BY <1>1, <1>2, <1>3, <1>4, <1>5 DEF Next, OtherStep, LinkTypes, TableTypes

LEMMA MovesNext ==
  ASSUME LinkInv, [Next]_vars
  PROVE  Moves
<1>0. LinkTypes /\ CacheKnown
  BY DEF LinkInv
<1>1. UsersMove
  <2>1. CASE UNCHANGED users
    BY <2>1 DEF UsersMove
  <2>2. ASSUME NEW b \in Accounts, NEW r \in UserInfo, users[b] = None,
               users' = [users EXCEPT ![b] = r]
        PROVE  UsersMove
    BY <1>0, <2>2, Records DEF UsersMove, LinkTypes, TableTypes
  <2>3. ASSUME NEW t \in Threads, user[t] # None, users' = Written(t) PROVE UsersMove
    BY <1>0, <2>3, WrittenTypes, Records DEF UsersMove, LinkTypes, TableTypes, IsUser, Actors
  <2>4. ASSUME NEW b \in Accounts, users[b] # None, users' = [users EXCEPT ![b] = Gone]
        PROVE  UsersMove
    BY <1>0, <2>4 DEF UsersMove, LinkTypes, TableTypes
  <2> QED BY <1>0, <2>1, <2>2, <2>3, <2>4, UsersChange
<1>2. LinksMove
  <2>1. CASE UNCHANGED links
    BY <2>1 DEF IsLink, Same, LinksMove
  <2>2. ASSUME NEW k \in Links, NEW act, NEW a, NewLink(k, act, a)
        PROVE  LinksMove
    BY <1>0, <2>2 DEF LinkTypes, TableTypes, NewLink, IsLink, Same, LinksMove
  <2>3. ASSUME NEW x \in Actors, Put(x) PROVE LinksMove
    <3>1. link[x] \in Links /\ row[x] \in ActionLink /\ row[x] # None
      BY <1>0, <2>3, Rows DEF Put, LinkTypes, LocalTypes, LinkPCs
    <3>2. IsLink(link[x]) => Same(links[link[x]], row[x])
      BY <3>1 DEF LinkInv, ActorOK, CopyOK
    <3> QED BY <1>0, <2>3, <3>1, <3>2 DEF Put, LinkTypes, TableTypes, IsLink, Same, LinksMove
  <2>4. CASE CleanOldActionLinks
    <3>1. \A l \in Links : links'[l] = links[l] \/ links'[l] = Gone
      BY <2>4 DEF CleanOldActionLinks
    <3>2. Gone \notin ActionLink
      BY Rows
    <3> QED BY <3>1, <3>2 DEF IsLink, Same, LinksMove
  <2> QED BY <2>1, <2>2, <2>3, <2>4, LinksChange
<1> QED BY <1>0, <1>1, <1>2, HistoryGrows DEF Moves

-----------------------------------------------------------------------------
(* What stays true of links, copies and threads                             *)

LEMMA ToldStays ==
  ASSUME Moves, NEW l, NEW r \in ActionLink
  PROVE  /\ Told(l, r) => Told(l, r)'
         /\ users[r.userId] = Gone => users'[r.userId] = Gone
<1>1. r.userId \in Accounts
  BY Rows
<1> QED BY <1>1 DEF Moves, UsersMove, Told

LEMMA DeadStays ==
  ASSUME Moves, now \in Nat, NEW r \in ActionLink
  PROVE  Dead(r) => Dead(r)'
<1>1. r.userId \in Accounts /\ r.created \in Nat
  BY Rows
<1>2. Life(r.action) \in Nat
  BY DEF Life
<1>3. Expired(r) => Expired(r)'
  BY <1>1, <1>2 DEF Moves, Expired
<1> QED BY <1>1, <1>3 DEF Moves, UsersMove, Dead

LEMMA CopyStays ==
  ASSUME Moves, NEW l \in Links, NEW r \in ActionLink, CopyOK(l, r)
  PROVE  CopyOK(l, r)'
<1>1. r.userId \in Accounts
  BY Rows
<1>2. links'[l] # None /\ (IsLink(l)' => Same(links'[l], r))
  BY DEF Moves, LinksMove, CopyOK, Same
<1> QED BY <1>1, <1>2 DEF Moves, UsersMove, CopyOK

\* Rows that say the same are dead together, and are of one account.
LEMMA SameDead ==
  ASSUME NEW r, NEW s, Same(r, s)
  PROVE  (Dead(r) <=> Dead(s)) /\ r.userId = s.userId
BY DEF Same, Dead, Expired

\* A link whose row is not written and that is not cancelled by the step.
LEMMA LinkStays ==
  ASSUME LinkTypes, Moves, NEW l \in Links, LinkOK(l),
         IsLink(l)' => links'[l] = links[l],
         links[l] = None => links'[l] = None,
         l \in cancelled' => l \in cancelled
  PROVE  LinkOK(l)'
<1>1. CASE ~IsLink(l)'
  BY <1>1 DEF LinkOK, Moves, LinksMove
<1>2. CASE IsLink(l)'
  <2>1. links'[l] = links[l] /\ links[l] \in ActionLink /\ IsLink(l)
    BY <1>2 DEF IsLink
  <2>2. links[l].userId \in Accounts
    BY <2>1, Rows
  <2>3. users'[links[l].userId] # None
    BY <2>1, <2>2 DEF LinkOK, Moves, UsersMove
  <2>4. links[l].sent => Told(l, links[l])
    BY <2>1 DEF LinkOK
  <2>5. l \in cancelled => Dead(links[l]) /\ links[l] # None
    BY <2>1 DEF LinkOK
  <2> DEFINE r == links[l]
  <2>6. (Told(l, r) => l \in posted' \/ users'[r.userId] = Gone)
    BY <2>1, ToldStays DEF Told
  <2>7. now \in Nat
    BY DEF LinkTypes, TableTypes
  <2>8. Dead(r) => now' > r.created + Life(r.action) \/ users'[r.userId] = Gone
    BY <2>1, <2>7, DeadStays DEF Dead, Expired
  <2> QED BY <2>1, <2>3, <2>4, <2>5, <2>6, <2>8 DEF LinkOK, Told, Dead, Expired
<1> QED BY <1>1, <1>2

\* A thread that the step is not of.
LEMMA ActorStays ==
  ASSUME LinkTypes, Moves, NEW x \in Actors, ActorOK(x),
         pc'[x] = pc[x], link'[x] = link[x], row'[x] = row[x], user'[x] = user[x],
         late'[x] = late[x]
  PROVE  ActorOK(x)'
<1>1. user[x] # None => users'[user[x].id] # None
  <2>1. user[x] # None => user[x].id \in Accounts
    BY Copies DEF LinkTypes, LocalTypes
  <2> QED BY <2>1 DEF ActorOK, Moves, UsersMove
<1>2. CASE row[x] = None
  <2>1. link[x] = None /\ pc[x] \notin LinkPCs
    BY <1>2 DEF LinkTypes, LocalTypes
  <2> QED BY <1>1, <1>2, <2>1 DEF ActorOK, LinkPCs
<1>3. CASE row[x] # None
  <2> DEFINE r == row[x]  l == link[x]
  <2>1. r \in ActionLink /\ l \in Links /\ now \in Nat
    BY <1>3 DEF LinkTypes, LocalTypes, TableTypes
  <2>2. CopyOK(l, r)
    BY <1>3 DEF ActorOK
  <2>3. /\ links'[l] # None /\ users'[r.userId] # None
        /\ IsLink(l)' => Same(links'[l], r)
    BY <2>1, <2>2, CopyStays DEF CopyOK, IsLink
  <2>4. Told(l, r) => l \in posted' \/ users'[r.userId] = Gone
    BY <2>1, ToldStays DEF Told
  <2>5. Dead(r) => now' > r.created + Life(r.action) \/ users'[r.userId] = Gone
    BY <2>1, DeadStays DEF Dead, Expired
  <2>6. users[r.userId] = Gone => users'[r.userId] = Gone
    BY <2>1, ToldStays
  <2>7. CopyOK(link[x], row[x])'
    BY <2>3 DEF CopyOK, IsLink
  <2>8. Told(l, r) => Told(link[x], row[x])'
    BY <2>4 DEF Told
  <2>9. Dead(r) => Dead(row[x])'
    BY <2>5 DEF Dead, Expired
  <2> QED BY <1>1, <2>6, <2>7, <2>8, <2>9 DEF ActorOK
<1> QED BY <1>2, <1>3

LEMMA OthersStay ==
  ASSUME LinkInv, Moves, NEW x \in Actors, ActorOK(x)',
         \A y \in Actors : y # x =>
           /\ pc'[y] = pc[y] /\ link'[y] = link[y] /\ row'[y] = row[y]
           /\ user'[y] = user[y] /\ late'[y] = late[y]
  PROVE  \A y \in Actors : ActorOK(y)'
<1> SUFFICES ASSUME NEW y \in Actors PROVE ActorOK(y)'
  OBVIOUS
<1>1. CASE y = x
  BY <1>1
<1>2. CASE y # x
  BY <1>2, ActorStays DEF LinkInv
<1> QED BY <1>1, <1>2

LEMMA DoneActors ==
  ASSUME LinkInv, Moves, NEW x \in Actors, Done(x)
  PROVE  \A y \in Actors : ActorOK(y)'
<1>1. /\ pc'[x] \in {"next", "idle"} /\ row'[x] = None /\ user'[x] = None /\ late'[x] = FALSE
      /\ \A y \in Actors : y # x =>
           /\ pc'[y] = pc[y] /\ link'[y] = link[y] /\ row'[y] = row[y]
           /\ user'[y] = user[y] /\ late'[y] = late[y]
  BY DEF Done, LinkInv, LinkTypes, LocalTypes
<1>2. ActorOK(x)'
  BY <1>1 DEF ActorOK
<1> QED BY <1>1, <1>2, OthersStay

\* A thread goes on with its link and its record, to write its row, to mark its
\* link as sent, or to something that needs neither.
LEMMA GotoActors ==
  ASSUME LinkInv, Moves, NEW x \in Actors, NEW p \in PCs, Goto(x, p), UNCHANGED late,
         p \notin {"put", "cancel"},
         p = "sent" => Told(link[x], row[x])',
         p = "signupLink" => user[x].id \in Subs,
         p # "resend" /\ (p = "update" => pc[x] = "verify"),
         late[x] => p = "complete" /\ users'[row[x].userId] = Gone
  PROVE  \A y \in Actors : ActorOK(y)'
<1>1. /\ pc'[x] = p /\ link'[x] = link[x] /\ row'[x] = row[x] /\ user'[x] = user[x]
      /\ late'[x] = late[x]
      /\ \A y \in Actors : y # x =>
           /\ pc'[y] = pc[y] /\ link'[y] = link[y] /\ row'[y] = row[y]
           /\ user'[y] = user[y] /\ late'[y] = late[y]
  BY DEF Goto, LinkInv, LinkTypes, LocalTypes
<1>2. user[x] # None => users'[user[x].id] # None
  <2>1. user[x] # None => user[x].id \in Accounts
    BY Copies DEF LinkInv, LinkTypes, LocalTypes
  <2> QED BY <2>1 DEF LinkInv, ActorOK, Moves, UsersMove
<1>3. row[x] # None => CopyOK(link[x], row[x])'
  <2> SUFFICES ASSUME row[x] # None PROVE CopyOK(link[x], row[x])'
    OBVIOUS
  <2> DEFINE r == row[x]  l == link[x]
  <2>1. r \in ActionLink /\ l \in Links /\ CopyOK(l, r)
    BY DEF LinkInv, LinkTypes, LocalTypes, ActorOK
  <2>2. /\ links'[l] # None /\ users'[r.userId] # None
        /\ IsLink(l)' => Same(links'[l], r)
    BY <1>1, <2>1, CopyStays DEF CopyOK, IsLink
  <2> QED BY <1>1, <2>2 DEF CopyOK, IsLink
<1>4. ActorOK(x)'
  BY <1>1, <1>2, <1>3 DEF LinkInv, ActorOK, LatePCs
<1> QED BY <1>1, <1>4, OthersStay

\* A thread begins to work on an account.
LEMMA BeginActors ==
  ASSUME LinkInv, Moves, NEW x \in Actors, NEW a \in Accounts, NEW r \in UserInfo,
         NEW p \in UserPCs, Begin(x, a, r, p), UNCHANGED late, users'[a] # None,
         p \in {"resend", "signupLink"} => a \in Subs,
         late[x] => p = "update" /\ a = row[x].userId /\ users'[a] = Gone
  PROVE  \A y \in Actors : ActorOK(y)'
<1> DEFINE c == [id |-> a, record |-> r]
<1>0. user' = [user EXCEPT ![x] = c] /\ pc' = [pc EXCEPT ![x] = p] /\ UNCHANGED <<link, row>>
  BY DEF Begin
<1>1. c.id = a
  OBVIOUS
<1> HIDE DEF c
<1>2. /\ pc'[x] = p /\ link'[x] = link[x] /\ row'[x] = row[x] /\ user'[x] = c
      /\ late'[x] = late[x]
      /\ \A y \in Actors : y # x =>
           /\ pc'[y] = pc[y] /\ link'[y] = link[y] /\ row'[y] = row[y]
           /\ user'[y] = user[y] /\ late'[y] = late[y]
  BY <1>0 DEF LinkInv, LinkTypes, LocalTypes
<1>3. row[x] # None => CopyOK(link[x], row[x])'
  <2> SUFFICES ASSUME row[x] # None PROVE CopyOK(link[x], row[x])'
    OBVIOUS
  <2> DEFINE q == row[x]  l == link[x]
  <2>1. q \in ActionLink /\ l \in Links /\ CopyOK(l, q)
    BY DEF LinkInv, LinkTypes, LocalTypes, ActorOK
  <2>2. /\ links'[l] # None /\ users'[q.userId] # None
        /\ IsLink(l)' => Same(links'[l], q)
    BY <1>2, <2>1, CopyStays DEF CopyOK, IsLink
  <2> QED BY <1>2, <2>2 DEF CopyOK, IsLink
<1>4. ActorOK(x)'
  BY <1>1, <1>2, <1>3 DEF LinkInv, ActorOK, LatePCs, UserPCs
<1> QED BY <1>2, <1>4, OthersStay

\* SentAction, CompleteAction and CancelAction: the copy of the row is new.
LEMMA MarkActors ==
  ASSUME LinkInv, Moves, NEW x \in Actors, link[x] # None, NEW r, Mark(x, r),
         IsLink(link[x]) => /\ r \in ActionLink /\ Same(links[link[x]], r)
                            /\ r.sent => Told(link[x], r)
  PROVE  \A y \in Actors : ActorOK(y)'
<1>1. CASE ~IsLink(link[x])
  BY <1>1, DoneActors DEF Mark
<1>2. CASE IsLink(link[x])
  <2> DEFINE l == link[x]
  <2>1. /\ row' = [row EXCEPT ![x] = r] /\ pc' = [pc EXCEPT ![x] = "put"]
        /\ UNCHANGED <<link, user, late, users, links, posted>>
    BY <1>2 DEF Mark, tables
  <2>2. /\ pc'[x] = "put" /\ link'[x] = l /\ row'[x] = r /\ user'[x] = user[x]
        /\ late'[x] = late[x]
        /\ \A y \in Actors : y # x =>
             /\ pc'[y] = pc[y] /\ link'[y] = link[y] /\ row'[y] = row[y]
             /\ user'[y] = user[y] /\ late'[y] = late[y]
    BY <2>1 DEF LinkInv, LinkTypes, LocalTypes
  <2>3. l \in Links /\ links[l] \in ActionLink
    BY <1>2 DEF LinkInv, LinkTypes, LocalTypes, IsLink
  <2>4. links[l] # None /\ users[r.userId] # None
    <3>1. users[links[l].userId] # None
      BY <1>2, <2>3 DEF LinkInv, LinkOK
    <3> QED BY <1>2, <2>3, <3>1, Rows, SameDead
  <2>5. CopyOK(link[x], row[x])'
    BY <1>2, <2>1, <2>2, <2>4 DEF CopyOK, IsLink
  <2>6. r.sent => Told(link[x], row[x])'
    BY <1>2, <2>1, <2>2 DEF Told
  <2>7. user[x] # None => users'[user[x].id] # None
    BY <2>1 DEF LinkInv, ActorOK
  <2>8. ActorOK(x)'
    <3>1. r # None
      BY <1>2, Rows
    <3> QED BY <2>2, <2>5, <2>6, <2>7, <3>1 DEF ActorOK, LatePCs
  <2> QED BY <2>2, <2>8, OthersStay
<1> QED BY <1>1, <1>2

-----------------------------------------------------------------------------
(* The invariant                                                            *)

\* Only CancelAction cancels.
LEMMA CancelledChange ==
  ASSUME [Next]_vars
  PROVE  \/ cancelled' = cancelled
         \/ \E x \in Actors : CancelAction(x)
<1>0. Manager \in Actors /\ Threads \subseteq Actors
  BY DEF Actors
<1>1. CASE ManagerStep
  BY <1>0, <1>1 DEF ManagerStep, GetActions, NextLink, SendEmail, SentAction, Put, history
<1>2. ASSUME NEW t \in Threads, HandlerStep(t) PROVE cancelled' = cancelled \/ CancelAction(t)
  BY <1>2 DEF HandlerStep, UpdateUserInfo, Resend, ReadUser, CompleteAction, Put,
              VerifyEmail, SignupLink, history
<1>3. ASSUME NEW t \in Threads, Request(t) PROVE cancelled' = cancelled
  BY <1>3 DEF Request, CreateUser, Signup, DoPut, UseLink, history
<1>4. CASE OtherStep
  BY <1>4, CacheLeaves DEF OtherStep, DeleteUser, ForgotPassword, DoPutRefused, MailerStep,
              CleanOldActionLinks, Crash, Tick, history
<1>5. CASE UNCHANGED vars
  BY <1>5 DEF vars, history
<1> QED BY <1>0, <1>1, <1>2, <1>3, <1>4, <1>5 DEF Next, OtherStep

LEMMA LinksNext ==
  ASSUME LinkInv, [Next]_vars, Moves
  PROVE  \A l \in Links : LinkOK(l)'
<1>0. LinkTypes /\ now \in Nat /\ links \in [Links -> ActionLink \cup {None, Gone}]
  BY DEF LinkInv, LinkTypes, TableTypes
<1> SUFFICES ASSUME NEW l \in Links PROVE LinkOK(l)'
  OBVIOUS
<1>1. LinkOK(l)
  BY DEF LinkInv
<1>2. ASSUME NEW x \in Actors, CancelAction(x) PROVE LinkOK(l)'
  <2>1. /\ cancelled' = cancelled \cup {link[x]}
        /\ UNCHANGED <<now, users, links, posted>>
    BY <1>2 DEF CancelAction, Mark, tables
  <2>2. CASE l # link[x]
    BY <1>0, <1>1, <2>1, <2>2, LinkStays
  <2>3. CASE l = link[x]
    <3>1. row[x] # None /\ Dead(row[x])
      BY <1>2 DEF CancelAction, LinkInv, LinkTypes, LocalTypes, LinkPCs, ActorOK
    <3>2. links[l] # None /\ (IsLink(l) => Same(links[l], row[x]))
      BY <2>3, <3>1 DEF LinkInv, ActorOK, CopyOK
    <3>3. IsLink(l) => Dead(links[l])
      BY <3>1, <3>2, SameDead
    <3> QED BY <1>1, <2>1, <3>2, <3>3 DEF LinkOK, IsLink, Told, Dead, Expired
  <2> QED BY <2>2, <2>3
<1>3. CASE UNCHANGED <<links, cancelled>>
  BY <1>0, <1>1, <1>3, LinkStays
<1>4. ASSUME NEW k \in Links, NEW act \in UserActions \cup SubActions, NEW a \in Accounts,
             Addressed(act, a), NewLink(k, act, a), UNCHANGED cancelled
      PROVE  LinkOK(l)'
  <2> DEFINE r == [action |-> act, userId |-> a, created |-> now, sent |-> FALSE]
  <2>1. links' = [links EXCEPT ![k] = r] /\ links[k] = None
    BY <1>4 DEF NewLink
  <2>2. r \in ActionLink /\ r.userId = a /\ ~r.sent
    BY <1>0, Rows
  <2> HIDE DEF r
  <2>3. CASE l # k
    BY <1>0, <1>1, <1>4, <2>1, <2>3, LinkStays
  <2>4. CASE l = k
    <3>1. l \notin cancelled'
      BY <1>1, <1>4, <2>1, <2>4 DEF LinkOK
    <3> QED BY <1>0, <1>4, <2>1, <2>2, <2>4, <3>1 DEF LinkOK, IsLink, Addressed
  <2> QED BY <2>3, <2>4
<1>5. ASSUME NEW x \in Actors, Put(x) PROVE LinkOK(l)'
  <2>1. row[x] \in ActionLink /\ row[x] # None /\ link[x] \in Links /\ pc[x] = "put"
    BY <1>5, Rows DEF Put, LinkInv, LinkTypes, LocalTypes, LinkPCs
  <2>2. UNCHANGED <<now, users, posted, cancelled>>
    BY <1>5 DEF Put
  <2>3. CASE l # link[x] \/ ~IsLink(l)
    <3>1. links'[l] = links[l]
      BY <1>0, <1>5, <2>3 DEF Put
    <3> QED BY <1>0, <1>1, <2>2, <3>1, LinkStays
  <2>4. CASE l = link[x] /\ IsLink(l)
    <3>1. links'[l] = row[x]
      BY <1>0, <1>5, <2>4 DEF Put
    <3>2. /\ users[row[x].userId] # None /\ Same(links[l], row[x])
          /\ row[x].sent => Told(l, row[x])
      BY <2>1, <2>4 DEF LinkInv, ActorOK, CopyOK
    <3>3. l \in cancelled => Dead(row[x])
      BY <1>1, <2>4, <3>2, SameDead DEF LinkOK
    <3> QED BY <2>1, <2>2, <3>1, <3>2, <3>3 DEF LinkOK, Told, Dead, Expired
  <2> QED BY <2>3, <2>4
<1>6. CASE CleanOldActionLinks
  <2>1. /\ links'[l] = links[l] \/ (links'[l] = Gone /\ links[l] \in ActionLink)
        /\ UNCHANGED cancelled
    BY <1>6 DEF CleanOldActionLinks, history, IsLink
  <2>2. links[l] = None => links'[l] = None
    BY <2>1, Rows
  <2>3. Gone \notin ActionLink
    BY Rows
  <2> QED BY <1>0, <1>1, <2>1, <2>2, <2>3, LinkStays DEF IsLink
<1> QED BY <1>2, <1>3, <1>4, <1>5, <1>6, LinksChange, CancelledChange

LEMMA BatchNext ==
  ASSUME LinkInv, [Next]_vars, Moves
  PROVE  \A b \in batch' : CopyOK(b[1], b[2])'
<1> SUFFICES ASSUME NEW b \in batch' PROVE CopyOK(b[1], b[2])'
  OBVIOUS
<1>1. CASE b \in batch
  <2>1. b[1] \in Links /\ b[2] \in ActionLink /\ CopyOK(b[1], b[2])
    BY <1>1 DEF LinkInv, LinkTypes, TableTypes
  <2> QED BY <2>1, CopyStays
<1>2. CASE GetActions
  <2>1. PICK l \in Links : b = <<l, links[l]>> /\ IsLink(l)
    BY <1>2 DEF GetActions
  <2>2. b[1] = l /\ b[2] = links[l] /\ links[l] \in ActionLink
    BY <2>1 DEF IsLink
  <2>3. links[l] # None /\ users[links[l].userId] # None
    BY <2>1, <2>2, Rows DEF LinkInv, LinkOK
  <2>4. UNCHANGED <<users, links>>
    BY <1>2 DEF GetActions, tables
  <2> QED BY <2>2, <2>3, <2>4 DEF CopyOK, IsLink, Same
<1>3. CASE ~GetActions
  <2>1. CASE ManagerStep
    BY <1>1, <1>3, <2>1 DEF ManagerStep, NextLink, SendEmail, SentAction, CancelAction, Mark, Put
  <2>2. ASSUME NEW t \in Threads, HandlerStep(t) PROVE UNCHANGED batch
    BY <2>2 DEF HandlerStep, UpdateUserInfo, Resend, ReadUser, CompleteAction, CancelAction,
                Mark, Put, VerifyEmail, SignupLink
  <2>3. ASSUME NEW t \in Threads, Request(t) PROVE UNCHANGED batch
    BY <2>3 DEF Request, CreateUser, Signup, DoPut, UseLink
  <2>4. CASE OtherStep
    BY <1>1, <2>4, CacheLeaves DEF OtherStep, DeleteUser, ForgotPassword, DoPutRefused,
                MailerStep, CleanOldActionLinks, Crash, Tick
  <2>5. CASE UNCHANGED vars
    BY <1>1, <2>5 DEF vars
  <2> QED BY <1>1, <2>1, <2>2, <2>3, <2>4, <2>5 DEF Next, OtherStep
<1> QED BY <1>2, <1>3

LEMMA CancelActors ==
  ASSUME LinkInv, Moves, NEW x \in Actors, CancelAction(x) \/ CompleteAction(x)
  PROVE  \A y \in Actors : ActorOK(y)'
<1>1. link[x] # None /\ link[x] \in Links
  BY DEF CancelAction, CompleteAction, LinkInv, LinkTypes, LocalTypes, LinkPCs
<1>2. Mark(x, links[link[x]])
  BY DEF CancelAction, CompleteAction
<1>3. IsLink(link[x]) => /\ links[link[x]] \in ActionLink
                         /\ Same(links[link[x]], links[link[x]])
                         /\ links[link[x]].sent => Told(link[x], links[link[x]])
  BY <1>1 DEF IsLink, Same, LinkInv, LinkOK
<1> QED BY <1>1, <1>2, <1>3, MarkActors

LEMMA ManagerActors ==
  ASSUME LinkInv, Moves, ManagerStep
  PROVE  \A y \in Actors : ActorOK(y)'
<1>0. Manager \in Actors
  BY DEF Actors
<1>1. CASE GetActions
  <2>1. /\ Goto(Manager, "next") /\ UNCHANGED late /\ ~late[Manager]
    BY <1>0, <1>1 DEF GetActions, history, LinkInv, ActorOK, LatePCs
  <2> QED BY <1>0, <2>1, GotoActors DEF PCs
<1>2. CASE NextLink
  <2>0. UNCHANGED <<late, users, links>> /\ ~late[Manager]
    BY <1>0, <1>2 DEF NextLink, history, tables, LinkInv, ActorOK, LatePCs
  <2>1. CASE Goto(Manager, "sleep")
    BY <1>0, <2>0, <2>1, GotoActors DEF PCs
  <2>2. ASSUME NEW b \in batch,
               link' = [link EXCEPT ![Manager] = b[1]],
               row' = [row EXCEPT ![Manager] = b[2]],
               pc' = [pc EXCEPT ![Manager] = IF Found(b[2].userId) THEN "mail" ELSE "cancel"],
               UNCHANGED user
        PROVE  \A y \in Actors : ActorOK(y)'
    <3>1. b[1] \in Links /\ b[2] \in ActionLink /\ CopyOK(b[1], b[2])
      BY DEF LinkInv, LinkTypes, TableTypes
    <3>2. b[2].userId \in Accounts /\ users[b[2].userId] # None
      BY <3>1, Rows DEF CopyOK
    <3>3. ~Found(b[2].userId) => users[b[2].userId] = Gone
      BY <3>2 DEF Found, IsUser, LinkInv, LinkTypes, TableTypes
    <3>4. /\ link'[Manager] = b[1] /\ row'[Manager] = b[2]
          /\ user'[Manager] = user[Manager] /\ ~late'[Manager]
          /\ pc'[Manager] = IF Found(b[2].userId) THEN "mail" ELSE "cancel"
          /\ \A y \in Actors : y # Manager =>
               /\ pc'[y] = pc[y] /\ link'[y] = link[y] /\ row'[y] = row[y]
               /\ user'[y] = user[y] /\ late'[y] = late[y]
      BY <1>0, <2>0, <2>2 DEF LinkInv, LinkTypes, LocalTypes
    <3>5. CopyOK(link[Manager], row[Manager])'
      BY <2>0, <3>1, <3>4 DEF CopyOK, IsLink
    <3>6. pc'[Manager] = "cancel" => Dead(row[Manager])'
      BY <2>0, <3>3, <3>4 DEF Dead
    <3>7. user'[Manager] # None => users'[user'[Manager].id] # None
      BY <1>0, <2>0, <3>4 DEF LinkInv, ActorOK
    <3>8. ActorOK(Manager)'
      BY <3>4, <3>5, <3>6, <3>7 DEF ActorOK
    <3> QED BY <1>0, <3>4, <3>8, OthersStay
  <2> QED BY <1>2, <2>1, <2>2 DEF NextLink
<1>3. CASE SendEmail
  <2>1. pc[Manager] = "mail" /\ Goto(Manager, "sent") /\ UNCHANGED <<late, users>>
    BY <1>3 DEF SendEmail, tables
  <2>2. row[Manager] \in ActionLink /\ row[Manager] # None /\ ~late[Manager]
    BY <1>0, <2>1, Rows DEF LinkInv, LinkTypes, LocalTypes, LinkPCs, ActorOK, LatePCs
  <2>3. row[Manager].userId \in Accounts /\ users[row[Manager].userId] # None
    BY <1>0, <2>2, Rows DEF LinkInv, ActorOK, CopyOK
  <2>4. CASE Found(row[Manager].userId)
    <3>1. Told(link[Manager], row[Manager])'
      BY <1>3, <2>1, <2>4 DEF SendEmail, Told, Goto
    <3> QED BY <1>0, <2>1, <2>2, <3>1, GotoActors DEF PCs
  <2>5. CASE ~Found(row[Manager].userId)
    <3>1. users[row[Manager].userId] = Gone
      BY <2>3, <2>5 DEF Found, IsUser, LinkInv, LinkTypes, TableTypes
    <3>2. Told(link[Manager], row[Manager])'
      BY <2>1, <3>1 DEF Told, Goto
    <3> QED BY <1>0, <2>1, <2>2, <3>2, GotoActors DEF PCs
  <2> QED BY <2>4, <2>5
<1>4. CASE SentAction
  <2> DEFINE l == link[Manager]  r == [links[link[Manager]] EXCEPT !.sent = TRUE]
  <2>1. /\ l # None /\ row[Manager] # None /\ Told(l, row[Manager])
    BY <1>0, <1>4 DEF SentAction, LinkInv, LinkTypes, LocalTypes, LinkPCs, ActorOK
  <2>2. IsLink(l) => r \in ActionLink /\ Same(links[l], r)
    BY Rows DEF IsLink
  <2>3. IsLink(l) => Same(links[l], row[Manager])
    BY <1>0, <2>1 DEF LinkInv, ActorOK, CopyOK
  <2>4. Mark(Manager, r)
    BY <1>4 DEF SentAction
  <2> HIDE DEF r
  <2>5. IsLink(l) => Told(l, r)
    BY <2>1, <2>2, <2>3 DEF Same, Told
  <2> QED BY <1>0, <2>1, <2>2, <2>4, <2>5, MarkActors
<1>5. CASE CancelAction(Manager)
  BY <1>0, <1>5, CancelActors
<1>6. CASE Put(Manager)
  BY <1>0, <1>6, DoneActors DEF Put
<1> QED BY <1>1, <1>2, <1>3, <1>4, <1>5, <1>6 DEF ManagerStep

LEMMA HandlerActors ==
  ASSUME LinkInv, Moves, NEW t \in Threads, HandlerStep(t)
  PROVE  \A y \in Actors : ActorOK(y)'
<1>0. t \in Actors
  BY DEF Actors
<1>1. CASE UpdateUserInfo(t)
  <2>1. late[t] => users'[row[t].userId] = Gone
    <3>1. pc[t] = "update" /\ (late[t] => row[t] # None /\ users[row[t].userId] = Gone)
      BY <1>0, <1>1 DEF UpdateUserInfo, LinkInv, ActorOK
    <3>2. row[t] # None => row[t].userId \in Accounts
      <4>1. row[t] # None => row[t] \in ActionLink
        BY <1>0 DEF LinkInv, LinkTypes, LocalTypes
      <4> QED BY <4>1, Rows
    <3> QED BY <3>1, <3>2 DEF Moves, UsersMove
  <2>2. Done(t) \/ (Goto(t, "complete") /\ UNCHANGED late)
    BY <1>1 DEF UpdateUserInfo
  <2> QED BY <1>0, <2>1, <2>2, DoneActors, GotoActors DEF PCs
<1>2. CASE Resend(t)
  <2>1. ~late[t] /\ UNCHANGED late /\ Goto(t, "signupLink") /\ user[t].id \in Subs
    BY <1>0, <1>2 DEF Resend, LinkInv, ActorOK, LatePCs, history
  <2> QED BY <1>0, <2>1, GotoActors DEF PCs
<1>3. CASE ReadUser(t)
  <2>1. CASE Done(t)
    BY <1>0, <2>1, DoneActors
  <2>2. CASE Usable(t) /\ ~Done(t)
    <3> DEFINE r == IF Verifies(t) THEN [Account(t) EXCEPT !.waitingForEmailCheck = FALSE]
                                   ELSE Account(t)
    <3>0. row[t].userId \in Accounts /\ row[t] # None /\ LinkTypes
      <4>1. row[t] \in ActionLink
        BY <1>0, <1>3 DEF ReadUser, LinkInv, LinkTypes, LocalTypes, LinkPCs
      <4> QED BY <4>1, Rows DEF LinkInv
    <3>1. Account(t) \in UserInfo
      BY <2>2, <3>0, RecordTypes DEF Usable, Account
    <3>2. r \in UserInfo
      BY <3>1, Records
    <3>3. Begin(t, row[t].userId, r, "update") /\ UNCHANGED <<late, users>>
      BY <1>3, <2>2 DEF ReadUser, tables
    <3> HIDE DEF r
    <3>5. users[row[t].userId] # None
      BY <1>0, <3>0 DEF LinkInv, ActorOK, CopyOK
    <3>6. late[t] => users[row[t].userId] = Gone
      BY <1>0, <1>3 DEF ReadUser, LinkInv, ActorOK
    <3> QED BY <1>0, <3>0, <3>2, <3>3, <3>5, <3>6, BeginActors DEF UserPCs
  <2> QED BY <1>3, <2>1, <2>2 DEF ReadUser
<1>4. CASE CompleteAction(t) \/ CancelAction(t)
  BY <1>0, <1>4, CancelActors
<1>5. CASE Put(t)
  BY <1>0, <1>5, DoneActors DEF Put
<1>6. ASSUME NEW l \in Links, VerifyEmail(t, l) PROVE \A y \in Actors : ActorOK(y)'
  <2>0. pc[t] = "verify" /\ user[t] # None /\ user[t] \in Copy
    BY <1>0, <1>6 DEF VerifyEmail, LinkInv, LinkTypes, LocalTypes, UserPCs
  <2> DEFINE c == [user[t] EXCEPT !.record.waitingForEmailCheck = TRUE]
  <2>1. c = [id |-> user[t].id, record |-> c.record] /\ c.record \in UserInfo
    <3>1. c \in Copy
      BY <2>0 DEF Copy, UserInfo
    <3>2. c.id = user[t].id
      BY <2>0 DEF Copy
    <3> HIDE DEF c
    <3> QED BY <3>1, <3>2, Copies
  <2>2. /\ user' = [user EXCEPT ![t] = c] /\ pc' = [pc EXCEPT ![t] = "update"]
        /\ UNCHANGED <<link, row, late, users>>
    BY <1>6 DEF VerifyEmail, history
  <2>3. ~late[t] /\ users[user[t].id] # None
    BY <1>0, <2>0 DEF LinkInv, ActorOK, LatePCs
  <2>4. user[t].id \in Accounts
    BY <2>0, Copies
  <2> HIDE DEF c
  <2>5. Begin(t, user[t].id, c.record, "update")
    BY <2>1, <2>2 DEF Begin
  <2> QED BY <1>0, <2>1, <2>2, <2>3, <2>4, <2>5, BeginActors DEF UserPCs
<1>7. ASSUME NEW l \in Links, SignupLink(t, l) PROVE \A y \in Actors : ActorOK(y)'
  BY <1>0, <1>7, DoneActors DEF SignupLink
<1> QED BY <1>1, <1>2, <1>3, <1>4, <1>5, <1>6, <1>7 DEF HandlerStep

LEMMA RequestActors ==
  ASSUME LinkInv, LinkTypes', Moves, NEW t \in Threads, Request(t)
  PROVE  \A y \in Actors : ActorOK(y)'
<1>0. t \in Actors
  BY DEF Actors
<1>1. pc[t] = "idle" /\ ~late[t]
  BY <1>0 DEF Request, CreateUser, Signup, DoPut, UseLink, LinkInv, ActorOK, LatePCs
<1> DEFINE fresh(b) == [waitingForEmailCheck |-> b, suspended |-> FALSE]
<1>2. \A b \in BOOLEAN : fresh(b) \in UserInfo /\ fresh(b) # None
  BY Records
<1>3. ASSUME NEW a \in Accounts, CreateUser(t, a) PROVE \A y \in Actors : ActorOK(y)'
  <2>2. /\ users' = [users EXCEPT ![a] = fresh(FALSE)]
        /\ UNCHANGED locals \/ Begin(t, a, fresh(FALSE), "verify")
        /\ UNCHANGED late
    BY <1>3 DEF CreateUser
  <2> HIDE DEF fresh
  <2>3. users'[a] # None
    BY <1>2, <2>2 DEF LinkInv, LinkTypes, TableTypes
  <2>4. CASE UNCHANGED locals
    BY <2>2, <2>4, ActorStays DEF locals, LinkInv
  <2>5. CASE Begin(t, a, fresh(FALSE), "verify")
    BY <1>0, <1>1, <1>2, <2>2, <2>3, <2>5, BeginActors DEF UserPCs
  <2> QED BY <2>2, <2>4, <2>5
<1>4. ASSUME NEW a \in Accounts, Signup(t, a) PROVE \A y \in Actors : ActorOK(y)'
  <2>2. /\ \/ users' = [users EXCEPT ![a] = fresh(TRUE)] /\ Begin(t, a, fresh(TRUE), "signupLink")
           \/ /\ Found(a) /\ UNCHANGED users
              /\ \E p \in {"resend", "signupLink"} : Begin(t, a, Record(a), p)
        /\ UNCHANGED late /\ a \in Subs
    BY <1>4 DEF Signup
  <2> HIDE DEF fresh
  <2>3. PICK p \in UserPCs, r \in UserInfo : Begin(t, a, r, p)
    BY <1>2, <2>2, RecordTypes DEF UserPCs, LinkInv
  <2>4. users'[a] # None
    BY <1>2, <2>2, Records DEF LinkInv, LinkTypes, TableTypes, CacheKnown, Found, IsUser
  <2> QED BY <1>0, <1>1, <2>2, <2>3, <2>4, BeginActors
<1>5. ASSUME NEW a \in Accounts, NEW s \in BOOLEAN, NEW v \in BOOLEAN, DoPut(t, a, s, v)
      PROVE  \A y \in Actors : ActorOK(y)'
  <2>1. Record(a) \in UserInfo /\ users[a] # None /\ UNCHANGED <<users, late>>
    BY <1>5, RecordTypes, Records DEF DoPut, LinkInv, CacheKnown, Found, IsUser, tables, history
  <2>2. [Record(a) EXCEPT !.suspended = s] \in UserInfo
    BY <2>1, Records
  <2>3. PICK p \in {"verify", "update"}, r \in UserInfo : Begin(t, a, r, p)
    BY <1>5, <2>2 DEF DoPut
  <2> QED BY <1>0, <1>1, <2>1, <2>2, <2>3, BeginActors DEF UserPCs
<1>6. ASSUME NEW l \in Links, NEW kind \in {"reset", "signup", "confirm"}, UseLink(t, l, kind)
      PROVE  \A y \in Actors : ActorOK(y)'
  <2>1. links[l] \in ActionLink /\ IsLink(l) /\ UNCHANGED <<now, users, links, posted, user>>
    BY <1>6 DEF UseLink, IsLink, tables
  <2>2. /\ link'[t] = l /\ row'[t] = links[l] /\ late'[t] = (l \in cancelled)
        /\ \/ pc'[t] = "cancel" /\ Expired(links[l])
           \/ pc'[t] \in {"reset", "signup", "confirm"} /\ ~Expired(links[l])
        /\ \A y \in Actors : y # t =>
             /\ pc'[y] = pc[y] /\ link'[y] = link[y] /\ row'[y] = row[y]
             /\ user'[y] = user[y] /\ late'[y] = late[y]
    BY <1>0, <1>6 DEF UseLink, LinkInv, LinkTypes, LocalTypes
  <2>3. /\ links[l] # None /\ users[links[l].userId] # None
        /\ l \in cancelled => Dead(links[l])
    BY <2>1, Rows DEF LinkInv, LinkOK
  <2>4. CopyOK(link[t], row[t])'
    BY <2>1, <2>2, <2>3 DEF CopyOK, IsLink, Same
  <2>5. pc'[t] = "cancel" => Dead(row[t])'
    BY <2>1, <2>2 DEF Dead, Expired
  <2>6. late'[t] => /\ pc'[t] \in {"reset", "signup", "confirm", "cancel"}
                    /\ pc'[t] # "cancel" => users'[row'[t].userId] = Gone
    BY <2>1, <2>2, <2>3 DEF Dead
  <2>7. user'[t] # None => users'[user'[t].id] # None
    BY <1>0, <2>1 DEF LinkInv, ActorOK
  <2>8. ActorOK(t)'
    BY <1>0, <2>1, <2>2, <2>3, <2>4, <2>5, <2>6, <2>7, Rows DEF ActorOK, LatePCs
  <2> QED BY <1>0, <2>2, <2>8, OthersStay
<1> QED BY <1>3, <1>4, <1>5, <1>6 DEF Request

LEMMA LinkInvInit == Init => LinkInv
<1> SUFFICES ASSUME Init PROVE LinkInv
  OBVIOUS
<1>1. LinkTypes
  BY TypesInit
<1>2. \A l \in Links : links[l] = None /\ l \notin cancelled
  BY DEF Init
<1>3. \A l \in Links : LinkOK(l)
  BY <1>2, Rows DEF LinkOK, IsLink
<1>4. \A x \in Actors : /\ row[x] = None /\ user[x] = None /\ late[x] = FALSE
                        /\ pc[x] \in {"sleep", "idle"}
  BY DEF Init, Empty, AtRest
<1>5. \A x \in Actors : ActorOK(x)
  BY <1>4 DEF ActorOK
<1>6. batch = {} /\ CacheKnown
  BY DEF Init, NoRecords, CacheKnown
<1> QED BY <1>1, <1>3, <1>5, <1>6 DEF LinkInv

LEMMA KnownNext ==
  ASSUME LinkInv, [Next]_vars, Moves
  PROVE  CacheKnown'
<1>0. LinkTypes /\ CacheKnown /\ CacheMoves
  BY CacheChange DEF LinkInv
<1>1. ASSUME NEW a \in Accounts, cached'[a] # None PROVE users'[a] # None
  <2>1. CASE cached'[a] \in {cached[a], None}
    BY <1>0, <1>1, <2>1 DEF CacheKnown, Moves, UsersMove
  <2>2. CASE Found(a)
    BY <1>0, <2>2, Records DEF CacheKnown, Found, IsUser, Moves, UsersMove
  <2>3. ASSUME NEW f \in fills, f[1] = a PROVE users'[a] # None
    BY <1>0, <2>3 DEF CacheKnown, Moves, UsersMove
  <2>4. ASSUME NEW t \in Threads, user[t] \in Copy, user[t].id = a PROVE users'[a] # None
    <3>1. users[a] # None
      BY <2>4, Copies DEF LinkInv, ActorOK, Actors
    <3> QED BY <3>1 DEF Moves, UsersMove
  <2> QED BY <1>0, <2>1, <2>2, <2>3, <2>4 DEF CacheMoves, CacheMove
<1>2. ASSUME NEW f \in fills' PROVE users'[f[1]] # None
  <2>1. f[1] \in Accounts /\ users[f[1]] # None
    BY <1>0, <1>2, Records DEF LinkTypes, CacheTypes, CacheKnown, CacheMoves, FillMove
  <2> QED BY <2>1 DEF Moves, UsersMove
<1> QED BY <1>1, <1>2 DEF CacheKnown

LEMMA LinkInvNext == LinkInv /\ [Next]_vars => LinkInv'
<1> SUFFICES ASSUME LinkInv, [Next]_vars PROVE LinkInv'
  OBVIOUS
<1>1. LinkTypes' /\ CacheKnown' /\ Moves
  BY TypesNext, MovesNext, KnownNext DEF LinkInv
<1>2. ASSUME UNCHANGED <<locals, late>> PROVE \A x \in Actors : ActorOK(x)'
  BY <1>1, <1>2, ActorStays DEF LinkInv, locals
<1>3. ASSUME Crash PROVE \A x \in Actors : ActorOK(x)'
  <2>1. \A x \in Actors : /\ row'[x] = None /\ user'[x] = None /\ late'[x] = FALSE
                          /\ pc'[x] \in {"sleep", "idle"}
    BY <1>3 DEF Crash, Empty, AtRest
  <2> QED BY <2>1 DEF ActorOK
<1>4. CASE OtherStep
  <2>1. Crash \/ UNCHANGED <<locals, late>>
    BY <1>4, CacheLeaves DEF OtherStep, DeleteUser, ForgotPassword, DoPutRefused, MailerStep,
                CleanOldActionLinks, Tick, history
  <2> QED BY <1>1, <1>2, <1>3, <2>1, LinksNext, BatchNext DEF LinkInv
<1>5. CASE UNCHANGED vars
  BY <1>1, <1>2, <1>5, LinksNext, BatchNext DEF LinkInv, vars, history
<1>6. CASE ManagerStep
  BY <1>1, <1>6, ManagerActors, LinksNext, BatchNext DEF LinkInv
<1>7. ASSUME NEW t \in Threads, HandlerStep(t) \/ Request(t) PROVE LinkInv'
  <2>1. \A x \in Actors : ActorOK(x)'
    BY <1>1, <1>7, HandlerActors, RequestActors
  <2> QED BY <1>1, <2>1, LinksNext, BatchNext DEF LinkInv
<1> QED BY <1>4, <1>5, <1>6, <1>7 DEF Next, OtherStep

(* No row is ever marked as sent before its mail was posted or its account   *)
(* deleted, in ActionLinkManager::run and through every whole-row write-back *)
(* of an older copy, crash and clean-up.                                     *)
THEOREM AlwaysSentAfterPost == Spec => []SentAfterPost
<1>1. LinkInv => SentAfterPost
  BY DEF LinkInv, LinkOK, SentAfterPost, Told
<1> QED BY <1>1, LinkInvInit, LinkInvNext, PTL DEF Spec

(* RESTAPI_action_links never looks at the mark of a cancelled link, and no  *)
(* request that begins after the cancellation gets to an account that is     *)
(* there: what it finds in the cache is of an account that was deleted.      *)
THEOREM CancelledLinksAlwaysRefused == Spec => []CancelledLinksRefused
<1>1. LinkInv => CancelledLinksRefused
  BY DEF LinkInv, ActorOK, CancelledLinksRefused, Actors
<1> QED BY <1>1, LinkInvInit, LinkInvNext, PTL DEF Spec

(* A deleted account stays deleted: no link, sign-up or late UpdateUserInfo  *)
(* of a copy that was read before brings it back.                            *)
THEOREM DeletionAlwaysFinal == Spec => DeletionIsFinal
<1>1. LinkInv /\ [Next]_vars => [\A a \in Accounts : users[a] = Gone => users'[a] = Gone]_users
  BY MovesNext DEF Moves, UsersMove
<1> QED BY <1>1, LinkInvInit, LinkInvNext, PTL DEF Spec, DeletionIsFinal

-----------------------------------------------------------------------------
(* Accounts that wait for the check of their e-mail address, when no request *)
(* writes an account that another has read and not yet written, or put into  *)
(* the cache: otherwise each may write back a record from before the other   *)
(* (a hazard of UpdateUserInfo).                                             *)

\* An account stays as a request or a lookup has read it until that writes it back
\* or caches it, or it is deleted.
Undisturbed ==
  /\ \A t \in Threads :
       pc[t] \in {"verify", "resend", "update"} /\ pc'[t] = pc[t] /\ user'[t] = user[t]
         => users'[user[t].id] \in {users[user[t].id], Gone}
  /\ \A f \in fills \cap fills' : users'[f[1]] \in {users[f[1]], Gone}

UpdatesFollowReads == [][Undisturbed]_vars

\* One request at a time: then that is so.
OneThread == \A t, u \in Threads : t = u

\* The links of subscribers are for subscribers.
OfUser(r) == r.action \in SubActions => r.userId \in Subs

\* A link that may end the waiting of the account.
MayVerify(r, a) == r.userId = a /\ (a \in Subs \/ r.action = "VERIFY_EMAIL")

\* The cache and the lookups have accounts as they are.
CacheFresh ==
  /\ \A a \in Accounts : cached[a] # None => users[a] \in {cached[a], Gone}
  /\ \A f \in fills : users[f[1]] \in {f[2], Gone}

\* The thread's record would end the waiting of its account.
Ends(t) ==
  IsUser(user[t].id) /\ users[user[t].id].waitingForEmailCheck
    /\ ~user[t].record.waitingForEmailCheck

\* A thread without a request has no link and no record; a link it has was
\* mailed; and its record ends the waiting of an account through a link only.
ThreadOK(t) ==
  /\ pc[t] = "idle" => link[t] = None /\ user[t] = None
  /\ pc[t] \in {"verify", "resend", "signupLink"} => link[t] = None
  /\ link[t] # None => link[t] \in delivered /\ OfUser(row[t])
  /\ pc[t] = "confirm" => row[t].action \in SubActions
  /\ pc[t] \in {"verify", "resend", "update"} /\ Ends(t) =>
       pc[t] = "update" /\ link[t] # None /\ MayVerify(row[t], user[t].id)

WaitInv ==
  /\ CacheFresh
  /\ \A l \in Links : IsLink(l) => OfUser(links[l])
  /\ \A t \in Threads : ThreadOK(t)

\* The thread is about to make the account wait.
Flags(t, a) ==
  /\ user[t] # None /\ user[t].id = a
  /\ pc[t] = "verify" \/ (pc[t] = "update" /\ user[t].record.waitingForEmailCheck)

LEMMA DeliveredGrows ==
  ASSUME [Next]_vars
  PROVE  delivered \subseteq delivered'
<1>1. CASE ManagerStep
  BY <1>1 DEF ManagerStep, GetActions, NextLink, SendEmail, SentAction, CancelAction, Put,
              Mark, mail, Mailer!Post
<1>2. ASSUME NEW t \in Threads, HandlerStep(t) PROVE UNCHANGED delivered
  BY <1>2 DEF HandlerStep, UpdateUserInfo, Resend, ReadUser, CompleteAction, CancelAction,
              Mark, Put, VerifyEmail, SignupLink, mail
<1>3. ASSUME NEW t \in Threads, Request(t) PROVE UNCHANGED delivered
  BY <1>3 DEF Request, CreateUser, Signup, DoPut, UseLink, mail
<1>4. CASE OtherStep
  BY <1>4, CacheLeaves DEF OtherStep, DeleteUser, ForgotPassword, DoPutRefused, MailerStep,
              CleanOldActionLinks, Crash, Tick, mail, Mailer!Deliver, Mailer!GiveUp, Mailer!Lose
<1>5. CASE UNCHANGED vars
  BY <1>5 DEF vars, mail
<1> QED BY <1>1, <1>2, <1>3, <1>4, <1>5 DEF Next, OtherStep

LEMMA LinksOfUsers ==
  ASSUME LinkInv, WaitInv, [Next]_vars
  PROVE  \A l \in Links : IsLink(l)' => OfUser(links'[l])
<1> SUFFICES ASSUME NEW l \in Links, IsLink(l)' PROVE OfUser(links'[l])
  OBVIOUS
<1>1. CASE links[l] # None
  <2>1. IsLink(l) /\ Same(links[l], links'[l])
    BY <1>1, MovesNext DEF Moves, LinksMove
  <2> QED BY <2>1 DEF WaitInv, OfUser, Same
<1>2. CASE links[l] = None
  <2>0. links \in [Links -> ActionLink \cup {None, Gone}] /\ now \in Nat
    BY DEF LinkInv, LinkTypes, TableTypes
  <2>1. CASE UNCHANGED links
    BY <1>2, <2>1, Rows DEF IsLink
  <2>2. ASSUME NEW k \in Links, NEW act \in UserActions \cup SubActions, NEW a \in Accounts,
               Addressed(act, a), NewLink(k, act, a)
        PROVE  OfUser(links'[l])
    <3>1. l = k
      BY <1>2, <2>0, <2>2, Rows DEF NewLink, IsLink
    <3>2. links'[l].action = act /\ links'[l].userId = a
      BY <2>0, <2>2, <3>1 DEF NewLink
    <3> QED BY <2>2, <3>2 DEF OfUser, Addressed
  <2>3. ASSUME NEW x \in Actors, Put(x) PROVE FALSE
    <3>1. ~IsLink(l)
      BY <1>2, Rows DEF IsLink
    <3>2. links'[l] = links[l]
      BY <2>0, <2>3, <3>1 DEF Put
    <3> QED BY <3>1, <3>2 DEF IsLink
  <2>4. CASE CleanOldActionLinks
    <3>1. links'[l] = None \/ links'[l] = Gone
      BY <1>2, <2>4 DEF CleanOldActionLinks
    <3> QED BY <3>1, Rows DEF IsLink
  <2> QED BY <2>1, <2>2, <2>3, <2>4, LinksChange
<1> QED BY <1>1, <1>2

\* A step that leaves the thread and its account alone, or deletes the account.
LEMMA ThreadStays ==
  ASSUME LinkTypes, NEW t \in Threads, ThreadOK(t), delivered \subseteq delivered',
         pc'[t] = pc[t], link'[t] = link[t], row'[t] = row[t], user'[t] = user[t],
         pc[t] \in {"verify", "resend", "update"} =>
           users'[user[t].id] \in {users[user[t].id], Gone}
  PROVE  ThreadOK(t)'
<1>1. pc[t] \in UserPCs => user[t].id \in Accounts
  BY Copies DEF LinkTypes, LocalTypes, Actors
<1>2. pc[t] \in {"verify", "resend", "update"} /\ Ends(t)' => Ends(t)
  <2> SUFFICES ASSUME pc[t] \in {"verify", "resend", "update"}, Ends(t)' PROVE Ends(t)
    OBVIOUS
  <2>1. users'[user[t].id] # Gone
    BY Records DEF Ends, IsUser
  <2>2. users'[user[t].id] = users[user[t].id]
    BY <2>1
  <2> QED BY <2>2 DEF Ends, IsUser
<1> QED BY <1>2 DEF ThreadOK, OfUser, MayVerify

LEMMA DoneThread ==
  ASSUME LinkTypes, NEW t \in Threads, Done(t)
  PROVE  ThreadOK(t)'
<1>1. pc'[t] = "idle" /\ link'[t] = None /\ user'[t] = None
  BY DEF Done, LinkTypes, LocalTypes, Actors
<1> QED BY <1>1 DEF ThreadOK

LEMMA MarkThread ==
  ASSUME LinkInv, WaitInv, NEW t \in Threads, link[t] # None, Mark(t, links[link[t]])
  PROVE  ThreadOK(t)'
<1>0. t \in Actors /\ LinkTypes
  BY DEF Actors, LinkInv
<1>1. CASE ~IsLink(link[t])
  BY <1>0, <1>1, DoneThread DEF Mark
<1>2. CASE IsLink(link[t])
  <2>1. /\ pc'[t] = "put" /\ link'[t] = link[t] /\ row'[t] = links[link[t]]
        /\ UNCHANGED delivered
    BY <1>0, <1>2 DEF Mark, mail, LinkTypes, LocalTypes
  <2>2. link[t] \in Links
    BY <1>0 DEF LinkTypes, LocalTypes
  <2>3. link[t] \in delivered /\ OfUser(links[link[t]])
    BY <1>2, <2>2 DEF WaitInv, ThreadOK
  <2> QED BY <2>1, <2>3 DEF ThreadOK, OfUser
<1> QED BY <1>1, <1>2

\* A thread begins to work on an account, through a link or not.
LEMMA BeginThread ==
  ASSUME LinkTypes, NEW t \in Threads, ThreadOK(t), NEW a \in Accounts, NEW r \in UserInfo,
         NEW p \in UserPCs, Begin(t, a, r, p), UNCHANGED delivered,
         p # "update" => link[t] = None,
         \/ p = "signupLink"
         \/ users'[a] \in UserInfo
              => users'[a].waitingForEmailCheck = r.waitingForEmailCheck
         \/ p = "update" /\ link[t] # None /\ MayVerify(row[t], a)
  PROVE  ThreadOK(t)'
<1> DEFINE c == [id |-> a, record |-> r]
<1>0. user' = [user EXCEPT ![t] = c] /\ pc' = [pc EXCEPT ![t] = p] /\ UNCHANGED <<link, row>>
  BY DEF Begin
<1>1. c.id = a /\ c.record = r
  OBVIOUS
<1> HIDE DEF c
<1>2. pc'[t] = p /\ user'[t] = c /\ link'[t] = link[t] /\ row'[t] = row[t]
  BY <1>0 DEF LinkTypes, LocalTypes, Actors
<1>3. p \in {"verify", "resend", "update"} /\ Ends(t)' =>
        p = "update" /\ link[t] # None /\ MayVerify(row[t], a)
  BY <1>1, <1>2 DEF Ends, IsUser
<1> QED BY <1>1, <1>2, <1>3 DEF ThreadOK, OfUser, MayVerify, UserPCs

\* What a lookup returns is the account as it is, or as it was when it was deleted.
LEMMA RecordFresh ==
  ASSUME WaitInv, NEW a \in Accounts, IsUser(a)
  PROVE  Record(a) = users[a]
BY Records DEF WaitInv, CacheFresh, Record, IsUser

LEMMA HandlerThread ==
  ASSUME LinkInv, WaitInv, NEW t \in Threads, HandlerStep(t)
  PROVE  ThreadOK(t)'
<1>0. t \in Actors /\ LinkTypes /\ ThreadOK(t)
  BY DEF Actors, LinkInv, WaitInv
<1>1. CASE UpdateUserInfo(t)
  <2>1. CASE link[t] = None
    BY <1>0, <1>1, <2>1, DoneThread DEF UpdateUserInfo
  <2>2. CASE link[t] # None
    <3>1. pc'[t] = "complete" /\ link'[t] = link[t] /\ row'[t] = row[t] /\ UNCHANGED delivered
      BY <1>0, <1>1, <2>2 DEF UpdateUserInfo, Goto, mail, LinkTypes, LocalTypes
    <3> QED BY <1>0, <3>1 DEF ThreadOK, OfUser
  <2> QED BY <2>1, <2>2
<1>2. CASE Resend(t)
  <2>1. /\ pc[t] = "resend" /\ pc'[t] = "signupLink" /\ link'[t] = link[t] /\ row'[t] = row[t]
        /\ UNCHANGED delivered
    BY <1>0, <1>2 DEF Resend, Goto, mail, LinkTypes, LocalTypes
  <2> QED BY <1>0, <2>1 DEF ThreadOK, OfUser
<1>3. CASE ReadUser(t)
  <2>1. CASE Done(t)
    BY <1>0, <2>1, DoneThread
  <2>2. CASE Usable(t) /\ ~Done(t)
    <3> DEFINE r == IF Verifies(t) THEN [Account(t) EXCEPT !.waitingForEmailCheck = FALSE]
                                   ELSE Account(t)
    <3>0. row[t].userId \in Accounts
      <4>1. row[t] \in ActionLink
        BY <1>0, <1>3 DEF ReadUser, LinkTypes, LocalTypes, LinkPCs
      <4> QED BY <4>1, Rows
    <3>1. Account(t) \in UserInfo
      BY <1>0, <2>2, <3>0, RecordTypes DEF Usable, Account
    <3>2. r \in UserInfo
      BY <3>1, Records
    <3>3. /\ Begin(t, row[t].userId, r, "update") /\ UNCHANGED <<delivered, users>>
          /\ pc[t] \in {"reset", "signup", "confirm"}
      BY <1>3, <2>2 DEF ReadUser, tables, mail
    <3>4. row[t] \in ActionLink /\ link[t] # None
      BY <1>0, <3>3 DEF LinkTypes, LocalTypes, LinkPCs
    <3>6. CASE ~Verifies(t)
      <4>1. users'[row[t].userId] \in UserInfo
              => users'[row[t].userId].waitingForEmailCheck = r.waitingForEmailCheck
        <5>1. r = Record(row[t].userId)
          BY <3>6 DEF Account
        <5> HIDE DEF r
        <5> QED BY <3>0, <3>3, <5>1, RecordFresh DEF IsUser
      <4> HIDE DEF r
      <4>2. UNCHANGED delivered /\ "update" \in UserPCs
        BY <3>3 DEF UserPCs
      <4> QED BY <1>0, <3>0, <3>2, <3>3, <4>1, <4>2, BeginThread
    <3>7. CASE Verifies(t)
      <4>1. MayVerify(row[t], row[t].userId)
        BY <1>0, <2>2, <3>3, <3>4, <3>7 DEF Verifies, Usable, ThreadOK, OfUser, MayVerify
      <4> HIDE DEF r
      <4> QED BY <1>0, <3>0, <3>2, <3>3, <3>4, <4>1, BeginThread DEF UserPCs
    <3> QED BY <3>6, <3>7
  <2> QED BY <1>3, <2>1, <2>2 DEF ReadUser
<1>4. CASE CompleteAction(t) \/ CancelAction(t)
  <2>1. link[t] # None
    BY <1>0, <1>4 DEF CompleteAction, CancelAction, LinkTypes, LocalTypes, LinkPCs
  <2> QED BY <1>4, <2>1, MarkThread DEF CompleteAction, CancelAction
<1>5. CASE Put(t)
  BY <1>0, <1>5, DoneThread DEF Put
<1>6. ASSUME NEW l \in Links, VerifyEmail(t, l) PROVE ThreadOK(t)'
  <2>1. pc[t] = "verify" /\ user[t] \in Copy
    BY <1>0, <1>6 DEF VerifyEmail, LinkTypes, LocalTypes, UserPCs
  <2> DEFINE c == [user[t] EXCEPT !.record.waitingForEmailCheck = TRUE]
  <2>2. c.record.waitingForEmailCheck = TRUE
    BY <2>1 DEF Copy, UserInfo
  <2>3. /\ pc'[t] = "update" /\ user'[t] = c /\ link'[t] = link[t]
    BY <1>0, <1>6 DEF VerifyEmail, LinkTypes, LocalTypes
  <2> HIDE DEF c
  <2>4. link'[t] = None /\ ~Ends(t)'
    BY <1>0, <2>1, <2>2, <2>3 DEF ThreadOK, Ends
  <2> QED BY <2>3, <2>4 DEF ThreadOK
<1>7. ASSUME NEW l \in Links, SignupLink(t, l) PROVE ThreadOK(t)'
  BY <1>0, <1>7, DoneThread DEF SignupLink
<1> QED BY <1>1, <1>2, <1>3, <1>4, <1>5, <1>6, <1>7 DEF HandlerStep

LEMMA RequestThread ==
  ASSUME LinkInv, WaitInv, NEW t \in Threads, Request(t)
  PROVE  ThreadOK(t)'
<1>0. t \in Actors /\ LinkTypes /\ ThreadOK(t)
  BY DEF Actors, LinkInv, WaitInv
<1>1. pc[t] = "idle" /\ link[t] = None /\ user[t] = None
  BY <1>0 DEF Request, CreateUser, Signup, DoPut, UseLink, ThreadOK
<1> DEFINE fresh(b) == [waitingForEmailCheck |-> b, suspended |-> FALSE]
<1>2. \A b \in BOOLEAN : fresh(b) \in UserInfo
  BY Records
<1>3. ASSUME NEW a \in Accounts, CreateUser(t, a) PROVE ThreadOK(t)'
  <2>2. /\ users' = [users EXCEPT ![a] = fresh(FALSE)]
        /\ UNCHANGED locals \/ Begin(t, a, fresh(FALSE), "verify")
        /\ UNCHANGED delivered
    BY <1>3 DEF CreateUser, mail
  <2> HIDE DEF fresh
  <2>3. users'[a] = fresh(FALSE)
    BY <2>2, <1>0 DEF LinkTypes, TableTypes
  <2>4. CASE UNCHANGED locals
    BY <1>1, <2>4 DEF locals, ThreadOK
  <2>5. CASE Begin(t, a, fresh(FALSE), "verify")
    BY <1>0, <1>1, <1>2, <2>2, <2>3, <2>5, BeginThread DEF UserPCs
  <2> QED BY <2>2, <2>4, <2>5
<1>4. ASSUME NEW a \in Accounts, Signup(t, a) PROVE ThreadOK(t)'
  <2>2. /\ \/ Begin(t, a, fresh(TRUE), "signupLink")
           \/ /\ Found(a) /\ UNCHANGED users
              /\ \E p \in {"resend", "signupLink"} : Begin(t, a, Record(a), p)
        /\ UNCHANGED delivered
    BY <1>4 DEF Signup, mail
  <2> HIDE DEF fresh
  <2>3. CASE Begin(t, a, fresh(TRUE), "signupLink")
    BY <1>0, <1>1, <1>2, <2>2, <2>3, BeginThread DEF UserPCs
  <2>4. CASE Found(a) /\ UNCHANGED users /\ \E p \in {"resend", "signupLink"} : Begin(t, a, Record(a), p)
    <3>1. PICK p \in {"resend", "signupLink"} : Begin(t, a, Record(a), p)
      BY <2>4
    <3>2. /\ Record(a) \in UserInfo
          /\ users'[a] \in UserInfo => users'[a].waitingForEmailCheck = Record(a).waitingForEmailCheck
      BY <1>0, <2>4, RecordTypes, RecordFresh DEF IsUser
    <3>3. p \in UserPCs /\ p # "update"
      BY DEF UserPCs
    <3> QED BY <1>0, <1>1, <2>2, <3>1, <3>2, <3>3, BeginThread
  <2> QED BY <2>2, <2>3, <2>4
<1>5. ASSUME NEW a \in Accounts, NEW s \in BOOLEAN, NEW v \in BOOLEAN, DoPut(t, a, s, v)
      PROVE  ThreadOK(t)'
  <2> DEFINE r == [Record(a) EXCEPT !.suspended = s]
  <2>1. Record(a) \in UserInfo /\ UNCHANGED <<users, delivered>>
    BY <1>0, <1>5, RecordTypes DEF DoPut, tables, mail
  <2>2. r \in UserInfo /\ r.waitingForEmailCheck = Record(a).waitingForEmailCheck
    BY <2>1, Records DEF UserInfo
  <2>3. users'[a] \in UserInfo => users'[a].waitingForEmailCheck = r.waitingForEmailCheck
    BY <2>1, <2>2, RecordFresh DEF IsUser
  <2>4. PICK p \in {"verify", "update"} : Begin(t, a, r, p)
    BY <1>5 DEF DoPut
  <2> HIDE DEF r
  <2>5. p \in UserPCs
    BY DEF UserPCs
  <2> QED BY <1>0, <1>1, <2>1, <2>2, <2>3, <2>4, <2>5, BeginThread
<1>6. ASSUME NEW l \in Links, NEW kind \in {"reset", "signup", "confirm"}, UseLink(t, l, kind)
      PROVE  ThreadOK(t)'
  <2>1. l \in delivered /\ IsLink(l) /\ OfUser(links[l]) /\ UNCHANGED delivered
    BY <1>6 DEF UseLink, mail, WaitInv
  <2>2. /\ link'[t] = l /\ row'[t] = links[l]
        /\ pc'[t] \in {"reset", "signup", "confirm", "cancel"}
        /\ pc'[t] = "confirm" => links[l].action \in SubActions
    BY <1>0, <1>6 DEF UseLink, Accepts, LinkTypes, LocalTypes
  <2> QED BY <2>1, <2>2 DEF ThreadOK, OfUser
<1> QED BY <1>3, <1>4, <1>5, <1>6 DEF Request

LEMMA WaitInvInit == Init => WaitInv
<1> SUFFICES ASSUME Init PROVE WaitInv
  OBVIOUS
<1>1. \A l \in Links : ~IsLink(l)
  BY Rows DEF Init, IsLink
<1>2. \A t \in Threads : pc[t] = "idle" /\ link[t] = None /\ user[t] = None
  BY DEF Init, AtRest, Empty, Actors
<1>3. CacheFresh
  BY DEF Init, NoRecords, CacheFresh
<1> QED BY <1>1, <1>2, <1>3 DEF WaitInv, ThreadOK

\* What is written is cached, and no lookup caches what was written over.
LEMMA FreshNext ==
  ASSUME [Undisturbed]_vars, LinkInv, CacheFresh, [Next]_vars
  PROVE  CacheFresh'
<1>0. /\ LinkTypes /\ CacheTypes /\ CacheKnown /\ CacheMoves
      /\ users \in [Accounts -> UserInfo \cup {None, Gone}]
  BY CacheChange DEF LinkInv, LinkTypes, TableTypes
<1>1. ASSUME NEW a \in Accounts, cached'[a] # None, users'[a] \in {users[a], Gone}
      PROVE  users'[a] \in {cached'[a], Gone}
  <2>1. CASE cached'[a] \in {cached[a], None}
    BY <1>1, <2>1 DEF CacheFresh
  <2>2. CASE Found(a) /\ cached'[a] = Record(a)
    BY <1>1, <2>2 DEF CacheFresh, Found, Record
  <2>3. ASSUME NEW f \in fills, f[1] = a, cached'[a] = f[2]
        PROVE  users'[a] \in {cached'[a], Gone}
    BY <1>1, <2>3 DEF CacheFresh
  <2>4. ASSUME NEW t \in Threads, user[t] \in Copy, user[t].id = a,
               cached'[a] = user[t].record, users' = Written(t)
        PROVE  users'[a] \in {cached'[a], Gone}
    <3>1. users[a] # None
      BY <2>4, Copies DEF LinkInv, ActorOK, Actors
    <3>2. CASE IsUser(a)
      BY <1>0, <2>4, <3>2 DEF Written
    <3>3. CASE ~IsUser(a)
      BY <1>0, <1>1, <3>1, <3>3 DEF IsUser
    <3> QED BY <3>2, <3>3
  <2> QED BY <1>0, <2>1, <2>2, <2>3, <2>4 DEF CacheMoves, CacheMove
<1>2. ASSUME NEW f \in fills' PROVE users'[f[1]] \in {f[2], Gone}
  <2>1. CASE f \in fills
    <3>1. users'[f[1]] \in {users[f[1]], Gone}
      BY <1>2, <2>1 DEF Undisturbed, vars, tables
    <3> QED BY <2>1, <3>1 DEF CacheFresh
  <2>2. CASE f \notin fills
    BY <1>0, <1>2, <2>2 DEF CacheMoves, FillMove
  <2> QED BY <2>1, <2>2
<1>3. ASSUME NEW a \in Accounts, cached'[a] # None PROVE users'[a] \in {cached'[a], Gone}
  <2>1. CASE UNCHANGED users
    BY <1>1, <1>3, <2>1
  <2>2. ASSUME NEW b \in Accounts, NEW r \in UserInfo, users[b] = None,
               users' = [users EXCEPT ![b] = r]
        PROVE  users'[a] \in {cached'[a], Gone}
    <3>1. a # b
      <4>1. SUFFICES ASSUME users[a] = None PROVE FALSE
        BY <2>2
      <4>2. cached[a] = None /\ ~Found(a) /\ \A f \in fills : f[1] # a
        BY <1>0, <4>1, Records DEF CacheKnown, Found, IsUser
      <4>3. \A t \in Threads : user[t] \in Copy => user[t].id # a
        BY <4>1, Copies DEF LinkInv, ActorOK, Actors
      <4> QED BY <1>0, <1>3, <4>2, <4>3 DEF CacheMoves, CacheMove
    <3> QED BY <1>0, <1>1, <1>3, <2>2, <3>1
  <2>3. ASSUME NEW t \in Threads, user[t] # None, users' = Written(t), CacheWritten(t)
        PROVE  users'[a] \in {cached'[a], Gone}
    <3>1. CASE user[t].id = a /\ IsUser(a)
      BY <1>0, <2>3, <3>1 DEF Written, CacheWritten, CacheTypes
    <3>2. CASE user[t].id # a \/ ~IsUser(a)
      <4>1. users'[a] = users[a]
        BY <1>0, <2>3, <3>2 DEF Written
      <4> QED BY <1>1, <1>3, <4>1
    <3> QED BY <3>1, <3>2
  <2>4. ASSUME NEW b \in Accounts, users' = [users EXCEPT ![b] = Gone]
        PROVE  users'[a] \in {cached'[a], Gone}
    BY <1>0, <1>1, <1>3, <2>4
  <2> QED BY <1>0, <2>1, <2>2, <2>3, <2>4, UsersChange
<1> QED BY <1>2, <1>3 DEF CacheFresh

\* The manager leaves the accounts and the threads alone.
LEMMA ManagerLeaves ==
  ASSUME LinkTypes, ManagerStep, NEW t \in Threads
  PROVE  /\ UNCHANGED users
         /\ pc'[t] = pc[t] /\ link'[t] = link[t] /\ row'[t] = row[t] /\ user'[t] = user[t]
<1>0. t # Manager /\ t \in Actors /\ Manager \in Actors
  BY DEF Actors
<1>1. CASE GetActions \/ NextLink \/ SendEmail
  BY <1>0, <1>1 DEF GetActions, NextLink, SendEmail, Goto, LinkTypes, LocalTypes, tables
<1>2. CASE SentAction \/ CancelAction(Manager) \/ Put(Manager)
  BY <1>0, <1>2 DEF SentAction, CancelAction, Put, Mark, Done, LinkTypes, LocalTypes, tables
<1> QED BY <1>1, <1>2 DEF ManagerStep

\* A step of a request leaves the other requests alone.
LEMMA ThreadsApart ==
  ASSUME LinkTypes, NEW t \in Threads, HandlerStep(t) \/ Request(t)
  PROVE  \A u \in Threads : u # t =>
           pc'[u] = pc[u] /\ link'[u] = link[u] /\ row'[u] = row[u] /\ user'[u] = user[u]
<1> TAKE u \in Threads
<1> HAVE u # t
<1>0. t \in Actors /\ u \in Actors
  BY DEF Actors
<1>1. ASSUME Done(t)
      PROVE  pc'[u] = pc[u] /\ link'[u] = link[u] /\ row'[u] = row[u] /\ user'[u] = user[u]
  BY <1>0, <1>1 DEF Done, LinkTypes, LocalTypes
<1>2. ASSUME NEW p, Goto(t, p)
      PROVE  pc'[u] = pc[u] /\ link'[u] = link[u] /\ row'[u] = row[u] /\ user'[u] = user[u]
  BY <1>0, <1>2 DEF Goto, LinkTypes, LocalTypes
<1>3. ASSUME NEW a, NEW r, NEW p, Begin(t, a, r, p)
      PROVE  pc'[u] = pc[u] /\ link'[u] = link[u] /\ row'[u] = row[u] /\ user'[u] = user[u]
  BY <1>0, <1>3 DEF Begin, LinkTypes, LocalTypes
<1>4. CASE HandlerStep(t)
  <2>1. CASE UpdateUserInfo(t) \/ Resend(t)
    BY <1>1, <1>2, <2>1 DEF UpdateUserInfo, Resend
  <2>2. CASE ReadUser(t)
    BY <1>1, <1>3, <2>2 DEF ReadUser
  <2>3. CASE CompleteAction(t) \/ CancelAction(t) \/ Put(t)
    BY <1>0, <1>1, <2>3 DEF CompleteAction, CancelAction, Put, Mark, LinkTypes, LocalTypes
  <2>4. ASSUME NEW l \in Links, VerifyEmail(t, l)
        PROVE  pc'[u] = pc[u] /\ link'[u] = link[u] /\ row'[u] = row[u] /\ user'[u] = user[u]
    BY <1>0, <2>4 DEF VerifyEmail, LinkTypes, LocalTypes
  <2>5. ASSUME NEW l \in Links, SignupLink(t, l)
        PROVE  pc'[u] = pc[u] /\ link'[u] = link[u] /\ row'[u] = row[u] /\ user'[u] = user[u]
    BY <1>1, <2>5 DEF SignupLink
  <2> QED BY <1>4, <2>1, <2>2, <2>3, <2>4, <2>5 DEF HandlerStep
<1>5. CASE Request(t)
  <2>1. CASE \E a \in Accounts : CreateUser(t, a) \/ Signup(t, a)
    BY <1>3, <2>1 DEF CreateUser, Signup, locals
  <2>2. CASE \E a \in Accounts, s, v \in BOOLEAN : DoPut(t, a, s, v)
    BY <1>3, <2>2 DEF DoPut
  <2>3. ASSUME NEW l \in Links, NEW kind, UseLink(t, l, kind)
        PROVE  pc'[u] = pc[u] /\ link'[u] = link[u] /\ row'[u] = row[u] /\ user'[u] = user[u]
    BY <1>0, <2>3 DEF UseLink, LinkTypes, LocalTypes
  <2> QED BY <1>5, <2>1, <2>2, <2>3 DEF Request
<1> QED BY <1>4, <1>5

LEMMA WaitInvNext ==
  [Undisturbed]_vars /\ LinkInv /\ WaitInv /\ [Next]_vars => WaitInv'
<1> SUFFICES ASSUME [Undisturbed]_vars, LinkInv, WaitInv, [Next]_vars PROVE WaitInv'
  OBVIOUS
<1>1. \A l \in Links : IsLink(l)' => OfUser(links'[l])
  BY LinksOfUsers
<1>2. LinkTypes /\ delivered \subseteq delivered'
  BY DeliveredGrows DEF LinkInv
<1>0. CacheFresh'
  BY FreshNext DEF WaitInv
<1> SUFFICES ASSUME NEW t \in Threads PROVE ThreadOK(t)'
  BY <1>0, <1>1 DEF WaitInv, OfUser
<1>3. ThreadOK(t)
  BY DEF WaitInv
<1>4. ASSUME UNCHANGED locals, \A a \in Accounts : users'[a] = users[a] \/ users'[a] = Gone
      PROVE  ThreadOK(t)'
  <2>1. pc[t] \in {"verify", "resend", "update"} => user[t].id \in Accounts
    <3>1. t \in Actors
      BY DEF Actors
    <3>2. pc[t] \in UserPCs => user[t] \in Copy
      BY <1>2, <3>1 DEF LinkTypes, LocalTypes
    <3> QED BY <3>2, Copies DEF UserPCs
  <2> QED BY <1>2, <1>3, <1>4, <2>1, ThreadStays DEF locals
<1>5. CASE ManagerStep
  BY <1>2, <1>3, <1>5, ManagerLeaves, ThreadStays
<1>6. ASSUME NEW u \in Threads, HandlerStep(u) \/ Request(u) PROVE ThreadOK(t)'
  <2>1. CASE u = t
    BY <1>6, <2>1, HandlerThread, RequestThread
  <2>2. CASE u # t
    <3>1. pc'[t] = pc[t] /\ link'[t] = link[t] /\ row'[t] = row[t] /\ user'[t] = user[t]
      BY <1>2, <1>6, <2>2, ThreadsApart
    <3>2. pc[t] \in {"verify", "resend", "update"} =>
            users'[user[t].id] \in {users[user[t].id], Gone}
      BY <3>1 DEF Undisturbed, vars, tables
    <3> QED BY <1>2, <1>3, <3>1, <3>2, ThreadStays
  <2> QED BY <2>1, <2>2
<1>7. CASE OtherStep
  <2>1. CASE \E a \in Accounts : DeleteUser(a)
    <3>1. UNCHANGED locals /\ \A a \in Accounts : users'[a] = users[a] \/ users'[a] = Gone
      BY <1>2, <2>1 DEF DeleteUser, LinkTypes, TableTypes
    <3> QED BY <1>4, <3>1
  <2>2. CASE Crash
    <3>1. pc'[t] = "idle" /\ link'[t] = None /\ user'[t] = None
      BY <2>2 DEF Crash, AtRest, Empty, Actors
    <3> QED BY <3>1 DEF ThreadOK
  <2>3. CASE ~Crash /\ ~\E a \in Accounts : DeleteUser(a)
    BY <1>4, <1>7, <2>3, CacheLeaves DEF OtherStep, ForgotPassword, DoPutRefused, MailerStep,
                      CleanOldActionLinks, Tick, tables
  <2> QED BY <2>1, <2>2, <2>3
<1>8. CASE UNCHANGED vars
  BY <1>4, <1>8 DEF vars, tables
<1> QED BY <1>5, <1>6, <1>7, <1>8 DEF Next, OtherStep

(* When updates follow their reads, whatever else requests, the manager, the *)
(* cache and crashes do, an account stops waiting for the check of its       *)
(* e-mail address only through a mailed link to it, a user only through one  *)
(* that verifies the address: no resend, no change of the account and no     *)
(* password reset of a user ends it by the record it writes back.            *)
THEOREM WaitingAlwaysEndsByLink == Spec /\ UpdatesFollowReads => WaitingEndsByLink
<1> DEFINE Step ==
      \A a \in Accounts :
        IsUser(a) /\ users[a].waitingForEmailCheck
        /\ IsUser(a)' /\ ~users'[a].waitingForEmailCheck
          => \E t \in Threads : /\ link[t] \in delivered
                                /\ user[t] # None /\ user[t].id = a
                                /\ row[t].userId = a
                                /\ a \in Subs \/ row[t].action = "VERIFY_EMAIL"
<1>2. LinkInv /\ WaitInv /\ [Next]_vars => [Step]_users
  <2> SUFFICES ASSUME LinkInv, WaitInv, [Next]_vars, NEW a \in Accounts,
                      IsUser(a), users[a].waitingForEmailCheck,
                      IsUser(a)', ~users'[a].waitingForEmailCheck
               PROVE  \E t \in Threads : /\ link[t] \in delivered
                                         /\ user[t] # None /\ user[t].id = a
                                         /\ MayVerify(row[t], a)
    BY DEF MayVerify
  <2>0. LinkTypes /\ CacheKnown /\ users[a] # None /\ users'[a] # Gone
    BY Records DEF LinkInv, IsUser
  <2>1. CASE UNCHANGED users
    BY <2>1
  <2>2. ASSUME NEW b \in Accounts, NEW r \in UserInfo, users[b] = None,
               users' = [users EXCEPT ![b] = r]
        PROVE  FALSE
    BY <2>0, <2>2 DEF LinkTypes, TableTypes
  <2>3. ASSUME NEW b \in Accounts, users' = [users EXCEPT ![b] = Gone]
        PROVE  FALSE
    BY <2>0, <2>3 DEF LinkTypes, TableTypes
  <2>4. ASSUME NEW t \in Threads, pc[t] \in {"update", "resend"}, users' = Written(t)
        PROVE  /\ link[t] \in delivered
               /\ user[t] # None /\ user[t].id = a /\ MayVerify(row[t], a)
    <3>0. user[t] # None
      BY <2>0, <2>4, Copies DEF LinkTypes, LocalTypes, Actors, UserPCs
    <3>1. a = user[t].id /\ users'[a] = user[t].record
      BY <2>0, <2>4 DEF Written, LinkTypes, TableTypes
    <3>2. Ends(t)
      BY <3>1 DEF Ends
    <3> QED BY <2>4, <3>0, <3>1, <3>2 DEF WaitInv, ThreadOK
  <2> QED BY <2>0, <2>1, <2>2, <2>3, <2>4, UsersChange
<1> HIDE DEF Step
<1>3. WaitingEndsByLink <=> [][Step]_users
  BY DEF WaitingEndsByLink, Step
<1> QED BY <1>2, <1>3, LinkInvInit, LinkInvNext, WaitInvInit, WaitInvNext, PTL
          DEF Spec, UpdatesFollowReads

-----------------------------------------------------------------------------
(* Accounts created with e-mail verification, under the same condition and  *)
(* without a crash before the flag is written.                              *)

LEMMA NoCrash ==
  ASSUME MaxCrashes = 0, crashes \in Nat, [Next]_vars
  PROVE  ~Crash /\ crashes' \in Nat
<1>1. ~Crash
  BY DEF Crash
<1>2. CASE ManagerStep
  BY <1>1, <1>2 DEF ManagerStep, GetActions, NextLink, SendEmail, SentAction, CancelAction, Put, Mark
<1>3. ASSUME NEW t \in Threads, HandlerStep(t) PROVE UNCHANGED crashes
  BY <1>3 DEF HandlerStep, UpdateUserInfo, Resend, ReadUser, CompleteAction, CancelAction,
              Mark, Put, VerifyEmail, SignupLink
<1>4. ASSUME NEW t \in Threads, Request(t) PROVE UNCHANGED crashes
  BY <1>4 DEF Request, CreateUser, Signup, DoPut, UseLink
<1>5. CASE OtherStep
  BY <1>1, <1>5, CacheLeaves DEF OtherStep, DeleteUser, ForgotPassword, DoPutRefused, MailerStep,
              CleanOldActionLinks, Tick
<1>6. CASE UNCHANGED vars
  BY <1>1, <1>6 DEF vars
<1> QED BY <1>1, <1>2, <1>3, <1>4, <1>5, <1>6 DEF Next, OtherStep

\* The account is made to wait, or a thread is about to.
Sleeps(a) ==
  /\ users[a] # None
  /\ IsUser(a) => users[a].waitingForEmailCheck \/ \E t \in Threads : Flags(t, a)

\* Accounts that are created are made to wait at once or after the link.
LEMMA DormantChange ==
  ASSUME LinkTypes, ~Crash, [Next]_vars, dormant \subseteq Accounts, NEW a \in dormant'
  PROVE  \/ a \in dormant
         \/ a \in Accounts /\ Sleeps(a)'
<1>1. CASE ManagerStep
  BY <1>1 DEF ManagerStep, GetActions, NextLink, SendEmail, SentAction, CancelAction, Put,
              Mark, history
<1>2. ASSUME NEW t \in Threads, HandlerStep(t) PROVE a \in dormant
  BY <1>2 DEF HandlerStep, UpdateUserInfo, Resend, ReadUser, CompleteAction, CancelAction,
              Mark, Put, VerifyEmail, SignupLink, history
<1>3. ASSUME NEW t \in Threads, Request(t)
      PROVE  a \in dormant \/ (a \in Accounts /\ Sleeps(a)')
  <2> DEFINE fresh(b) == [waitingForEmailCheck |-> b, suspended |-> FALSE]
  <2>0. t \in Actors /\ \A b \in BOOLEAN : fresh(b) \in UserInfo /\ fresh(b) # None
    BY Records DEF Actors
  <2>1. CASE (\E b \in Accounts, s, v \in BOOLEAN : DoPut(t, b, s, v))
             \/ \E l \in Links, kind \in {"reset", "signup", "confirm"} : UseLink(t, l, kind)
    BY <2>1 DEF DoPut, UseLink, history
  <2>2. ASSUME NEW b \in Accounts, CreateUser(t, b), a \notin dormant
        PROVE  a \in Accounts /\ Sleeps(a)'
    <3>1. /\ a = b /\ users' = [users EXCEPT ![b] = fresh(FALSE)]
          /\ Begin(t, b, fresh(FALSE), "verify")
      BY <2>2 DEF CreateUser
    <3>2. user' = [user EXCEPT ![t] = [id |-> b, record |-> fresh(FALSE)]]
          /\ pc' = [pc EXCEPT ![t] = "verify"]
      BY <3>1 DEF Begin
    <3>3. users'[a] # None
      BY <2>0, <3>1 DEF LinkTypes, TableTypes
    <3> DEFINE c == [id |-> b, record |-> fresh(FALSE)]
    <3>4. c # None /\ c.id = b
      BY <2>0, Copies
    <3> HIDE DEF c
    <3>5. user'[t] = c /\ pc'[t] = "verify"
      BY <2>0, <3>2 DEF LinkTypes, LocalTypes, c
    <3>6. Flags(t, a)'
      BY <3>1, <3>4, <3>5 DEF Flags
    <3> QED BY <3>1, <3>3, <3>6 DEF Sleeps
  <2>3. ASSUME NEW b \in Accounts, Signup(t, b), a \notin dormant
        PROVE  a \in Accounts /\ Sleeps(a)'
    <3>1. a = b /\ users' = [users EXCEPT ![b] = fresh(TRUE)]
      BY <2>3 DEF Signup
    <3>2. fresh(TRUE).waitingForEmailCheck
      OBVIOUS
    <3> HIDE DEF fresh
    <3>3. users'[a] = fresh(TRUE)
      BY <3>1 DEF LinkTypes, TableTypes
    <3> QED BY <2>0, <3>1, <3>2, <3>3 DEF Sleeps
  <2> QED BY <1>3, <2>1, <2>2, <2>3 DEF Request
<1>4. CASE OtherStep
  BY <1>4, CacheLeaves DEF OtherStep, DeleteUser, ForgotPassword, DoPutRefused, MailerStep,
              CleanOldActionLinks, Tick, history
<1>5. CASE UNCHANGED vars
  BY <1>5 DEF vars, history
<1> QED BY <1>1, <1>2, <1>3, <1>4, <1>5 DEF Next, OtherStep

\* A step that leaves an account alone and lets every thread that is about to make
\* it wait go on with that.
LEMMA SleepStays ==
  ASSUME NEW a \in Accounts, Sleeps(a), users'[a] = users[a],
         \A u \in Threads : Flags(u, a) => Flags(u, a)'
  PROVE  Sleeps(a)'
BY DEF Sleeps, IsUser

\* The thread writes its record.
LEMMA SleepWritten ==
  ASSUME LinkInv, Moves, NEW t \in Threads, NEW a \in Accounts, Sleeps(a),
         users' = Written(t), user[t] # None,
         user[t].id = a => user[t].record.waitingForEmailCheck,
         \A u \in Threads : u # t /\ Flags(u, a) => Flags(u, a)'
  PROVE  Sleeps(a)'
<1>0. users \in [Accounts -> UserInfo \cup {None, Gone}]
  BY DEF LinkInv, LinkTypes, TableTypes
<1>1. users'[a] # None
  BY DEF Sleeps, Moves, UsersMove
<1>2. CASE user[t].id # a
  <2>1. users'[a] = users[a] /\ ~Flags(t, a)
    BY <1>0, <1>2 DEF Written, Flags
  <2> QED BY <2>1, SleepStays
<1>3. CASE user[t].id = a /\ ~IsUser(a)
  BY <1>1, <1>3 DEF Written, Sleeps, IsUser
<1>4. CASE user[t].id = a /\ IsUser(a)
  <2>1. users'[a] = user[t].record
    BY <1>0, <1>4 DEF Written
  <2> QED BY <1>1, <1>4, <2>1 DEF Sleeps
<1> QED BY <1>2, <1>3, <1>4

LEMMA DormantNext ==
  ASSUME ~Crash, LinkInv, WaitInv, [Next]_vars, dormant \subseteq Accounts,
         NEW a \in dormant, a \in dormant', Sleeps(a)
  PROVE  Sleeps(a)'
<1>0. Moves /\ LinkTypes /\ a \in Accounts
  BY MovesNext DEF LinkInv
<1>1. CASE ManagerStep
  <2>1. users'[a] = users[a]
    BY <1>0, <1>1 DEF ManagerStep, GetActions, NextLink, SendEmail, SentAction, CancelAction,
                      Put, Mark, tables
  <2>2. \A u \in Threads : Flags(u, a) => Flags(u, a)'
    BY <1>0, <1>1, ManagerLeaves DEF Flags
  <2> QED BY <1>0, <2>1, <2>2, SleepStays
<1>2. ASSUME NEW t \in Threads, HandlerStep(t) PROVE Sleeps(a)'
  <2>0. /\ t \in Actors /\ ThreadOK(t)
        /\ \A u \in Threads : u # t /\ Flags(u, a) => Flags(u, a)'
    BY <1>0, <1>2, ThreadsApart DEF Actors, WaitInv, Flags
  <2>1. CASE UpdateUserInfo(t) \/ Resend(t)
    <3>1. pc[t] \in {"update", "resend"} /\ user[t] # None /\ users' = Written(t)
      BY <1>0, <2>0, <2>1 DEF UpdateUserInfo, Resend, LinkTypes, LocalTypes, UserPCs
    <3>2. CASE user[t].id = a /\ ~user[t].record.waitingForEmailCheck /\ IsUser(a)
      <4>1. ~Flags(t, a) /\ users'[a] # None
        BY <1>0, <3>1, <3>2 DEF Flags, Sleeps, Moves, UsersMove
      <4>2. SUFFICES ASSUME users[a].waitingForEmailCheck PROVE FALSE
        BY <2>0, <3>2, <4>1 DEF Sleeps
      <4>3. pc[t] = "update" /\ link[t] # None
        BY <2>0, <3>1, <3>2, <4>2 DEF ThreadOK, Ends
      <4>4. dormant' = dormant \ {a}
        BY <2>1, <3>2, <4>3 DEF UpdateUserInfo, Resend
      <4> QED BY <4>4
    <3>3. CASE IsUser(a) /\ (user[t].id = a => user[t].record.waitingForEmailCheck)
      BY <1>0, <2>0, <3>1, <3>3, SleepWritten
    <3>4. CASE ~IsUser(a)
      <4>1. users'[a] = users[a]
        BY <1>0, <2>0, <3>1, <3>4, WrittenTypes
      <4> QED BY <3>4, <4>1 DEF Sleeps, IsUser
    <3> QED BY <3>2, <3>3, <3>4
  <2>2. CASE ReadUser(t)
    <3>1. UNCHANGED users /\ ~Flags(t, a)
      BY <2>2 DEF ReadUser, tables, Flags
    <3> QED BY <1>0, <2>0, <3>1, SleepStays
  <2>3. CASE CompleteAction(t) \/ CancelAction(t) \/ Put(t)
    <3>1. UNCHANGED users /\ ~Flags(t, a)
      BY <2>3 DEF CompleteAction, CancelAction, Put, Mark, tables, Flags
    <3> QED BY <1>0, <2>0, <3>1, SleepStays
  <2>4. ASSUME NEW l \in Links, VerifyEmail(t, l) PROVE Sleeps(a)'
    <3>1. pc[t] = "verify" /\ user[t] \in Copy /\ UNCHANGED users
      BY <1>0, <2>0, <2>4 DEF VerifyEmail, LinkTypes, LocalTypes, UserPCs
    <3> DEFINE c == [user[t] EXCEPT !.record.waitingForEmailCheck = TRUE]
    <3>2. c.record.waitingForEmailCheck = TRUE /\ c.id = user[t].id /\ c \in Copy
      BY <3>1 DEF Copy, UserInfo
    <3>3. pc'[t] = "update" /\ user'[t] = c
      BY <1>0, <2>0, <2>4 DEF VerifyEmail, LinkTypes, LocalTypes
    <3> HIDE DEF c
    <3>4. Flags(t, a) => Flags(t, a)'
      BY <3>2, <3>3, Copies DEF Flags
    <3> QED BY <1>0, <2>0, <3>1, <3>4, SleepStays
  <2>5. ASSUME NEW l \in Links, SignupLink(t, l) PROVE Sleeps(a)'
    <3>1. UNCHANGED users /\ ~Flags(t, a)
      BY <2>5 DEF SignupLink, Flags
    <3> QED BY <1>0, <2>0, <3>1, SleepStays
  <2> QED BY <1>2, <2>1, <2>2, <2>3, <2>4, <2>5 DEF HandlerStep
<1>3. ASSUME NEW t \in Threads, Request(t) PROVE Sleeps(a)'
  <2>1. \A u \in Threads : Flags(u, a) => Flags(u, a)'
    <3>1. ~Flags(t, a)
      BY <1>3 DEF Request, CreateUser, Signup, DoPut, UseLink, Flags
    <3> QED BY <1>0, <1>3, <3>1, ThreadsApart DEF Flags
  <2>2. users'[a] = users[a]
    <3>1. CASE \E b \in Accounts : CreateUser(t, b) \/ Signup(t, b)
      BY <1>0, <3>1 DEF CreateUser, Signup, Sleeps, LinkTypes, TableTypes
    <3>2. CASE (\E b \in Accounts, s, v \in BOOLEAN : DoPut(t, b, s, v))
               \/ \E l \in Links, kind \in {"reset", "signup", "confirm"} : UseLink(t, l, kind)
      BY <3>2 DEF DoPut, UseLink, tables
    <3> QED BY <1>3, <3>1, <3>2 DEF Request
  <2> QED BY <1>0, <2>1, <2>2, SleepStays
<1>4. ASSUME UNCHANGED locals, users'[a] = users[a] PROVE Sleeps(a)'
  BY <1>4 DEF Sleeps, IsUser, Flags, locals
<1>5. CASE OtherStep
  <2>1. ASSUME NEW b \in Accounts, DeleteUser(b) PROVE Sleeps(a)'
    <3>1. CASE a = b
      <4>1. users'[a] = Gone
        BY <1>0, <2>1, <3>1 DEF DeleteUser, LinkTypes, TableTypes
      <4> QED BY <4>1, Records DEF Sleeps, IsUser
    <3>2. CASE a # b
      BY <1>0, <1>4, <2>1, <3>2 DEF DeleteUser, LinkTypes, TableTypes
    <3> QED BY <3>1, <3>2
  <2>2. CASE ~\E b \in Accounts : DeleteUser(b)
    BY <1>4, <1>5, <2>2, CacheLeaves DEF OtherStep, ForgotPassword, DoPutRefused, MailerStep,
                      CleanOldActionLinks, Tick, tables
  <2> QED BY <2>1, <2>2
<1>6. CASE UNCHANGED vars
  BY <1>4, <1>6 DEF vars, tables
<1> QED BY <1>1, <1>2, <1>3, <1>5, <1>6 DEF Next, OtherStep

(* When updates follow their reads and there is no crash between the insert  *)
(* and the update that sets the flag, no account created with e-mail         *)
(* verification can log in before a link has verified it.                    *)
THEOREM AlwaysDormant == Spec /\ UpdatesFollowReads /\ MaxCrashes = 0 => []Dormant
<1> DEFINE Safe == MaxCrashes = 0
           Inv == crashes \in Nat /\ dormant \subseteq Accounts /\ \A a \in dormant : Sleeps(a)
<1>1. Safe => Safe'
  OBVIOUS
<1>2. Init => Inv
  BY DEF Init
<1>3. Safe /\ LinkInv /\ WaitInv /\ Inv /\ [Next]_vars => Inv'
  <2> SUFFICES ASSUME Safe, LinkInv, WaitInv, Inv, [Next]_vars PROVE Inv'
    OBVIOUS
  <2>1. ~Crash /\ crashes' \in Nat
    BY NoCrash
  <2>2. ASSUME NEW a \in dormant' PROVE a \in Accounts /\ Sleeps(a)'
    BY <2>1, <2>2, DormantChange, DormantNext DEF LinkInv
  <2> QED BY <2>1, <2>2
<1>4. WaitInv /\ Inv => Dormant
  BY RecordFresh DEF Dormant, MayLogin, Sleeps, Flags
<1> HIDE DEF Inv
<1>5. MaxCrashes = 0 <=> Safe
  OBVIOUS
<1> HIDE DEF Safe
<1> QED BY <1>1, <1>2, <1>3, <1>4, <1>5, LinkInvInit, LinkInvNext, WaitInvInit, WaitInvNext, PTL
          DEF Spec, UpdatesFollowReads

(* With one request at a time, a lookup counted as one, updates follow their *)
(* reads: the condition of the two theorems before can be met.               *)
THEOREM OneThreadFollowsReads == Spec /\ OneThread /\ MaxFills = 0 => UpdatesFollowReads
<1> DEFINE Whole == MaxFills = 0
           NoFills == fills = {}
<1>1. OneThread /\ LinkInv /\ NoFills /\ [Next]_vars => [Undisturbed]_vars
  <2> SUFFICES ASSUME OneThread, LinkInv, NoFills, Next, NEW t \in Threads,
                      pc[t] \in {"verify", "resend", "update"}, pc'[t] = pc[t]
               PROVE  users'[user[t].id] \in {users[user[t].id], Gone}
    BY DEF Undisturbed
  <2>0. LinkTypes /\ t \in Actors /\ user[t].id \in Accounts /\ \A u \in Threads : u = t
    <3>1. LinkTypes /\ t \in Actors /\ pc[t] \in UserPCs
      BY DEF LinkInv, Actors, UserPCs
    <3>2. user[t] \in Copy
      BY <3>1 DEF LinkTypes, LocalTypes
    <3> QED BY <3>1, <3>2, Copies DEF OneThread
  <2>1. CASE ManagerStep
    BY <2>0, <2>1, ManagerLeaves
  <2>2. CASE HandlerStep(t)
    <3>1. CASE UpdateUserInfo(t) \/ Resend(t)
      BY <2>0, <3>1 DEF UpdateUserInfo, Resend, Done, Goto, LinkTypes, LocalTypes
    <3>2. CASE ~UpdateUserInfo(t) /\ ~Resend(t)
      BY <2>2, <3>2 DEF HandlerStep, ReadUser, CompleteAction, CancelAction, Put, VerifyEmail,
                        SignupLink, tables
    <3> QED BY <3>1, <3>2
  <2>3. CASE Request(t)
    BY <2>3 DEF Request, CreateUser, Signup, DoPut, UseLink
  <2>4. ASSUME NEW b \in Accounts, DeleteUser(b)
        PROVE  users'[user[t].id] \in {users[user[t].id], Gone}
    BY <2>0, <2>4 DEF DeleteUser, LinkTypes, TableTypes
  <2>5. CASE OtherStep /\ ~\E b \in Accounts : DeleteUser(b)
    BY <2>5, CacheLeaves DEF OtherStep, ForgotPassword, DoPutRefused, MailerStep,
                CleanOldActionLinks, Crash, Tick, tables
  <2> QED BY <2>0, <2>1, <2>2, <2>3, <2>4, <2>5 DEF Next, OtherStep
<1>2. OneThread => OneThread'
  BY DEF OneThread
<1>3. Init => NoFills
  BY DEF Init
<1>4. Whole /\ LinkInv /\ NoFills /\ [Next]_vars => NoFills'
  <2> SUFFICES ASSUME Whole, LinkTypes, NoFills, [Next]_vars PROVE NoFills'
    BY DEF LinkInv
  <2>1. CASE CacheStep
    <3>1. Cardinality(fills) = 0
      BY FS_EmptySet
    <3> QED BY <2>1, <3>1 DEF CacheStep, SelectUser, CacheUser, AgeUser, Lookup
  <2>2. CASE ~CacheStep
    <3>1. CASE ManagerStep
      BY <3>1 DEF ManagerStep, GetActions, NextLink, SendEmail, SentAction, CancelAction, Put,
                  Mark, Lookup, userCache
    <3>2. ASSUME NEW t \in Threads, HandlerStep(t) PROVE NoFills'
      BY <3>2 DEF HandlerStep, UpdateUserInfo, Resend, ReadUser, CompleteAction, CancelAction,
                  Mark, Put, VerifyEmail, SignupLink, CacheWritten, Lookup, userCache
    <3>3. ASSUME NEW t \in Threads, Request(t) PROVE NoFills'
      BY <3>3 DEF Request, CreateUser, Signup, DoPut, UseLink, Lookup, userCache
    <3>4. CASE OtherStep
      BY <2>2, <3>4 DEF OtherStep, DeleteUser, ForgotPassword, DoPutRefused, MailerStep,
                        CleanOldActionLinks, Crash, Tick, Lookup, userCache
    <3>5. CASE UNCHANGED vars
      BY <3>5 DEF vars, userCache
    <3> QED BY <3>1, <3>2, <3>3, <3>4, <3>5 DEF Next, OtherStep
  <2> QED BY <2>1, <2>2
<1>5. Whole => Whole'
  OBVIOUS
<1>6. MaxFills = 0 <=> Whole
  OBVIOUS
<1> HIDE DEF NoFills, Whole
<1> QED BY <1>1, <1>2, <1>3, <1>4, <1>5, <1>6, LinkInvInit, LinkInvNext, PTL
          DEF Spec, UpdatesFollowReads
=============================================================================
