# TLA+ verification of the OpenWiFi security service (owsec)

This directory holds TLA+ models of the security service, the TLC
configurations that check them on small instances, and TLAPS proofs of the
results that hold for every instance.  Paths below are relative to `src/src/`
of the repository.

## 1. The system

owsec authenticates users ("users" operate the cloud, "subscribers" own
devices), hands out bearer tokens, answers the other micro-services that ask
whether a token or API key is valid, sends mail and text messages, and keeps
users, tokens, API keys, action links, preferences and avatars in a database
behind caches.  It runs as one process: a pool of REST server threads (external
and internal API), an archiver timer, the action-link thread, the mailer
thread, Kafka producer and consumer threads and a web socket reactor.

| Component | State | Operations | What makes it hard |
|---|---|---|---|
| ORM (`framework/orm.h`) | a table, an optional cache | GetRecord, CreateRecord, UpdateRecord, DeleteRecord, DeleteRecords | no lock over probe / select / fill; the cache is changed before the commit |
| Tokens (`storage/orm_tokens.cpp`, `AuthService.cpp`) | token table, TokenCache | login, refresh, logout, validation, revocation, clean-up | concurrent refreshes; cached rows that outlive the table's; ignored results |
| Users (`storage/orm_users.cpp`, `RESTAPI_user*_handler.cpp`) | user table, UserCache | create, read, whole-record update, delete | lost updates, check-then-act on roles |
| ACL (`ACLProcessor.h`) | none | Can(requester, target, operation) | role lattice, self-operations, owner relation |
| Password login (`AuthService.cpp`) | password hash, history of five | Authorize, SetPassword, ValidatePasswordHash | order of the checks, history window |
| MFA (`MFAServer.cpp`, `RESTAPI_oauth2_handler.cpp`) | challenge cache | StartMFAChallenge, ResendCode, CompleteMFAChallenge, CleanCache | token created before the challenge; expiry only on the next start; failed sends |
| Text messages (`SMSSender.cpp`) | validation cache | StartValidation, CompleteValidation, IsNumberValid | duplicate entries, expiry |
| TOTP (`TotpCache.h`) | enrolments in progress | StartValidation, ContinueValidation, CompleteValidation | two distinct codes, window, no lock |
| Action links (`ActionLinkManager.cpp`, `storage/orm_actionLinks.cpp`, `RESTAPI_action_links.cpp`) | link table | a thread mails pending links; handlers complete or cancel them | handler against thread, crash between mail and mark, reuse |
| Mailer (`SMTPMailerService.cpp`) | pending queue | SendMessage, run, SendIt | retries, abandonment, stop |
| API keys (`storage/orm_apikeys.cpp`, `RESTAPI_apiKey_handler.cpp`) | key table, cache | create, update, delete, validate, expire | limit of ten and unique names are check-then-insert; whole-record lastUse update |
| Archiver (`StorageService.cpp`) | timer | onTimer | which table it cleans |
| Token validation at other services (`framework/AuthClient.cpp`) | token cache per service | IsAuthorized, RemovedCachedToken | revocation by a message that may be lost or arrive early |
| Service registry and event bus (`framework/MicroService.cpp`, `EventBusManager.cpp`, `KafkaManager.cpp`) | known services, the producer's queue, the consumer | join, leave, keep-alive, sweep, start, stop | loss of bus messages, a crash without a leave, a stop the thread does not hear |
| Data files (`SecretStore.cpp`, `framework/AppServiceRegistry.h`, `SpecialUserHelpers.h`) | `secrets.json`, `registry.json`, the default user | read at start, rewritten on every access and by a reload | a crash, or the end of the process, between truncation and write, or between two stores |
| Data objects (`RESTObjects/`, `framework/RESTAPI_utils.h`, the `Convert`s of `storage/`) | none | to_json, from_json, rows to records and back | some 180 structs, each with two hand-written functions that must agree; exceptions half-way |
| Rate limiter, web socket server | small maps, connections | | limits, double close |

How the components interact: a REST handler authenticates its caller through
`AuthService` (token table, then user table, each behind its cache) and then
calls the storage classes directly.  The login handler asks `AuthService` for a
token and hands it to `MFAServer`, which keeps it with the challenge.  The
account handlers read what `SMSSender` and `TotpCache` have confirmed, write
rows of the link table that the thread of `ActionLinkManager` polls, and this
thread posts mails to the list that the thread of `SMTPMailerService` empties.
An archiver timer deletes old rows of tokens and links.  Nothing spans two of
these steps: there are no transactions across tables and few locks, so most
hazards are interleavings of handlers, threads and crashes.

| Component | What makes it correct |
|---|---|
| Session store | the copies of a token agree; what was revoked stays revoked; a deleted user is never authorised |
| User administration | roles are given by those who may; an administrator reaches his own people only; a root remains; deleted users stay deleted |
| MFA | no token without the second factor; the second factor was confirmed by the user; open challenges are about withheld tokens, stored unless they are too old |
| Action links | a link gets its mail, is marked after it, and changes no account once cancelled; a user's waiting ends by verification only |
| Mailer | every message is tried, kept or given up, none is skipped or lost in memory, and none is kept for ever |
| Passwords | old passwords are refused, lists stay in order and within their length; no login against a flag or password of the row; changes settle |
| API keys | the limit and the unique name are exceeded only by requests that overlap, and by how much is known |
| Token validation at other services | what is revoked leaves the caches by its event, or else by age, and the cases the events miss are known |
| Life of the service | a start remembers id, secrets and the deletion of the default user; a stop ends; a service that is gone leaves the registry |
| Data objects | what one function writes the other reads, and one bad field does not silently cost another |

## 2. Plan

Done: `SessionStore`, `AclRules`, `UserAdmin`, the MFA modules, `SmtpMailer`
with its abstraction `MailQueue`, `ActionLinks`, `PasswordLogin`, `ApiKeys` and
`RemoteAuth`, `DataFiles`, `EventBus` and `ServiceLife`, and the data objects.
Left, in this order:

1. E-mail addresses in `UserAdmin` (two users with one address), the
   subscriber handler with `ACLProcessor::Can`.
2. The rate limiter and the web socket server.
3. The mailer and the link manager in `ServiceLife`: their `Start` and `Stop`
   have the pattern of the producer's.

Theorems: every safety property that a run checks is proved (section 5), and of
the liveness results, for which the prover has no rules of fairness, the safety
half of `StopTerminates`, which depends on wake-ups.  Left are theorems about the
parts the list above adds, and measures for the other liveness results.  What the
locks of `AuthService` and of the database guarantee is not among the theorems:
the mutex has more holders than the models have (below), so a bound on its waits
would say something about the models only.
The instances below are chosen so that each module needs one or two runs.

## 3. Modules and the code

`PROJECT.json` maps every definition to the lines it stands for.

**`SessionStore`** - `storage/orm_tokens.cpp`, the token side of
`AuthService.cpp`, `framework/orm.h`, the user cache.  `tokenDB`/`userDB` are
the committed rows, `tokenCache`/`userCache` the caches; `rowLock` is the
transaction that holds a row, `authLock` the login or logout that holds the mutex
of `AuthService`.  `IsValidToken`, `IsValidSubToken`, `IsValidApiKey` and
`SetPassword` take that mutex too; here a validation runs without it, which only
adds orders of the steps.  A request
is a walk of `pc[t]` through the steps between which other threads can run:
cache probe (`TokenLookup`), `TokenSelect`, `TokenStore`, the same for users,
`RefreshUpdate`, `RefreshCommit`, `RefreshDropOld`, `RefreshStoreNew`,
`LogoutDelete`, `LogoutCommit`, `DeleteUserExec` and so on.  `op[t]` says on whose
behalf `GetToken` runs.  Of a row only the user and the refresh token are kept.
Age is a choice: `CleanExpiredTokens` may delete any rows, `EvictToken` and
`EvictUser` may drop any entry.

**`AclRules`, `UserAdmin`** - `ACLProcessor.h` as pure operators over two
records, and `DoPost`, `DoPut`, `DoDelete` of `RESTAPI_user_handler.cpp`: read
the caller, read the target, apply the rules to the two copies, write the whole
record back or delete it.  A record is role, creator and status.

**`MfaCommon`, `SmsValidation`, `TotpEnrollment`, `MfaServer`, `MfaSystem`** -
the three caches in memory (`SMSSender`, `TotpCache`, `MFAServer`), and the
handlers that use all of them: changes of settings by users, administrators and
subscribers, the two steps of a login, logout, deletion, the archiver's
`CleanExpiredTokens`, which removes the rows of tokens older than `TokenLife`
also while a challenge about them is open, restarts with other channels
configured.  Whole-record updates are two steps (read and decide, then
`Update`), and so are the requests to `TotpCache`, which has no lock. `TotpCode`
is a parameter: what is assumed of the algorithm is only that a secret and a
time determine a code.

**`MailQueue`, `SmtpMailer`** - what `SendMessage` promises, and the two lists
and the loop of `SMTPMailerService::run`, with the erase during the iteration.
Times are ages; only the thread's pauses and sessions make them grow.  Restart
loses both lists.

**`ActionLinks`** - the link table, the account tables and the user cache in front
of them, the manager's batch, request threads that create accounts and links, use
links, log in, update and delete accounts, the archiver, crashes.  An account is
looked up as `GetRecord` does, in the cache first (`Lookup`): `UpdateRecord` caches
what it was given whether or not a row changed, and a lookup of another request
may cache what it selected some time ago (`fills`), so that the cache can have an
account that the table has no more.  The module uses `MailQueue` for the mailer, so
what it relies on is what `SmtpMailer` is proved to implement.

**`PasswordLogin`** - `Authorize`, `SetPassword`, `DoPut` and the forms of
links, over one account table (`db`) and its cache.  `Authorize` and
`SetPassword` are operators over a record; a request is the walk read
(`ReadCache`, `ReadTable`, `FillCache`), `decide` (`Login`, `Put`, `UseLink`,
`VerifyEmail`, `Refuse`), `UpdateExec`, `UpdateCommit`, `CreateToken` (with
`SetLastLogin`, which waits for the row).  `VerifyEmail` is the confirmation of
a subscriber's address, which writes the whole record back without a new
password.  A login holds `authLock` throughout, and the other requests need it
for `SetPassword` only; `IsValidToken` and `IsValidApiKey` are "call" requests,
which any thread may make at any time. The table at the start is any table:
`POST /user` keeps a list of passwords that the body brings, and an earlier run
may have had a longer limit.  A hash stands for its password.  Users and
subscribers run the same code.  `overlap` is a history variable.

**`ApiKeys`, `RemoteAuth`** - the requests of `RESTAPI_apiKey_handler.cpp`, each
a step that reads and tests and a step that writes, the deletion of a key's
owner (`RemoveAllApiKeys` announces the keys and leaves the rows), and the
other side: `AuthClient` at another service with its two caches, a question
under way (`ask`), answers, time-outs and the remove-token events (`bus`).
`AuthClient` is code of the framework that the other services run; this service
is built without it (`TIP_SECURITY_SERVICE`).  The value of a key is the second
and the caller it was made from, so two keys of one second are the same value.
Of the sessions the model has the rows, the TokenCache in front of them (`held`),
lookups that have read a row and not yet cached it (`reads`) and refreshes between
their two looks at the session, their update and their announcement (`refreshes`):
a refresh takes no mutex, so everything may come in between, and a lookup may cache
a row after the event that announced its end.  Logout is one step: `IsValidToken`,
which it shares the mutex with, is the only reader it excludes.  `excused` is a
history variable: the cached credentials whose revocation no event can reach any
more - the event was lost; was never sent, because `RevokeAllTokens` announces from
its cache only and the archiver not at all; came while the answer was under way;
or came before a lookup brought the session back into the TokenCache, where it has
aged since.  The user cache and what it may bring back are in `SessionStore` and
`ActionLinks`; here a deleted user is gone.

**`DataFiles`, `EventBus`, `ServiceLife`** - what the process keeps in its data
directory, the threads of the event bus and of both sides of Kafka with the
registry of another service, and the main thread that starts and stops them.
`phase` is where the main thread is, `half` that it has truncated a file and not
yet written it, `reload` the same of the detached thread of `POST /system` with
`reload`, which saves the registry while the process serves or stops.
`AppServiceRegistry()` returns a copy whose destructor saves, so every `Get` is a
truncation and a write as well.  `KafkaManager::Stop` tells the producer and waits
for it, then the consumer.  The threads write `Running_` themselves, `wakeUpAll`
reaches only a thread that waits, and the consumer's dispatcher forgets a stop that
comes before it runs; `missed` records that a thread could not hear its stop.

**`EnumNames`, `JsonFields`** - the functions that print and parse enumerations,
and the overloads of `field_to_json` and `field_from_json`.  A struct is a
function from its members to their kinds, one kind per overload.  A value tells
apart only what the overloads tell apart: what the owner put there, the initial
value, an uninitialised one, a converted one, a part.  **`SecurityObjects`,
`ProvObjects`, `GWObjects`, `FMSObjects`, `AnalyticsObjects`, `OWLSObjects`,
`SubObjects`, `CertObjects`** are tables: for a struct `X` its members, and in
`XJson` the fields of `X::to_json` and `X::from_json` in the order of the
statements.  **`TableRows`** has the same for the tables of the service: columns
and the two `Convert`s by position.  **`DataObjects`** lets an object travel:
`Write`, one field changed on the way by a client or another version (`Change`),
`Read` into a fresh object, `Keep` and write again.  The comparison of names
without case is left out, and every nested class is taken to be able to fail.
Code for the gateway's own build is not part of it.

`MC...` modules only give constants their values.

## 4. Runs

| Run | Instance | Shows |
|---|---|---|
| `sessions` | one user, two tokens, two threads, every request | copies agree, one row per session, no resurrection, no session revival, deleted users stay out, revoked tokens die (fair) |
| `admins` | a root, an id to create, two threads | promotion, scope and deletion hold on stale copies; without overlap a root remains and roots fall to roots only |
| `rootless` | two roots, two threads | fails: both deletions are approved before either happens |
| `mfa_settings` | a user who is also a subscriber, one number, two entries in the list of validations, two codes, text and e-mail, two threads | settings always suffice for a challenge; numbers were confirmed |
| `mfa_authenticator` | admin and user, two secrets, three codes that coincide | secrets were confirmed by two codes, tokens withheld, challenges about stored tokens unless they are too old |
| `mailer` | three messages, retry 4, abandon 5 | whole passes, a mail queue (refinement), every message leaves |
| `action_links` | a subscriber, a link, a thread, the manager, a late lookup, a crash | marks after mails, cancelled links change no account, deletion final, links get mailed (fair) |
| `user_links` | a user, two links, one thread | only a mailed, verifying link, no password reset, ends the waiting, and no login before it |
| `passwords` | one account, two passwords of which one may be chosen, limit one, two threads | lists in order, no login against the row without overlap, changes settle (fair) |
| `api_keys` | a root and a user with a session and its refresh, limit one, two keys, two threads, two seconds, three requests, another service | keys bounded, caches follow revocation, what is revoked leaves them (fair) |
| `services` | two starts, crashes anywhere, a reload, a queue of one, a sweep after two ticks | starts remember, a stop ends unless missed (fair), services that are gone leave (fair) |
| `conversions` | every struct and table, one field changed, two trips | what is written is what is read |

*Bounds.*  Two threads show every pairwise race; a third would only repeat a
role, and the safety theorems hold for any number (some of them under conditions
that section 5 names).  In `action_links` the second actor is the manager or a
lookup under way (`MaxFills`), and one request thread is enough; `user_links` has
one thread and no lookup, since its two properties are about requests that do not
overlap.  Two tokens are a session
and its refresh, or two sessions.  Clocks are bounded by the number of
expiries that matter (one, or three for the sweep of challenges).  The mailer's
times keep their order (a message can be retried and then abandoned) and three
messages let an erase hit the first, a middle and the last place.  The bound on
links equals the batch in the liveness run; see below for a full batch.

A limit of one key is enough for two requests to exceed it, and two seconds for
a key to expire and for two keys of one second.  Three requests to the security
service (`MaxWork`) are a lookup that reads a row, a refresh or deletion that
overtakes it, and one more.  Two starts are one and another that finds what the
first has left, by a stop or a crash; requests to the last one, which no start
would find, are left out (`Requests`).  The queue of one lets the producer be
waiting, sending with nothing behind, and sending with an event behind, which
are its cases.  Two trips of an object show what a second writing makes of a
first reading; more would repeat it, since what is read the second time is what
was read the first.

The password instance has the shortest list, which every change cuts; the proof
covers longer ones and longer lists at the start.

Some properties speak of less than their names may suggest.  `NoResurrection` and
`DeletedUserStaysOut` are about tokens and users of which no copy is left: while a
request or a cache has one it may come back, which `RevokedTokensDie` bounds in
time.  The rules in `admins` that need `~overlap` say nothing of overlapping
requests, and none of that run knows the other writers of whole user records
(logins that change a password, links, `SetUserMFA`), which are in
`PasswordLogin`, `ActionLinks` and `MfaSystem`.

*Deadlock* is checked for `SessionStore`, `UserAdmin`, `PasswordLogin` and
`RemoteAuth`.  It is not for the others, where all links, tokens, starts, trips or
time of the instance can be used up.

*Fairness.*  `SessionStore`: weak fairness of each thread's steps (a request
that runs goes on; locks are only held across its own steps) and of cache expiry
(Poco's `ExpireLRUCache` ages every entry).  `SmtpMailer`: weak fairness of the
thread (`MailerFairSpec`), none of the mail server.  `ActionLinks`: weak
fairness of the manager's thread; crashes are bounded, so it is not stopped for
ever. `PasswordLogin`: strong fairness of each thread's steps, since the
database and the mutex grant a lock to whoever waits for it, and weak fairness
of the ageing of cached records.  `RemoteAuth`: a question of `AuthClient` ends
by an answer or by its time-out of ten seconds, and entries of the caches, those
of the security service too, reach their age; no event is assumed to arrive, and
no request to end. `ServiceLife`: weak fairness of the main thread once it is
started, of each of the three threads (that a dispatcher in its loop throws is
not assumed), of the peer's clock, and of its receiving, which its own
keep-alives justify: the sweep runs on every message, also its own.  No client
request is assumed to come.

*Mutants.*  Each property of each passing run is broken by a small, plausible
change of a definition it is about; the changed forms stand before the
definitions, marked "Mutant" or called a variant.

## 5. Proofs

All theorems are about every value of the constants, from the named assumptions
in the modules: types of the constants, finiteness of the set of codes, and that
the markers (`None`, `Gone`) are none of the values they stand beside.  The
instances satisfy them, since TLC evaluates them in every run.

- **`SessionStoreProofs`**.  `IInv == TypeOK /\ LocalsOK`: types alone are not
  inductive, since a step uses the locals its request has left it.  From it
  `TypeCorrect`, `LocalsCorrect`, and the action properties `TokensStayGone`,
  `SessionsStayGone`, `DeletedUsersStayOut`, each by "if no store and no local
  holds the thing before the step, none does after it", one case per action.
  `SessionInv` adds that copies are of issued tokens only, that two copies under
  one token are equal, that a token a refresh has generated is its own until
  the answer, and that the thread between update and commit holds the row's lock.
  It gives `CopiesAlwaysAgree` and `AlwaysOneRowPerSession`: of several refreshes
  that wait for one row the first renames it, and the others find no row.
- **`UserAdminProofs`**.  The invariant adds to the types: what each step finds in
  its locals, who holds which row lock, that copies carry the id and creator of
  the row they were read from, and `Approved` - what the rules have established
  about a thread's copies by the time it writes.  The copies no longer change
  then, which is why `RootsMadeByRoots` and `CreatorsKeepScope` survive any
  interleaving while "roots fall to roots only" does not: it depends on the
  target's role at the write.  `RowsStayDeleted` needs the locks.  `Sequential`
  is the other half: until requests overlap for the first time, the cache has no
  record that is not the row, and neither has the one request that runs.  With
  it `RootsFallOnlyToRoots`, and `RulesAlwaysKeepARoot` from any table that has a
  root to begin with: a root who acts on a root is not the one he acts on.
- **`ServiceLifeProofs`**, the mailer.  `MailerIsMailQueue`: the mailer implements
  the mail queue.  The invariant is that a message is in one place of one list only;
  with a duplicate, the erase of one would not be a delivery or an end.
  `PassesAreWhole` carries `PassedBefore`, that every place before the iterator
  has been looked at, over the erases that move the places.
- **`PasswordLoginProofs`**.  `HistoryAlwaysConsistent`, from any table at the
  start: a list that was in order stays in order, and one that was not too long
  does not become so.  The heart is what `SetPassword` does to one record: after
  the test, cutting and appending keep the list in order.  It survives lost updates
  because a request tests and changes one and the same copy; so what holds of a
  change holds of every copy, in the row, the cache and the requests.
  `LongListsNeverCut` is the other half and a limit of the code: a list that is
  longer than the limit at the start, which a request that creates the account can
  bring, is never cut, since `SetPassword` compares with `==`.  `GateAlwaysHolds`
  needs `Sequential`: as long as no requests have overlapped, at most one runs, the
  cache shows the row, and the record a request decides on is the row.
- **`RemoteAuthProofs`**.  `KeysAlwaysBounded`: keys that exist and requests that
  have passed the tests are counted together.  A bound on the keys alone is not
  inductive, since an insert would break it; with the requests the insert moves
  one from one set to the other (`PostInsertKeeps`), and only `PostTest` adds one,
  when the list it reads is below the limit, so that the sum is at most the
  limit less one plus all threads (`PostTestKeeps`).  Everything else only
  removes (`NoGrowth`).  This invariant adds only that the table is finite and
  that `req` is a function of the threads: no types are needed.
  `CachesAlwaysFollowRevocation` rests on `RevocationInv`, in which an answer that
  is under way counts as the entry it will become (`HoldsFollow`): without it a
  late answer would bring a revoked credential into a cache that was right.  What
  the security service answers for is the row or the cached entry (`Valid`), so a
  lookup that caches an old row is not an exception: the credential is valid again
  until that entry goes, by an event, or by its age and then excused.
  Between the event and the deletion of a key (`DoDelete` announces first) a copy
  is covered by the event or excused (`DeletesAnnounced`).
- **`ServiceLifeProofs`**.  `StartsAlwaysRemember`, for any number of starts and
  crashes: the mark of the default user, the id and the secret are each in
  memory or in a file that is not being written, by the main thread or by a reload,
  and the history variables tell which end of the process came in between.
  `LifeTypes` for the whole composed system.
  `StopsAlwaysHeard`: while the main thread waits for a thread, that thread has
  ended or leaves its loop at its next test - its flag is down, and it is not
  waiting or has its wake-up, or its dispatcher was stopped.  The moments in which a
  thread misses the call, two of the producer and one of the consumer, are in
  `missed`, and there are no others: that is what the proof adds to the run, for
  every queue and every state the threads can be in when the signal comes.
  `StopsAlwaysAdvance`: each step of the thread then brings it nearer to its end,
  which is at most four steps away for the event bus, two for the producer and one
  for the consumer.  With fairness of the threads this is `StopTerminates`; that last
  step is TLC's.
- **`DataObjectsProofs`**.  `TripsAlwaysRound`, for any number of trips.  It has two
  halves.  That the tables fit is a fact about data, `SchemasFit` in `DataObjects`,
  which TLC evaluates entry by entry: the last statement that reads a carried
  member reads a field that was last written from it, fields of one name have one
  kind, and only `Firmware::from_json` goes on after an exception.  That such tables
  round-trip under the semantics of `to_json`, `from_json` and the `Convert`s is
  proved: `ObjectsInvariance` says what each member can hold on each trip, one
  lemma per overload says what it makes of that, and a reading is followed up to
  the first statement that throws, which exists by the least number principle
  (`WellFoundedInduction`) without an induction over the list of fields.
- **`MfaSystemProofs`**.  `LoginInv`: every copy of a user's record - in the
  table, about to be written, read by a login - has what `SendChallenge` needs
  for its method (`RecordsComplete`), and an unanswered login works on a token
  of its own that nobody has (`LoginsFresh`).  `NeverSilentBypass`,
  `PendingTokensAlwaysWithheld` and `ChallengesAlwaysHaveTokens` follow, for any
  interleaving; the latter with the archiver's removal of old rows as an
  exception, since nothing looks at open challenges then.
  `NumbersAlwaysConfirmed` carries that the entries of SMSSender's list which
  are marked, and the numbers in records about to be written, were completed
  (`NumbersInv`).  What `CleanCache` leaves of the list is a matter of induction
  (`CleanKeeps`), done with sets of natural numbers (`UpTo`).
  `SecretsAlwaysConfirmed`, and with it `ChannelsAlwaysConfirmed`, hold for any
  number of threads under one condition, `UpdatesFollowTests`: no other request
  changes the entry between the tests of `ContinueValidation` and its update.
  `EnrolmentInv` relates the count of an enrolment to the codes accepted for its
  secret, and a request that goes on must find the entry that it has tested
  (`JobsKept`).  Section 6 says how two threads break it; the theorem shows that
  this is the only way, and that a lock over test and update would close it.
  With one thread, as in `mfa_authenticator`, the condition holds
  (`OneThreadFollowsTests`). `MfaTypesInvariance` for the whole composed system.
- **`ActionLinksProofs`**.  `LinkInv`: the copies of a link's row in the manager's
  batch and in requests differ from the row at most in the mark that a mail was
  sent (`CopyOK`), and a request that came too late may read the account, from the
  cache, only when its row is gone (`ActorOK`, `CacheKnown`); so a row written back
  whole changes nothing the properties depend on.  From it `LinkTypesInvariance`,
  `AlwaysSentAfterPost`, `CancelledLinksAlwaysRefused` and `DeletionAlwaysFinal`,
  for any threads, lookups and crashes.  `WaitingAlwaysEndsByLink` and `AlwaysDormant`
  hold for any number of threads under one condition, `UpdatesFollowReads`: an
  account that a request has read is not changed, but at most deleted, before the
  request writes it back or the lookup caches it; the latter also assumes that there
  is no crash.  `WaitInv` says what each request knows of the account it has read.
  Section 6 says what happens otherwise; with one thread and no lookup under way, as
  in `user_links`, the condition holds (`OneThreadFollowsReads`).

Only model-checked:

- Liveness (`RevokedTokensDie`, `MailsLeave`, `LinksGetMailed`, `ChangesSettle`,
  `RevokedLeaves`, `StopTerminates`, `GoneServicesLeave`), which the prover does not
  do under fairness.
- `SchemasFit`, the assumption of `DataObjectsProofs` about the tables: they are
  constants, and TLC goes through them completely in `conversions`.

## 6. Where the code and its texts disagree

- Two roots who delete each other leave none (`rootless`); `ACLProcessor.h:53`:
  "We do not want a system to end up rootless".

Other weaknesses the models show when an instance is changed, for which no run
is kept:

- An account created with verification can log in between its insert and the
  update that sets `waitingForEmailCheck`, and for good after a crash there.
- Without `overlap` `RootsFallToRootsOnly` fails: a delete or whole-record update
  approved on an old copy takes effect after a promotion.
- With two threads `ChannelConfirmed` fails for authenticators: a reset between
  the test and the mark of `ContinueValidation` (`TotpCache.h:119`) credits the
  new secret with a code of the old one.
- With `MaxBatch` 1 and two links `LinksGetMailed` fails: a cancelled link keeps
  `sent = 0` and stays in every batch until it is 30 days old, so 200 of them
  shut out the others.
- When a pass of the mailer takes longer than `mailer.retry` (`Pause` +
  sessions at least `MailRetry`), `MailsLeave` fails: every message is due in
  every pass and the test for abandonment is not reached.
- A refresh that lost a race answers with a token that is not stored
  (`AuthService.cpp:146` ignores the result), and a number validated by a second
  code is refused while the entry of the first is there (`SMSSender.cpp:61`).
- Without `~overlap` `GateHolds` fails: a read that overlaps a change of the
  password can put the old record back into the cache after the commit, and a
  whole-record update can put it back into the table, so that the old password
  works (until the entry ages, or for good).
- No test of a login looks at `blackListed`, although
  `docs/design/user_creation_flow.md:100` says such a user "cannot login".
- A link is marked as sent (`ActionLinkManager.cpp:90`) when its mail is in
  memory only; a crash before the delivery loses the mail for good.
- With two request threads an account can wait again after its verification: a
  repeated sign-up writes back the record it read before.
- A subscriber's link to reset a password ends the waiting for a verification:
  neither `CompleteSubVerification` nor `DoEmailVerification` looks at the action of
  the link (`RESTAPI_action_links.cpp:213`, `320`).
- A cancelled link to a deleted account gets through to the update when the user
  cache still has the account: nothing looks at the mark, and the update, which
  finds no row, caches the account once more.
- A list of old passwords that is longer than `authentication.oldpasswords` is never
  cut (`LongListsNeverCut`), and the oldest passwords in it are refused for ever.
- The test of `AuthClient::IsValidApiKey` on the cached entry is the wrong way
  round (`framework/AuthClient.cpp:122`): an expired key is let through from the
  cache, until the entry is twenty minutes old, and one that is valid is asked about
  every time.
- A refresh announces the end of the old token after its row has the new one and
  takes no lock: a lookup that read the old row before caches it after the event,
  and the old token works, here and at other services, until the entries age.
- `RemoveAllApiKeys` leaves the rows of a deleted user's keys; they are refused
  because their owner is not found.  A token that was not in this service's
  cache when its user was deleted is not announced and stays in the caches of
  other services for up to twenty minutes.
- Without a `registry.json` the first start ends in an exception of a destructor
  (a null `Registry_`) and leaves an empty file, with which the next start works.
- The producer misses its stop when it has not begun, since it sets `Running_`
  again, or when it is sending the last event, since the wake-up is over before
  it waits; the consumer misses it between `Running_ = true` and the loop of its
  dispatcher (`framework/KafkaManager.cpp:187`).  The stop of the service then waits
  for it.
- A stop while the detached thread of a reload is between the truncation and the
  write of `registry.json` leaves an empty file: the next start makes a new id and,
  if the default user was deleted, creates it again.
- Contacts of type manager are printed `MANAGER`, which `contact_from_string`
  does not know; `Firmware::from_json` returns true after an exception;
  `DeviceReport` and the OWLS `Dashboard` read nothing; eleven members are written
  and not read or neither (`NotCarried` in `DataObjects`).

## 7. Not modelled

Hashes and one-time codes (parameters of the models).  The handlers that create
and update subscribers with `ACLProcessor::Can`, and the e-mail address as the
second key of a user, which would multiply the interleavings of `UserAdmin`.  The
rate limiter and the web socket server.  Parsing of requests, routing,
templates, SQL.  The schema of device configurations
(`framework/ConfigurationValidator.cpp`), which is one literal for a library.
Third-party code.  The full list with reasons is in `PROJECT.json`,
"components".
