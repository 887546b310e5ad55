------------------------------- MODULE ApiKeys -------------------------------
(***************************************************************************)
(* The API keys of the users: the table ApiKeyDB and the REST threads that *)
(* read it and write it.  No lock spans the test and the write of a        *)
(* request, so each request is a step that reads and a step that writes.   *)
(*                                                                         *)
(* An API key is a hash of the second it was made in, the caller and the   *)
(* caller's access token; a caller has one session here, so the value is   *)
(* <<second, caller>>, and two keys made in one second by one caller are   *)
(* the same value under two ids.  Description, rights and lastUse are left *)
(* out: DoPut and IsValidApiKey write the row back as they read it but for *)
(* these columns, by an UPDATE that does not bring back a deleted row.     *)
(***************************************************************************)
EXTENDS Naturals, FiniteSets, Sequences

CONSTANTS Users,      \* ids of the user records that exist at start
          Root,       \* the user whose role is ROOT
          Callers,    \* the users who send requests about keys
          Spellings,  \* names that a request can carry
          Lower,      \* Poco::toLower on them
          Threads,    \* REST server threads
          MaxKeys,    \* the limit of keys of a user (10 in DoPost)
          MaxId,      \* bound: how many keys are ever created
          MaxNow,     \* bound: the last second
          MaxBus      \* bound: announcements posted and not yet received

Names == {Lower[s] : s \in Spellings}

Times == 0..MaxNow

Keys == (0..MaxNow) \X Callers

Entry == [id : 1..MaxId, userUuid : Users, name : Names, apiKey : Keys,
          expiresOn : Times]

ASSUME UsersAssumption == /\ IsFiniteSet(Users)
                           /\ Root \in Users
                           /\ Callers \subseteq Users

ASSUME ThreadsAssumption == IsFiniteSet(Threads)

ASSUME LowerAssumption == Lower \in [Spellings -> Spellings]

ASSUME BoundsAssumption == /\ MaxKeys \in Nat \ {0}
                           /\ MaxId \in Nat
                           /\ MaxNow \in Nat
                           /\ MaxBus \in Nat

VARIABLES
  now,     \* the clock, in seconds
  userDB,  \* the users that exist
  keyDB,   \* the rows of the table of keys
  lastId,  \* ids given out: MicroServiceCreateUUID never repeats one
  req,     \* what each REST thread is doing
  bus      \* remove-token events posted and not yet received

keyVars == <<now, userDB, keyDB, lastId, req, bus>>

Idle == [op |-> "idle"]

Requests == {Idle}
       \cup [op : {"post"}, userUuid : Users, name : Names, expiresOn : Times,
             caller : Callers]
       \cup [op : {"delete"}, id : 1..MaxId, apiKey : Keys]
       \cup [op : {"user"}, userUuid : Users]

KeysOf(u) == {e \in keyDB : e.userUuid = u}

KeyTypeOK ==
  /\ now \in 0..MaxNow
  /\ userDB \subseteq Users
  /\ keyDB \subseteq Entry
  /\ lastId \in 0..MaxId
  /\ req \in [Threads -> Requests]

KeyInit ==
  /\ now = 0
  /\ userDB = Users
  /\ keyDB = {}
  /\ lastId = 0
  /\ req = [t \in Threads |-> Idle]
  /\ bus = <<>>

Tick ==
  /\ now < MaxNow
  /\ now' = now + 1
  /\ UNCHANGED <<userDB, keyDB, lastId, req, bus>>

Busy(t, r) == req[t] = Idle /\ req' = [req EXCEPT ![t] = r]

Done(t) == req' = [req EXCEPT ![t] = Idle]

(* RemoveTokenSystemWide: one event for each value.                        *)
Post(values) == /\ Len(bus) + Len(values) <= MaxBus
                /\ bus' = bus \o values

MayManage(caller, u) == caller \in userDB /\ (caller = u \/ caller = Root)

----------------------------------------------------------------------------
(* A variant that reads the list of the caller and not of the owner.       *)
PostTestOfCaller(t, caller, u, s, e) ==
  /\ MayManage(caller, u)
  /\ caller # u => u \in userDB
  /\ ~(e < now)
  /\ \A k \in KeysOf(caller) : k.name # Lower[s]
  /\ ~(Cardinality(KeysOf(caller)) >= MaxKeys)
  /\ Busy(t, [op |-> "post", userUuid |-> u, name |-> Lower[s], expiresOn |-> e,
              caller |-> caller])
  /\ UNCHANGED <<now, userDB, keyDB, lastId, bus>>

(* DoPost up to its last test.  Only the owner given by a root is looked   *)
(* up; a caller who is the owner was authorised before.                    *)
PostTest(t, caller, u, s, e) ==
  /\ MayManage(caller, u)
  /\ caller # u => u \in userDB
  /\ ~(e < now)
  /\ \A k \in KeysOf(u) : k.name # Lower[s]
  /\ ~(Cardinality(KeysOf(u)) >= MaxKeys)
  /\ Busy(t, [op |-> "post", userUuid |-> u, name |-> Lower[s], expiresOn |-> e,
              caller |-> caller])
  /\ UNCHANGED <<now, userDB, keyDB, lastId, bus>>

(* The rest of DoPost: the id, the value and the row.                      *)
PostInsert(t) ==
  /\ req[t].op = "post"
  /\ lastId < MaxId
  /\ lastId' = lastId + 1
  /\ keyDB' = keyDB \cup {[id |-> lastId + 1, userUuid |-> req[t].userUuid,
                           name |-> req[t].name, apiKey |-> <<now, req[t].caller>>,
                           expiresOn |-> req[t].expiresOn]}
  /\ Done(t)
  /\ UNCHANGED <<now, userDB, bus>>

(* DoDelete: the row is read and its value announced; the row goes later.  *)
DeleteTest(t, caller, u, i) ==
  /\ MayManage(caller, u)
  /\ caller # u => u \in userDB
  /\ \E e \in KeysOf(u) :
       /\ e.id = i
       /\ Post(<<e.apiKey>>)
       /\ Busy(t, [op |-> "delete", id |-> i, apiKey |-> e.apiKey])
  /\ UNCHANGED <<now, userDB, keyDB, lastId>>

DeleteRow(t) ==
  /\ req[t].op = "delete"
  /\ keyDB' = {e \in keyDB : e.id # req[t].id}
  /\ Done(t)
  /\ UNCHANGED <<now, userDB, lastId, bus>>

----------------------------------------------------------------------------
(* The user handler deletes a user: first the record ...                   *)
DeleteUser(t, u) ==
  /\ u \in userDB
  /\ u # Root
  /\ userDB' = userDB \ {u}
  /\ Busy(t, [op |-> "user", userUuid |-> u])
  /\ UNCHANGED <<now, keyDB, lastId, bus>>

(* ... and last RemoveAllApiKeys, which announces the values of the user's *)
(* keys and leaves the rows.  The events in "first" are those of the       *)
(* user's sessions, announced just before.                                 *)
RemoveAllApiKeys(t, first) ==
  LET keys == KeysOf(req[t].userUuid)
  IN  /\ req[t].op = "user"
      /\ \E q \in [1..Cardinality(keys) -> keys] :
           /\ \A e \in keys : \E n \in DOMAIN q : q[n] = e
           /\ Post(first \o [n \in DOMAIN q |-> q[n].apiKey])
      /\ Done(t)
      /\ UNCHANGED <<now, userDB, keyDB, lastId>>

(* IsValidApiKey: GetRecord takes any one of the rows with this value.     *)
IsValidApiKey(k, e) ==
  /\ e \in keyDB
  /\ e.apiKey = k
  /\ ~(e.expiresOn < now)
  /\ e.userUuid \in userDB

(* The steps of the keys themselves.                                       *)
KeyNext ==
  \/ Tick
  \/ \E t \in Threads :
       \/ \E c \in Callers, u \in Users, s \in Spellings, e \in Times : PostTest(t, c, u, s, e)
       \/ PostInsert(t)
       \/ \E c \in Callers, u \in Users, i \in 1..MaxId : DeleteTest(t, c, u, i)
       \/ DeleteRow(t)
       \/ \E u \in Users : DeleteUser(t, u)

----------------------------------------------------------------------------
Posting(u) == {t \in Threads : req[t].op = "post" /\ req[t].userUuid = u}

KeysNamed(u, n) == {e \in KeysOf(u) : e.name = n}

PostingNamed(u, n) == {t \in Posting(u) : req[t].name = n}

(* DoPost tests the limit of keys and the unique name on a list that it    *)
(* reads before it inserts, so requests that overlap pass each other.  They *)
(* exceed the limit by no more than the other threads there are, and no    *)
(* more keys than threads share a name: one request at a time keeps both.  *)
KeysBounded ==
  \A u \in Users :
    /\ Cardinality(KeysOf(u)) + Cardinality(Posting(u))
         <= (MaxKeys - 1) + Cardinality(Threads)
    /\ \A n \in Names : Cardinality(KeysNamed(u, n)) + Cardinality(PostingNamed(u, n))
                          <= Cardinality(Threads)
=============================================================================
