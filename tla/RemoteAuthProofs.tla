-------------------------- MODULE RemoteAuthProofs --------------------------
(***************************************************************************)
(* The bounds of the table of API keys, for any number of users, threads   *)
(* and keys, while other services ask, cache and lose events; and what     *)
(* revocation reaches: a revoked credential in a cache, or in an answer    *)
(* that is under way, is still in the cache of the security service, or    *)
(* has its event or its excuse, whatever refreshes and lookups race.       *)
(***************************************************************************)
EXTENDS RemoteAuth, FiniteSetTheorems, TLAPS

(* Only the length of the lists of keys and the requests matter.           *)
Shape == /\ IsFiniteSet(keyDB)
         /\ req = [t \in Threads |-> req[t]]

KeyInv == Shape /\ KeysBounded

(* Counting: a part of a finite set is no larger than the set.             *)
LEMMA PartCounts ==
  ASSUME NEW S, IsFiniteSet(S), NEW T, T \subseteq S
  PROVE  /\ IsFiniteSet(T)
         /\ Cardinality(T) \in Nat
         /\ Cardinality(S) \in Nat
         /\ Cardinality(T) <= Cardinality(S)
BY FS_Subset, FS_CardinalityType

(* A set that takes one element counts at most one more.                   *)
LEMMA OneMore ==
  ASSUME NEW S, IsFiniteSet(S), NEW x
  PROVE  /\ Cardinality(S \cup {x}) \in Nat
         /\ Cardinality(S) \in Nat
         /\ Cardinality(S \cup {x}) <= Cardinality(S) + 1
<1>1. IsFiniteSet(S \cup {x}) /\ Cardinality(S) \in Nat
  BY FS_AddElement, FS_CardinalityType
<1>2. Cardinality(S \cup {x}) \in Nat
  BY <1>1, FS_CardinalityType
<1>3. Cardinality(S \cup {x}) = IF x \in S THEN Cardinality(S) ELSE Cardinality(S) + 1
  BY FS_AddElement
<1> QED BY <1>1, <1>2, <1>3

(* A set that gives up an element counts one less.                         *)
LEMMA OneLess ==
  ASSUME NEW S, IsFiniteSet(S), NEW x \in S
  PROVE  /\ Cardinality(S \ {x}) \in Nat
         /\ Cardinality(S) = Cardinality(S \ {x}) + 1
<1>1. IsFiniteSet(S \ {x}) /\ Cardinality(S) \in Nat
  BY FS_RemoveElement, FS_CardinalityType
<1>2. Cardinality(S \ {x}) \in Nat
  BY <1>1, FS_CardinalityType
<1>3. Cardinality(S \ {x}) = Cardinality(S) - 1
  BY FS_RemoveElement
<1> QED BY <1>1, <1>2, <1>3

(* The parts of the state that KeysBounded counts are finite.              *)
LEMMA Finite ==
  ASSUME Shape, NEW u, NEW n
  PROVE  /\ IsFiniteSet(KeysOf(u)) /\ IsFiniteSet(KeysNamed(u, n))
         /\ IsFiniteSet(Posting(u)) /\ IsFiniteSet(PostingNamed(u, n))
         /\ Cardinality(KeysOf(u)) \in Nat /\ Cardinality(KeysNamed(u, n)) \in Nat
         /\ Cardinality(Posting(u)) \in Nat /\ Cardinality(PostingNamed(u, n)) \in Nat
         /\ Cardinality(Posting(u)) <= Cardinality(Threads)
         /\ Cardinality(PostingNamed(u, n)) <= Cardinality(Threads)
         /\ Cardinality(Threads) \in Nat
<1>1. /\ KeysOf(u) \subseteq keyDB /\ KeysNamed(u, n) \subseteq keyDB
      /\ Posting(u) \subseteq Threads /\ PostingNamed(u, n) \subseteq Threads
  BY DEF KeysOf, KeysNamed, Posting, PostingNamed
<1>2. IsFiniteSet(keyDB) /\ IsFiniteSet(Threads)
  BY ThreadsAssumption DEF Shape
<1> QED BY <1>1, <1>2, PartCounts

(* Steps that create no key and start no creation keep the bounds.         *)
LEMMA NoGrowth ==
  ASSUME KeyInv,
         keyDB' \subseteq keyDB,
         req' = [t \in Threads |-> req'[t]],
         \A t \in Threads : req'[t] = req[t] \/ req'[t].op # "post"
  PROVE  KeyInv'
<1>1. Shape'
  BY FS_Subset DEF KeyInv, Shape
<1>2. ASSUME NEW u, NEW n
      PROVE  /\ KeysOf(u)' \subseteq KeysOf(u)
             /\ KeysNamed(u, n)' \subseteq KeysNamed(u, n)
             /\ Posting(u)' \subseteq Posting(u)
             /\ PostingNamed(u, n)' \subseteq PostingNamed(u, n)
  BY DEF KeysOf, KeysNamed, Posting, PostingNamed
<1>3. ASSUME NEW u \in Users
      PROVE  Cardinality(KeysOf(u)') + Cardinality(Posting(u)')
                  <= (MaxKeys - 1) + Cardinality(Threads)
  <2>1. IsFiniteSet(KeysOf(u)) /\ IsFiniteSet(Posting(u)) /\ Cardinality(Threads) \in Nat
    BY Finite DEF KeyInv
  <2>2. /\ Cardinality(KeysOf(u)') \in Nat /\ Cardinality(KeysOf(u)) \in Nat
        /\ Cardinality(KeysOf(u)') <= Cardinality(KeysOf(u))
    BY <1>2, <2>1, PartCounts
  <2>3. /\ Cardinality(Posting(u)') \in Nat /\ Cardinality(Posting(u)) \in Nat
        /\ Cardinality(Posting(u)') <= Cardinality(Posting(u))
    BY <1>2, <2>1, PartCounts
  <2>4. Cardinality(KeysOf(u)) + Cardinality(Posting(u))
             <= (MaxKeys - 1) + Cardinality(Threads)
    BY DEF KeyInv, KeysBounded
  <2> QED BY <2>1, <2>2, <2>3, <2>4, BoundsAssumption
<1>4. ASSUME NEW u \in Users, NEW n \in Names
      PROVE  Cardinality(KeysNamed(u, n)') + Cardinality(PostingNamed(u, n)')
                  <= Cardinality(Threads)
  <2>1. /\ IsFiniteSet(KeysNamed(u, n)) /\ IsFiniteSet(PostingNamed(u, n))
        /\ Cardinality(Threads) \in Nat
    BY Finite DEF KeyInv
  <2>2. /\ Cardinality(KeysNamed(u, n)') \in Nat /\ Cardinality(KeysNamed(u, n)) \in Nat
        /\ Cardinality(KeysNamed(u, n)') <= Cardinality(KeysNamed(u, n))
    BY <1>2, <2>1, PartCounts
  <2>3. /\ Cardinality(PostingNamed(u, n)') \in Nat /\ Cardinality(PostingNamed(u, n)) \in Nat
        /\ Cardinality(PostingNamed(u, n)') <= Cardinality(PostingNamed(u, n))
    BY <1>2, <2>1, PartCounts
  <2>4. Cardinality(KeysNamed(u, n)) + Cardinality(PostingNamed(u, n))
             <= Cardinality(Threads)
    BY DEF KeyInv, KeysBounded
  <2> QED BY <2>1, <2>2, <2>3, <2>4
<1> QED BY <1>1, <1>3, <1>4 DEF KeyInv, KeysBounded

(* DoPost passes its tests: the list that was read is short of the limit   *)
(* and has no key of the name, and the other threads are all that can wait *)
(* to insert.                                                              *)
LEMMA PostTestKeeps ==
  ASSUME KeyInv, NEW t \in Threads, NEW c \in Callers, NEW u \in Users,
         NEW s \in Spellings, NEW e \in Times, PostTest(t, c, u, s, e)
  PROVE  KeyInv'
<1> DEFINE m == Lower[s]
<1>1. /\ keyDB' = keyDB
      /\ req[t] = Idle
      /\ req' = [req EXCEPT ![t] = [op |-> "post", userUuid |-> u, name |-> m,
                                   expiresOn |-> e, caller |-> c]]
      /\ \A k \in KeysOf(u) : k.name # m
      /\ ~(Cardinality(KeysOf(u)) >= MaxKeys)
  BY DEF PostTest, Busy
<1>2. /\ req'[t].op = "post" /\ req'[t].userUuid = u /\ req'[t].name = m
      /\ \A w \in Threads : w # t => req'[w] = req[w]
      /\ req' = [w \in Threads |-> req'[w]]
  BY <1>1 DEF KeyInv, Shape
<1>3. Shape'
  BY <1>1, <1>2 DEF KeyInv, Shape
<1>4. \A v, n : /\ KeysOf(v)' = KeysOf(v)
               /\ KeysNamed(v, n)' = KeysNamed(v, n)
  BY <1>1 DEF KeysOf, KeysNamed
<1>5. ASSUME NEW v \in Users
      PROVE  Cardinality(KeysOf(v)') + Cardinality(Posting(v)')
                  <= (MaxKeys - 1) + Cardinality(Threads)
  <2>1. CASE v = u
    <3>1. Cardinality(Posting(u)') <= Cardinality(Threads) /\ Cardinality(Posting(u)') \in Nat
      <4>1. Posting(u)' \subseteq Threads
        BY DEF Posting
      <4> QED BY <4>1, PartCounts, ThreadsAssumption
    <3>2. Cardinality(KeysOf(u)) \in Nat /\ Cardinality(Threads) \in Nat
      BY Finite DEF KeyInv
    <3> QED BY <1>1, <1>4, <2>1, <3>1, <3>2, BoundsAssumption
  <2>2. CASE v # u
    <3>1. Posting(v)' = Posting(v)
      BY <1>1, <1>2, <2>2 DEF Posting, Idle
    <3> QED BY <1>4, <3>1 DEF KeyInv, KeysBounded
  <2> QED BY <2>1, <2>2
<1>6. ASSUME NEW v \in Users, NEW n \in Names
      PROVE  Cardinality(KeysNamed(v, n)') + Cardinality(PostingNamed(v, n)')
                  <= Cardinality(Threads)
  <2>1. CASE v = u /\ n = m
    <3>1. /\ Cardinality(PostingNamed(v, n)') <= Cardinality(Threads)
          /\ Cardinality(PostingNamed(v, n)') \in Nat
          /\ Cardinality(Threads) \in Nat
      <4>1. PostingNamed(v, n)' \subseteq Threads
        BY DEF PostingNamed, Posting
      <4> QED BY <4>1, PartCounts, ThreadsAssumption
    <3>2. KeysNamed(v, n) = {}
      BY <1>1, <2>1 DEF KeysNamed
    <3>3. Cardinality(KeysNamed(v, n)') = 0
      BY <1>4, <3>2, FS_EmptySet
    <3> QED BY <3>1, <3>3
  <2>2. CASE ~(v = u /\ n = m)
    <3>1. PostingNamed(v, n)' = PostingNamed(v, n)
      BY <1>1, <1>2, <2>2 DEF PostingNamed, Posting, Idle
    <3> QED BY <1>4, <3>1 DEF KeyInv, KeysBounded
  <2> QED BY <2>1, <2>2
<1> QED BY <1>3, <1>5, <1>6 DEF KeyInv, KeysBounded

(* DoPost inserts: the key takes the place of the request in the sums.     *)
LEMMA PostInsertKeeps ==
  ASSUME KeyInv, NEW t \in Threads, PostInsert(t)
  PROVE  KeyInv'
<1> DEFINE u == req[t].userUuid
           m == req[t].name
           k == [id |-> lastId + 1, userUuid |-> req[t].userUuid, name |-> req[t].name,
                 apiKey |-> <<now, req[t].caller>>, expiresOn |-> req[t].expiresOn]
<1>1. /\ req[t].op = "post"
      /\ keyDB' = keyDB \cup {k}
      /\ req' = [req EXCEPT ![t] = Idle]
  BY DEF PostInsert, Done
<1>2. /\ req'[t].op # "post"
      /\ \A w \in Threads : w # t => req'[w] = req[w]
      /\ req' = [w \in Threads |-> req'[w]]
  BY <1>1 DEF KeyInv, Shape, Idle
<1>3. Shape'
  BY <1>1, <1>2, FS_AddElement DEF KeyInv, Shape
<1>4. k.userUuid = u /\ k.name = m
  OBVIOUS
<1> HIDE DEF k
<1>5. ASSUME NEW v \in Users
      PROVE  Cardinality(KeysOf(v)') + Cardinality(Posting(v)')
                  <= (MaxKeys - 1) + Cardinality(Threads)
  <2>0. /\ IsFiniteSet(KeysOf(v)) /\ IsFiniteSet(Posting(v))
        /\ Cardinality(KeysOf(v)) + Cardinality(Posting(v))
                  <= (MaxKeys - 1) + Cardinality(Threads)
        /\ Cardinality(Threads) \in Nat
    BY Finite DEF KeyInv, KeysBounded
  <2>1. CASE v = u
    <3>1. KeysOf(v)' = KeysOf(v) \cup {k}
      BY <1>1, <1>4, <2>1 DEF KeysOf
    <3>2. t \in Posting(v) /\ Posting(v)' = Posting(v) \ {t}
      BY <1>1, <1>2, <2>1 DEF Posting
    <3>3. /\ Cardinality(KeysOf(v)') \in Nat /\ Cardinality(KeysOf(v)) \in Nat
          /\ Cardinality(KeysOf(v)') <= Cardinality(KeysOf(v)) + 1
      BY <2>0, <3>1, OneMore
    <3>4. /\ Cardinality(Posting(v)') \in Nat
          /\ Cardinality(Posting(v)) = Cardinality(Posting(v)') + 1
      BY <2>0, <3>2, OneLess
    <3> QED BY <2>0, <3>3, <3>4, BoundsAssumption
  <2>2. CASE v # u
    <3>1. KeysOf(v)' = KeysOf(v)
      BY <1>1, <1>4, <2>2 DEF KeysOf
    <3>2. Posting(v)' = Posting(v)
      BY <1>1, <1>2, <2>2 DEF Posting
    <3> QED BY <2>0, <3>1, <3>2
  <2> QED BY <2>1, <2>2
<1>6. ASSUME NEW v \in Users, NEW n \in Names
      PROVE  Cardinality(KeysNamed(v, n)') + Cardinality(PostingNamed(v, n)')
                  <= Cardinality(Threads)
  <2>0. /\ IsFiniteSet(KeysNamed(v, n)) /\ IsFiniteSet(PostingNamed(v, n))
        /\ Cardinality(KeysNamed(v, n)) + Cardinality(PostingNamed(v, n))
                  <= Cardinality(Threads)
        /\ Cardinality(Threads) \in Nat
    BY Finite DEF KeyInv, KeysBounded
  <2>1. CASE v = u /\ n = m
    <3>1. KeysNamed(v, n)' = KeysNamed(v, n) \cup {k}
      BY <1>1, <1>4, <2>1 DEF KeysNamed, KeysOf
    <3>2. t \in PostingNamed(v, n) /\ PostingNamed(v, n)' = PostingNamed(v, n) \ {t}
      BY <1>1, <1>2, <2>1 DEF PostingNamed, Posting
    <3>3. /\ Cardinality(KeysNamed(v, n)') \in Nat /\ Cardinality(KeysNamed(v, n)) \in Nat
          /\ Cardinality(KeysNamed(v, n)') <= Cardinality(KeysNamed(v, n)) + 1
      BY <2>0, <3>1, OneMore
    <3>4. /\ Cardinality(PostingNamed(v, n)') \in Nat
          /\ Cardinality(PostingNamed(v, n)) = Cardinality(PostingNamed(v, n)') + 1
      BY <2>0, <3>2, OneLess
    <3> QED BY <2>0, <3>3, <3>4
  <2>2. CASE ~(v = u /\ n = m)
    <3>1. KeysNamed(v, n)' = KeysNamed(v, n)
      BY <1>1, <1>4, <2>2 DEF KeysNamed, KeysOf
    <3>2. PostingNamed(v, n)' = PostingNamed(v, n)
      BY <1>1, <1>2, <2>2 DEF PostingNamed, Posting
    <3> QED BY <2>0, <3>1, <3>2
  <2> QED BY <2>1, <2>2
<1> QED BY <1>3, <1>5, <1>6 DEF KeyInv, KeysBounded

(* Every other step of the REST threads leaves the sums or lessens them.   *)
LEMMA StepKeeps ==
  ASSUME KeyInv, [Next]_vars
  PROVE  KeyInv'
<1>0. req = [w \in Threads |-> req[w]]
  BY DEF KeyInv, Shape
<1>1. CASE KeyNext
  <2>1. CASE Tick
    BY <1>0, <2>1, NoGrowth DEF Tick
  <2>2. ASSUME NEW t \in Threads, NEW c \in Callers, NEW u \in Users,
               NEW s \in Spellings, NEW e \in Times, PostTest(t, c, u, s, e)
        PROVE  KeyInv'
    BY <2>2, PostTestKeeps
  <2>3. ASSUME NEW t \in Threads, PostInsert(t)
        PROVE  KeyInv'
    BY <2>3, PostInsertKeeps
  <2>4. ASSUME NEW t \in Threads, NEW c \in Callers, NEW u \in Users, NEW i \in 1..MaxId,
               DeleteTest(t, c, u, i)
        PROVE  KeyInv'
    <3>1. PICK e \in KeysOf(u) :
             req' = [req EXCEPT ![t] = [op |-> "delete", id |-> i, apiKey |-> e.apiKey]]
      BY <2>4 DEF DeleteTest, Busy
    <3>2. keyDB' = keyDB
      BY <2>4 DEF DeleteTest
    <3>3. /\ req' = [w \in Threads |-> req'[w]]
          /\ \A w \in Threads : req'[w] = req[w] \/ req'[w].op # "post"
      BY <1>0, <3>1
    <3> QED BY <3>2, <3>3, NoGrowth
  <2>5. ASSUME NEW t \in Threads, DeleteRow(t)
        PROVE  KeyInv'
    <3>1. keyDB' \subseteq keyDB /\ req' = [req EXCEPT ![t] = Idle]
      BY <2>5 DEF DeleteRow, Done
    <3>2. /\ req' = [w \in Threads |-> req'[w]]
          /\ \A w \in Threads : req'[w] = req[w] \/ req'[w].op # "post"
      BY <1>0, <3>1 DEF Idle
    <3> QED BY <3>1, <3>2, NoGrowth
  <2>6. ASSUME NEW t \in Threads, NEW u \in Users, DeleteUser(t, u)
        PROVE  KeyInv'
    <3>1. /\ keyDB' = keyDB
          /\ req' = [req EXCEPT ![t] = [op |-> "user", userUuid |-> u]]
      BY <2>6 DEF DeleteUser, Busy
    <3>2. /\ req' = [w \in Threads |-> req'[w]]
          /\ \A w \in Threads : req'[w] = req[w] \/ req'[w].op # "post"
      BY <1>0, <3>1
    <3> QED BY <3>1, <3>2, NoGrowth
  <2> QED BY <1>1, <2>1, <2>2, <2>3, <2>4, <2>5, <2>6 DEF KeyNext
<1>2. ASSUME NEW t \in Threads, RevokeAll(t)
      PROVE  KeyInv'
  <2>1. keyDB' = keyDB /\ req' = [req EXCEPT ![t] = Idle]
    BY <1>2 DEF RevokeAll, RemoveAllApiKeys, Done
  <2>2. /\ req' = [w \in Threads |-> req'[w]]
        /\ \A w \in Threads : req'[w] = req[w] \/ req'[w].op # "post"
    BY <1>0, <2>1 DEF Idle
  <2> QED BY <2>1, <2>2, NoGrowth
<1>3. CASE keyDB' = keyDB /\ req' = req
  BY <1>0, <1>3, NoGrowth
<1>4. CASE \/ \E c \in Tokens : \/ ReadRow(c) \/ CacheRow(c) \/ AgeHeld(c)
                               \/ Logout(c) \/ StartRefresh(c) \/ IsAuthorized(c)
           \/ CleanExpiredTokens
           \/ \E q \in refreshes, n \in Tokens : RefreshRow(q, n)
           \/ \E q \in refreshes : RefreshDelete(q)
           \/ AnswerToken \/ AnswerRead \/ AnswerApiKey
           \/ \E k \in Presented : CheckApiKey(k)
           \/ Receive \/ TimeOut \/ RemovedCachedToken \/ LoseEvent
           \/ \E c \in Creds : Age(c)
  BY <1>3, <1>4 DEF ReadRow, CacheRow, AgeHeld, Logout, StartRefresh, IsAuthorized,
       CleanExpiredTokens, RefreshRow, RefreshDelete, AnswerToken, AnswerRead, AnswerApiKey,
       CheckApiKey, Receive, TimeOut, RemovedCachedToken, LoseEvent, Age, keyVars
<1>5. CASE UNCHANGED vars
  BY <1>3, <1>5 DEF vars, keyVars
<1> QED BY <1>1, <1>2, <1>4, <1>5 DEF Next, KeyStep

(* No key and no request: the sums are zero.                               *)
LEMMA InitKeyInv ==
  ASSUME Init
  PROVE  KeyInv
<1>1. keyDB = {} /\ req = [t \in Threads |-> Idle]
  BY DEF Init, KeyInit
<1>2. Shape
  BY <1>1, FS_EmptySet DEF Shape
<1>3. ASSUME NEW u, NEW n
      PROVE  KeysOf(u) = {} /\ KeysNamed(u, n) = {} /\ Posting(u) = {}
               /\ PostingNamed(u, n) = {}
  BY <1>1 DEF KeysOf, KeysNamed, Posting, PostingNamed, Idle
<1>4. Cardinality({}) = 0 /\ Cardinality(Threads) \in Nat
  BY FS_EmptySet, FS_CardinalityType, ThreadsAssumption
<1>5. ASSUME NEW u \in Users
      PROVE  Cardinality(KeysOf(u)) + Cardinality(Posting(u))
               <= (MaxKeys - 1) + Cardinality(Threads)
  <2>1. Cardinality(KeysOf(u)) = 0 /\ Cardinality(Posting(u)) = 0
    BY <1>3, <1>4
  <2> QED BY <2>1, <1>4, BoundsAssumption
<1>6. ASSUME NEW u \in Users, NEW n \in Names
      PROVE  Cardinality(KeysNamed(u, n)) + Cardinality(PostingNamed(u, n))
               <= Cardinality(Threads)
  <2>1. Cardinality(KeysNamed(u, n)) = 0 /\ Cardinality(PostingNamed(u, n)) = 0
    BY <1>3, <1>4
  <2> QED BY <2>1, <1>4
<1> QED BY <1>2, <1>5, <1>6 DEF KeyInv, KeysBounded

(* KeysBounded holds in every reachable state, for any limit, any number   *)
(* of users and any number of REST threads: requests that overlap in       *)
(* DoPost exceed the limit by at most the other threads, and with a single *)
(* thread the limit and the names are kept exactly.                        *)
THEOREM KeysAlwaysBounded == Spec => []KeysBounded
<1>1. Init => KeyInv
  BY InitKeyInv
<1>2. KeyInv /\ [Next]_vars => KeyInv'
  BY StepKeeps
<1>3. KeyInv => KeysBounded
  BY DEF KeyInv
<1> QED BY <1>1, <1>2, <1>3, PTL DEF Spec
----------------------------------------------------------------------------
(* A removal of the credential is on the bus.                              *)
OnTheWay(c) == \E n \in DOMAIN bus : bus[n] = c

(* A refresh, or the deletion of a user, has still to announce it.         *)
Announcing(c) ==
  \/ \E r \in refreshes : r.old = c /\ r.new # None
  \/ \E t \in Threads : /\ req[t].op = "user"
                        /\ \/ c \in rows \cup held /\ TokenUser[c] = req[t].userUuid
                           \/ \E e \in KeysOf(req[t].userUuid) : e.apiKey = c

Holds(c) == Cached(c) \/ InFlight(c)

(* An answer on its way counts as the entry that it will become.           *)
HoldsFollow ==
  \A c \in Creds : Holds(c) => Valid(c) \/ OnTheWay(c) \/ Announcing(c) \/ c \in excused

(* DoDelete announces before it deletes: between the two steps a copy of   *)
(* the key that came after the event is one of the excused.                *)
DeletesAnnounced ==
  \A t \in Threads :
    req[t].op = "delete" =>
      /\ req[t].id \in 1..lastId
      /\ \A e \in keyDB : e.id = req[t].id => e.apiKey = req[t].apiKey
      /\ Holds(req[t].apiKey) => OnTheWay(req[t].apiKey) \/ req[t].apiKey \in excused

(* MicroServiceCreateUUID gives an id once.                                *)
IdsGiven == /\ \A e \in keyDB : e.id \in 1..lastId
            /\ \A e, d \in keyDB : e.id = d.id => e = d

(* The question is put for what the caches do not have.                    *)
AskedIsNotCached == ask # NoAsk => ask.cred \in Creds /\ ~Cached(ask.cred)

RevocationInv == TypeOK /\ HoldsFollow /\ DeletesAnnounced /\ IdsGiven /\ AskedIsNotCached

(* Types.                                                                  *)

(* The announcements of RemoveAllApiKeys: a sequence with every value.     *)
LEMMA AnnouncedKeys ==
  ASSUME NEW S, S \subseteq Entry, NEW N \in Nat, NEW q \in [1..N -> S],
         NEW a \in Seq(Creds)
  PROVE  /\ [n \in DOMAIN q |-> q[n].apiKey] \in Seq(Creds)
         /\ a \in Seq(Creds)
         /\ a \o [n \in DOMAIN q |-> q[n].apiKey] \in Seq(Creds)
<1>1. \A n \in 1..N : q[n].apiKey \in Creds
  BY DEF Entry, Creds
<1>2. [n \in 1..N |-> q[n].apiKey] \in Seq(Creds)
  BY <1>1
<1>3. DOMAIN q = 1..N
  OBVIOUS
<1> QED BY <1>2, <1>3

LEMMA BusGrows ==
  ASSUME bus \in Seq(Creds), NEW s \in Seq(Creds), Post(s)
  PROVE  /\ bus' \in Seq(Creds)
         /\ \A c : OnTheWay(c) => OnTheWay(c)'
         /\ \A n \in DOMAIN s : OnTheWay(s[n])'
<1>1. bus' = bus \o s
  BY DEF Post
<1>2. bus' \in Seq(Creds)
  BY <1>1
<1>3. ASSUME NEW c, OnTheWay(c)
      PROVE  OnTheWay(c)'
  <2>1. PICK n \in DOMAIN bus : bus[n] = c
    BY <1>3 DEF OnTheWay
  <2>2. n \in DOMAIN bus' /\ bus'[n] = c
    BY <1>1, <2>1
  <2> QED BY <2>2 DEF OnTheWay
<1>4. ASSUME NEW n \in DOMAIN s
      PROVE  OnTheWay(s[n])'
  <2>1. Len(bus) + n \in DOMAIN bus' /\ bus'[Len(bus) + n] = s[n]
    BY <1>1
  <2> QED BY <2>1 DEF OnTheWay
<1> QED BY <1>2, <1>3, <1>4

LEMMA BusShrinks ==
  ASSUME bus \in Seq(Creds), bus # <<>>, bus' = Tail(bus)
  PROVE  /\ Head(bus) \in Creds
         /\ bus' \in Seq(Creds)
         /\ \A c : OnTheWay(c) => c = Head(bus) \/ OnTheWay(c)'
<1>1. Head(bus) \in Creds /\ bus' \in Seq(Creds) /\ Len(bus) \in Nat /\ Len(bus) # 0
  OBVIOUS
<1>2. ASSUME NEW c, OnTheWay(c), c # Head(bus)
      PROVE  OnTheWay(c)'
  <2>1. PICK n \in 1..Len(bus) : bus[n] = c
    BY <1>2 DEF OnTheWay
  <2>2. n # 1
    BY <1>2, <2>1
  <2>3. n - 1 \in DOMAIN bus' /\ bus'[n - 1] = c
    BY <1>1, <2>1, <2>2
  <2> QED BY <2>3 DEF OnTheWay
<1> QED BY <1>1, <1>2
LEMMA KeyStepType ==
  ASSUME TypeOK, KeyNext
  PROVE  KeyTypeOK' /\ bus' \in Seq(Creds)
<1> USE DEF TypeOK, KeyTypeOK, Requests, Times, Keys
<1>1. CASE Tick
  BY <1>1, BoundsAssumption DEF Tick
<1>2. ASSUME NEW t \in Threads, NEW c \in Callers, NEW u \in Users,
             NEW s \in Spellings, NEW e \in Times, PostTest(t, c, u, s, e)
      PROVE  KeyTypeOK' /\ bus' \in Seq(Creds)
  <2>1. [op |-> "post", userUuid |-> u, name |-> Lower[s], expiresOn |-> e, caller |-> c]
          \in Requests
    BY DEF Names
  <2> QED BY <1>2, <2>1 DEF PostTest, Busy
<1>3. ASSUME NEW t \in Threads, PostInsert(t)
      PROVE  KeyTypeOK' /\ bus' \in Seq(Creds)
  <2>1. req[t] \in [op : {"post"}, userUuid : Users, name : Names, expiresOn : Times,
                    caller : Callers]
    BY <1>3 DEF PostInsert, Idle
  <2>2. lastId + 1 \in 1..MaxId
    BY <1>3, BoundsAssumption DEF PostInsert
  <2>3. [id |-> lastId + 1, userUuid |-> req[t].userUuid, name |-> req[t].name,
         apiKey |-> <<now, req[t].caller>>, expiresOn |-> req[t].expiresOn] \in Entry
    BY <2>1, <2>2 DEF Entry
  <2>4. lastId' \in 0..MaxId /\ keyDB' \subseteq Entry
    <3>1. lastId' \in 0..MaxId
      BY <1>3, <2>2, BoundsAssumption DEF PostInsert
    <3>2. keyDB \subseteq Entry
      OBVIOUS
    <3>3. keyDB' \subseteq Entry
      BY <1>3, <2>3, <3>2, Zenon DEF PostInsert
    <3> QED BY <3>1, <3>3
  <2>5. req' \in [Threads -> Requests]
    BY <1>3 DEF PostInsert, Done
  <2> QED BY <1>3, <2>4, <2>5 DEF PostInsert
<1>4. ASSUME NEW t \in Threads, NEW c \in Callers, NEW u \in Users, NEW i \in 1..MaxId,
             DeleteTest(t, c, u, i)
      PROVE  KeyTypeOK' /\ bus' \in Seq(Creds)
  <2>1. PICK e \in KeysOf(u) :
           Post(<<e.apiKey>>) /\ Busy(t, [op |-> "delete", id |-> i, apiKey |-> e.apiKey])
    BY <1>4 DEF DeleteTest
  <2>2. e.apiKey \in Keys
    BY DEF KeysOf, Entry
  <2>3. bus' \in Seq(Creds)
    BY <2>1, <2>2 DEF Post, Creds
  <2>4. [op |-> "delete", id |-> i, apiKey |-> e.apiKey] \in Requests
    BY <2>2
  <2> QED BY <1>4, <2>1, <2>3, <2>4 DEF DeleteTest, Busy
<1>5. ASSUME NEW t \in Threads, DeleteRow(t)
      PROVE  KeyTypeOK' /\ bus' \in Seq(Creds)
  BY <1>5 DEF DeleteRow, Done
<1>6. ASSUME NEW t \in Threads, NEW u \in Users, DeleteUser(t, u)
      PROVE  KeyTypeOK' /\ bus' \in Seq(Creds)
  BY <1>6 DEF DeleteUser, Busy
<1> QED BY <1>1, <1>2, <1>3, <1>4, <1>5, <1>6 DEF KeyNext

(* What the last step of a user's deletion announces.                      *)
LEMMA RevokeAllAnnounces ==
  ASSUME TypeOK, IsFiniteSet(keyDB), NEW t \in Threads, RevokeAll(t)
  PROVE  /\ bus' \in Seq(Creds)
         /\ \A c : OnTheWay(c) => OnTheWay(c)'
         /\ \A c \in held : TokenUser[c] = req[t].userUuid => OnTheWay(c)'
         /\ \A e \in KeysOf(req[t].userUuid) : OnTheWay(e.apiKey)'
<1> DEFINE keys == KeysOf(req[t].userUuid)
           N == Cardinality(keys)
           told == {c \in held : TokenUser[c] = req[t].userUuid}
           M == Cardinality(told)
<1>1. keys \subseteq keyDB /\ keys \subseteq Entry
  BY DEF KeysOf, TypeOK, KeyTypeOK
<1>2. N \in Nat
  BY <1>1, PartCounts
<1>a. M \in Nat /\ told \subseteq Creds
  <2>1. told \subseteq Tokens
    BY DEF TypeOK
  <2> QED BY <2>1, PartCounts, TokensAssumption DEF Creds
<1>b. PICK a \in Announcements(told) : RemoveAllApiKeys(t, a)
  BY DEF RevokeAll
<1>3. PICK q \in [1..N -> keys] :
         /\ \A e \in keys : \E n \in DOMAIN q : q[n] = e
         /\ Post(a \o [n \in DOMAIN q |-> q[n].apiKey])
  BY <1>b DEF RemoveAllApiKeys
<1>c. a \in Seq(Creds) /\ \A c \in told : \E n \in DOMAIN a : a[n] = c
  <2>1. a \in [1..M -> told] /\ \A c \in told : \E n \in DOMAIN a : a[n] = c
    BY DEF Announcements
  <2> HIDE DEF told, M
  <2> QED BY <1>a, <2>1
<1> HIDE DEF told, M
<1> DEFINE s == [n \in DOMAIN q |-> q[n].apiKey]
<1> HIDE DEF keys, N
<1>4. s \in Seq(Creds) /\ a \in Seq(Creds) /\ a \o s \in Seq(Creds)
  BY <1>1, <1>2, <1>c, AnnouncedKeys
<1>5. /\ bus' \in Seq(Creds)
      /\ \A c : OnTheWay(c) => OnTheWay(c)'
      /\ \A n \in DOMAIN (a \o s) : OnTheWay((a \o s)[n])'
  BY <1>3, <1>4, BusGrows DEF TypeOK
<1>6. ASSUME NEW c \in told
      PROVE  OnTheWay(c)'
  <2> HIDE DEF s
  <2>0. PICK n \in DOMAIN a : a[n] = c
    BY <1>c
  <2>1. n \in DOMAIN (a \o s) /\ (a \o s)[n] = a[n]
    BY <1>4, <2>0
  <2> QED BY <1>5, <2>0, <2>1
<1>7. ASSUME NEW e \in keys
      PROVE  OnTheWay(e.apiKey)'
  <2>1. PICK n \in DOMAIN q : q[n] = e
    BY <1>3
  <2>2. n \in DOMAIN s /\ s[n] = e.apiKey
    BY <2>1
  <2> HIDE DEF s
  <2>3. Len(a) + n \in DOMAIN (a \o s) /\ (a \o s)[Len(a) + n] = e.apiKey
    BY <1>4, <2>2
  <2> QED BY <1>5, <2>3
<1> QED BY <1>5, <1>6, <1>7 DEF keys, told
LEMMA StepType ==
  ASSUME TypeOK, IsFiniteSet(keyDB), [Next]_vars
  PROVE  TypeOK'
<1> DEFINE KeyPart == KeyTypeOK' /\ bus' \in Seq(Creds)
           ClientPart == /\ cache' \subseteq Tokens
                         /\ keyCache' \subseteq [apiKey : Keys, expiresOn : Times]
                         /\ ask' \in [cred : Creds \cup {None}, answer : Answers,
                                      until : Times]
                         /\ ask'.answer = "read" => ask'.cred \in Tokens
           TokenPart == /\ rows' \subseteq Tokens /\ held' \subseteq Tokens
                        /\ reads' \in [Tokens -> Nat]
                        /\ refreshes' \subseteq [old : Tokens, new : Tokens \cup {None}]
                        /\ fresh' \subseteq Tokens /\ work' \in Nat
<1>0. /\ TypeOK' <=> KeyPart /\ TokenPart /\ ClientPart /\ excused' \subseteq Creds
      /\ 0 \in Times
  BY BoundsAssumption DEF TypeOK, Times
<1>1. UNCHANGED keyVars => KeyPart
  BY DEF TypeOK, KeyTypeOK, keyVars
<1>2. UNCHANGED clientVars => ClientPart
  BY DEF TypeOK, clientVars
<1>3. /\ \A S : S \subseteq Creds => Held(S) \subseteq Creds
      /\ Tokens \subseteq Creds
      /\ UNCHANGED tokenVars => TokenPart
      /\ Work => work' \in Nat
  BY DEF Held, Creds, tokenVars, TypeOK, Work
<1>4. CASE KeyStep
  <2>1. work' \in Nat
    BY <1>3, <1>4 DEF KeyStep, TypeOK
  <2> QED BY <1>0, <1>2, <1>4, <2>1, KeyStepType DEF KeyStep, TypeOK
<1>17. ASSUME NEW c \in Tokens, ReadRow(c) \/ CacheRow(c) \/ AgeHeld(c)
       PROVE  TypeOK'
  <2>1. UNCHANGED <<keyVars, clientVars, fresh, refreshes>> /\ rows' = rows
    BY <1>17 DEF ReadRow, CacheRow, AgeHeld
  <2>2. held' \subseteq Tokens
    BY <1>17 DEF ReadRow, CacheRow, AgeHeld, TypeOK
  <2>3. reads' \in [Tokens -> Nat]
    <3>1. reads[c] \in Nat
      BY DEF TypeOK
    <3>2. reads' = reads \/ reads' = [reads EXCEPT ![c] = @ + 1]
            \/ (reads[c] > 0 /\ reads' = [reads EXCEPT ![c] = @ - 1])
      BY <1>17 DEF ReadRow, CacheRow, AgeHeld
    <3> QED BY <3>1, <3>2 DEF TypeOK
  <2>4. work' \in Nat
    BY <1>3, <1>17 DEF ReadRow, CacheRow, AgeHeld, TypeOK
  <2>5. excused' \subseteq Creds
    BY <1>3, <1>17 DEF ReadRow, CacheRow, AgeHeld, TypeOK
  <2> QED BY <1>0, <1>1, <1>2, <2>1, <2>2, <2>3, <2>4, <2>5 DEF TypeOK
<1>18. CASE CleanExpiredTokens
  <2>1. rows' \subseteq rows /\ excused' \subseteq Creds
    BY <1>3, <1>18 DEF CleanExpiredTokens, TypeOK
  <2> QED BY <1>0, <1>1, <1>2, <1>18, <2>1 DEF CleanExpiredTokens, TypeOK
<1>19. ASSUME NEW c \in Tokens, StartRefresh(c)
       PROVE  TypeOK'
  <2>1. refreshes' \subseteq [old : Tokens, new : Tokens \cup {None}] /\ work' \in Nat
    BY <1>3, <1>19 DEF StartRefresh, TypeOK
  <2> QED BY <1>0, <1>1, <1>2, <1>19, <2>1 DEF StartRefresh, TypeOK
<1>20. ASSUME NEW q \in refreshes, NEW n \in Tokens, RefreshRow(q, n)
       PROVE  TypeOK'
  <2>1. q.old \in Tokens
    BY DEF TypeOK
  <2>2. rows' \subseteq Tokens /\ held' \subseteq Tokens /\ fresh' \subseteq Tokens
    BY <1>20 DEF RefreshRow, TypeOK
  <2>3. refreshes' \subseteq [old : Tokens, new : Tokens \cup {None}]
    BY <1>20, <2>1 DEF RefreshRow, TypeOK
  <2> QED BY <1>0, <1>1, <1>2, <1>20, <2>2, <2>3 DEF RefreshRow, TypeOK
<1>21. ASSUME NEW q \in refreshes, RefreshDelete(q)
       PROVE  TypeOK'
  <2>1. q.old \in Tokens /\ q.new \in Tokens
    BY <1>21 DEF TypeOK, RefreshDelete
  <2>2. KeyPart
    BY <1>3, <1>21, <2>1 DEF RefreshDelete, Post, TypeOK, KeyTypeOK
  <2>3. held' \subseteq Tokens /\ refreshes' \subseteq refreshes
    BY <1>21, <2>1 DEF RefreshDelete, TypeOK
  <2> QED BY <1>0, <1>2, <1>21, <2>2, <2>3 DEF RefreshDelete, TypeOK
<1>22. CASE AnswerRead
  <2>1. ask.cred \in Tokens
    BY <1>22 DEF AnswerRead, TypeOK
  <2>2. ClientPart
    BY <1>22, <2>1 DEF AnswerRead, Verdict, Answers, TypeOK
  <2> QED BY <1>0, <1>1, <1>22, <2>1, <2>2 DEF AnswerRead, TypeOK
<1>5. ASSUME NEW c \in Tokens, Logout(c)
      PROVE  TypeOK'
  <2>1. KeyPart
    BY <1>5 DEF Logout, Post, TypeOK, KeyTypeOK, Creds
  <2> QED BY <1>0, <1>2, <1>3, <1>5, <2>1 DEF Logout, TypeOK
<1>6. ASSUME NEW t \in Threads, RevokeAll(t)
      PROVE  TypeOK'
  <2>1. bus' \in Seq(Creds)
    BY <1>6, RevokeAllAnnounces
  <2>2. KeyTypeOK'
    BY <1>6 DEF RevokeAll, RemoveAllApiKeys, Done, TypeOK, KeyTypeOK, Requests
  <2>3. TokenPart /\ excused' \subseteq Creds
    BY <1>3, <1>6 DEF RevokeAll, TypeOK, Held
  <2> QED BY <1>0, <1>2, <1>6, <2>1, <2>2, <2>3 DEF RevokeAll
<1>7. ASSUME NEW c \in Tokens, IsAuthorized(c)
      PROVE  TypeOK'
  <2>1. ClientPart /\ excused' \subseteq Creds
    BY <1>0, <1>7 DEF IsAuthorized, Ask, Answers, TypeOK, Creds
  <2> QED BY <1>0, <1>1, <1>3, <1>7, <2>1 DEF IsAuthorized, TypeOK
<1>8. CASE AnswerToken
  <2>1. ClientPart
    BY <1>8 DEF AnswerToken, Verdict, Answers, TypeOK
  <2> QED BY <1>0, <1>1, <1>3, <1>8, <2>1 DEF AnswerToken, TypeOK
<1>9. CASE AnswerApiKey
  <2>1. ClientPart
    BY <1>9 DEF AnswerApiKey, Answers, TypeOK, KeyTypeOK, Entry
  <2>2. excused' \subseteq excused \cup {ask.cred} /\ ask.cred \in Creds
    BY <1>9 DEF AnswerApiKey, Creds
  <2>3. excused' \subseteq Creds
    BY <2>2 DEF TypeOK
  <2> QED BY <1>0, <1>1, <1>3, <1>9, <2>1, <2>3 DEF AnswerApiKey, TypeOK
<1>10. ASSUME NEW k \in Presented, CheckApiKey(k)
       PROVE  TypeOK'
  <2>1. k \in Creds
    BY TokensAssumption DEF Creds
  <2>3. ClientPart /\ excused' \subseteq Creds
    BY <1>0, <1>10, <2>1 DEF CheckApiKey, Ask, Answers, TypeOK
  <2> QED BY <1>0, <1>1, <1>3, <1>10, <2>3 DEF CheckApiKey, TypeOK
<1>11. CASE Receive
  <2>1. cache' \subseteq Tokens /\ excused' \subseteq Creds
    BY <1>11 DEF Receive, TypeOK
  <2>2. keyCache' \subseteq [apiKey : Keys, expiresOn : Times]
    BY <1>11 DEF Receive, TypeOK
  <2>3. ask' = NoAsk /\ ask' \in [cred : Creds \cup {None}, answer : Answers, until : Times]
    BY <1>0, <1>11 DEF Receive, NoAsk, Answers
  <2> QED BY <1>0, <1>1, <1>11, <1>3, <2>1, <2>2, <2>3 DEF Receive, NoAsk, TypeOK
<1>12. CASE TimeOut
  <2>1. ClientPart /\ excused' \subseteq Creds
    BY <1>0, <1>12 DEF TimeOut, NoAsk, Answers, TypeOK
  <2> QED BY <1>0, <1>1, <1>3, <1>12, <2>1 DEF TimeOut, TypeOK
<1>13. CASE RemovedCachedToken
  <2>1. Head(bus) \in Creds /\ bus' \in Seq(Creds)
    BY <1>13 DEF RemovedCachedToken, TypeOK
  <2>2. ClientPart /\ excused' \subseteq Creds
    BY <1>13, <2>1 DEF RemovedCachedToken, TypeOK
  <2> QED BY <1>0, <1>3, <1>13, <2>1, <2>2 DEF RemovedCachedToken, TypeOK, KeyTypeOK
<1>14. CASE LoseEvent
  <2>1. Head(bus) \in Creds /\ bus' \in Seq(Creds)
    BY <1>14 DEF LoseEvent, TypeOK
  <2> QED BY <1>0, <1>2, <1>3, <1>14, <2>1 DEF LoseEvent, TypeOK, KeyTypeOK, Held
<1>15. ASSUME NEW c \in Creds, Age(c)
       PROVE  TypeOK'
  <2>1. ClientPart /\ excused' \subseteq Creds
    BY <1>15 DEF Age, TypeOK
  <2> QED BY <1>0, <1>1, <1>3, <1>15, <2>1 DEF Age, TypeOK
<1>16. CASE UNCHANGED vars
  BY <1>0, <1>1, <1>2, <1>3, <1>16 DEF vars, TypeOK
<1> QED BY <1>4, <1>5, <1>6, <1>7, <1>8, <1>9, <1>10, <1>11, <1>12, <1>13, <1>14, <1>15,
           <1>16, <1>17, <1>18, <1>19, <1>20, <1>21, <1>22 DEF Next

----------------------------------------------------------------------------
(* A step of the security service: the other service holds what it held,   *)
(* and no announcement is taken back.                                      *)
LEMMA ServerStep ==
  ASSUME RevocationInv, TypeOK', DeletesAnnounced', IdsGiven',
         UNCHANGED clientVars, excused \subseteq excused',
         \A c : OnTheWay(c) => OnTheWay(c)',
         \A c \in Creds : Holds(c) /\ (Valid(c) \/ Announcing(c)) =>
                            Valid(c)' \/ OnTheWay(c)' \/ Announcing(c)' \/ c \in excused'
  PROVE  RevocationInv'
<1>1. \A c : Holds(c)' = Holds(c)
  BY DEF Holds, Cached, InFlight, clientVars
<1>2. HoldsFollow'
  BY <1>1 DEF RevocationInv, HoldsFollow
<1>3. AskedIsNotCached'
  BY DEF RevocationInv, AskedIsNotCached, Cached, NoAsk, clientVars
<1> QED BY <1>2, <1>3 DEF RevocationInv

(* Steps that start no deletion of a key and create none.                  *)
LEMMA DeletesStay ==
  ASSUME RevocationInv, UNCHANGED clientVars, excused \subseteq excused',
         lastId' = lastId, keyDB' \subseteq keyDB,
         \A c : OnTheWay(c) => OnTheWay(c)',
         \A t \in Threads : req'[t] = req[t] \/ req'[t].op # "delete"
  PROVE  DeletesAnnounced' /\ IdsGiven'
<1>1. \A c : Holds(c)' = Holds(c)
  BY DEF Holds, Cached, InFlight, clientVars
<1>2. IdsGiven'
  BY DEF RevocationInv, IdsGiven
<1>3. DeletesAnnounced'
  <2> SUFFICES ASSUME NEW t \in Threads, req'[t].op = "delete"
               PROVE  /\ req'[t].id \in 1..lastId'
                      /\ \A e \in keyDB' : e.id = req'[t].id => e.apiKey = req'[t].apiKey
                      /\ Holds(req[t].apiKey)' =>
                           OnTheWay(req[t].apiKey)' \/ req'[t].apiKey \in excused'
    BY DEF DeletesAnnounced
  <2>1. req'[t] = req[t]
    OBVIOUS
  <2> DEFINE k == req[t].apiKey
  <2>2. /\ req[t].id \in 1..lastId
        /\ \A e \in keyDB : e.id = req[t].id => e.apiKey = k
        /\ Holds(k) => OnTheWay(k) \/ k \in excused
    BY <2>1 DEF RevocationInv, DeletesAnnounced
  <2>3. k' = k
    BY <2>1
  <2> HIDE DEF k
  <2> QED BY <1>1, <2>1, <2>2, <2>3 DEF k
<1> QED BY <1>2, <1>3
(* A step of the other service: the security service has not moved, and    *)
(* what is still held keeps its excuse or its announcement.                *)
LEMMA ClientStep ==
  ASSUME RevocationInv, TypeOK', AskedIsNotCached',
         UNCHANGED <<userDB, keyDB, lastId, req, rows, held, refreshes>>,
         \A c \in Creds : Holds(c)' =>
            /\ Holds(c)
            /\ OnTheWay(c) => OnTheWay(c)' \/ c \in excused'
            /\ c \in excused => c \in excused'
  PROVE  RevocationInv'
<1>1. \A c : Valid(c)' = Valid(c) /\ Announcing(c)' = Announcing(c)
  BY DEF Valid, Announcing, KeysOf
<1>2. HoldsFollow'
  BY <1>1 DEF RevocationInv, HoldsFollow
<1>3. IdsGiven'
  BY DEF RevocationInv, IdsGiven
<1>4. DeletesAnnounced'
  <2> SUFFICES ASSUME NEW t \in Threads, req[t].op = "delete",
                      NEW k, k = req[t].apiKey
               PROVE  /\ req[t].id \in 1..lastId
                      /\ \A e \in keyDB : e.id = req[t].id => e.apiKey = k
                      /\ Holds(k)' => OnTheWay(k)' \/ k \in excused'
    BY DEF DeletesAnnounced
  <2>1. k \in Creds
    BY DEF RevocationInv, TypeOK, KeyTypeOK, Requests, Creds, Idle
  <2>2. /\ req[t].id \in 1..lastId
        /\ \A e \in keyDB : e.id = req[t].id => e.apiKey = k
        /\ Holds(k) => OnTheWay(k) \/ k \in excused
    BY DEF RevocationInv, DeletesAnnounced
  <2> QED BY <2>1, <2>2
<1> QED BY <1>2, <1>3, <1>4 DEF RevocationInv

LEMMA KeyStepRevocation ==
  ASSUME RevocationInv, TypeOK', KeyStep
  PROVE  RevocationInv'
<1>0. /\ UNCHANGED <<clientVars, rows, held, refreshes>>
      /\ excused' = excused /\ TypeOK
  BY DEF KeyStep, RevocationInv
<1>1. CASE Tick
  <2>1. \A c : /\ OnTheWay(c)' = OnTheWay(c)
               /\ Valid(c)' = Valid(c) /\ Announcing(c)' = Announcing(c)
    BY <1>0, <1>1 DEF Tick, OnTheWay, Valid, Announcing, KeysOf
  <2> QED BY <1>0, <1>1, <2>1, ServerStep, DeletesStay DEF Tick
<1>2. ASSUME NEW t \in Threads, NEW c \in Callers, NEW u \in Users,
             NEW s \in Spellings, NEW e \in Times, PostTest(t, c, u, s, e)
      PROVE  RevocationInv'
  <2>1. /\ req[t].op = "idle" /\ req'[t].op = "post"
        /\ \A w \in Threads : w # t => req'[w] = req[w]
        /\ UNCHANGED <<now, userDB, keyDB, lastId, bus>>
    BY <1>0, <1>2 DEF PostTest, Busy, Idle, TypeOK, KeyTypeOK
  <2>2. \A k : /\ OnTheWay(k)' = OnTheWay(k)
               /\ Valid(k)' = Valid(k) /\ Announcing(k)' = Announcing(k)
    BY <1>0, <2>1 DEF OnTheWay, Valid, Announcing, KeysOf
  <2> QED BY <1>0, <2>1, <2>2, ServerStep, DeletesStay
<1>3. ASSUME NEW t \in Threads, PostInsert(t)
      PROVE  RevocationInv'
  <2>1. /\ req[t].op = "post" /\ req'[t].op = "idle"
        /\ \A w \in Threads : w # t => req'[w] = req[w]
        /\ UNCHANGED <<now, userDB, bus>>
        /\ lastId' = lastId + 1
    BY <1>0, <1>3 DEF PostInsert, Done, Idle, TypeOK, KeyTypeOK
  <2> DEFINE n == [id |-> lastId + 1, userUuid |-> req[t].userUuid, name |-> req[t].name,
                   apiKey |-> <<now, req[t].caller>>, expiresOn |-> req[t].expiresOn]
  <2>2. n.id = lastId + 1
    OBVIOUS
  <2>3. keyDB' = keyDB \cup {n} /\ n.id = lastId + 1
    BY <1>3, <2>2 DEF PostInsert
  <2> HIDE DEF n
  <2>4. \A k : /\ OnTheWay(k)' = OnTheWay(k)
               /\ Holds(k)' = Holds(k)
               /\ Valid(k) => Valid(k)'
               /\ Announcing(k) => Announcing(k)'
    BY <1>0, <2>1, <2>3 DEF OnTheWay, Valid, Announcing, KeysOf, Holds, Cached, InFlight,
         clientVars
  <2>5. lastId \in Nat
    BY <1>0, BoundsAssumption DEF TypeOK, KeyTypeOK
  <2>6. IdsGiven'
    BY <2>1, <2>3, <2>5 DEF RevocationInv, IdsGiven
  <2>7. DeletesAnnounced'
    <3> SUFFICES ASSUME NEW w \in Threads, req'[w].op = "delete", NEW k, k = req'[w].apiKey
                 PROVE  /\ req'[w].id \in 1..lastId'
                        /\ \A e \in keyDB' : e.id = req'[w].id => e.apiKey = k
                        /\ Holds(k)' => OnTheWay(k)' \/ k \in excused'
      BY DEF DeletesAnnounced
    <3>1. req'[w] = req[w]
      BY <2>1
    <3>2. /\ req[w].id \in 1..lastId
          /\ \A e \in keyDB : e.id = req[w].id => e.apiKey = k
          /\ Holds(k) => OnTheWay(k) \/ k \in excused
      BY <3>1 DEF RevocationInv, DeletesAnnounced
    <3>3. req[w].id # lastId + 1 /\ req[w].id \in 1..(lastId + 1)
      BY <2>5, <3>2
    <3> QED BY <1>0, <2>1, <2>3, <2>4, <3>1, <3>2, <3>3
  <2> QED BY <1>0, <2>4, <2>6, <2>7, ServerStep
<1>4. ASSUME NEW t \in Threads, NEW c \in Callers, NEW u \in Users, NEW i \in 1..MaxId,
             DeleteTest(t, c, u, i)
      PROVE  RevocationInv'
  <2>1. PICK e \in KeysOf(u) :
           /\ e.id = i
           /\ Post(<<e.apiKey>>)
           /\ Busy(t, [op |-> "delete", id |-> i, apiKey |-> e.apiKey])
    BY <1>4 DEF DeleteTest
  <2>2. e \in keyDB /\ e.apiKey \in Creds /\ <<e.apiKey>> \in Seq(Creds)
    BY <1>0 DEF KeysOf, TypeOK, KeyTypeOK, Entry, Creds
  <2> DEFINE s == <<e.apiKey>>
  <2>3. /\ \A k : OnTheWay(k) => OnTheWay(k)'
        /\ \A n \in DOMAIN s : OnTheWay(s[n])'
    <3>1. s \in Seq(Creds) /\ Post(s) /\ bus \in Seq(Creds)
      BY <1>0, <2>1, <2>2 DEF TypeOK
    <3> HIDE DEF s
    <3> QED BY <3>1, BusGrows
  <2>4. /\ req[t].op = "idle"
        /\ req'[t].op = "delete" /\ req'[t].id = i /\ req'[t].apiKey = e.apiKey
        /\ \A w \in Threads : w # t => req'[w] = req[w]
        /\ UNCHANGED <<now, userDB, keyDB, lastId>>
    BY <1>0, <1>4, <2>1 DEF DeleteTest, Busy, Idle, TypeOK, KeyTypeOK
  <2>5. \A k : /\ Holds(k)' = Holds(k)
               /\ Valid(k)' = Valid(k) /\ Announcing(k)' = Announcing(k)
    BY <1>0, <2>4 DEF Valid, Announcing, KeysOf, Holds, Cached, InFlight, clientVars
  <2>6. OnTheWay(e.apiKey)'
    <3>1. 1 \in DOMAIN s /\ s[1] = e.apiKey
      OBVIOUS
    <3> QED BY <2>3, <3>1
  <2>7. IdsGiven' /\ \A d \in keyDB : d.id = i => d.apiKey = e.apiKey
    BY <2>1, <2>2, <2>4 DEF RevocationInv, IdsGiven
  <2>8. DeletesAnnounced'
    <3> SUFFICES ASSUME NEW w \in Threads, req'[w].op = "delete", NEW k, k = req'[w].apiKey
                 PROVE  /\ req'[w].id \in 1..lastId'
                        /\ \A d \in keyDB' : d.id = req'[w].id => d.apiKey = k
                        /\ Holds(k)' => OnTheWay(k)' \/ k \in excused'
      BY DEF DeletesAnnounced
    <3>1. CASE w = t
      BY <2>1, <2>2, <2>4, <2>6, <2>7, <3>1 DEF RevocationInv, IdsGiven
    <3>2. CASE w # t
      <4>1. req'[w] = req[w]
        BY <2>4, <3>2
      <4>2. /\ req[w].id \in 1..lastId
            /\ \A d \in keyDB : d.id = req[w].id => d.apiKey = k
            /\ Holds(k) => OnTheWay(k) \/ k \in excused
        BY <4>1 DEF RevocationInv, DeletesAnnounced
      <4> QED BY <1>0, <2>3, <2>4, <2>5, <4>1, <4>2
    <3> QED BY <3>1, <3>2
  <2> QED BY <1>0, <2>3, <2>5, <2>7, <2>8, ServerStep
<1>5. ASSUME NEW t \in Threads, DeleteRow(t)
      PROVE  RevocationInv'
  <2> DEFINE k == req[t].apiKey
  <2>1. /\ req[t].op = "delete" /\ req'[t].op = "idle"
        /\ \A w \in Threads : w # t => req'[w] = req[w]
        /\ keyDB' = {e \in keyDB : e.id # req[t].id}
        /\ UNCHANGED <<now, userDB, lastId, bus>>
    BY <1>0, <1>5 DEF DeleteRow, Done, Idle, TypeOK, KeyTypeOK
  <2>2. /\ \A e \in keyDB : e \in keyDB' \/ e.apiKey = k
        /\ Holds(k) => OnTheWay(k) \/ k \in excused
    BY <2>1 DEF RevocationInv, DeletesAnnounced
  <2>3. \A c : OnTheWay(c)' = OnTheWay(c)
    BY <2>1 DEF OnTheWay
  <2> HIDE DEF k
  <2>4. \A c : c # k => (Valid(c) => Valid(c)') /\ (Announcing(c) => Announcing(c)')
    BY <1>0, <2>1, <2>2 DEF Valid, Announcing, KeysOf
  <2>5. \A w \in Threads : req'[w] = req[w] \/ req'[w].op # "delete"
    BY <2>1
  <2>6. keyDB' \subseteq keyDB
    BY <2>1
  <2>7. DeletesAnnounced' /\ IdsGiven'
    BY <1>0, <2>1, <2>3, <2>5, <2>6, DeletesStay
  <2> QED BY <1>0, <2>2, <2>3, <2>4, <2>7, ServerStep
<1>6. ASSUME NEW t \in Threads, NEW u \in Users, DeleteUser(t, u)
      PROVE  RevocationInv'
  <2>1. /\ req[t].op = "idle" /\ req'[t].op = "user" /\ req'[t].userUuid = u
        /\ \A w \in Threads : w # t => req'[w] = req[w]
        /\ userDB' = userDB \ {u}
        /\ UNCHANGED <<now, keyDB, lastId, bus>>
    BY <1>0, <1>6 DEF DeleteUser, Busy, Idle, TypeOK, KeyTypeOK
  <2>2. \A c : OnTheWay(c)' = OnTheWay(c)
    BY <2>1 DEF OnTheWay
  <2>3. ASSUME NEW c, Announcing(c)
        PROVE  Announcing(c)'
    BY <1>0, <2>1, <2>3 DEF Announcing, KeysOf
  <2>4. ASSUME NEW c, Valid(c)
        PROVE  Valid(c)' \/ Announcing(c)'
    BY <1>0, <2>1, <2>4 DEF Valid, Announcing, KeysOf
  <2>5. \A w \in Threads : req'[w] = req[w] \/ req'[w].op # "delete"
    BY <2>1
  <2>6. DeletesAnnounced' /\ IdsGiven'
    BY <1>0, <2>1, <2>2, <2>5, DeletesStay
  <2> QED BY <1>0, <2>2, <2>3, <2>4, <2>6, ServerStep
<1> QED BY <1>1, <1>2, <1>3, <1>4, <1>5, <1>6 DEF KeyStep, KeyNext
(* A step of the sessions, their cache and the refreshes: a session that    *)
(* leaves both is announced or excused, and so is one that is replaced.    *)
LEMMA SessionStep ==
  ASSUME RevocationInv, TypeOK', UNCHANGED clientVars, excused \subseteq excused',
         UNCHANGED <<userDB, keyDB, lastId, req>>,
         \A c : OnTheWay(c) => OnTheWay(c)',
         \A c \in Tokens : Holds(c) /\ c \in rows \cup held =>
            c \in rows' \cup held' \/ OnTheWay(c)' \/ Announcing(c)' \/ c \in excused',
         \A q \in refreshes : q.new # None => q \in refreshes' \/ OnTheWay(q.old)'
  PROVE  RevocationInv'
<1>1. TypeOK
  BY DEF RevocationInv
<1>2. DeletesAnnounced' /\ IdsGiven'
  BY DeletesStay
<1>3. ASSUME NEW c \in Creds, Holds(c), Valid(c) \/ Announcing(c)
      PROVE  Valid(c)' \/ OnTheWay(c)' \/ Announcing(c)' \/ c \in excused'
  <2>1. CASE \E e \in keyDB : e.apiKey = c /\ e.userUuid \in userDB
    BY <2>1 DEF Valid
  <2>2. CASE \E t \in Threads : /\ req[t].op = "user"
                                /\ \E e \in KeysOf(req[t].userUuid) : e.apiKey = c
    BY <2>2 DEF Announcing, KeysOf
  <2>3. CASE \E q \in refreshes : q.old = c /\ q.new # None
    BY <2>3 DEF Announcing
  <2>4. CASE c \in rows \cup held
    <3>1. c \in Tokens
      BY <1>1, <2>4 DEF TypeOK
    <3>2. CASE c \in rows' \cup held'
      BY <1>3, <2>1, <2>2, <2>3, <3>2 DEF Valid, Announcing
    <3> QED BY <1>3, <2>4, <3>1, <3>2
  <2> QED BY <1>3, <2>1, <2>2, <2>3, <2>4 DEF Valid, Announcing
<1> QED BY <1>2, <1>3, ServerStep

(* The other steps of the security service.                                *)
LEMMA LookupRevocation ==
  ASSUME RevocationInv, TypeOK', NEW k \in Tokens,
         ReadRow(k) \/ CacheRow(k) \/ AgeHeld(k) \/ StartRefresh(k)
  PROVE  RevocationInv'
<1>1. /\ UNCHANGED clientVars /\ rows' = rows
      /\ UNCHANGED <<now, userDB, keyDB, lastId, req, bus>>
  BY DEF ReadRow, CacheRow, AgeHeld, StartRefresh, keyVars
<1>2. refreshes \subseteq refreshes' /\ excused \subseteq excused'
  BY DEF ReadRow, CacheRow, AgeHeld, StartRefresh
<1>3. \A c : OnTheWay(c) => OnTheWay(c)'
  BY <1>1 DEF OnTheWay
<1>4. ASSUME NEW c \in Tokens, Holds(c), c \in rows \cup held
      PROVE  c \in rows' \cup held' \/ c \in excused'
  <2>1. CASE AgeHeld(k)
    BY <1>1, <1>4, <2>1 DEF AgeHeld, Held, Holds
  <2>2. CASE ReadRow(k) \/ CacheRow(k) \/ StartRefresh(k)
    BY <1>1, <1>4, <2>2 DEF ReadRow, CacheRow, StartRefresh
  <2> QED BY <2>1, <2>2
<1> QED BY <1>1, <1>2, <1>3, <1>4, SessionStep

LEMMA CleanRevocation ==
  ASSUME RevocationInv, TypeOK', CleanExpiredTokens
  PROVE  RevocationInv'
<1>1. /\ UNCHANGED clientVars /\ refreshes' = refreshes /\ held' = held
      /\ UNCHANGED <<now, userDB, keyDB, lastId, req, bus>>
      /\ excused \subseteq excused'
      /\ \A c \in rows : c \in rows' \/ c \in held \/ (Holds(c) => c \in excused')
  BY DEF CleanExpiredTokens, keyVars, Held, Holds
<1>2. \A c : OnTheWay(c) => OnTheWay(c)'
  BY <1>1 DEF OnTheWay
<1> QED BY <1>1, <1>2, SessionStep

LEMMA LogoutRevocation ==
  ASSUME RevocationInv, TypeOK', NEW k \in Tokens, Logout(k)
  PROVE  RevocationInv'
<1> DEFINE s == <<k>>
<1>1. /\ UNCHANGED clientVars /\ excused' = excused /\ refreshes' = refreshes
      /\ UNCHANGED <<now, userDB, keyDB, lastId, req>>
      /\ rows' = rows \ {k} /\ held' = held \ {k} /\ TypeOK
  BY DEF Logout, RevocationInv
<1>2. s \in Seq(Creds) /\ 1 \in DOMAIN s /\ s[1] = k /\ Post(s) /\ bus \in Seq(Creds)
  <2>1. k \in Creds
    BY DEF Creds
  <2> QED BY <1>1, <2>1 DEF TypeOK, Logout
<1> HIDE DEF s
<1>3. (\A c : OnTheWay(c) => OnTheWay(c)') /\ OnTheWay(k)'
  BY <1>2, BusGrows
<1> QED BY <1>1, <1>3, SessionStep

(* The old token has lost its row and is still to be announced.            *)
LEMMA RefreshRowRevocation ==
  ASSUME RevocationInv, TypeOK', NEW q \in refreshes, NEW n \in Tokens, RefreshRow(q, n)
  PROVE  RevocationInv'
<1> DEFINE d == [old |-> q.old, new |-> n]
<1>1. /\ UNCHANGED clientVars /\ excused' = excused
      /\ UNCHANGED <<now, userDB, keyDB, lastId, req, bus>>
      /\ q.new = None /\ held \subseteq held'
      /\ \A c \in rows : c \in rows' \/ c = q.old
      /\ refreshes' = (refreshes \ {q}) \cup {d}
  BY DEF RefreshRow, keyVars
<1>2. d \in refreshes' /\ d.old = q.old /\ d.new # None
  BY <1>1, TokensAssumption
<1> HIDE DEF d
<1>3. Announcing(q.old)'
  BY <1>2 DEF Announcing
<1>4. \A c : OnTheWay(c) => OnTheWay(c)'
  BY <1>1 DEF OnTheWay
<1> QED BY <1>1, <1>3, <1>4, SessionStep

LEMMA RefreshDeleteRevocation ==
  ASSUME RevocationInv, TypeOK', NEW q \in refreshes, RefreshDelete(q)
  PROVE  RevocationInv'
<1> DEFINE s == <<q.old>>
<1>1. /\ UNCHANGED clientVars /\ excused' = excused /\ rows' = rows /\ TypeOK
      /\ UNCHANGED <<now, userDB, keyDB, lastId, req>>
      /\ \A c \in held : c \in held' \/ c = q.old
      /\ refreshes' = refreshes \ {q}
  BY DEF RefreshDelete, RevocationInv
<1>2. s \in Seq(Creds) /\ 1 \in DOMAIN s /\ s[1] = q.old /\ Post(s) /\ bus \in Seq(Creds)
  <2>1. q.old \in Creds
    BY <1>1 DEF Creds, TypeOK
  <2> QED BY <1>1, <2>1 DEF TypeOK, RefreshDelete
<1> HIDE DEF s
<1>3. (\A c : OnTheWay(c) => OnTheWay(c)') /\ OnTheWay(q.old)'
  BY <1>2, BusGrows
<1> QED BY <1>1, <1>3, SessionStep

LEMMA RevokeAllRevocation ==
  ASSUME RevocationInv, TypeOK', IsFiniteSet(keyDB),
         NEW t \in Threads, RevokeAll(t)
  PROVE  RevocationInv'
<1> DEFINE u == req[t].userUuid
           gone == {c \in rows : TokenUser[c] = u}
           told == {c \in held : TokenUser[c] = u}
<1>1. /\ UNCHANGED clientVars /\ excused' = excused \cup Held(gone \ told)
      /\ UNCHANGED <<now, userDB, keyDB, lastId>>
      /\ req' = [req EXCEPT ![t] = Idle]
      /\ rows' = rows \ gone /\ held' = held \ told /\ refreshes' = refreshes
      /\ TypeOK
  BY DEF RevokeAll, RemoveAllApiKeys, Done, RevocationInv
<1>2. /\ \A c : OnTheWay(c) => OnTheWay(c)'
      /\ \A c \in told : OnTheWay(c)'
      /\ \A e \in KeysOf(u) : OnTheWay(e.apiKey)'
  BY <1>1, RevokeAllAnnounces
<1>3. /\ req'[t].op = "idle"
      /\ \A w \in Threads : w # t => req'[w] = req[w]
  BY <1>1 DEF TypeOK, KeyTypeOK, Idle
<1>4. DeletesAnnounced' /\ IdsGiven'
  BY <1>1, <1>2, <1>3, DeletesStay
<1>5. ASSUME NEW c \in Creds, Holds(c), Valid(c) \/ Announcing(c)
      PROVE  Valid(c)' \/ OnTheWay(c)' \/ Announcing(c)' \/ c \in excused'
  <2>1. CASE c \in gone \cup told
    BY <1>1, <1>2, <1>5, <2>1 DEF Held, Holds
  <2>2. CASE \E e \in KeysOf(u) : e.apiKey = c
    BY <1>2, <2>2
  <2>3. CASE c \notin gone \cup told /\ ~ \E e \in KeysOf(u) : e.apiKey = c
    <3>1. Valid(c) => Valid(c)'
      BY <1>1, <2>3 DEF Valid
    <3>2. Announcing(c) => Announcing(c)'
      BY <1>1, <1>3, <2>3 DEF Announcing, KeysOf
    <3> QED BY <1>5, <3>1, <3>2
  <2> QED BY <2>1, <2>2, <2>3
<1> QED BY <1>1, <1>2, <1>4, <1>5, ServerStep

(* A positive answer: the credential is valid, and a key that DoDelete has *)
(* announced and not yet deleted is excused.                               *)
LEMMA AnswerRevocation ==
  ASSUME RevocationInv, TypeOK', AnswerToken \/ AnswerRead \/ AnswerApiKey
  PROVE  RevocationInv'
<1>1. /\ UNCHANGED <<keyVars, rows, refreshes, cache, keyCache>>
      /\ ask # NoAsk /\ ask'.cred = ask.cred
      /\ ask.answer \in {"waiting", "read"} /\ held \subseteq held'
      /\ excused \subseteq excused'
      /\ TypeOK
  <2>1. TypeOK
    BY DEF RevocationInv
  <2>2. UNCHANGED <<keyVars, rows, refreshes, cache, keyCache>>
    BY DEF AnswerToken, AnswerRead, AnswerApiKey, tokenVars
  <2>3. ask.answer \in {"waiting", "read"} /\ ask # NoAsk
    <3>1. ask.answer \in {"waiting", "read"}
      BY DEF AnswerToken, AnswerRead, AnswerApiKey
    <3> QED BY <3>1 DEF NoAsk
  <2>4. CASE AnswerToken
    BY <2>1, <2>2, <2>3, <2>4 DEF AnswerToken, TypeOK, tokenVars
  <2>5. CASE AnswerApiKey
    BY <2>1, <2>2, <2>3, <2>5 DEF AnswerApiKey, TypeOK, tokenVars
  <2>6. CASE AnswerRead
    BY <2>1, <2>2, <2>3, <2>6 DEF AnswerRead, TypeOK
  <2> QED BY <2>4, <2>5, <2>6
<1>2. \A c : /\ Valid(c) => Valid(c)'
             /\ Announcing(c) => Announcing(c)'
             /\ OnTheWay(c)' = OnTheWay(c)
             /\ Cached(c)' = Cached(c)
  BY <1>1 DEF Valid, Announcing, KeysOf, OnTheWay, Cached, keyVars
<1>3. AskedIsNotCached' /\ IdsGiven'
  BY <1>1, <1>2 DEF RevocationInv, AskedIsNotCached, IdsGiven, keyVars
<1>4. \A c : Holds(c)' => Holds(c) \/ c = ask.cred
  BY <1>1, <1>2 DEF Holds, InFlight
<1>5. Holds(ask.cred)' => Valid(ask.cred)'
  <2> SUFFICES ASSUME NEW c, c = ask.cred, Holds(c)'
               PROVE  Valid(c)'
    BY <1>1
  <2>1. ~Cached(c)
    BY <1>1 DEF RevocationInv, AskedIsNotCached
  <2>2. ask'.answer = "granted"
    BY <1>2, <2>1 DEF Holds, InFlight
  <2>3. CASE AnswerToken
    <3>1. c \in held /\ TokenUser[c] \in userDB
      BY <1>1, <2>2, <2>3 DEF AnswerToken, Verdict, TypeOK
    <3> QED BY <1>2, <3>1 DEF Valid
  <2>4. CASE AnswerApiKey
    <3>1. \E e \in keyDB : e.apiKey = c /\ e.userUuid \in userDB
      BY <1>1, <2>2, <2>4 DEF AnswerApiKey, IsValidApiKey, TypeOK
    <3> QED BY <1>2, <3>1 DEF Valid
  <2>5. CASE AnswerRead
    <3>1. c \in held' /\ TokenUser[c] \in userDB
      BY <1>1, <2>2, <2>5 DEF AnswerRead, Verdict, TypeOK
    <3> QED BY <1>1, <3>1 DEF Valid, keyVars
  <2> QED BY <2>3, <2>4, <2>5
<1>6. HoldsFollow'
  <2> SUFFICES ASSUME NEW c \in Creds, Holds(c)'
               PROVE  Valid(c)' \/ OnTheWay(c)' \/ Announcing(c)' \/ c \in excused'
    BY DEF HoldsFollow
  <2>1. CASE Holds(c)
    BY <1>1, <1>2, <2>1 DEF RevocationInv, HoldsFollow
  <2>2. CASE c = ask.cred
    BY <1>1, <1>2, <1>5, <2>2
  <2> QED BY <1>4, <2>1, <2>2
<1>7. DeletesAnnounced'
  <2> SUFFICES ASSUME NEW t \in Threads, req[t].op = "delete", NEW k, k = req[t].apiKey
               PROVE  /\ req[t].id \in 1..lastId
                      /\ \A e \in keyDB : e.id = req[t].id => e.apiKey = k
                      /\ Holds(k)' => OnTheWay(k)' \/ k \in excused'
    BY <1>1 DEF DeletesAnnounced, keyVars
  <2>1. /\ req[t].id \in 1..lastId
        /\ \A e \in keyDB : e.id = req[t].id => e.apiKey = k
        /\ Holds(k) => OnTheWay(k) \/ k \in excused
    BY DEF RevocationInv, DeletesAnnounced
  <2>2. k \in Keys
    BY <1>1 DEF TypeOK, KeyTypeOK, Requests, Idle
  <2>3. ASSUME k = ask.cred, Holds(k)'
        PROVE  k \in excused'
    <3>1. ~Cached(k)
      BY <1>1, <2>3 DEF RevocationInv, AskedIsNotCached
    <3>2. ask'.answer = "granted"
      BY <1>2, <2>3, <3>1 DEF Holds, InFlight
    <3>3. ~AnswerToken /\ ~AnswerRead
      BY <1>1, <2>2, <2>3, TokensAssumption DEF AnswerToken, AnswerRead, TypeOK
    <3>4. excused' = excused \cup {req[w].apiKey : w \in {w \in Threads :
                             req[w].op = "delete" /\ req[w].apiKey = ask.cred}}
      BY <1>1, <3>2, <3>3 DEF AnswerApiKey, TypeOK
    <3> QED BY <2>3, <3>4
  <2> QED BY <1>1, <1>2, <1>4, <2>1, <2>3
<1> QED BY <1>3, <1>6, <1>7 DEF RevocationInv

(* The steps of the other service.                                         *)
LEMMA ClientRevocation ==
  ASSUME RevocationInv, TypeOK',
         \/ \E c \in Tokens : IsAuthorized(c)
         \/ \E k \in Presented : CheckApiKey(k)
         \/ Receive \/ TimeOut \/ RemovedCachedToken \/ LoseEvent
         \/ \E c \in Creds : Age(c)
  PROVE  RevocationInv'
<1> DEFINE Kept == \A c \in Creds : Holds(c)' =>
                     /\ Holds(c)
                     /\ OnTheWay(c) => OnTheWay(c)' \/ c \in excused'
                     /\ c \in excused => c \in excused'
<1>0. TypeOK /\ AskedIsNotCached
  BY DEF RevocationInv
<1>1. UNCHANGED <<userDB, keyDB, lastId, req, rows, held, refreshes>>
  BY DEF IsAuthorized, CheckApiKey, Receive, TimeOut, RemovedCachedToken, LoseEvent, Age,
       keyVars, tokenVars
<1>a. bus' = bus => \A c : OnTheWay(c)' = OnTheWay(c)
  BY DEF OnTheWay
<1>b. ask = NoAsk => \A c : ~InFlight(c)
  BY DEF NoAsk, InFlight
<1>2. ASSUME NEW k \in Tokens, IsAuthorized(k)
      PROVE  Kept /\ AskedIsNotCached'
  <2>1. \A c \in Keys : c # k
    BY TokensAssumption
  <2>2. /\ ask = NoAsk /\ bus' = bus /\ keyCache' = keyCache /\ cache' \subseteq cache
        /\ \A c \in excused : c \in excused' \/ (c = k /\ c \notin cache')
        /\ ask' # NoAsk => ask' = [cred |-> k, answer |-> "waiting", until |-> 0] /\ k \notin cache'
    BY <1>2 DEF IsAuthorized, Ask, keyVars
  <2>3. \A e \in keyCache : e.apiKey # k
    BY <1>0, <2>1 DEF TypeOK
  <2>4. \A c : Holds(c)' => Cached(c) /\ (c = k => c \in cache')
    BY <2>2, <2>3 DEF Holds, Cached, InFlight, NoAsk
  <2>5. Kept
    BY <1>a, <2>2, <2>4 DEF Holds
  <2>6. AskedIsNotCached'
    BY <2>2, <2>3 DEF AskedIsNotCached, Cached, Creds, NoAsk
  <2> QED BY <2>5, <2>6
<1>3. ASSUME NEW k \in Presented, CheckApiKey(k)
      PROVE  Kept /\ AskedIsNotCached'
  <2>1. k \in Keys /\ k \notin Tokens
    BY TokensAssumption
  <2>2. k \notin cache
    BY <1>0, <2>1 DEF TypeOK
  <2>3. CASE UNCHANGED <<keyCache, ask, excused>>
    BY <1>0, <1>3, <1>a, <2>3 DEF CheckApiKey, keyVars, Holds, Cached, InFlight,
         AskedIsNotCached, NoAsk
  <2>4. CASE /\ keyCache' = {e \in keyCache : e.apiKey # k}
             /\ excused' = excused \ {k}
             /\ Ask(k)
    <3>1. ask = NoAsk /\ bus' = bus /\ cache' = cache
      BY <1>3 DEF CheckApiKey, keyVars
    <3>2. \A c : Holds(c)' => Cached(c) /\ c # k
      BY <2>2, <2>4, <3>1 DEF Holds, Cached, InFlight, Ask
    <3>3. AskedIsNotCached'
      BY <2>1, <2>2, <2>4, <3>1 DEF AskedIsNotCached, Cached, Ask, Creds
    <3> QED BY <1>a, <2>4, <3>1, <3>2, <3>3 DEF Holds
  <2> QED BY <1>3, <2>3, <2>4 DEF CheckApiKey
<1>4. ASSUME Receive
      PROVE  Kept /\ AskedIsNotCached'
  <2>1. ask # NoAsk /\ ask' = NoAsk /\ bus' = bus
    BY <1>4 DEF Receive, NoAsk, keyVars
  <2>2. ASSUME NEW c \in Creds, Holds(c)'
        PROVE  Holds(c) /\ (c \in excused => c \in excused')
    <3>1. Cached(c)'
      BY <2>1, <2>2 DEF Holds, InFlight, NoAsk
    <3>2. CASE Cached(c)
      <4>1. c # ask.cred
        BY <1>0, <2>1, <3>2 DEF AskedIsNotCached
      <4> QED BY <1>4, <3>2, <4>1 DEF Receive, Holds
    <3>3. CASE ~Cached(c)
      <4>1. \/ c \in cache' /\ c \notin cache
            \/ \E e \in keyCache' : e.apiKey = c /\ e \notin keyCache
        BY <3>1, <3>3 DEF Cached
      <4>2. c = ask.cred /\ ask.answer = "granted"
        BY <1>4, <4>1 DEF Receive
      <4>3. excused' = excused
        <5>1. CASE c \in cache' /\ c \notin cache
          BY <1>4, <4>2, <5>1 DEF Receive
        <5>2. CASE \E e \in keyCache' : e.apiKey = c /\ e \notin keyCache
          BY <1>4, <4>2, <5>2, TokensAssumption DEF Receive
        <5> QED BY <4>1, <5>1, <5>2
      <4> QED BY <4>2, <4>3 DEF Holds, InFlight
    <3> QED BY <3>2, <3>3
  <2> QED BY <1>a, <2>1, <2>2 DEF AskedIsNotCached
<1>5. ASSUME TimeOut
      PROVE  Kept /\ AskedIsNotCached'
  <2>1. ask # NoAsk /\ ask' = NoAsk /\ bus' = bus /\ UNCHANGED <<cache, keyCache>>
    BY <1>5 DEF TimeOut, keyVars
  <2>2. \A c : Holds(c)' => Cached(c) /\ c # ask.cred
    BY <1>0, <2>1 DEF Holds, Cached, InFlight, NoAsk, AskedIsNotCached
  <2>3. \A c \in excused : c \in excused' \/ c = ask.cred
    BY <1>5 DEF TimeOut
  <2> QED BY <1>a, <2>1, <2>2, <2>3 DEF AskedIsNotCached, Holds
<1>6. ASSUME RemovedCachedToken
      PROVE  Kept /\ AskedIsNotCached'
  <2> DEFINE h == Head(bus)
  <2>1. /\ bus # <<>> /\ bus' = Tail(bus) /\ ask' = ask
        /\ cache' = cache \ {h}
        /\ keyCache' = {e \in keyCache : e.apiKey # h}
        /\ excused' = IF InFlight(h) THEN excused \cup {h} ELSE excused \ {h}
    BY <1>6 DEF RemovedCachedToken
  <2>2. \A c : OnTheWay(c) => c = h \/ OnTheWay(c)'
    BY <1>0, <2>1, BusShrinks DEF TypeOK
  <2> HIDE DEF h
  <2>3. \A c : Holds(c)' => Holds(c) /\ (c = h => InFlight(h))
    BY <2>1 DEF Holds, Cached, InFlight
  <2>4. Kept
    BY <2>1, <2>2, <2>3
  <2>5. AskedIsNotCached'
    BY <1>0, <2>1 DEF AskedIsNotCached, Cached, NoAsk
  <2> QED BY <2>4, <2>5
<1>7. ASSUME LoseEvent
      PROVE  Kept /\ AskedIsNotCached'
  <2> DEFINE h == Head(bus)
  <2>1. /\ bus # <<>> /\ bus' = Tail(bus) /\ UNCHANGED clientVars
        /\ excused' = excused \cup Held({h})
    BY <1>7 DEF LoseEvent
  <2>2. \A c : OnTheWay(c) => c = h \/ OnTheWay(c)'
    BY <1>0, <2>1, BusShrinks DEF TypeOK
  <2> HIDE DEF h
  <2>3. \A c : Holds(c)' = Holds(c)
    BY <2>1 DEF Holds, Cached, InFlight, clientVars
  <2>4. Kept
    BY <2>1, <2>2, <2>3 DEF Held, Holds
  <2>5. AskedIsNotCached'
    BY <1>0, <2>1 DEF AskedIsNotCached, Cached, NoAsk, clientVars
  <2> QED BY <2>4, <2>5
<1>8. ASSUME NEW k \in Creds, Age(k)
      PROVE  Kept /\ AskedIsNotCached'
  <2>1. /\ bus' = bus /\ ask' = ask /\ cache' = cache \ {k}
        /\ keyCache' = {e \in keyCache : e.apiKey # k}
        /\ excused' = IF InFlight(k) THEN excused ELSE excused \ {k}
    BY <1>8 DEF Age, keyVars
  <2>2. \A c : Holds(c)' => Holds(c) /\ (c = k => InFlight(k))
    BY <2>1 DEF Holds, Cached, InFlight
  <2>3. Kept
    BY <1>a, <2>1, <2>2
  <2>4. AskedIsNotCached'
    BY <1>0, <2>1 DEF AskedIsNotCached, Cached, NoAsk
  <2> QED BY <2>3, <2>4
<1>9. Kept /\ AskedIsNotCached'
  BY <1>2, <1>3, <1>4, <1>5, <1>6, <1>7, <1>8
<1> QED BY <1>1, <1>9, ClientStep

(* The types of the caches, the bus and the requests, and the finite table, *)
(* hold in every reachable state; and an answer counts as its cache entry. *)
THEOREM RevocationInvariance == Spec => [](KeyInv /\ RevocationInv)
<1>1. Init => KeyInv /\ RevocationInv
  <2> SUFFICES ASSUME Init PROVE KeyInv /\ RevocationInv
    OBVIOUS
  <2>1. KeyInv
    BY InitKeyInv
  <2>2. /\ keyDB = {} /\ req = [t \in Threads |-> Idle] /\ bus = <<>>
        /\ cache = {} /\ keyCache = {} /\ ask = NoAsk
    BY DEF Init, KeyInit
  <2>3. TypeOK
    <3>1. KeyTypeOK
      BY BoundsAssumption DEF Init, KeyInit, KeyTypeOK, Requests
    <3>2. /\ ask \in [cred : Creds \cup {None}, answer : Answers, until : Times]
          /\ ask.answer # "read"
      BY <2>2, BoundsAssumption DEF NoAsk, Times, Answers
    <3>3. /\ rows \subseteq Tokens /\ held \subseteq Tokens /\ fresh \subseteq Tokens
          /\ reads \in [Tokens -> Nat] /\ work \in Nat /\ excused \subseteq Creds
          /\ refreshes \subseteq [old : Tokens, new : Tokens \cup {None}]
      BY TokensAssumption DEF Init
    <3> QED BY <2>2, <3>1, <3>2, <3>3 DEF TypeOK
  <2>4. \A c : ~Holds(c)
    BY <2>2 DEF Holds, Cached, InFlight, NoAsk
  <2>5. DeletesAnnounced
    BY <2>2 DEF DeletesAnnounced, Idle
  <2> QED BY <2>1, <2>2, <2>3, <2>4, <2>5 DEF RevocationInv, HoldsFollow, IdsGiven,
           AskedIsNotCached
<1>2. KeyInv /\ RevocationInv /\ [Next]_vars => (KeyInv /\ RevocationInv)'
  <2> SUFFICES ASSUME KeyInv, RevocationInv, [Next]_vars
               PROVE  KeyInv' /\ RevocationInv'
    OBVIOUS
  <2>1. KeyInv'
    BY StepKeeps
  <2>2. IsFiniteSet(keyDB)
    BY DEF KeyInv, Shape
  <2>3. TypeOK'
    BY <2>2, StepType DEF RevocationInv
  <2>4. CASE UNCHANGED vars
    <3>1. \A c : /\ Valid(c)' = Valid(c) /\ Announcing(c)' = Announcing(c)
                 /\ OnTheWay(c)' = OnTheWay(c)
      BY <2>4 DEF Valid, Announcing, KeysOf, OnTheWay, vars, keyVars,
         tokenVars
    <3>2. DeletesAnnounced' /\ IdsGiven'
      BY <2>4, <3>1, DeletesStay DEF vars, keyVars
    <3> QED BY <2>1, <2>3, <2>4, <3>1, <3>2, ServerStep DEF vars
  <2>5. CASE Next
    <3>1. ASSUME NEW c \in Tokens, ReadRow(c) \/ CacheRow(c) \/ AgeHeld(c) \/ StartRefresh(c)
          PROVE  RevocationInv'
      BY <2>3, <3>1, LookupRevocation
    <3>2. ASSUME NEW c \in Tokens, Logout(c)
          PROVE  RevocationInv'
      BY <2>3, <3>2, LogoutRevocation
    <3>3. ASSUME NEW q \in refreshes, NEW n \in Tokens, RefreshRow(q, n)
          PROVE  RevocationInv'
      BY <2>3, <3>3, RefreshRowRevocation
    <3>4. ASSUME NEW q \in refreshes, RefreshDelete(q)
          PROVE  RevocationInv'
      BY <2>3, <3>4, RefreshDeleteRevocation
    <3>5. ASSUME NEW t \in Threads, RevokeAll(t)
          PROVE  RevocationInv'
      BY <2>2, <2>3, <3>5, RevokeAllRevocation
    <3> QED BY <2>1, <2>3, <2>5, <3>1, <3>2, <3>3, <3>4, <3>5, KeyStepRevocation,
               CleanRevocation, AnswerRevocation, ClientRevocation DEF Next
  <2> QED BY <2>4, <2>5
<1> QED BY <1>1, <1>2, PTL DEF Spec

(* What BusMessageReceived is for, for any number of users, threads, keys, *)
(* sessions and events: a credential that another service has cached is    *)
(* valid, or its removal is on the bus or still to be announced, or it is  *)
(* one of the cases that the events cannot cover.                          *)
THEOREM CachesAlwaysFollowRevocation == Spec => []CachesFollowRevocation
<1>1. RevocationInv => CachesFollowRevocation
  BY DEF RevocationInv, HoldsFollow, CachesFollowRevocation, Holds, Announcing, Pending, OnTheWay
<1> QED BY <1>1, RevocationInvariance, PTL
=============================================================================
