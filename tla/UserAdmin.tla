----------------------------- MODULE UserAdmin -----------------------------
(***************************************************************************)
(* Administrators at work: the requests of RESTAPI_user_handler (DoPost,   *)
(* DoPut, DoDelete) on the user table and its cache, run by several REST   *)
(* threads.  A request reads its caller's record (IsAuthorized), then the  *)
(* record it is about, applies the rules of AclRules to these two copies   *)
(* and writes the whole record back or deletes it.  Nothing ties the write *)
(* to the reads: any other request may run in between.                     *)
(*                                                                         *)
(* Of a record the model keeps what the rules and the handlers decide on:  *)
(* role, createdBy and suspended (which stands for blackListed too).       *)
(***************************************************************************)
CONSTANTS Users,     \* ids: those of the initial records and those to create
          Roles,     \* the roles that occur
          Statuses,  \* the values of suspended that requests ask for
          Threads,   \* REST server threads
          Kinds,     \* the kinds of request that are sent
          Initial,   \* the user table at start: a record or None for each id
          None

INSTANCE AclRules WITH NoCreator <- None

Record == [id : Users, role : Roles, createdBy : Users \cup {None},
           suspended : BOOLEAN]

RequestKinds == {"create", "put", "delete"}

ASSUME ConstantsAssumption ==
  /\ Roles \subseteq RoleNames
  /\ Kinds \subseteq RequestKinds
  /\ Statuses \subseteq BOOLEAN
  /\ None \notin Users
  /\ None \notin Threads
  /\ None \notin Record
  /\ Initial \in [Users -> Record \cup {None}]
  /\ \A u \in Users : Initial[u] # None => Initial[u].id = u

VARIABLES
  db,        \* the committed rows of the user table
  cache,     \* UserCache
  used,      \* the ids that have been given to records so far
  lock,      \* the thread with an uncommitted write on a row
  pc,        \* where each thread is
  kind,      \* the kind of its request
  caller,    \* UserInfo_.userinfo: the caller's record as it was read
  target,    \* the id the request is about
  existing,  \* Existing: the target's record as read, then as changed
  overlap    \* history: two requests have been under way at the same time

threadVars == <<pc, kind, caller, target, existing>>

vars == <<db, cache, used, lock, threadVars, overlap>>

PCs == {"idle", "read", "select", "fill", "decide", "update", "ucommit",
        "delete", "dcommit"}

TypeOK ==
  /\ db \in [Users -> Record \cup {None}]
  /\ cache \in [Users -> Record \cup {None}]
  /\ used \subseteq Users
  /\ lock \in [Users -> Threads \cup {None}]
  /\ pc \in [Threads -> PCs]
  /\ kind \in [Threads -> RequestKinds \cup {"auth", "answer", "none"}]
  /\ caller \in [Threads -> Record \cup {None}]
  /\ target \in [Threads -> Users \cup {None}]
  /\ existing \in [Threads -> Record \cup {None}]
  /\ overlap \in BOOLEAN

Init ==
  /\ db = Initial
  /\ cache = [u \in Users |-> None]
  /\ used = {u \in Users : Initial[u] # None}
  /\ lock = [u \in Users |-> None]
  /\ pc = [t \in Threads |-> "idle"]
  /\ kind = [t \in Threads |-> "none"]
  /\ caller = [t \in Threads |-> None]
  /\ target = [t \in Threads |-> None]
  /\ existing = [t \in Threads |-> None]
  /\ overlap = FALSE

-----------------------------------------------------------------------------

Goto(t, p) ==
  /\ pc' = [pc EXCEPT ![t] = p]
  /\ UNCHANGED <<kind, caller, target, existing>>

Return(t) ==
  /\ pc' = [pc EXCEPT ![t] = "idle"]
  /\ kind' = [kind EXCEPT ![t] = "none"]
  /\ caller' = [caller EXCEPT ![t] = None]
  /\ target' = [target EXCEPT ![t] = None]
  /\ existing' = [existing EXCEPT ![t] = None]

\* GetUserById has the record r: the caller's, the target's, or the answer.
HaveRecord(t, r) ==
  \/ /\ kind[t] = "auth"
     /\ caller' = [caller EXCEPT ![t] = r]
     /\ pc' = [pc EXCEPT ![t] = "decide"]
     /\ target' = [target EXCEPT ![t] = None]
     /\ existing' = [existing EXCEPT ![t] = None]
     /\ UNCHANGED kind
  \/ /\ kind[t] \in RequestKinds
     /\ existing' = [existing EXCEPT ![t] = r]
     /\ pc' = [pc EXCEPT ![t] = "decide"]
     /\ UNCHANGED <<kind, caller, target>>
  \/ /\ kind[t] = "answer"
     /\ Return(t)

\* GetRecord("id", target): the cache, else the table and then the cache.
ReadCache(t) ==
  /\ pc[t] = "read"
  /\ IF cache[target[t]] # None THEN HaveRecord(t, cache[target[t]])
                                ELSE Goto(t, "select")
  /\ UNCHANGED <<db, cache, used, lock>>

ReadTable(t) ==
  /\ pc[t] = "select"
  /\ IF db[target[t]] # None
       THEN /\ existing' = [existing EXCEPT ![t] = db[target[t]]]
            /\ pc' = [pc EXCEPT ![t] = "fill"]
            /\ UNCHANGED <<kind, caller, target>>
       ELSE Return(t)
  /\ UNCHANGED <<db, cache, used, lock>>

FillCache(t) ==
  /\ pc[t] = "fill"
  /\ cache' = [cache EXCEPT ![target[t]] = existing[t]]
  /\ HaveRecord(t, existing[t])
  /\ UNCHANGED <<db, used, lock>>

-----------------------------------------------------------------------------

\* A request of user u, who has a valid token: IsAuthorized reads the record.
Authenticate(t, u) ==
  /\ pc[t] = "idle"
  /\ pc' = [pc EXCEPT ![t] = "read"]
  /\ kind' = [kind EXCEPT ![t] = "auth"]
  /\ target' = [target EXCEPT ![t] = u]
  /\ UNCHANGED <<db, cache, used, lock, caller, existing>>

\* DoPut and DoDelete read the record they are about.
Choose(t, k, u) ==
  /\ pc[t] = "decide"
  /\ kind[t] = "auth"
  /\ k \in Kinds \cap {"put", "delete"}
  /\ pc' = [pc EXCEPT ![t] = "read"]
  /\ kind' = [kind EXCEPT ![t] = k]
  /\ target' = [target EXCEPT ![t] = u]
  /\ UNCHANGED <<db, cache, used, lock, caller, existing>>

\* DoPost: the record gets a fresh id and the caller as its creator.  With
\* email_verification it is written once more; then it is read for the answer.
Create(t, u, r) ==
  /\ pc[t] = "decide"
  /\ kind[t] = "auth"
  /\ "create" \in Kinds
  /\ u \notin used
  /\ used' = used \cup {u}
  /\ LET new == [id |-> u, role |-> r, createdBy |-> caller[t].id,
                 suspended |-> FALSE]
     IN /\ CanCreateUserRecord(caller[t], new)
        /\ db' = [db EXCEPT ![u] = new]
        /\ existing' = [existing EXCEPT ![t] = new]
  /\ target' = [target EXCEPT ![t] = u]
  /\ \/ pc' = [pc EXCEPT ![t] = "update"] /\ kind' = [kind EXCEPT ![t] = "create"]
     \/ pc' = [pc EXCEPT ![t] = "read"] /\ kind' = [kind EXCEPT ![t] = "answer"]
  /\ UNCHANGED <<cache, lock, caller>>

\* DoPut without parameters: a role and a status may be in the body, for
\* self-service callers neither.
ApplyChanges(t, r, s) ==
  /\ pc[t] = "decide"
  /\ kind[t] = "put"
  /\ CanModifyUserRecord(caller[t], existing[t])
  /\ IsSelfServiceCaller(caller[t])
       => r = existing[t].role /\ s = existing[t].suspended
  /\ r # existing[t].role => CanChangeUserRole(caller[t], existing[t], r)
  /\ existing' = [existing EXCEPT ![t] =
                    [@ EXCEPT !.role = r, !.suspended = s]]
  /\ pc' = [pc EXCEPT ![t] = "update"]
  /\ UNCHANGED <<db, cache, used, lock, kind, caller, target>>

\* DoPut with the parameter resetMFA: the record is written back with its MFA
\* fields cleared.
ResetMFA(t) ==
  /\ pc[t] = "decide"
  /\ kind[t] = "put"
  /\ CanModifyUserRecord(caller[t], existing[t])
  /\ CanResetUserMFA(caller[t], existing[t])
  /\ Goto(t, "update")
  /\ UNCHANGED <<db, cache, used, lock>>

ApproveDelete(t) ==
  /\ pc[t] = "decide"
  /\ kind[t] = "delete"
  /\ CanDeleteUserRecord(caller[t], existing[t])
  /\ Goto(t, "delete")
  /\ UNCHANGED <<db, cache, used, lock>>

\* The rules refuse the request, or a check outside them does (the body, the
\* password, the MFA method); a forgotPassword request writes no record.
Refuse(t) ==
  /\ pc[t] = "decide"
  /\ Return(t)
  /\ UNCHANGED <<db, cache, used, lock>>

-----------------------------------------------------------------------------

\* UpdateRecord: the cache gets the record even when no row is changed.
UpdateExec(t) ==
  /\ pc[t] = "update"
  /\ lock[target[t]] = None
  /\ lock' = IF db[target[t]] # None THEN [lock EXCEPT ![target[t]] = t] ELSE lock
  /\ cache' = [cache EXCEPT ![target[t]] = existing[t]]
  /\ Goto(t, "ucommit")
  /\ UNCHANGED <<db, used>>

\* Mutant: the update inserts the record when there is no row.
UpdateCommitUpsert(t) ==
  /\ pc[t] = "ucommit"
  /\ db' = [db EXCEPT ![target[t]] = existing[t]]
  /\ lock' = [u \in Users |-> IF lock[u] = t THEN None ELSE lock[u]]
  /\ pc' = [pc EXCEPT ![t] = "read"]
  /\ kind' = [kind EXCEPT ![t] = "answer"]
  /\ UNCHANGED <<cache, used, caller, target, existing>>

UpdateCommit(t) ==
  /\ pc[t] = "ucommit"
  /\ IF lock[target[t]] = t
       THEN /\ db' = [db EXCEPT ![target[t]] = existing[t]]
            /\ lock' = [lock EXCEPT ![target[t]] = None]
       ELSE UNCHANGED <<db, lock>>
  /\ pc' = [pc EXCEPT ![t] = "read"]
  /\ kind' = [kind EXCEPT ![t] = "answer"]
  /\ UNCHANGED <<cache, used, caller, target, existing>>

\* Mutant: the cached record is emptied instead of removed.
DeleteExecBlank(t) ==
  /\ pc[t] = "delete"
  /\ lock[target[t]] = None
  /\ lock' = IF db[target[t]] # None THEN [lock EXCEPT ![target[t]] = t] ELSE lock
  /\ cache' = [cache EXCEPT ![target[t]] = [id |-> None]]
  /\ Goto(t, "dcommit")
  /\ UNCHANGED <<db, used>>

DeleteExec(t) ==
  /\ pc[t] = "delete"
  /\ lock[target[t]] = None
  /\ lock' = IF db[target[t]] # None THEN [lock EXCEPT ![target[t]] = t] ELSE lock
  /\ cache' = [cache EXCEPT ![target[t]] = None]
  /\ Goto(t, "dcommit")
  /\ UNCHANGED <<db, used>>

DeleteCommit(t) ==
  /\ pc[t] = "dcommit"
  /\ IF lock[target[t]] = t
       THEN /\ db' = [db EXCEPT ![target[t]] = None]
            /\ lock' = [lock EXCEPT ![target[t]] = None]
       ELSE UNCHANGED <<db, lock>>
  /\ Return(t)
  /\ UNCHANGED <<cache, used>>

\* A cached record reaches its age limit.
Evict(u) ==
  /\ cache[u] # None
  /\ cache' = [cache EXCEPT ![u] = None]
  /\ UNCHANGED <<db, used, lock, threadVars>>

Step(t) ==
  \/ ReadCache(t) \/ ReadTable(t) \/ FillCache(t)
  \/ \E u \in Users : Authenticate(t, u)
  \/ \E k \in Kinds, u \in Users : Choose(t, k, u)
  \/ \E u \in Users, r \in Roles : Create(t, u, r)
  \/ \E r \in Roles, s \in Statuses : ApplyChanges(t, r, s)
  \/ ResetMFA(t) \/ ApproveDelete(t) \/ Refuse(t)
  \/ UpdateExec(t) \/ UpdateCommit(t) \/ DeleteExec(t) \/ DeleteCommit(t)

Overlapping == \E t, s \in Threads : t # s /\ pc[t] # "idle" /\ pc[s] # "idle"

Next ==
  /\ (\E t \in Threads : Step(t)) \/ (\E u \in Users : Evict(u))
  /\ overlap' = (overlap \/ Overlapping')

Spec == Init /\ [][Next]_vars

-----------------------------------------------------------------------------
(* Properties.  A step is one thread's: the one whose pc changes.           *)

Acts(t) == pc'[t] # pc[t]

IsRow(table, u) == table[u] # None

\* A user becomes root - by creation or by a change of role - only by the
\* request of a caller who was root when the request was authenticated, even
\* when the records that the request has read are out of date by then.
OnlyRootsMakeRoots ==
  [][\A u \in Users :
       /\ IsRow(db', u) /\ db'[u].role = "root"
       /\ ~(IsRow(db, u) /\ db[u].role = "root")
       => \E t \in Threads : Acts(t) /\ IsRoot(caller[t])]_vars

\* A caller who is not root changes nobody but himself and, as admin, those he
\* created (createdBy is set by DoPost and no later request changes it).
CreatorScope ==
  [][\A u \in Users : db'[u] # db[u] =>
       /\ IsRow(db, u) /\ IsRow(db', u) => db'[u].createdBy = db[u].createdBy
       /\ \E t \in Threads :
            /\ Acts(t)
            /\ \/ IsRoot(caller[t])
               \/ caller[t].id = u
               \/ /\ IsAdmin(caller[t])
                  /\ {db[u], db'[u]} \ {None} \subseteq
                       {r \in Record : r.createdBy = caller[t].id}]_vars

\* The whole-record update of DoPut never brings a deleted row back, however
\* it is interleaved with DoDelete (the cache may show the record for a while).
NoRowRevival ==
  [][\A u \in used : ~IsRow(db, u) => ~IsRow(db', u)]_vars

\* The system does not end up without a root ...
NotRootless == \E u \in Users : IsRow(db, u) /\ db[u].role = "root"

\* ... through requests one at a time, whatever their sequence: the rules of
\* ACLProcessor are complete, and only the race of two requests defeats them.
RulesKeepARoot == overlap \/ NotRootless

\* With requests one at a time, only a root deletes a root or takes the role
\* away: no sequence of permitted creations and promotions gives an admin or a
\* self-service caller that power.
RootsFallToRootsOnly ==
  [][\A u \in Users :
       IsRow(db, u) /\ db[u].role = "root"
         /\ ~(IsRow(db', u) /\ db'[u].role = "root")
       => \/ overlap
          \/ \E t \in Threads : Acts(t) /\ IsRoot(caller[t])]_vars
=============================================================================
