------------------------------ MODULE DataFiles ------------------------------
(***************************************************************************)
(* What the service keeps in files of its data directory and how it comes  *)
(* back at a start: registry.json (AppServiceRegistry) with the service's  *)
(* id and the mark that the default user was created, and secrets.json     *)
(* (SecretStore).  Every save truncates the file and then writes it.       *)
(*                                                                         *)
(* AppServiceRegistry() is declared "auto" and returns a copy of the one   *)
(* instance; the copy is destroyed at the end of the expression and its    *)
(* destructor saves, so a Get writes the file as well.                     *)
(***************************************************************************)
EXTENDS Naturals

CONSTANT MaxStarts   \* bound: how often the process is started

ASSUME MaxStartsAssumption == MaxStarts \in Nat

VARIABLES
  phase,      \* where the main thread of the process is
  half,       \* it has truncated the file and not yet written it
  regFile,    \* registry.json
  reg,        \* AppServiceRegistry::Registry_
  secFile,    \* secrets.json
  secrets,    \* SecretStore::Store_: the secret is in it
  userRow,    \* the default user is in the user table
  starts,     \* starts so far
  lastId,     \* history: the id the service had before
  made,       \* history: the default user has been created
  reload,     \* the thread of a reload has truncated registry.json
  torn,       \* history: registry.json was lost between truncation and write
  tornSecrets,\* history: the same of secrets.json
  unmarked,   \* history: a crash between the creation of the user and its mark
  kept        \* history: the secret as the last completed request left it

fileVars == <<regFile, reg, secFile, secrets, userRow, starts, lastId, made,
              reload, torn, tornSecrets, unmarked, kept>>

Contents == [kind : {"missing", "bad", "object"}, id : 0..MaxStarts, created : BOOLEAN]

EmptyObject == [kind |-> "object", id |-> 0, created |-> FALSE]

Boot == {"load", "id", "newid", "user", "create", "mark", "secrets"}

FilesTypeOK ==
  /\ half \in BOOLEAN
  /\ regFile \in Contents /\ reg \in Contents
  /\ secFile \in {"missing", "bad", "with", "without"}
  /\ secrets \in BOOLEAN /\ userRow \in BOOLEAN
  /\ starts \in 0..MaxStarts
  /\ lastId \in 0..MaxStarts
  /\ {made, reload, torn, tornSecrets, unmarked, kept} \subseteq BOOLEAN

FilesInit ==
  /\ half = FALSE
  /\ regFile \in {[EmptyObject EXCEPT !.kind = "missing"], EmptyObject}
  /\ reg = [EmptyObject EXCEPT !.kind = "missing"]
  /\ secFile = "missing"
  /\ secrets = FALSE
  /\ userRow = FALSE
  /\ starts = 0
  /\ lastId = 0
  /\ made = FALSE
  /\ reload = FALSE
  /\ torn = FALSE
  /\ tornSecrets = FALSE
  /\ unmarked = FALSE
  /\ kept = FALSE

----------------------------------------------------------------------------
Launch ==
  /\ phase = "down"
  /\ starts < MaxStarts
  /\ starts' = starts + 1
  /\ phase' = "load"
  /\ UNCHANGED <<half, regFile, reg, secFile, secrets, userRow, lastId, made, torn,
                 reload, tornSecrets, unmarked, kept>>

(* The constructor of AppServiceRegistry.  Without a file Registry_ stays  *)
(* null: Get throws, and so does Save in the destructor, which ends the    *)
(* process with an empty file.  A file that does not parse is taken for an *)
(* empty registry.                                                         *)
LoadRegistry ==
  /\ phase = "load"
  /\ \/ /\ regFile.kind = "missing"
        /\ regFile' = [regFile EXCEPT !.kind = "bad"]
        /\ phase' = "down"
        /\ UNCHANGED reg
     \/ /\ regFile.kind # "missing"
        /\ reg' = IF regFile.kind = "object" THEN regFile ELSE EmptyObject
        /\ phase' = "id"
        /\ UNCHANGED regFile
  /\ UNCHANGED <<half, secFile, secrets, userRow, starts, lastId, made, torn,
                 reload, tornSecrets, unmarked, kept>>

(* Save, first half: open with std::ios::trunc.                            *)
Truncate ==
  /\ phase \in {"id", "newid", "user", "mark"}
  /\ ~half
  /\ half' = TRUE
  /\ regFile' = [EmptyObject EXCEPT !.kind = "bad"]
  /\ UNCHANGED <<phase, reg, secFile, secrets, userRow, starts, lastId, made, torn,
                 reload, tornSecrets, unmarked, kept>>

(* Save, second half, at the end of one of the calls of the registry: Get  *)
(* and Set of the id (GetSystemId), Get and Set of the mark of the default *)
(* user (InitializeDefaultUser).                                           *)
Write(from, to) ==
  /\ phase = from
  /\ half
  /\ half' = FALSE
  /\ regFile' = reg
  /\ phase' = to
  /\ UNCHANGED <<reg, secFile, secrets, userRow, starts, lastId, made, torn,
                 reload, tornSecrets, unmarked, kept>>

(* GetSystemId: an id that is not known is made and set.                   *)
SystemId ==
  \/ reg.id # 0 /\ Write("id", "user")
  \/ reg.id = 0 /\ Write("id", "setid")

InitializeSystemId ==
  /\ phase = "setid"
  /\ reg' = [reg EXCEPT !.id = starts]
  /\ phase' = "newid"
  /\ UNCHANGED <<half, regFile, secFile, secrets, userRow, starts, lastId, made, torn,
                 reload, tornSecrets, unmarked, kept>>

(* A variant that creates the user whenever it is not there.               *)
NeedsDefaultUserAlways == ~userRow

(* InitializeDefaultUser, its condition.                                   *)
NeedsDefaultUser == ~userRow /\ ~reg.created

InitializeDefaultUser ==
  \/ NeedsDefaultUser /\ Write("user", "create")
  \/ ~NeedsDefaultUser /\ Write("user", "secrets")

CreateUser ==
  /\ phase = "create"
  /\ userRow' = TRUE
  /\ made' = TRUE
  /\ reg' = [reg EXCEPT !.created = TRUE]
  /\ phase' = "mark"
  /\ UNCHANGED <<half, regFile, secFile, secrets, starts, lastId, torn, reload,
                 tornSecrets, unmarked, kept>>

(* SecretStore::ReadStore, after which the other subsystems start.         *)
ReadStore ==
  /\ phase = "secrets"
  /\ secrets' = (secFile = "with")
  /\ lastId' = reg.id
  /\ phase' = "start"
  /\ UNCHANGED <<half, regFile, reg, secFile, userRow, starts, made, torn, reload,
                 tornSecrets, unmarked, kept>>

(* Bound: requests while a later start can see what they left.             *)
Requests == starts < MaxStarts

(* A request deletes the default user, as its description asks for.        *)
DeleteDefaultUser ==
  /\ Requests
  /\ phase = "up"
  /\ userRow
  /\ userRow' = FALSE
  /\ UNCHANGED <<phase, half, regFile, reg, secFile, secrets, starts, lastId, made, torn,
                 reload, tornSecrets, unmarked, kept>>

(* SecretStore::Set and Remove and, at the stop, SaveStore: the same two   *)
(* halves under the store's mutex.                                         *)
SetSecret(v) ==
  /\ Requests
  /\ phase = "up"
  /\ ~half
  /\ secrets' = v
  /\ half' = TRUE
  /\ secFile' = "bad"
  /\ UNCHANGED <<phase, regFile, reg, userRow, starts, lastId, made, torn, reload,
                 tornSecrets, unmarked, kept>>

SaveAtStop ==
  /\ phase = "save"
  /\ ~half
  /\ half' = TRUE
  /\ secFile' = "bad"
  /\ UNCHANGED <<phase, regFile, reg, secrets, userRow, starts, lastId, made, torn,
                 reload, tornSecrets, unmarked, kept>>

WriteSecrets ==
  /\ half
  /\ half' = FALSE
  /\ secFile' = IF secrets THEN "with" ELSE "without"
  /\ kept' = secrets
  /\ UNCHANGED <<regFile, userRow, starts, lastId, made, tornSecrets, unmarked>>

(* POST /system with the command reload for the daemon: a detached thread  *)
(* runs MicroService::Reload ten seconds later, whatever the main thread   *)
(* does then; LoadMyConfig gets the id, and that saves the registry.  Two  *)
(* reloads at a time would write the same: the bound is one.               *)
Booted == phase \notin Boot \cup {"down", "setid", "start"}

ReloadTruncate ==
  /\ Requests
  /\ Booted
  /\ ~reload
  /\ reload' = TRUE
  /\ regFile' = [EmptyObject EXCEPT !.kind = "bad"]
  /\ UNCHANGED <<phase, half, reg, secFile, secrets, userRow, starts, lastId, made, torn,
                 tornSecrets, unmarked, kept>>

ReloadWrite ==
  /\ reload
  /\ reload' = FALSE
  /\ regFile' = reg
  /\ UNCHANGED <<phase, half, reg, secFile, secrets, userRow, starts, lastId, made, torn,
                 tornSecrets, unmarked, kept>>

(* The process ends, with it the threads that save.                        *)
MemoryGone ==
  /\ reg' = [EmptyObject EXCEPT !.kind = "missing"]
  /\ secrets' = FALSE
  /\ torn' = (torn \/ reload \/ (half /\ phase \in Boot))
  /\ reload' = FALSE

(* The process dies where it is.                                           *)
CrashFiles ==
  /\ phase # "down"
  /\ phase' = "down"
  /\ half' = FALSE
  /\ tornSecrets' = (tornSecrets \/ (half /\ phase \notin Boot))
  /\ unmarked' = (unmarked \/ phase = "mark")
  /\ MemoryGone
  /\ UNCHANGED <<regFile, secFile, userRow, starts, lastId, made, kept>>
=============================================================================
