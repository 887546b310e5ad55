------------------------------ MODULE AclRules ------------------------------
(***************************************************************************)
(* The access rules of ACLProcessor that RESTAPI_user_handler applies to a *)
(* caller and a target.  A user is a record with the fields the rules look *)
(* at: id, role, createdBy (NoCreator when the field is empty).  The rule  *)
(* table ACLProcessor::Can belongs to the subscriber handler.              *)
(***************************************************************************)
CONSTANT NoCreator

RoleNames == {"root", "partner", "admin", "subscriber", "csr", "system",
              "installer", "noc", "accounting"}

IsRoot(user) == user.role = "root"

IsAdmin(user) == user.role = "admin"

IsSelf(user, target) == user.id = target.id

WasCreatedBy(user, target) ==
  target.createdBy # NoCreator /\ target.createdBy = user.id

IsNonRootTarget(target) == target.role # "root"

CanCreateUserRecord(user, target) ==
  \/ IsRoot(user)
  \/ IsAdmin(user) /\ IsNonRootTarget(target) /\ target.role # "partner"

\* Mutant: the test for self-deletion is missing.
CanDeleteSelf(user, target) ==
  \/ IsRoot(user)
  \/ IsAdmin(user) /\ WasCreatedBy(user, target) /\ IsNonRootTarget(target)

\* Mutant: an admin deletes whom he wants.
CanDeleteAsAdmin(user, target) ==
  /\ ~IsSelf(user, target)
  /\ IsRoot(user) \/ IsAdmin(user)

CanDeleteUserRecord(user, target) ==
  /\ ~IsSelf(user, target)
  /\ \/ IsRoot(user)
     \/ IsAdmin(user) /\ WasCreatedBy(user, target) /\ IsNonRootTarget(target)

\* Mutant: an admin modifies every user who is not root.
CanModifyAnyNonRoot(user, target) ==
  \/ IsRoot(user)
  \/ IsSelf(user, target) /\ IsNonRootTarget(target)
  \/ IsAdmin(user) /\ IsNonRootTarget(target)

CanModifyUserRecord(user, target) ==
  \/ IsRoot(user)
  \/ IsSelf(user, target) /\ IsNonRootTarget(target)
  \/ IsAdmin(user) /\ IsNonRootTarget(target) /\ WasCreatedBy(user, target)

CanResetUserMFA(user, target) ==
  \/ IsRoot(user)
  \/ IsSelf(user, target) /\ IsNonRootTarget(target)
  \/ IsAdmin(user) /\ IsNonRootTarget(target) /\ WasCreatedBy(user, target)

\* Mutant: an admin gives any role to whom he created.
CanGiveAnyRole(user, target, newRole) ==
  /\ ~IsSelf(user, target)
  /\ \/ IsRoot(user)
     \/ IsAdmin(user) /\ IsNonRootTarget(target) /\ WasCreatedBy(user, target)

CanChangeUserRole(user, target, newRole) ==
  /\ ~IsSelf(user, target)
  /\ \/ IsRoot(user)
     \/ /\ IsAdmin(user)
        /\ newRole # "root"
        /\ IsNonRootTarget(target)
        /\ WasCreatedBy(user, target)

\* RESTAPI_user_handler: neither root nor admin.
IsSelfServiceCaller(user) == ~IsRoot(user) /\ ~IsAdmin(user)
=============================================================================
