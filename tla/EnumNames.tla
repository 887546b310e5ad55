----------------------------- MODULE EnumNames -----------------------------
(***************************************************************************)
(* The enumerations that travel by name: the functions that print and     *)
(* parse them, as the functions of RESTAPI_SecurityObjects.cpp and of      *)
(* RESTAPI_ProvObjects.h do.  An enumerator outside its enumeration is the *)
(* content of a variable nobody initialised ("garbage").                   *)
(***************************************************************************)
EXTENDS TLC

\* The value a table gives to a key, or what the last line of the function
\* returns when no case matches.
Lookup(table, key, default) == IF key \in DOMAIN table THEN table[key] ELSE default

\* USER_ROLE
UserRoles == {"UNKNOWN", "ROOT", "ADMIN", "SUBSCRIBER", "CSR", "SYSTEM", "INSTALLER", "NOC",
              "ACCOUNTING", "PARTNER"}

UserTypeToString(U) ==
  Lookup([ROOT |-> "root", ADMIN |-> "admin", SUBSCRIBER |-> "subscriber",
          PARTNER |-> "partner", CSR |-> "csr", SYSTEM |-> "system",
          INSTALLER |-> "installer", NOC |-> "noc", ACCOUNTING |-> "accounting"],
         U, "unknown")

\* What the parser would be with one of its comparisons missing.
UserTypeFromStringShort(U) ==
  Lookup([root |-> "ROOT", admin |-> "ADMIN", subscriber |-> "SUBSCRIBER",
          partner |-> "PARTNER", csr |-> "CSR", system |-> "SYSTEM",
          installer |-> "INSTALLER", noc |-> "NOC"],
         U, "UNKNOWN")

UserTypeFromString(U) ==
  Lookup([root |-> "ROOT", admin |-> "ADMIN", subscriber |-> "SUBSCRIBER",
          partner |-> "PARTNER", csr |-> "CSR", system |-> "SYSTEM",
          installer |-> "INSTALLER", noc |-> "NOC", accounting |-> "ACCOUNTING"],
         U, "UNKNOWN")

ResourceAccessTypes == {"NONE", "READ", "MODIFY", "DELETE", "CREATE", "TEST", "MOVE"}

ResourceAccessTypeToString(T) == IF T \in ResourceAccessTypes THEN T ELSE "NONE"

ResourceAccessTypeFromString(s) ==
  IF s \in {"READ", "MODIFY", "DELETE", "CREATE", "TEST", "MOVE"} THEN s ELSE "NONE"

LocationTypes == {"LT_SERVICE", "LT_EQUIPMENT", "LT_AUTO", "LT_MANUAL", "LT_SPECIAL",
                  "LT_UNKNOWN", "LT_CORPORATE"}

\* to_string(LocationType)
LocationToString(L) ==
  Lookup([LT_SERVICE |-> "SERVICE", LT_EQUIPMENT |-> "EQUIPMENT", LT_AUTO |-> "AUTO",
          LT_MANUAL |-> "MANUAL", LT_SPECIAL |-> "SPECIAL",
          LT_CORPORATE |-> "CORPORATE"],
         L, "UNKNOWN")

location_from_string(S) ==
  Lookup([SERVICE |-> "LT_SERVICE", EQUIPMENT |-> "LT_EQUIPMENT", AUTO |-> "LT_AUTO",
          MANUAL |-> "LT_MANUAL", SPECIAL |-> "LT_SPECIAL",
          CORPORATE |-> "LT_CORPORATE"],
         S, "LT_UNKNOWN")

ContactTypes == {"CT_SUBSCRIBER", "CT_USER", "CT_INSTALLER", "CT_CSR", "CT_MANAGER",
                 "CT_BUSINESSOWNER", "CT_TECHNICIAN", "CT_CORPORATE", "CT_UNKNOWN"}

\* to_string(ContactType)
ContactToString(L) ==
  Lookup([CT_SUBSCRIBER |-> "SUBSCRIBER", CT_USER |-> "USER",
          CT_INSTALLER |-> "INSTALLER", CT_CSR |-> "CSR", CT_MANAGER |-> "MANAGER",
          CT_BUSINESSOWNER |-> "BUSINESSOWNER", CT_TECHNICIAN |-> "TECHNICIAN",
          CT_CORPORATE |-> "CORPORATE"],
         L, "UNKNOWN")

\* The parser knows every name the printer uses but "MANAGER".
contact_from_string(S) ==
  Lookup([SUBSCRIBER |-> "CT_SUBSCRIBER", USER |-> "CT_USER",
          INSTALLER |-> "CT_INSTALLER", CSR |-> "CT_CSR",
          BUSINESSOWNER |-> "CT_BUSINESSOWNER", TECHNICIAN |-> "CT_TECHNICIAN",
          CORPORATE |-> "CT_CORPORATE"],
         S, "CT_UNKNOWN")
=============================================================================
