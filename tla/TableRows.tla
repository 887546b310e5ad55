----------------------------- MODULE TableRows -----------------------------
(***************************************************************************)
(* The rows of the service's tables: for each table the columns of its     *)
(* FieldVec, and by position the member that Convert puts into the tuple   *)
(* and the member it takes from it (storage/orm_*.cpp).  Vectors and       *)
(* objects are stored as JSON text, written by RESTAPI_utils::to_string    *)
(* and read by to_object_array, to_stringpair_array and to_object.         *)
(***************************************************************************)
EXTENDS SecurityObjects

\* to_string, on the members that are not stored as they are; an empty vector
\* is the text "[]", which reads as an empty vector again.
ToColumn(kind, v) == IF kind = "userRole" THEN UserTypeToString(v) ELSE v

\* The text of a JSON column may be empty ("none": Upgrade adds columns with
\* default '') or unreadable ("odd").
ColumnForms(kind) ==
  IF kind \in {"list", "pairs", "vector", "object"} THEN {"none", "odd"} ELSE {}

\* to_object_array and to_stringpair_array return what they read before the
\* error they catch.
ArrayFromColumn(text) ==
  CASE text = "none" -> "unset" [] text = "odd" -> "part" [] OTHER -> text

\* to_object reads an empty text as a fresh object and catches nothing.
ObjectFromColumn(text) == IF text \in {"none", "odd"} THEN "unset" ELSE text

ColumnThrows(kind, text) == kind = "object" /\ text = "odd"

FromColumn(kind, text) ==
  CASE kind = "userRole" -> UserTypeFromString(text)
    [] kind \in {"list", "pairs", "vector"} -> ArrayFromColumn(text)
    [] kind = "object" -> ObjectFromColumn(text)
    [] OTHER -> text

-----------------------------------------------------------------------------
\* A table: the members of its record, its columns and the two Converts.
Table(members, columns, put, get) ==
  Class(members, Two(Named(columns, put), Named(columns, get)))

ToRow(table, object) ==
  [c \in {table.to[i][1] : i \in DOMAIN table.to} |->
     LET m == table.to[CHOOSE i \in DOMAIN table.to : table.to[i][1] = c][2]
     IN ToColumn(table.members[m], object[m])]

\* Convert(tuple, record).  The functions that read rows catch what it throws
\* and find nothing.
FromRow(table, row) ==
  LET Position(m) == {i \in DOMAIN table.from : table.from[i][2] = m}
      Cell(m) == row[table.from[CHOOSE i \in Position(m) : TRUE][1]]
  IN [ok |-> \A m \in DOMAIN table.members :
               Position(m) # {} => ~ColumnThrows(table.members[m], Cell(m)),
      object |-> [m \in DOMAIN table.members |->
                    IF Position(m) = {} THEN Fresh(table.members[m])
                    ELSE FromColumn(table.members[m], Cell(m))]]

-----------------------------------------------------------------------------
\* Users and Subscribers.
BaseUserDB_Fields ==
  <<"id", "name", "description", "avatar", "email", "validated", "validationEmail",
    "validationDate", "creationDate", "validationURI", "changePassword", "lastLogin",
    "currentLoginURI", "lastPasswordChange", "lastEmailCheck", "waitingForEmailCheck",
    "locale", "notes", "location", "owner", "createdBy", "suspended", "blackListed",
    "userRole", "userTypeProprietaryInfo", "securityPolicy", "securityPolicyChange",
    "currentPassword", "lastPasswords", "oauthType", "oauthUserInfo", "modified",
    "signingUp">>
UserToRow ==
  <<"id", "name", "description", "avatar", "email", "validated", "validationEmail",
    "validationDate", "creationDate", "validationURI", "changePassword", "lastLogin",
    "currentLoginURI", "lastPasswordChange", "lastEmailCheck", "waitingForEmailCheck",
    "locale", "notes", "location", "owner", "createdBy", "suspended", "blackListed",
    "userRole", "userTypeProprietaryInfo", "securityPolicy", "securityPolicyChange",
    "currentPassword", "lastPasswords", "oauthType", "oauthUserInfo", "modified",
    "signingUp">>
UserFromRow ==
  <<"id", "name", "description", "avatar", "email", "validated", "validationEmail",
    "validationDate", "creationDate", "validationURI", "changePassword", "lastLogin",
    "currentLoginURI", "lastPasswordChange", "lastEmailCheck", "waitingForEmailCheck",
    "locale", "notes", "location", "owner", "createdBy", "suspended", "blackListed",
    "userRole", "userTypeProprietaryInfo", "securityPolicy", "securityPolicyChange",
    "currentPassword", "lastPasswords", "oauthType", "oauthUserInfo", "modified",
    "signingUp">>

\* Tokens and SubTokens.
BaseTokenDB_Fields == <<"token", "refreshToken", "tokenType", "userName", "created", "expires",
                        "idleTimeOut", "revocationDate", "lastRefresh">>
TokenToRow == <<"token", "refreshToken", "tokenType", "userName", "created", "expires",
                "idleTimeout", "revocationDate", "lastRefresh">>
TokenFromRow == <<"token", "refreshToken", "tokenType", "userName", "created", "expires",
                  "idleTimeout", "revocationDate", "lastRefresh">>

ActionLinksDB_Fields == <<"id", "action", "userId", "actionTemplate", "variables", "locale",
                          "message", "sent", "created", "expires", "completed", "canceled",
                          "userAction">>
ActionLinkToRow == <<"id", "action", "userId", "actionTemplate", "variables", "locale",
                     "message", "sent", "created", "expires", "completed", "canceled",
                     "userAction">>
ActionLinkFromRow == <<"id", "action", "userId", "actionTemplate", "variables", "locale",
                       "message", "sent", "created", "expires", "completed", "canceled",
                       "userAction">>

ApiKeyDB_Fields == <<"id", "userUuid", "name", "description", "apiKey", "salt", "created",
                     "expiresOn", "rights", "lastUse">>
ApiKeyToRow == <<"id", "userUuid", "name", "description", "apiKey", "salt", "created",
                 "expiresOn", "rights", "lastUse">>
ApiKeyFromRow == <<"id", "userUuid", "name", "description", "apiKey", "salt", "created",
                   "expiresOn", "rights", "lastUse">>

\* Avatars and SubAvatars.
AvatarDB_Fields == <<"id", "type", "created", "name", "avatar">>
AvatarToRow == <<"id", "type", "created", "name", "avatar">>
AvatarFromRow == <<"id", "type", "created", "name", "avatar">>

\* Logins and SubLogins.
LoginDB_Fields == <<"session", "userId", "email", "login", "logout">>
LoginToRow == <<"sessionId", "userId", "email", "login", "logout">>
LoginFromRow == <<"sessionId", "userId", "email", "login", "logout">>

\* Preferences and SubPreferences.
PreferencesDB_Fields == <<"id", "modified", "data">>
PreferencesToRow == <<"id", "modified", "data">>
PreferencesFromRow == <<"id", "modified", "data">>

\* The tables.  Of the rights of a key the row keeps the vector acls.
Tables ==
  [UserDB |-> Table(UserInfo, BaseUserDB_Fields, UserToRow, UserFromRow),
   TokenDB |-> Table(Token, BaseTokenDB_Fields, TokenToRow, TokenFromRow),
   ActionLinkDB |-> Table(ActionLink, ActionLinksDB_Fields, ActionLinkToRow, ActionLinkFromRow),
   ApiKeyDB |-> Table([ApiKeyEntry EXCEPT !["rights"] = "vector"], ApiKeyDB_Fields,
                      ApiKeyToRow, ApiKeyFromRow),
   AvatarDB |-> Table(Avatar, AvatarDB_Fields, AvatarToRow, AvatarFromRow),
   LoginDB |-> Table(LoginRecordInfo, LoginDB_Fields, LoginToRow, LoginFromRow),
   PreferencesDB |-> Table(Preferences, PreferencesDB_Fields, PreferencesToRow,
                           PreferencesFromRow)]
=============================================================================
