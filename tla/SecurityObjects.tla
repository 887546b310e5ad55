-------------------------- MODULE SecurityObjects --------------------------
(***************************************************************************)
(* The objects of the security service itself: the members that            *)
(* RESTObjects/RESTAPI_SecurityObjects.h declares, by kind, and for each   *)
(* struct X the fields that X::to_json writes and X::from_json reads,      *)
(* XJson.                                                                  *)
(***************************************************************************)
EXTENDS JsonFields

AclTemplate == Flag({"Read_", "ReadWrite_", "ReadWriteCreate_", "Delete_", "PortalLogin_"})
AclTemplateToJson == Named(<<"Read", "ReadWrite", "ReadWriteCreate", "Delete",
                             "PortalLogin">>,
                           <<"Read_", "ReadWrite_", "ReadWriteCreate_", "Delete_",
                             "PortalLogin_">>)
AclTemplateFromJson == Named(<<"Read", "ReadWrite", "ReadWriteCreate", "Delete",
                               "PortalLogin">>,
                             <<"Read_", "ReadWrite_", "ReadWriteCreate_", "Delete_",
                               "PortalLogin_">>)
AclTemplateJson == Two(AclTemplateToJson, AclTemplateFromJson)

WebToken ==
     Text({"access_token_", "refresh_token_", "id_token_", "token_type_", "username_"})
  @@ Flag({"userMustChangePassword"})
  @@ Number({"errorCode", "expires_in_", "idle_timeout_", "created_", "lastRefresh_"})
  @@ Object({"acl_template_"})
WebTokenJson ==
  Two(Named(<<"access_token", "refresh_token", "token_type", "expires_in", "idle_timeout",
              "created", "username", "userMustChangePassword", "errorCode", "aclTemplate",
              "errorCode", "lastRefresh">>,
            <<"access_token_", "refresh_token_", "token_type_", "expires_in_",
              "idle_timeout_", "created_", "username_", "userMustChangePassword",
              "errorCode", "acl_template_", "errorCode", "lastRefresh_">>),
      Named(<<"aclTemplate", "access_token", "refresh_token", "token_type", "expires_in",
              "idle_timeout", "created", "username", "userMustChangePassword",
              "lastRefresh">>,
            <<"acl_template_", "access_token_", "refresh_token_", "token_type_",
              "expires_in_", "idle_timeout_", "created_", "username_",
              "userMustChangePassword", "lastRefresh_">>))

NoteInfo == Text({"createdBy", "note"}) @@ Number({"created"})
NoteInfoJson == Both(<<"created", "createdBy", "note">>)

MobilePhoneNumber == Text({"number"}) @@ Flag({"verified", "primary"})
MobilePhoneNumberJson == Both(<<"number", "verified", "primary">>)

MfaAuthInfo == Text({"method"}) @@ Flag({"enabled"})
MfaAuthInfoJson == Both(<<"enabled", "method">>)

UserLoginLoginExtensions ==
     Text({"authenticatorSecret"})
  @@ Object({"mfa"})
  @@ Vector({"mobiles"})
UserLoginLoginExtensionsJson == Both(<<"mobiles", "mfa", "authenticatorSecret">>)

MFAChallengeRequest == Text({"uuid", "question", "method"}) @@ Number({"created"})
MFAChallengeRequestJson == Both(<<"uuid", "question", "created", "method">>)

MFAChallengeResponse == Text({"uuid", "answer"})
MFAChallengeResponseJson == Both(<<"uuid", "answer">>)

UserInfo ==
     Text({"id", "name", "description", "avatar", "email", "validationEmail",
           "validationURI", "currentLoginURI", "locale", "location", "owner", "createdBy",
           "securityPolicy", "currentPassword", "oauthType", "oauthUserInfo", "signingUp"})
  @@ UserRole({"userRole"})
  @@ Flag({"validated", "changePassword", "waitingForEmailCheck", "suspended", "blackListed"})
  @@ Number({"validationDate", "creationDate", "lastLogin", "lastPasswordChange",
             "lastEmailCheck", "securityPolicyChange", "modified"})
  @@ List({"lastPasswords"})
  @@ Object({"userTypeProprietaryInfo"})
  @@ Vector({"notes"})
UserInfoJson ==
  Two(Same(<<"id", "name", "description", "avatar", "email", "validated", "validationEmail",
             "validationDate", "creationDate", "validationURI", "changePassword",
             "lastLogin", "currentLoginURI", "lastPasswordChange", "lastEmailCheck",
             "waitingForEmailCheck", "locale", "notes", "location", "owner", "createdBy",
             "suspended", "blackListed", "userRole", "userTypeProprietaryInfo",
             "securityPolicy", "securityPolicyChange", "currentPassword", "lastPasswords",
             "oauthType", "oauthUserInfo", "modified", "signingUp">>),
      Same(<<"id", "name", "description", "avatar", "email", "validationEmail",
             "validationURI", "currentLoginURI", "locale", "notes", "location", "owner",
             "createdBy", "userRole", "securityPolicy", "userTypeProprietaryInfo",
             "validationDate", "creationDate", "lastLogin", "lastPasswordChange",
             "lastEmailCheck", "securityPolicyChange", "validated", "changePassword",
             "waitingForEmailCheck", "suspended", "blackListed", "currentPassword",
             "lastPasswords", "oauthType", "oauthUserInfo", "modified", "signingUp">>))

UserInfoList == Vector({"users"})
UserInfoListJson == Both(<<"users">>)

InternalServiceInfo == Text({"privateURI", "publicURI", "token"})
InternalServiceInfoJson == Both(<<"privateURI", "publicURI", "token">>)

InternalSystemServices == Text({"key", "version"}) @@ Vector({"services"})
InternalSystemServicesJson == Both(<<"key", "version", "services">>)

SystemEndpoint == Text({"type", "vendor", "uri", "authenticationType"}) @@ Number({"id"})
SystemEndpointJson == Both(<<"type", "id", "vendor", "uri", "authenticationType">>)

SystemEndpointList == Vector({"endpoints"})
SystemEndpointListJson == Both(<<"endpoints">>)

UserInfoAndPolicy == Object({"webtoken", "userinfo"})
UserInfoAndPolicyJson == BothNamed(<<"tokenInfo", "userInfo">>,
      <<"webtoken", "userinfo">>)

ProfileAction == Text({"resource"}) @@ AccessType({"access"})
ProfileActionJson == Both(<<"resource", "access">>)

SecurityProfile ==
     Text({"name", "description", "role"})
  @@ Number({"id"})
  @@ Vector({"policy", "notes"})
SecurityProfileJson == Both(<<"id", "name", "description", "policy", "role", "notes">>)

SecurityProfileList == Vector({"profiles"})
SecurityProfileListJson == Both(<<"profiles">>)

ActionLink ==
     Text({"id", "userId", "actionTemplate", "locale", "message"})
  @@ Flag({"userAction"})
  @@ Number({"sent", "created", "expires", "completed", "canceled"})
  @@ RawNumber({"action"})
  @@ Pairs({"variables"})
ActionLinkJson == Both(<<"id", "action", "userId", "actionTemplate", "variables", "locale",
                         "message", "sent", "created", "expires", "completed", "canceled",
                         "userAction">>)

Preferences == Text({"id"}) @@ RawNumber({"modified"}) @@ Pairs({"data"})
PreferencesJson == Both(<<"id", "modified", "data">>)

SubMfaConfig == Text({"id", "type", "sms", "email"})
SubMfaConfigJson == Both(<<"id", "type", "sms", "email">>)

Token ==
     Text({"token", "refreshToken", "tokenType", "userName"})
  @@ Number({"created", "expires", "idleTimeout", "revocationDate", "lastRefresh"})
TokenJson == Both(<<"token", "refreshToken", "tokenType", "userName", "created", "expires",
                    "idleTimeout", "revocationDate", "lastRefresh">>)

Avatar == Text({"id", "type", "name", "avatar"}) @@ Number({"created"})

LoginRecordInfo == Text({"sessionId", "userId", "email"}) @@ Number({"login", "logout"})
LoginRecordInfoJson == WriteOnly(Same(<<"sessionId", "userId", "email", "login", "logout">>))

ApiKeyAccessRight == Text({"service", "access"})
ApiKeyAccessRightJson == Both(<<"service", "access">>)

ApiKeyAccessRightList == Vector({"acls"})
ApiKeyAccessRightListJson == Both(<<"acls">>)

ApiKeyEntry ==
     Text({"id", "userUuid", "name", "description", "apiKey", "salt"})
  @@ Number({"expiresOn", "lastUse"})
  @@ RawNumber({"created"})
  @@ Object({"rights"})
ApiKeyEntryJson == Both(<<"id", "userUuid", "name", "apiKey", "salt", "description",
                          "expiresOn", "rights", "lastUse">>)

ApiKeyEntryList == Vector({"apiKeys"})
ApiKeyEntryListJson == Both(<<"apiKeys">>)

ExtraSystemConfiguration == Text({"parameterName", "parameterValue"})
ExtraSystemConfigurationJson == Both(<<"parameterName", "parameterValue">>)

-----------------------------------------------------------------------------
\* The structs that are sent or received.
Classes ==
  [AclTemplate |-> Class(AclTemplate, AclTemplateJson),
   WebToken |-> Class(WebToken, WebTokenJson), NoteInfo |-> Class(NoteInfo, NoteInfoJson),
   MobilePhoneNumber |-> Class(MobilePhoneNumber, MobilePhoneNumberJson),
   MfaAuthInfo |-> Class(MfaAuthInfo, MfaAuthInfoJson),
   UserLoginLoginExtensions |-> Class(UserLoginLoginExtensions, UserLoginLoginExtensionsJson),
   MFAChallengeRequest |-> Class(MFAChallengeRequest, MFAChallengeRequestJson),
   MFAChallengeResponse |-> Class(MFAChallengeResponse, MFAChallengeResponseJson),
   UserInfo |-> Class(UserInfo, UserInfoJson),
   UserInfoList |-> Class(UserInfoList, UserInfoListJson),
   InternalServiceInfo |-> Class(InternalServiceInfo, InternalServiceInfoJson),
   InternalSystemServices |-> Class(InternalSystemServices, InternalSystemServicesJson),
   SystemEndpoint |-> Class(SystemEndpoint, SystemEndpointJson),
   SystemEndpointList |-> Class(SystemEndpointList, SystemEndpointListJson),
   UserInfoAndPolicy |-> Class(UserInfoAndPolicy, UserInfoAndPolicyJson),
   ProfileAction |-> Class(ProfileAction, ProfileActionJson),
   SecurityProfile |-> Class(SecurityProfile, SecurityProfileJson),
   SecurityProfileList |-> Class(SecurityProfileList, SecurityProfileListJson),
   ActionLink |-> Class(ActionLink, ActionLinkJson),
   Preferences |-> Class(Preferences, PreferencesJson),
   SubMfaConfig |-> Class(SubMfaConfig, SubMfaConfigJson), Token |-> Class(Token, TokenJson),
   LoginRecordInfo |-> Class(LoginRecordInfo, LoginRecordInfoJson),
   ApiKeyAccessRight |-> Class(ApiKeyAccessRight, ApiKeyAccessRightJson),
   ApiKeyAccessRightList |-> Class(ApiKeyAccessRightList, ApiKeyAccessRightListJson),
   ApiKeyEntry |-> Class(ApiKeyEntry, ApiKeyEntryJson),
   ApiKeyEntryList |-> Class(ApiKeyEntryList, ApiKeyEntryListJson),
   ExtraSystemConfiguration |-> Class(ExtraSystemConfiguration, ExtraSystemConfigurationJson)]
=============================================================================
