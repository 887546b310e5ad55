---------------------------- MODULE ProvObjects ----------------------------
(***************************************************************************)
(* The objects of the provisioning service: the members that               *)
(* RESTObjects/RESTAPI_ProvObjects.h declares, by kind, and for each       *)
(* struct X the fields that X::to_json writes and X::from_json reads,      *)
(* XJson.                                                                  *)
(***************************************************************************)
EXTENDS JsonFields

ObjectInfo ==
     Text({"id", "name", "description"})
  @@ Number({"created", "modified"})
  @@ Numbers({"tags"})
  @@ Vector({"notes"})
ObjectInfoJson == Both(<<"id", "name", "description", "created", "modified", "notes",
                         "tags">>)

SerialNumberList == List({"serialNumbers"})
SerialNumberListJson == Both(<<"serialNumbers">>)

ManagementPolicyEntry == Text({"policy"}) @@ List({"users", "resources", "access"})
ManagementPolicyEntryJson == Both(<<"users", "resources", "access", "policy">>)

ManagementPolicy ==
     Embedded({"info"})
  @@ Text({"entity", "venue"})
  @@ List({"inUse"})
  @@ Vector({"entries"})
ManagementPolicyJson == Both(<<"info", "entries", "inUse", "entity">>)

RRMAlgorithmDetails == Text({"name", "parameters"})
RRMAlgorithmDetailsJson == Both(<<"name", "parameters">>)

RRMDetails == Text({"vendor", "schedule"}) @@ Vector({"algorithms"})
RRMDetailsJson == Both(<<"vendor", "schedule", "algorithms">>)

DeviceRules == Text({"rcOnly", "rrm", "firmwareUpgrade"})
DeviceRulesJson == Both(<<"rcOnly", "rrm", "firmwareUpgrade">>)

Entity ==
     Embedded({"info"})
  @@ Text({"parent", "managementPolicy"})
  @@ List({"children", "venues", "contacts", "locations", "deviceConfiguration", "devices",
           "sourceIP", "variables", "managementPolicies", "managementRoles", "maps",
           "configurations"})
  @@ Object({"deviceRules"})
EntityJson == Both(<<"info", "parent", "venues", "children", "contacts", "locations",
                     "managementPolicy", "deviceConfiguration", "devices", "deviceRules",
                     "sourceIP", "variables", "managementPolicies", "managementRoles",
                     "maps", "configurations">>)

DiGraphEntry == Text({"parent", "child"})
DiGraphEntryJson == Both(<<"parent", "child">>)

Venue ==
     Embedded({"info"})
  @@ Text({"entity", "parent", "managementPolicy", "design", "location"})
  @@ List({"children", "devices", "deviceConfiguration", "contacts", "sourceIP", "variables",
           "configurations", "maps", "managementPolicies", "managementRoles", "boards"})
  @@ Object({"deviceRules"})
  @@ Vector({"topology"})
VenueJson == Both(<<"info", "parent", "entity", "children", "devices", "topology", "parent",
                    "design", "managementPolicy", "deviceConfiguration", "contacts",
                    "location", "deviceRules", "sourceIP", "variables", "managementPolicies",
                    "managementRoles", "maps", "configurations", "boards">>)

UserInfoDigest == Text({"id", "loginId", "userType"})
UserInfoDigestJson == BothNamed(<<"id", "entity", "children">>,
                                <<"id", "loginId", "userType">>)

ManagementRole ==
     Embedded({"info"})
  @@ Text({"managementPolicy", "entity", "venue"})
  @@ List({"users", "inUse"})
ManagementRoleJson == Both(<<"info", "managementPolicy", "users", "entity", "venue">>)

Location ==
     Embedded({"info"})
  @@ Text({"buildingName", "city", "state", "postal", "country", "geoCode", "entity",
           "managementPolicy"})
  @@ LocationKind({"type"})
  @@ List({"addressLines", "phones", "mobiles", "inUse"})
LocationJson == Both(<<"info", "type", "buildingName", "addressLines", "city", "state",
                       "postal", "country", "phones", "mobiles", "geoCode", "inUse",
                       "entity", "managementPolicy">>)

OperatorLocation ==
     Embedded({"info"})
  @@ Text({"type", "buildingName", "city", "state", "postal", "country", "geoCode",
           "operatorId", "subscriberDeviceId", "managementPolicy"})
  @@ List({"addressLines", "phones", "mobiles"})
OperatorLocationJson == Both(<<"info", "type", "buildingName", "addressLines", "city",
                               "state", "postal", "country", "phones", "mobiles", "geoCode",
                               "operatorId", "subscriberDeviceId", "managementPolicy">>)

SubLocation ==
     Text({"type", "buildingName", "city", "state", "postal", "country", "geoCode"})
  @@ List({"addressLines", "phones", "mobiles"})
SubLocationJson == Both(<<"type", "buildingName", "addressLines", "city", "state", "postal",
                          "country", "phones", "mobiles", "geoCode">>)

OperatorLocationList == Vector({"locations"})
OperatorLocationListJson == Both(<<"locations">>)

Contact ==
     Embedded({"info"})
  @@ Text({"title", "salutation", "firstname", "lastname", "initials", "visual",
           "primaryEmail", "secondaryEmail", "accessPIN", "entity", "managementPolicy"})
  @@ ContactKind({"type"})
  @@ List({"mobiles", "phones", "inUse"})
ContactJson == Both(<<"info", "type", "title", "salutation", "firstname", "lastname",
                      "initials", "visual", "mobiles", "phones", "primaryEmail",
                      "secondaryEmail", "accessPIN", "inUse", "entity", "managementPolicy">>)

OperatorContact ==
     Embedded({"info"})
  @@ Text({"type", "title", "salutation", "firstname", "lastname", "initials", "visual",
           "primaryEmail", "secondaryEmail", "accessPIN", "operatorId", "subscriberDeviceId",
           "managementPolicy"})
  @@ List({"mobiles", "phones"})
OperatorContactJson == Both(<<"info", "type", "title", "salutation", "firstname", "lastname",
                              "initials", "visual", "mobiles", "phones", "primaryEmail",
                              "secondaryEmail", "accessPIN", "operatorId",
                              "subscriberDeviceId", "managementPolicy">>)

SubContact ==
     Text({"type", "title", "salutation", "firstname", "lastname", "initials", "visual",
           "primaryEmail", "secondaryEmail", "accessPIN"})
  @@ List({"mobiles", "phones"})
SubContactJson == Both(<<"type", "title", "salutation", "firstname", "lastname", "initials",
                         "visual", "mobiles", "phones", "primaryEmail", "secondaryEmail",
                         "accessPIN">>)

OperatorContactList == Vector({"contacts"})
OperatorContactListJson == Both(<<"contacts">>)

DeviceConfigurationElement ==
     Text({"name", "description", "configuration"})
  @@ RawNumber({"weight"})
DeviceConfigurationElementJson == Both(<<"name", "description", "weight", "configuration">>)

DeviceConfiguration ==
     Embedded({"info"})
  @@ Text({"managementPolicy", "venue", "entity", "subscriber"})
  @@ Flag({"subscriberOnly"})
  @@ List({"deviceTypes", "inUse", "variables"})
  @@ Object({"deviceRules"})
  @@ Vector({"configuration"})
DeviceConfigurationJson ==
  Two(Same(<<"info", "managementPolicy", "deviceTypes", "subscriberOnly", "entity", "venue",
             "subscriber", "configuration", "inUse", "variables", "deviceRules">>),
      Same(<<"info", "managementPolicy", "deviceTypes", "inUse", "variables",
             "subscriberOnly", "entity", "venue", "subscriber", "configuration",
             "deviceRules">>))

InventoryTag ==
     Embedded({"info"})
  @@ Text({"serialNumber", "venue", "entity", "subscriber", "deviceType", "qrCode",
           "geoCode", "location", "contact", "deviceConfiguration", "managementPolicy",
           "state", "devClass", "locale", "realMacAddress", "platform"})
  @@ Flag({"doNotAllowOverrides"})
  @@ Number({"imported", "connected"})
  @@ Object({"deviceRules"})
InventoryTagJson == Both(<<"info", "serialNumber", "venue", "entity", "subscriber",
                           "deviceType", "qrCode", "geoCode", "location", "contact",
                           "deviceConfiguration", "deviceRules", "managementPolicy", "state",
                           "devClass", "locale", "realMacAddress", "doNotAllowOverrides",
                           "imported", "connected", "platform">>)

InventoryTagList == Vector({"taglist"})
InventoryTagListJson == Both(<<"taglist">>)

InventoryConfigApplyResult ==
     Text({"appliedConfiguration"})
  @@ RawNumber({"errorCode"})
  @@ List({"errors", "warnings"})
InventoryConfigApplyResultJson == Both(<<"appliedConfiguration", "warnings", "errors",
      "errorCode">>)

Report == Number({"snapShot"}) @@ Counters({"tenants"})
ReportJson == WriteOnly(Named(<<"snapshot", "devices">>,
                              <<"snapShot", "tenants">>))

ExpandedUseEntry == Text({"uuid", "name", "description"})
ExpandedUseEntryJson == Both(<<"uuid", "name", "description">>)

ExpandedUseEntryList == Text({"type"}) @@ Vector({"entries"})
ExpandedUseEntryListJson == Both(<<"type", "entries">>)

ExpandedUseEntryMapList == Vector({"entries"})
ExpandedUseEntryMapListJson == Both(<<"entries">>)

UuidList == List({"list"})
UuidListJson == Both(<<"list">>)

ObjectACL == Number({"access"}) @@ Object({"users", "roles"})
ObjectACLJson == Both(<<"users", "roles", "access">>)

ObjectACLList == Vector({"list"})
ObjectACLListJson == Both(<<"list">>)

Map ==
     Embedded({"info"})
  @@ Text({"data", "entity", "creator", "visibility", "managementPolicy", "venue"})
  @@ Object({"access"})
MapJson == Both(<<"info", "data", "entity", "creator", "visibility", "access",
                  "managementPolicy", "venue">>)

MapList == Vector({"list"})
MapListJson == Both(<<"list">>)

SignupEntry ==
     Embedded({"info"})
  @@ Text({"email", "userId", "macAddress", "serialNumber", "status", "deviceID",
           "registrationId", "operatorId"})
  @@ Number({"submitted", "completed", "error", "statusCode"})
SignupEntryJson == Both(<<"info", "email", "userId", "macAddress", "serialNumber",
                          "submitted", "completed", "status", "error", "statusCode",
                          "deviceID", "registrationId", "operatorId">>)

Variable == Text({"type", "prefix", "value"}) @@ Number({"weight"})
VariableJson == Both(<<"type", "weight", "prefix", "value">>)

VariableList == Vector({"variables"})
VariableListJson == Both(<<"variables">>)

VariableBlock ==
     Embedded({"info"})
  @@ Text({"entity", "venue", "subscriber", "inventory", "managementPolicy"})
  @@ List({"configurations"})
  @@ Vector({"variables"})
VariableBlockJson == Both(<<"info", "variables", "entity", "venue", "subscriber",
                            "inventory", "configurations", "managementPolicy">>)

VariableBlockList == Vector({"variableBlocks"})
VariableBlockListJson == Both(<<"variableBlocks">>)

Operator ==
     Embedded({"info"})
  @@ Text({"managementPolicy", "registrationId"})
  @@ Flag({"defaultOperator"})
  @@ List({"managementRoles", "sourceIP"})
  @@ Object({"deviceRules"})
  @@ Vector({"variables"})
OperatorJson == Both(<<"info", "managementPolicy", "managementRoles", "deviceRules",
                       "variables", "defaultOperator", "sourceIP", "registrationId">>)

OperatorList == Vector({"operators"})
OperatorListJson == Both(<<"operators">>)

VenueDeviceList == Text({"id", "name", "description"}) @@ List({"devices"})
VenueDeviceListJson == Both(<<"id", "name", "description", "devices">>)

ServiceClass ==
     Embedded({"info"})
  @@ Text({"operatorId", "managementPolicy", "currency", "period", "billingCode"})
  @@ Flag({"defaultService"})
  @@ Number({"cost"})
  @@ Vector({"variables"})
ServiceClassJson == Both(<<"info", "operatorId", "managementPolicy", "cost", "currency",
                           "period", "billingCode", "variables", "defaultService">>)

ServiceClassList == Vector({"serviceClasses"})
ServiceClassListJson == Both(<<"serviceClasses">>)

ConfigurationDetails ==
     Text({"rrm", "firmwareUpgrade", "firmwareRCOnly"})
  @@ Vector({"configuration"})
ConfigurationDetailsJson == Both(<<"configuration", "rrm", "firmwareRCOnly",
                                   "firmwareUpgrade">>)

SubscriberDevice ==
     Embedded({"info"})
  @@ Text({"serialNumber", "deviceType", "operatorId", "subscriberId", "managementPolicy",
           "serviceClass", "qrCode", "geoCode", "state", "locale", "billingCode",
           "realMacAddress"})
  @@ Flag({"suspended"})
  @@ Object({"location", "contact", "deviceRules"})
  @@ Vector({"configuration"})
SubscriberDeviceJson == Both(<<"info", "serialNumber", "deviceType", "operatorId",
                               "subscriberId", "location", "contact", "managementPolicy",
                               "serviceClass", "qrCode", "geoCode", "deviceRules", "state",
                               "locale", "billingCode", "configuration", "suspended",
                               "realMacAddress">>)

SubscriberDeviceList == Vector({"subscriberDevices"})
SubscriberDeviceListJson == Both(<<"subscriberDevices">>)

ConfigurationOverride ==
     Text({"source", "reason", "parameterName", "parameterType", "parameterValue"})
  @@ RawNumber({"modified"})
ConfigurationOverrideJson == Both(<<"source", "reason", "parameterName", "parameterType",
      "parameterValue", "modified">>)

ConfigurationOverrideList ==
     Text({"serialNumber", "managementPolicy"})
  @@ Vector({"overrides"})
ConfigurationOverrideListJson == Both(<<"serialNumber", "managementPolicy", "overrides">>)

GLBLRAccountInfo ==
     Embedded({"info"})
  @@ Text({"privateKey", "country", "province", "city", "organization", "commonName", "CSR",
           "CSRPrivateKey", "CSRPublicKey", "GlobalReachAcctId"})
GLBLRAccountInfoJson == Both(<<"info", "privateKey", "country", "province", "city",
                               "organization", "commonName", "CSR", "CSRPrivateKey",
                               "CSRPublicKey", "GlobalReachAcctId">>)

GLBLRCertificateInfo ==
     Text({"id", "name", "accountId", "csr", "certificate", "certificateChain",
           "certificateId"})
  @@ Number({"expiresAt", "created"})
GLBLRCertificateInfoJson == Both(<<"id", "name", "accountId", "csr", "certificate",
                                   "certificateChain", "certificateId", "expiresAt",
                                   "created">>)

GooglOrionAccountInfo ==
     Embedded({"info"})
  @@ Text({"privateKey", "certificate"})
  @@ List({"cacerts"})
GooglOrionAccountInfoJson == Both(<<"info", "privateKey", "certificate", "cacerts">>)

RADIUSServer == Text({"Hostname", "IP", "Secret"}) @@ Number({"Port"})
RADIUSServerJson == Both(<<"Hostname", "IP", "Port", "Secret">>)

RADIUSEndPointRadiusType ==
     Number({"AccountingInterval"})
  @@ Vector({"Authentication", "Accounting", "CoA"})
RADIUSEndPointRadiusTypeJson == Both(<<"Authentication", "Accounting", "CoA",
      "AccountingInterval">>)

RADIUSEndPointRadsecType ==
     Text({"Hostname", "IP", "Secret", "OpenRoamingType", "UseOpenRoamingAccount",
           "Certificate", "PrivateKey"})
  @@ Flag({"AllowSelfSigned"})
  @@ Number({"Port", "Weight"})
  @@ List({"CaCerts"})
RADIUSEndPointRadsecTypeJson == Both(<<"Hostname", "IP", "Port", "Secret", "OpenRoamingType",
      "UseOpenRoamingAccount", "Weight", "Certificate", "PrivateKey", "CaCerts",
      "AllowSelfSigned">>)

RADIUSEndPoint ==
     Embedded({"info"})
  @@ Text({"Type", "PoolStrategy", "Index", "NasIdentifier"})
  @@ Flag({"UseGWProxy"})
  @@ Number({"AccountingInterval"})
  @@ List({"UsedBy"})
  @@ Vector({"RadiusServers", "RadsecServers"})
RADIUSEndPointJson == Both(<<"info", "Type", "RadsecServers", "RadiusServers",
                             "PoolStrategy", "Index", "UsedBy", "UseGWProxy",
                             "NasIdentifier", "AccountingInterval">>)

RADIUSEndpointUpdateStatus == Number({"lastUpdate", "lastConfigurationChange"})
RADIUSEndpointUpdateStatusJson == Both(<<"lastUpdate", "lastConfigurationChange">>)

-----------------------------------------------------------------------------
\* The structs that are sent or received.
Classes ==
  [ObjectInfo |-> Class(ObjectInfo, ObjectInfoJson),
   SerialNumberList |-> Class(SerialNumberList, SerialNumberListJson),
   ManagementPolicyEntry |-> Class(ManagementPolicyEntry, ManagementPolicyEntryJson),
   ManagementPolicy |-> Class(ManagementPolicy, ManagementPolicyJson),
   RRMAlgorithmDetails |-> Class(RRMAlgorithmDetails, RRMAlgorithmDetailsJson),
   RRMDetails |-> Class(RRMDetails, RRMDetailsJson),
   DeviceRules |-> Class(DeviceRules, DeviceRulesJson), Entity |-> Class(Entity, EntityJson),
   DiGraphEntry |-> Class(DiGraphEntry, DiGraphEntryJson), Venue |-> Class(Venue, VenueJson),
   UserInfoDigest |-> Class(UserInfoDigest, UserInfoDigestJson),
   ManagementRole |-> Class(ManagementRole, ManagementRoleJson),
   Location |-> Class(Location, LocationJson),
   OperatorLocation |-> Class(OperatorLocation, OperatorLocationJson),
   SubLocation |-> Class(SubLocation, SubLocationJson),
   OperatorLocationList |-> Class(OperatorLocationList, OperatorLocationListJson),
   Contact |-> Class(Contact, ContactJson),
   OperatorContact |-> Class(OperatorContact, OperatorContactJson),
   SubContact |-> Class(SubContact, SubContactJson),
   OperatorContactList |-> Class(OperatorContactList, OperatorContactListJson),
   DeviceConfigurationElement |-> Class(DeviceConfigurationElement, DeviceConfigurationElementJson),
   DeviceConfiguration |-> Class(DeviceConfiguration, DeviceConfigurationJson),
   InventoryTag |-> Class(InventoryTag, InventoryTagJson),
   InventoryTagList |-> Class(InventoryTagList, InventoryTagListJson),
   InventoryConfigApplyResult |-> Class(InventoryConfigApplyResult, InventoryConfigApplyResultJson),
   Report |-> Class(Report, ReportJson),
   ExpandedUseEntry |-> Class(ExpandedUseEntry, ExpandedUseEntryJson),
   ExpandedUseEntryList |-> Class(ExpandedUseEntryList, ExpandedUseEntryListJson),
   ExpandedUseEntryMapList |-> Class(ExpandedUseEntryMapList, ExpandedUseEntryMapListJson),
   UuidList |-> Class(UuidList, UuidListJson), ObjectACL |-> Class(ObjectACL, ObjectACLJson),
   ObjectACLList |-> Class(ObjectACLList, ObjectACLListJson), Map |-> Class(Map, MapJson),
   MapList |-> Class(MapList, MapListJson),
   SignupEntry |-> Class(SignupEntry, SignupEntryJson),
   Variable |-> Class(Variable, VariableJson),
   VariableList |-> Class(VariableList, VariableListJson),
   VariableBlock |-> Class(VariableBlock, VariableBlockJson),
   VariableBlockList |-> Class(VariableBlockList, VariableBlockListJson),
   Operator |-> Class(Operator, OperatorJson),
   OperatorList |-> Class(OperatorList, OperatorListJson),
   VenueDeviceList |-> Class(VenueDeviceList, VenueDeviceListJson),
   ServiceClass |-> Class(ServiceClass, ServiceClassJson),
   ServiceClassList |-> Class(ServiceClassList, ServiceClassListJson),
   ConfigurationDetails |-> Class(ConfigurationDetails, ConfigurationDetailsJson),
   SubscriberDevice |-> Class(SubscriberDevice, SubscriberDeviceJson),
   SubscriberDeviceList |-> Class(SubscriberDeviceList, SubscriberDeviceListJson),
   ConfigurationOverride |-> Class(ConfigurationOverride, ConfigurationOverrideJson),
   ConfigurationOverrideList |-> Class(ConfigurationOverrideList, ConfigurationOverrideListJson),
   GLBLRAccountInfo |-> Class(GLBLRAccountInfo, GLBLRAccountInfoJson),
   GLBLRCertificateInfo |-> Class(GLBLRCertificateInfo, GLBLRCertificateInfoJson),
   GooglOrionAccountInfo |-> Class(GooglOrionAccountInfo, GooglOrionAccountInfoJson),
   RADIUSServer |-> Class(RADIUSServer, RADIUSServerJson),
   RADIUSEndPointRadiusType |-> Class(RADIUSEndPointRadiusType, RADIUSEndPointRadiusTypeJson),
   RADIUSEndPointRadsecType |-> Class(RADIUSEndPointRadsecType, RADIUSEndPointRadsecTypeJson),
   RADIUSEndPoint |-> Class(RADIUSEndPoint, RADIUSEndPointJson),
   RADIUSEndpointUpdateStatus |-> Class(RADIUSEndpointUpdateStatus, RADIUSEndpointUpdateStatusJson)]
=============================================================================
