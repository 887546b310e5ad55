----------------------------- MODULE GWObjects -----------------------------
(***************************************************************************)
(* The objects of the gateway (controller): the members that               *)
(* RESTObjects/RESTAPI_GWobjects.h declares, by kind, and for each struct  *)
(* X the fields that X::to_json writes and X::from_json reads, XJson.      *)
(***************************************************************************)
EXTENDS JsonFields

ConnectionState ==
     Text({"Address", "Firmware", "VerifiedCertificate", "Compatible", "locale",
           "connectReason"})
  @@ Flag({"Connected", "hasGPS"})
  @@ Number({"MessageCount", "UUID", "PendingUUID", "TX", "RX", "Associations_2G",
             "Associations_5G", "Associations_6G", "LastContact", "kafkaClients",
             "webSocketClients", "kafkaPackets", "websocketPackets", "started", "sessionId",
             "connectionCompletionTime", "certificateExpiryDate", "hasRADIUSSessions",
             "sanity", "memoryUsed", "load", "temperature"})
ConnectionStateJson == WriteOnly(Named(<<"ipAddress", "txBytes", "rxBytes", "messageCount",
      "UUID", "connected", "firmware", "lastContact", "associations_2G", "associations_5G",
      "associations_6G", "webSocketClients", "websocketPackets", "kafkaClients",
      "kafkaPackets", "locale", "started", "sessionId", "connectionCompletionTime",
      "totalConnectionTime", "certificateExpiryDate", "connectReason", "hasRADIUSSessions",
      "hasGPS", "sanity", "memoryUsed", "sanity", "load", "temperature",
      "verifiedCertificate">>,
                                       <<"Address", "TX", "RX", "MessageCount", "UUID",
      "Connected", "Firmware", "LastContact", "Associations_2G", "Associations_5G",
      "Associations_6G", "webSocketClients", "websocketPackets", "kafkaClients",
      "kafkaPackets", "locale", "started", "sessionId", "connectionCompletionTime",
      "started", "certificateExpiryDate", "connectReason", "hasRADIUSSessions", "hasGPS",
      "sanity", "memoryUsed", "sanity", "load", "temperature", "VerifiedCertificate">>))

DeviceRestrictionsKeyInfo == Text({"vendor", "algo"})
DeviceRestrictionsKeyInfoJson == Both(<<"vendor", "algo">>)

DeviceRestrictions ==
     Flag({"dfs", "ssh", "rtty", "tty", "developer", "upgrade", "commands"})
  @@ List({"country"})
  @@ Object({"key_info"})
DeviceRestrictionsJson == Both(<<"dfs", "ssh", "rtty", "tty", "developer", "upgrade",
                                 "commands", "country", "key_info">>)

Device ==
     Text({"SerialNumber", "DeviceType", "MACAddress", "Manufacturer", "Owner", "Location",
           "Firmware", "Compatible", "FWUpdatePolicy", "Venue", "DevicePassword",
           "subscriber", "entity", "locale", "pendingConfiguration",
           "pendingConfigurationCmd"})
  @@ Document({"Configuration"})
  @@ Flag({"restrictedDevice", "simulated"})
  @@ Number({"UUID", "CreationTimestamp", "LastConfigurationChange",
             "LastConfigurationDownload", "LastFWUpdate", "modified", "pendingUUID",
             "lastRecordedContact"})
  @@ Object({"restrictionDetails"})
  @@ Vector({"Notes"})
DeviceToJson == Named(<<"serialNumber", "macAddress", "manufacturer", "UUID",
                        "configuration", "notes", "createdTimestamp",
                        "lastConfigurationChange", "lastConfigurationDownload",
                        "lastFWUpdate", "owner", "location", "venue", "firmware",
                        "compatible", "fwUpdatePolicy", "devicePassword", "subscriber",
                        "entity", "modified", "locale", "restrictedDevice",
                        "pendingConfiguration", "pendingConfigurationCmd",
                        "restrictionDetails", "pendingUUID", "simulated",
                        "lastRecordedContact">>,
                      <<"SerialNumber", "MACAddress", "Manufacturer", "UUID",
                        "Configuration", "Notes", "CreationTimestamp",
                        "LastConfigurationChange", "LastConfigurationDownload",
                        "LastFWUpdate", "Owner", "Location", "Venue", "Firmware",
                        "Compatible", "FWUpdatePolicy", "DevicePassword", "subscriber",
                        "entity", "modified", "locale", "restrictedDevice",
                        "pendingConfiguration", "pendingConfigurationCmd",
                        "restrictionDetails", "pendingUUID", "simulated",
                        "lastRecordedContact">>)
DeviceFromJson == Named(<<"serialNumber", "deviceType", "macAddress", "manufacturer", "UUID",
                          "configuration", "notes", "createdTimestamp",
                          "lastConfigurationChange", "lastConfigurationDownload",
                          "lastFWUpdate", "owner", "location", "venue", "firmware",
                          "compatible", "fwUpdatePolicy", "devicePassword", "subscriber",
                          "entity", "modified", "locale", "restrictedDevice",
                          "pendingConfiguration", "pendingConfigurationCmd",
                          "restrictionDetails", "pendingUUID", "simulated",
                          "lastRecordedContact">>,
                        <<"SerialNumber", "DeviceType", "MACAddress", "Manufacturer", "UUID",
                          "Configuration", "Notes", "CreationTimestamp",
                          "LastConfigurationChange", "LastConfigurationDownload",
                          "LastFWUpdate", "Owner", "Location", "Venue", "Firmware",
                          "Compatible", "FWUpdatePolicy", "DevicePassword", "subscriber",
                          "entity", "modified", "locale", "restrictedDevice",
                          "pendingConfiguration", "pendingConfigurationCmd",
                          "restrictionDetails", "pendingUUID", "simulated",
                          "lastRecordedContact">>)
DeviceJson == Two(DeviceToJson, DeviceFromJson)

DeviceConnectionStatistics ==
     Number({"connectedDevices", "averageConnectionTime", "connectingDevices"})
DeviceConnectionStatisticsJson == Both(<<"averageConnectionTime", "connectedDevices",
      "connectingDevices">>)

Statistics == Text({"SerialNumber"}) @@ Document({"Data"}) @@ Number({"UUID", "Recorded"})
StatisticsJson == WriteOnly(Named(<<"data", "UUID", "recorded">>,
                                  <<"Data", "UUID", "Recorded">>))

HealthCheck ==
     Text({"SerialNumber"})
  @@ Document({"Data"})
  @@ Number({"UUID", "Recorded", "Sanity"})
HealthCheckJson == WriteOnly(Named(<<"values", "UUID", "sanity", "recorded">>,
                                   <<"Data", "UUID", "Sanity", "Recorded">>))

Capabilities == Document({"Capabilities"}) @@ Number({"FirstUpdate", "LastUpdate"})
CapabilitiesJson == WriteOnly(Named(<<"capabilities", "firstUpdate", "lastUpdate">>,
                                    <<"Capabilities", "FirstUpdate", "LastUpdate">>))

DeviceLog ==
     Text({"SerialNumber", "Log"})
  @@ Document({"Data"})
  @@ Number({"Severity", "Recorded", "LogType", "UUID"})
DeviceLogJson == WriteOnly(Named(<<"data", "log", "severity", "recorded", "logType", "UUID">>,
                                 <<"Data", "Log", "Severity", "Recorded", "LogType", "UUID">>))

DefaultConfiguration ==
     Text({"Name", "Description"})
  @@ Document({"Configuration"})
  @@ RawNumber({"Created", "LastModified"})
  @@ List({"Models"})
DefaultConfigurationToJson == Named(<<"configuration", "name", "modelIds", "description",
      "created", "lastModified">>,
                                    <<"Configuration", "Name", "Models", "Description",
      "Created", "LastModified">>)
DefaultConfigurationFromJson == Named(<<"name", "configuration", "modelIds", "description">>,
                                      <<"Name", "Configuration", "Models", "Description">>)
DefaultConfigurationJson == Two(DefaultConfigurationToJson, DefaultConfigurationFromJson)

DefaultFirmware ==
     Text({"deviceType", "Description", "uri", "revision"})
  @@ RawNumber({"imageCreationDate", "Created", "LastModified"})
DefaultFirmwareJson == BothNamed(<<"deviceType", "description", "uri", "revision",
                                   "imageCreationDate", "created", "lastModified">>,
                                 <<"deviceType", "Description", "uri", "revision",
                                   "imageCreationDate", "Created", "LastModified">>)

CommandDetails ==
     Text({"UUID", "SerialNumber", "Command", "Status", "SubmittedBy", "ErrorText",
           "AttachType"})
  @@ Document({"Results", "Details"})
  @@ Flag({"deferred"})
  @@ Number({"Submitted", "Executed", "Completed", "RunAt", "ErrorCode", "Custom",
             "WaitingForFile", "AttachDate", "AttachSize", "executionTime", "lastTry"})
CommandDetailsJson == WriteOnly(Named(<<"details", "results", "UUID", "serialNumber",
      "command", "errorText", "submittedBy", "status", "submitted", "executed", "completed",
      "when", "errorCode", "custom", "waitingForFile", "attachFile", "executionTime",
      "lastTry", "deferred">>,
                                      <<"Details", "Results", "UUID", "SerialNumber",
      "Command", "ErrorText", "SubmittedBy", "Status", "Submitted", "Executed", "Completed",
      "RunAt", "ErrorCode", "Custom", "WaitingForFile", "AttachDate", "executionTime",
      "lastTry", "deferred">>))

BlackListedDevice == Text({"serialNumber", "reason", "author"}) @@ RawNumber({"created"})
BlackListedDeviceJson == Both(<<"serialNumber", "author", "reason", "created">>)

RttySessionDetails ==
     Text({"SerialNumber", "Server", "Token", "ConnectionId", "CommandUUID",
           "DevicePassword"})
  @@ Number({"Port", "TimeOut", "Started", "ViewPort"})
RttySessionDetailsJson == WriteOnly(Named(<<"serialNumber", "server", "port", "token",
      "timeout", "connectionId", "commandUUID", "started", "viewport", "password">>,
                                          <<"SerialNumber", "Server", "Port", "Token",
      "TimeOut", "ConnectionId", "CommandUUID", "Started", "ViewPort", "DevicePassword">>))

Dashboard ==
     Number({"snapshot", "numberOfDevices"})
  @@ Counters({"commands", "upTimes", "memoryUsed", "load1", "load5", "load15", "vendors",
               "status", "deviceType", "healths", "certificates", "lastContact",
               "associations"})
DashboardJson == WriteOnly(Same(<<"commands", "upTimes", "memoryUsed", "load1", "load5",
                                  "load15", "vendors", "status", "deviceType", "healths",
                                  "certificates", "lastContact", "associations", "snapshot",
                                  "numberOfDevices">>))

CapabilitiesModel == Text({"deviceType", "capabilities"})
CapabilitiesModelJson == WriteOnly(Same(<<"deviceType", "capabilities">>))

ScriptEntry ==
     Text({"id", "name", "description", "uri", "content", "version", "type", "author",
           "defaultUploadURI"})
  @@ Flag({"deferred"})
  @@ Number({"timeout"})
  @@ RawNumber({"created", "modified"})
  @@ List({"restricted"})
ScriptEntryJson == Both(<<"id", "name", "description", "uri", "content", "version", "type",
                          "created", "modified", "author", "restricted", "deferred",
                          "timeout", "defaultUploadURI">>)

ScriptEntryList == Vector({"scripts"})
ScriptEntryListJson == Both(<<"scripts">>)

ScriptRequest ==
     Text({"serialNumber", "type", "script", "scriptId", "signature", "uri"})
  @@ RawFlag({"deferred"})
  @@ Number({"timeout"})
  @@ RawNumber({"when"})
ScriptRequestJson ==
  Two(Same(<<"serialNumber", "timeout", "type", "scriptId", "script", "when", "signature",
             "deferred", "uri">>),
      Same(<<"serialNumber", "timeout", "type", "script", "scriptId", "when", "signature",
             "deferred", "uri">>))

RadiusProxyServerEntry ==
     Text({"name", "ip", "secret", "certificate", "radsecSecret", "radsecKey", "radsecCert"})
  @@ Flag({"radsec", "allowSelfSigned", "ignore"})
  @@ Number({"port", "weight", "radsecPort"})
  @@ List({"radsecCacerts", "radsecRealms"})
RadiusProxyServerEntryJson ==
  Two(Same(<<"name", "ip", "port", "weight", "secret", "certificate", "radsec",
             "allowSelfSigned", "radsecPort", "radsecSecret", "radsecCacerts", "radsecCert",
             "radsecKey", "radsecRealms", "ignore">>),
      Same(<<"name", "ip", "port", "weight", "secret", "certificate", "radsec",
             "allowSelfSigned", "radsecSecret", "radsecPort", "radsecCacerts", "radsecCert",
             "radsecKey", "radsecRealms", "ignore">>))

RadiusProxyServerConfig ==
     Text({"strategy", "monitorMethod"})
  @@ Flag({"monitor"})
  @@ List({"methodParameters"})
  @@ Vector({"servers"})
RadiusProxyServerConfigJson == Both(<<"strategy", "monitor", "monitorMethod",
      "methodParameters", "servers">>)

RadiusProxyPool ==
     Text({"name", "description", "radsecPoolType", "poolProxyIp"})
  @@ Flag({"useByDefault", "enabled"})
  @@ Number({"radsecKeepAlive"})
  @@ Object({"authConfig", "acctConfig", "coaConfig"})
RadiusProxyPoolJson == Both(<<"name", "description", "authConfig", "acctConfig", "coaConfig",
                              "useByDefault", "radsecKeepAlive", "poolProxyIp",
                              "radsecPoolType", "enabled">>)

RadiusProxyPoolList == Vector({"pools"})
RadiusProxyPoolListJson == Both(<<"pools">>)

RangeOptions == Flag({"NO_IR", "AUTO_BW", "DFS", "NO_OUTDOOR", "wmmrule_ETSI", "NO_OFDM"})
RangeOptionsJson == WriteOnly(Same(<<"NO_IR", "AUTO_BW", "DFS", "NO_OUTDOOR", "wmmrule_ETSI",
      "NO_OFDM">>))

FrequencyRange == Number({"from", "to", "channelWidth", "powerDb"}) @@ Object({"options"})
FrequencyRangeJson == WriteOnly(Same(<<"from", "to", "channelWidth", "powerDb", "options">>))

RegulatoryCountryInfo == Text({"country", "domain"}) @@ Vector({"ranges"})
RegulatoryCountryInfoJson == WriteOnly(Same(<<"country", "domain", "ranges">>))

RADIUSSession ==
     Text({"serialNumber", "destination", "userName", "accountingSessionId",
           "accountingMultiSessionId", "callingStationId", "chargeableUserIdentity",
           "secret", "interface", "nasId", "calledStationId"})
  @@ Number({"started", "lastTransaction", "inputPackets", "outputPackets", "inputOctets",
             "outputOctets", "inputGigaWords", "outputGigaWords", "sessionTime"})
RADIUSSessionJson == WriteOnly(Same(<<"started", "lastTransaction", "destination",
      "serialNumber", "userName", "accountingSessionId", "accountingMultiSessionId",
      "inputPackets", "outputPackets", "inputOctets", "outputOctets", "inputGigaWords",
      "outputGigaWords", "sessionTime", "callingStationId", "chargeableUserIdentity",
      "interface", "secret", "nasId", "calledStationId">>))

RADIUSSessionList == Vector({"sessions"})
RADIUSSessionListJson == WriteOnly(Same(<<"sessions">>))

RadiusCoADMParameters ==
     Text({"accountingSessionId", "accountingMultiSessionId", "callingStationId",
           "chargeableUserIdentity", "userName"})
RadiusCoADMParametersJson == Both(<<"accountingSessionId", "accountingMultiSessionId",
      "callingStationId", "chargeableUserIdentity", "userName">>)

DeviceTransferRequest == Text({"serialNumber", "server"}) @@ RawNumber({"port"})
DeviceTransferRequestJson == ReadOnly(Same(<<"serialNumber", "server", "port">>))

DeviceCertificateUpdateRequest == Text({"serialNumber", "encodedCertificate"})
DeviceCertificateUpdateRequestJson == ReadOnly(Same(<<"serialNumber", "encodedCertificate">>))

-----------------------------------------------------------------------------
\* The structs that are sent or received.
Classes ==
  [ConnectionState |-> Class(ConnectionState, ConnectionStateJson),
   DeviceRestrictionsKeyInfo |-> Class(DeviceRestrictionsKeyInfo, DeviceRestrictionsKeyInfoJson),
   DeviceRestrictions |-> Class(DeviceRestrictions, DeviceRestrictionsJson),
   Device |-> Class(Device, DeviceJson),
   DeviceConnectionStatistics |-> Class(DeviceConnectionStatistics, DeviceConnectionStatisticsJson),
   Statistics |-> Class(Statistics, StatisticsJson),
   HealthCheck |-> Class(HealthCheck, HealthCheckJson),
   Capabilities |-> Class(Capabilities, CapabilitiesJson),
   DeviceLog |-> Class(DeviceLog, DeviceLogJson),
   DefaultConfiguration |-> Class(DefaultConfiguration, DefaultConfigurationJson),
   DefaultFirmware |-> Class(DefaultFirmware, DefaultFirmwareJson),
   CommandDetails |-> Class(CommandDetails, CommandDetailsJson),
   BlackListedDevice |-> Class(BlackListedDevice, BlackListedDeviceJson),
   RttySessionDetails |-> Class(RttySessionDetails, RttySessionDetailsJson),
   Dashboard |-> Class(Dashboard, DashboardJson),
   CapabilitiesModel |-> Class(CapabilitiesModel, CapabilitiesModelJson),
   ScriptEntry |-> Class(ScriptEntry, ScriptEntryJson),
   ScriptEntryList |-> Class(ScriptEntryList, ScriptEntryListJson),
   ScriptRequest |-> Class(ScriptRequest, ScriptRequestJson),
   RadiusProxyServerEntry |-> Class(RadiusProxyServerEntry, RadiusProxyServerEntryJson),
   RadiusProxyServerConfig |-> Class(RadiusProxyServerConfig, RadiusProxyServerConfigJson),
   RadiusProxyPool |-> Class(RadiusProxyPool, RadiusProxyPoolJson),
   RadiusProxyPoolList |-> Class(RadiusProxyPoolList, RadiusProxyPoolListJson),
   RangeOptions |-> Class(RangeOptions, RangeOptionsJson),
   FrequencyRange |-> Class(FrequencyRange, FrequencyRangeJson),
   RegulatoryCountryInfo |-> Class(RegulatoryCountryInfo, RegulatoryCountryInfoJson),
   RADIUSSession |-> Class(RADIUSSession, RADIUSSessionJson),
   RADIUSSessionList |-> Class(RADIUSSessionList, RADIUSSessionListJson),
   RadiusCoADMParameters |-> Class(RadiusCoADMParameters, RadiusCoADMParametersJson),
   DeviceTransferRequest |-> Class(DeviceTransferRequest, DeviceTransferRequestJson),
   DeviceCertificateUpdateRequest |-> Class(DeviceCertificateUpdateRequest, DeviceCertificateUpdateRequestJson)]
=============================================================================
