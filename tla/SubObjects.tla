---------------------------- MODULE SubObjects -----------------------------
(***************************************************************************)
(* The objects of the subscriber portal: the members that                  *)
(* RESTObjects/RESTAPI_SubObjects.h declares, by kind, and for each        *)
(* struct X the fields that X::to_json writes and X::from_json reads,      *)
(* XJson.                                                                  *)
(***************************************************************************)
EXTENDS JsonFields

HomeDeviceMode ==
     Text({"type", "subnet", "subnetMask", "startIP", "endIP", "subnetV6", "startIPV6",
           "endIPV6", "leaseTime"})
  @@ Flag({"enableLEDS"})
  @@ Number({"created", "modified", "subnetMaskV6"})
HomeDeviceModeJson == Both(<<"enableLEDS", "type", "subnet", "subnetMask", "startIP",
                             "endIP", "created", "modified", "subnetV6", "subnetMaskV6",
                             "startIPV6", "endIPV6">>)

IPReservation == Text({"nickname", "ipAddress", "macAddress"})
IPReservationJson == Both(<<"nickname", "ipAddress", "macAddress">>)

IPReservationList ==
     Text({"id"})
  @@ Number({"created", "modified"})
  @@ Vector({"reservations"})
IPReservationListJson == Both(<<"id", "reservations", "created", "modified">>)

DnsConfiguration ==
     Text({"primary", "secondary", "primaryV6", "secondaryV6"})
  @@ Flag({"ISP", "custom"})
DnsConfigurationJson == Both(<<"ISP", "custom", "primary", "secondary", "primaryV6",
                               "secondaryV6">>)

InternetConnection ==
     Text({"type", "username", "password", "ipAddress", "subnetMask", "defaultGateway",
           "primaryDns", "secondaryDns", "ipAddressV6", "defaultGatewayV6", "primaryDnsV6",
           "secondaryDnsV6"})
  @@ Flag({"sendHostname", "ipV6Support"})
  @@ Number({"created", "modified", "subnetMaskV6"})
InternetConnectionJson == Both(<<"type", "username", "password", "ipAddress", "subnetMask",
                                 "defaultGateway", "sendHostname", "primaryDns",
                                 "secondaryDns", "created", "modified", "ipV6Support",
                                 "ipAddressV6", "subnetMaskV6", "defaultGatewayV6",
                                 "primaryDnsV6", "secondaryDnsV6">>)

WifiNetwork == Text({"type", "name", "password", "encryption"}) @@ List({"bands"})
WifiNetworkJson == Both(<<"type", "name", "password", "encryption", "bands">>)

WifiNetworkList == Number({"created", "modified"}) @@ Vector({"wifiNetworks"})
WifiNetworkListJson == Both(<<"wifiNetworks", "created", "modified">>)

AccessTime == Text({"day"}) @@ List({"rangeList"})
AccessTimeJson == Both(<<"day", "rangeList">>)

AccessTimes == Number({"created", "modified"}) @@ Vector({"schedule"})
AccessTimesJson == Both(<<"schedule", "created", "modified">>)

SubscriberDevice ==
     Text({"name", "description", "macAddress", "manufacturer", "group", "icon", "ip"})
  @@ Flag({"suspended"})
  @@ Number({"firstContact", "lastContact"})
  @@ Vector({"schedule"})
SubscriberDeviceJson == Both(<<"name", "description", "macAddress", "manufacturer",
                               "firstContact", "lastContact", "group", "icon", "suspended",
                               "ip", "schedule">>)

SubscriberDeviceList == Number({"created", "modified"}) @@ Vector({"devices"})
SubscriberDeviceListJson == Both(<<"devices", "created", "modified">>)

Association ==
     Text({"name", "ssid", "macAddress", "ipv4", "ipv6", "manufacturer"})
  @@ Number({"rssi", "power", "tx", "rx"})
AssociationJson == Both(<<"name", "ssid", "macAddress", "rssi", "power", "ipv4", "ipv6",
                          "tx", "rx", "manufacturer">>)

AssociationList == Number({"created", "modified"}) @@ Vector({"associations"})
AssociationListJson == Both(<<"associations", "created", "modified">>)

Client ==
     Text({"macAddress", "speed", "mode", "ipv4", "ipv6", "manufacturer"})
  @@ Number({"tx", "rx"})
ClientJson == Both(<<"macAddress", "speed", "mode", "ipv4", "ipv6", "tx", "rx",
                     "manufacturer">>)

ClientList == Number({"created", "modified"}) @@ Vector({"clients"})
ClientListJson == Both(<<"clients", "created", "modified">>)

Location ==
     Text({"buildingName", "city", "state", "postal", "country"})
  @@ List({"addressLines", "phones", "mobiles"})
LocationJson == Both(<<"buildingName", "addressLines", "city", "state", "postal", "country",
                       "phones", "mobiles">>)

RadioHE == Flag({"multipleBSSID", "ema"}) @@ Number({"bssColor"})
RadioHEJson == Both(<<"multipleBSSID", "ema", "bssColor">>)

RadioRates == Number({"beacon", "multicast"})
RadioRatesJson == Both(<<"beacon", "multicast">>)

RadioInformation ==
     Text({"band", "country", "channelMode", "requireMode", "mimo"})
  @@ Flag({"legacyRates", "allowDFS"})
  @@ Number({"channel", "channelWidth", "txpower", "beaconInterval", "dtimPeriod",
             "maximumClients"})
  @@ RawNumber({"bandwidth"})
  @@ List({"rawInfo"})
  @@ Object({"rates", "he"})
RadioInformationJson == Both(<<"band", "bandwidth", "channel", "country", "channelMode",
                               "channelWidth", "requireMode", "txpower", "legacyRates",
                               "beaconInterval", "dtimPeriod", "maximumClients", "rates",
                               "he", "rawInfo", "allowDFS", "mimo">>)

AccessPoint ==
     Text({"id", "macAddress", "serialNumber", "name", "deviceType", "configurationUUID",
           "currentFirmware", "latestFirmware", "latestFirmwareURI"})
  @@ Flag({"automaticUpgrade"})
  @@ RawFlag({"newFirmwareAvailable"})
  @@ RawNumber({"currentFirmwareDate", "latestFirmwareDate"})
  @@ Object({"subscriberDevices", "ipReservations", "address", "wifiNetworks",
             "internetConnection", "deviceMode", "dnsConfiguration"})
  @@ Vector({"radios"})
AccessPointJson == Both(<<"id", "macAddress", "serialNumber", "name", "deviceType",
                          "subscriberDevices", "ipReservations", "address", "wifiNetworks",
                          "internetConnection", "deviceMode", "dnsConfiguration", "radios",
                          "automaticUpgrade", "configurationUUID", "currentFirmware",
                          "currentFirmwareDate", "latestFirmware", "latestFirmwareDate",
                          "newFirmwareAvailable", "latestFirmwareURI">>)

AccessPointList == Vector({"list"})
AccessPointListJson == Both(<<"list">>)

SubscriberInfo ==
     Text({"id", "userId", "firstName", "initials", "lastName", "phoneNumber",
           "secondaryEmail"})
  @@ Number({"created", "modified"})
  @@ Object({"accessPoints", "serviceAddress", "billingAddress"})
SubscriberInfoJson == Both(<<"id", "userId", "firstName", "initials", "lastName",
                             "phoneNumber", "secondaryEmail", "accessPoints",
                             "serviceAddress", "billingAddress", "created", "modified">>)

StatsEntry == Number({"timestamp", "tx", "rx"})
StatsEntryJson == Both(<<"timestamp", "tx", "rx">>)

StatsBlock == Number({"modified"}) @@ Vector({"external", "internal"})
StatsBlockJson == Both(<<"modified", "external", "internal">>)

-----------------------------------------------------------------------------
\* The structs that are sent or received.
Classes ==
  [HomeDeviceMode |-> Class(HomeDeviceMode, HomeDeviceModeJson),
   IPReservation |-> Class(IPReservation, IPReservationJson),
   IPReservationList |-> Class(IPReservationList, IPReservationListJson),
   DnsConfiguration |-> Class(DnsConfiguration, DnsConfigurationJson),
   InternetConnection |-> Class(InternetConnection, InternetConnectionJson),
   WifiNetwork |-> Class(WifiNetwork, WifiNetworkJson),
   WifiNetworkList |-> Class(WifiNetworkList, WifiNetworkListJson),
   AccessTime |-> Class(AccessTime, AccessTimeJson),
   AccessTimes |-> Class(AccessTimes, AccessTimesJson),
   SubscriberDevice |-> Class(SubscriberDevice, SubscriberDeviceJson),
   SubscriberDeviceList |-> Class(SubscriberDeviceList, SubscriberDeviceListJson),
   Association |-> Class(Association, AssociationJson),
   AssociationList |-> Class(AssociationList, AssociationListJson),
   Client |-> Class(Client, ClientJson), ClientList |-> Class(ClientList, ClientListJson),
   Location |-> Class(Location, LocationJson), RadioHE |-> Class(RadioHE, RadioHEJson),
   RadioRates |-> Class(RadioRates, RadioRatesJson),
   RadioInformation |-> Class(RadioInformation, RadioInformationJson),
   AccessPoint |-> Class(AccessPoint, AccessPointJson),
   AccessPointList |-> Class(AccessPointList, AccessPointListJson),
   SubscriberInfo |-> Class(SubscriberInfo, SubscriberInfoJson),
   StatsEntry |-> Class(StatsEntry, StatsEntryJson),
   StatsBlock |-> Class(StatsBlock, StatsBlockJson)]
=============================================================================
