---------------------------- MODULE FMSObjects -----------------------------
(***************************************************************************)
(* The objects of the firmware service: the members that                   *)
(* RESTObjects/RESTAPI_FMSObjects.h declares, by kind, and for each        *)
(* struct X the fields that X::to_json writes and X::from_json reads,      *)
(* XJson.                                                                  *)
(***************************************************************************)
EXTENDS JsonFields

Firmware ==
     Text({"id", "release", "deviceType", "description", "revision", "uri", "image",
           "firmwareHash", "owner", "location", "uploader", "digest"})
  @@ Flag({"latest"})
  @@ Number({"imageDate", "size", "downloadCount", "created"})
  @@ Vector({"notes"})
FirmwareJson == [Both(<<"id", "release", "deviceType", "description", "revision", "uri",
                       "image", "imageDate", "size", "downloadCount", "firmwareHash",
                       "owner", "location", "uploader", "digest", "latest", "notes",
                       "created">>) EXCEPT !.strict = FALSE]

FirmwareList == Vector({"firmwares"})
FirmwareListJson == Both(<<"firmwares">>)

DeviceType ==
     Text({"id", "deviceType", "manufacturer", "model", "policy"})
  @@ Number({"lastUpdate", "created"})
  @@ Vector({"notes"})
DeviceTypeJson == Both(<<"id", "deviceType", "manufacturer", "model", "policy", "notes",
                         "lastUpdate", "created", "id", "id", "id">>)

DeviceTypeList == Vector({"deviceTypes"})
DeviceTypeListJson == Both(<<"deviceTypes">>)

RevisionHistoryEntry ==
     Text({"id", "serialNumber", "fromRelease", "toRelease", "commandUUID", "revisionId"})
  @@ RawNumber({"upgraded"})
RevisionHistoryEntryJson == Both(<<"id", "serialNumber", "fromRelease", "toRelease",
                                   "commandUUID", "revisionId", "upgraded">>)

RevisionHistoryEntryList == Vector({"history"})
RevisionHistoryEntryListJson == BothNamed(<<"deviceTypes">>,
      <<"history">>)

FirmwareAgeDetails ==
     Text({"latestId", "image", "revision", "uri"})
  @@ Flag({"latest"})
  @@ Number({"age"})
  @@ RawNumber({"imageDate"})
FirmwareAgeDetailsJson == Both(<<"latestId", "image", "imageDate", "revision", "uri", "age",
                                 "latest">>)

DeviceConnectionInformation ==
     Text({"serialNumber", "revision", "deviceType", "endPoint", "status"})
  @@ RawNumber({"lastUpdate"})
DeviceConnectionInformationJson == Both(<<"serialNumber", "revision", "deviceType",
      "endPoint", "lastUpdate", "status">>)

DeviceReport ==
     Number({"snapshot", "numberOfDevices"})
  @@ Counters({"OUI_", "Revisions_", "DeviceTypes_", "Status_", "EndPoints_", "UsingLatest_",
               "UnknownFirmwares_", "totalSecondsOld_"})
DeviceReportToJson == Named(<<"ouis", "revisions", "deviceTypes", "status", "endPoints",
                              "usingLatest", "unknownFirmwares", "snapshot",
                              "numberOfDevices", "totalSecondsOld">>,
                            <<"OUI_", "Revisions_", "DeviceTypes_", "Status_", "EndPoints_",
                              "UsingLatest_", "UnknownFirmwares_", "snapshot",
                              "numberOfDevices", "totalSecondsOld_">>)
DeviceReportFromJson == <<>>
DeviceReportJson == Two(DeviceReportToJson, DeviceReportFromJson)

DeviceInformation ==
     Text({"serialNumber", "currentFirmware", "latestFirmware", "latestFirmwareURI"})
  @@ RawFlag({"latestFirmwareAvailable"})
  @@ Number({"currentFirmwareDate", "latestFirmwareDate"})
  @@ Object({"history"})
DeviceInformationJson == Both(<<"serialNumber", "history", "currentFirmware",
                                "currentFirmwareDate", "latestFirmware",
                                "latestFirmwareDate", "latestFirmwareAvailable",
                                "latestFirmwareURI">>)

DeviceCurrentInfo == Text({"serialNumber", "revision"}) @@ Number({"upgraded"})
DeviceCurrentInfoJson == Both(<<"serialNumber", "revision", "upgraded">>)

DeviceCurrentInfoList == Vector({"devices"})
DeviceCurrentInfoListJson == Both(<<"devices">>)

-----------------------------------------------------------------------------
\* The structs that are sent or received.
Classes ==
  [Firmware |-> Class(Firmware, FirmwareJson),
   FirmwareList |-> Class(FirmwareList, FirmwareListJson),
   DeviceType |-> Class(DeviceType, DeviceTypeJson),
   DeviceTypeList |-> Class(DeviceTypeList, DeviceTypeListJson),
   RevisionHistoryEntry |-> Class(RevisionHistoryEntry, RevisionHistoryEntryJson),
   RevisionHistoryEntryList |-> Class(RevisionHistoryEntryList, RevisionHistoryEntryListJson),
   FirmwareAgeDetails |-> Class(FirmwareAgeDetails, FirmwareAgeDetailsJson),
   DeviceConnectionInformation |-> Class(DeviceConnectionInformation, DeviceConnectionInformationJson),
   DeviceReport |-> Class(DeviceReport, DeviceReportJson),
   DeviceInformation |-> Class(DeviceInformation, DeviceInformationJson),
   DeviceCurrentInfo |-> Class(DeviceCurrentInfo, DeviceCurrentInfoJson),
   DeviceCurrentInfoList |-> Class(DeviceCurrentInfoList, DeviceCurrentInfoListJson)]
=============================================================================
