------------------------- MODULE AnalyticsObjects --------------------------
(***************************************************************************)
(* The objects of the analytics service: the members that                  *)
(* RESTObjects/RESTAPI_AnalyticsObjects.h declares, by kind, and for each  *)
(* struct X the fields that X::to_json writes and X::from_json reads,      *)
(* XJson.                                                                  *)
(***************************************************************************)
EXTENDS JsonFields

Report == Number({"snapShot"})
ReportJson == WriteOnly(Same(<<>>))

VenueInfo ==
     Text({"id", "name", "description"})
  @@ Flag({"monitorSubVenues"})
  @@ Number({"retention", "interval"})
VenueInfoJson == Both(<<"id", "name", "description", "retention", "interval",
                        "monitorSubVenues">>)

BoardInfo == Embedded({"info"}) @@ Vector({"venueList"})
BoardInfoJson == Both(<<"info", "venueList">>)

DeviceInfo ==
     Text({"boardId", "type", "serialNumber", "deviceType", "lastFirmware", "connectionIp",
           "locale"})
  @@ Flag({"connected"})
  @@ Number({"lastContact", "lastPing", "lastState", "lastFirmwareUpdate", "lastConnection",
             "lastDisconnection", "pings", "states", "associations_2g", "associations_5g",
             "associations_6g", "health", "lastHealth", "uptime", "memory"})
DeviceInfoJson == Both(<<"boardId", "type", "serialNumber", "deviceType", "lastContact",
                         "lastPing", "lastState", "lastFirmware", "lastFirmwareUpdate",
                         "lastConnection", "lastDisconnection", "pings", "states",
                         "connected", "connectionIp", "associations_2g", "associations_5g",
                         "associations_6g", "health", "lastHealth", "locale", "uptime",
                         "memory">>)

DeviceInfoList == Vector({"devices"})
DeviceInfoListJson == Both(<<"devices">>)

TIDstat_entry == Number({"rx_msdu", "tx_msdu", "tx_msdu_failed", "tx_msdu_retries"})
TIDstat_entryJson == Both(<<"rx_msdu", "tx_msdu", "tx_msdu_failed", "tx_msdu_retries">>)

UE_rate == Flag({"ht", "sgi"}) @@ Number({"bitrate", "mcs", "nss", "chwidth"})
UE_rateJson == Both(<<"bitrate", "mcs", "nss", "ht", "sgi", "chwidth">>)

AveragePoint == Number({"min", "max", "avg"})
AveragePointJson == Both(<<"min", "max", "avg">>)

UETimePoint ==
     Text({"station"})
  @@ Number({"rssi", "tx_bytes", "rx_bytes", "tx_duration", "rx_packets", "tx_packets",
             "tx_retries", "tx_failed", "connected", "inactive", "tx_bytes_bw",
             "rx_bytes_bw", "tx_packets_bw", "rx_packets_bw", "tx_failed_pct",
             "tx_retries_pct", "tx_duration_pct", "tx_bytes_delta", "rx_bytes_delta",
             "tx_duration_delta", "rx_packets_delta", "tx_packets_delta", "tx_retries_delta",
             "tx_failed_delta"})
  @@ Object({"tx_rate", "rx_rate"})
  @@ Vector({"tidstats"})
UETimePointJson == Both(<<"station", "rssi", "tx_bytes", "rx_bytes", "tx_duration",
                          "rx_packets", "tx_packets", "tx_retries", "tx_failed", "connected",
                          "inactive", "tx_rate", "rx_rate", "tx_bytes_bw", "rx_bytes_bw",
                          "tx_packets_bw", "rx_packets_bw", "tx_failed_pct",
                          "tx_retries_pct", "tx_duration_pct", "tx_bytes_delta",
                          "rx_bytes_delta", "tx_packets_delta", "rx_packets_delta",
                          "tx_failed_delta", "tx_retries_delta", "tx_duration_delta">>)

SSIDTimePoint ==
     Text({"bssid", "mode", "ssid"})
  @@ Number({"band", "channel"})
  @@ Object({"tx_bytes_bw", "rx_bytes_bw", "tx_packets_bw", "rx_packets_bw", "tx_failed_pct",
             "tx_retries_pct", "tx_duration_pct"})
  @@ Vector({"associations"})
SSIDTimePointJson == Both(<<"bssid", "mode", "ssid", "band", "channel", "associations",
                            "tx_bytes_bw", "rx_bytes_bw", "tx_packets_bw", "rx_packets_bw",
                            "tx_failed_pct", "tx_retries_pct", "tx_duration_pct">>)

APTimePoint ==
     Number({"collisions", "multicast", "rx_bytes", "rx_dropped", "rx_errors", "rx_packets",
             "tx_bytes", "tx_dropped", "tx_errors", "tx_packets", "tx_bytes_bw",
             "rx_bytes_bw", "rx_dropped_pct", "tx_dropped_pct", "rx_packets_bw",
             "tx_packets_bw", "rx_errors_pct", "tx_errors_pct", "tx_bytes_delta",
             "rx_bytes_delta", "rx_dropped_delta", "tx_dropped_delta", "rx_packets_delta",
             "tx_packets_delta", "rx_errors_delta", "tx_errors_delta"})
APTimePointJson == Both(<<"collisions", "multicast", "rx_bytes", "rx_dropped", "rx_errors",
                          "rx_packets", "tx_bytes", "tx_packets", "tx_dropped", "tx_errors",
                          "tx_packets", "tx_bytes_bw", "rx_bytes_bw", "rx_dropped_pct",
                          "tx_dropped_pct", "rx_packets_bw", "tx_packets_bw",
                          "rx_errors_pct", "tx_errors_pct", "tx_bytes_delta",
                          "rx_bytes_delta", "rx_dropped_delta", "tx_dropped_delta",
                          "rx_packets_delta", "tx_packets_delta", "rx_errors_delta",
                          "tx_errors_delta">>)

RadioTimePoint ==
     Number({"band", "channel_width", "active_ms", "busy_ms", "receive_ms", "transmit_ms",
             "tx_power", "channel", "temperature", "noise", "active_pct", "busy_pct",
             "receive_pct", "transmit_pct"})
RadioTimePointJson == Both(<<"band", "channel_width", "active_ms", "busy_ms", "receive_ms",
                             "transmit_ms", "tx_power", "channel", "temperature", "noise",
                             "active_pct", "busy_pct", "receive_pct", "transmit_pct">>)

DeviceTimePoint ==
     Text({"id", "boardId", "serialNumber"})
  @@ Number({"timestamp"})
  @@ Object({"ap_data", "device_info"})
  @@ Vector({"ssid_data", "radio_data"})
DeviceTimePointJson == Both(<<"id", "boardId", "timestamp", "ap_data", "ssid_data",
                              "radio_data", "device_info", "serialNumber">>)

DeviceTimePointAnalysis ==
     RawNumber({"timestamp"})
  @@ Object({"noise", "temperature", "active_pct", "busy_pct", "receive_pct", "transmit_pct",
             "tx_power", "tx_bytes_bw", "rx_bytes_bw", "rx_dropped_pct", "tx_dropped_pct",
             "rx_packets_bw", "tx_packets_bw", "rx_errors_pct", "tx_errors_pct"})
DeviceTimePointAnalysisJson == Both(<<"noise", "temperature", "active_pct", "busy_pct",
      "receive_pct", "transmit_pct", "tx_power", "tx_bytes_bw", "rx_bytes_bw",
      "rx_dropped_pct", "tx_dropped_pct", "rx_packets_bw", "tx_packets_bw", "rx_errors_pct",
      "tx_errors_pct">>)

DeviceTimePointList == Vector({"points", "stats"})
DeviceTimePointListJson == Both(<<"points", "stats">>)

DeviceTimePointStats == Number({"firstPoint", "lastPoint", "count"})
DeviceTimePointStatsJson == Both(<<"firstPoint", "lastPoint", "count">>)

WifiClientRate == Flag({"vht"}) @@ Number({"bitrate", "chwidth", "mcs", "nss"})
WifiClientRateJson == Both(<<"bitrate", "chwidth", "mcs", "nss", "vht">>)

WifiClientHistory ==
     Text({"station_id", "bssid", "ssid", "ipv4", "ipv6", "mode", "venue_id"})
  @@ Flag({"rx_vht", "tx_vht"})
  @@ Number({"timestamp", "rssi", "rx_bitrate", "rx_chwidth", "rx_mcs", "rx_nss",
             "tx_bitrate", "tx_chwidth", "tx_mcs", "tx_nss", "rx_bytes", "tx_bytes",
             "rx_duration", "tx_duration", "rx_packets", "tx_packets", "channel_width",
             "noise", "tx_power", "channel", "active_ms", "busy_ms", "receive_ms",
             "ack_signal", "ack_signal_avg", "connected", "inactive", "tx_retries"})
WifiClientHistoryJson == Both(<<"timestamp", "station_id", "bssid", "ssid", "rssi",
                                "rx_bitrate", "rx_chwidth", "rx_mcs", "rx_nss", "rx_vht",
                                "tx_bitrate", "tx_chwidth", "tx_mcs", "tx_nss", "tx_vht",
                                "rx_bytes", "tx_bytes", "rx_duration", "tx_duration",
                                "rx_packets", "tx_packets", "ipv4", "ipv6", "channel_width",
                                "noise", "tx_power", "channel", "active_ms", "busy_ms",
                                "receive_ms", "mode", "ack_signal", "ack_signal_avg",
                                "connected", "inactive", "tx_retries", "venue_id">>)

-----------------------------------------------------------------------------
\* The structs that are sent or received.
Classes ==
  [Report |-> Class(Report, ReportJson), VenueInfo |-> Class(VenueInfo, VenueInfoJson),
   BoardInfo |-> Class(BoardInfo, BoardInfoJson),
   DeviceInfo |-> Class(DeviceInfo, DeviceInfoJson),
   DeviceInfoList |-> Class(DeviceInfoList, DeviceInfoListJson),
   TIDstat_entry |-> Class(TIDstat_entry, TIDstat_entryJson),
   UE_rate |-> Class(UE_rate, UE_rateJson),
   AveragePoint |-> Class(AveragePoint, AveragePointJson),
   UETimePoint |-> Class(UETimePoint, UETimePointJson),
   SSIDTimePoint |-> Class(SSIDTimePoint, SSIDTimePointJson),
   APTimePoint |-> Class(APTimePoint, APTimePointJson),
   RadioTimePoint |-> Class(RadioTimePoint, RadioTimePointJson),
   DeviceTimePoint |-> Class(DeviceTimePoint, DeviceTimePointJson),
   DeviceTimePointAnalysis |-> Class(DeviceTimePointAnalysis, DeviceTimePointAnalysisJson),
   DeviceTimePointList |-> Class(DeviceTimePointList, DeviceTimePointListJson),
   DeviceTimePointStats |-> Class(DeviceTimePointStats, DeviceTimePointStatsJson),
   WifiClientRate |-> Class(WifiClientRate, WifiClientRateJson),
   WifiClientHistory |-> Class(WifiClientHistory, WifiClientHistoryJson)]
=============================================================================
