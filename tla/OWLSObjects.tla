---------------------------- MODULE OWLSObjects ----------------------------
(***************************************************************************)
(* The objects of the load simulator: the members that                     *)
(* RESTObjects/RESTAPI_OWLSobjects.h declares, by kind, and for each       *)
(* struct X the fields that X::to_json writes and X::from_json reads,      *)
(* XJson.                                                                  *)
(***************************************************************************)
EXTENDS JsonFields

SimulationDetails ==
     Text({"id", "name", "gateway", "certificate", "key", "macPrefix", "deviceType"})
  @@ Number({"devices", "healthCheckInterval", "stateInterval", "minAssociations",
             "maxAssociations", "minClients", "maxClients", "simulationLength", "threads",
             "clientInterval", "keepAlive", "reconnectInterval", "concurrentDevices"})
SimulationDetailsJson == Both(<<"id", "name", "gateway", "certificate", "key", "macPrefix",
                                "deviceType", "devices", "healthCheckInterval",
                                "stateInterval", "minAssociations", "maxAssociations",
                                "minClients", "maxClients", "simulationLength", "threads",
                                "clientInterval", "keepAlive", "reconnectInterval",
                                "concurrentDevices">>)

SimulationDetailsList == Vector({"list"})
SimulationDetailsListJson == Both(<<"list">>)

SimulationStatus ==
     Text({"id", "simulationId", "state", "owner"})
  @@ RawNumber({"tx", "rx", "msgsTx", "msgsRx", "liveDevices", "timeToFullDevices",
                "startTime", "endTime", "errorDevices", "expectedDevices"})
SimulationStatusJson == WriteOnly(Same(<<"id", "simulationId", "state", "tx", "rx", "msgsTx",
      "msgsRx", "liveDevices", "timeToFullDevices", "startTime", "endTime", "errorDevices",
      "owner", "expectedDevices">>))

Dashboard == RawNumber({"O"})
DashboardJson == Both(<<>>)

-----------------------------------------------------------------------------
\* The structs that are sent or received.
Classes ==
  [SimulationDetails |-> Class(SimulationDetails, SimulationDetailsJson),
   SimulationDetailsList |-> Class(SimulationDetailsList, SimulationDetailsListJson),
   SimulationStatus |-> Class(SimulationStatus, SimulationStatusJson),
   Dashboard |-> Class(Dashboard, DashboardJson)]
=============================================================================
