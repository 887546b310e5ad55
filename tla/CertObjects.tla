---------------------------- MODULE CertObjects ----------------------------
(***************************************************************************)
(* The objects of the certificate service: the members that                *)
(* RESTObjects/RESTAPI_CertObjects.h declares, by kind, and for each       *)
(* struct X the fields that X::to_json writes and X::from_json reads,      *)
(* XJson.                                                                  *)
(***************************************************************************)
EXTENDS JsonFields

CertificateEntry ==
     Text({"id", "entity", "creator", "type", "status", "certificate", "key", "devid", "cas",
           "manufacturer", "model", "redirector", "commonName", "certificateId", "batch"})
  @@ Number({"created", "modified", "revoked", "revokeCount", "synched", "expiryDate"})
CertificateEntryJson == Both(<<"id", "entity", "creator", "type", "status", "certificate",
                               "key", "devid", "cas", "manufacturer", "model", "redirector",
                               "commonName", "certificateId", "batch", "created", "modified",
                               "revoked", "revokeCount", "synched", "expiryDate">>)

EntityEntry ==
     Text({"id", "creator", "name", "description", "defaultRedirector", "apiKey",
           "serverEnrollmentProfile", "clientEnrollmentProfile", "organization"})
  @@ Flag({"suspended", "deleted"})
  @@ Number({"created", "modified"})
  @@ Vector({"notes"})
EntityEntryJson == Both(<<"id", "creator", "name", "description", "defaultRedirector",
                          "apiKey", "serverEnrollmentProfile", "clientEnrollmentProfile",
                          "organization", "created", "modified", "suspended", "deleted",
                          "notes">>)

BatchEntry ==
     Text({"id", "entity", "creator", "name", "description", "manufacturer", "model",
           "redirector"})
  @@ Number({"submitted", "started", "completed", "modified"})
  @@ List({"commonNames", "jobHistory"})
  @@ Vector({"notes"})
BatchEntryJson == Both(<<"id", "entity", "creator", "name", "description", "manufacturer",
                         "model", "redirector", "commonNames", "jobHistory", "notes",
                         "submitted", "started", "completed", "modified">>)

JobEntry ==
     Text({"id", "entity", "creator", "batch", "command", "status", "requesterUsername"})
  @@ Number({"submitted", "started", "completed"})
  @@ List({"commonNames", "completedNames", "errorNames"})
  @@ Pairs({"parameters"})
JobEntryJson == Both(<<"id", "entity", "creator", "batch", "commonNames", "completedNames",
                       "errorNames", "status", "command", "parameters", "submitted",
                       "started", "completed", "requesterUsername">>)

DashBoardYearlyStats == Number({"year"}) @@ Counters({"activeCerts", "revokedCerts"})
DashBoardYearlyStatsJson == WriteOnly(Same(<<"year", "activeCerts", "revokedCerts">>))

Dashboard ==
     Number({"snapshot", "numberOfIssuedCerts", "numberOfRevokedCerts"})
  @@ Counters({"activeCertsPerOrganization", "revokedCertsPerOrganization",
               "numberOfRedirectors", "deviceTypes", "monthlyNumberOfCerts"})
  @@ Vector({"monthlyNumberOfCertsPerOrgPerYear"})
DashboardJson == WriteOnly(Same(<<"snapshot", "numberOfIssuedCerts", "numberOfRevokedCerts",
                                  "activeCertsPerOrganization",
                                  "revokedCertsPerOrganization", "numberOfRedirectors",
                                  "deviceTypes", "monthlyNumberOfCerts",
                                  "monthlyNumberOfCertsPerOrgPerYear">>))

-----------------------------------------------------------------------------
\* The structs that are sent or received.
Classes ==
  [CertificateEntry |-> Class(CertificateEntry, CertificateEntryJson),
   EntityEntry |-> Class(EntityEntry, EntityEntryJson),
   BatchEntry |-> Class(BatchEntry, BatchEntryJson),
   JobEntry |-> Class(JobEntry, JobEntryJson),
   DashBoardYearlyStats |-> Class(DashBoardYearlyStats, DashBoardYearlyStatsJson),
   Dashboard |-> Class(Dashboard, DashboardJson)]
=============================================================================
