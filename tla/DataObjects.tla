---------------------------- MODULE DataObjects ----------------------------
(***************************************************************************)
(* The trips an object makes: written into a document (the body of an      *)
(* answer, a bus message) or a row of a table, possibly changed on the     *)
(* way, read into a fresh object, and from there written again.            *)
(*                                                                         *)
(* A record is <<"rows", table>> or <<namespace, struct>>.  Between Write  *)
(* and Read a sender of another version, or a client, may give ONE field   *)
(* another form.                                                           *)
(***************************************************************************)
EXTENDS TableRows

CONSTANT MaxTrips   \* how often the object is written

Analytics == INSTANCE AnalyticsObjects
Cert == INSTANCE CertObjects
FMS == INSTANCE FMSObjects
GW == INSTANCE GWObjects
OWLS == INSTANCE OWLSObjects
Prov == INSTANCE ProvObjects
Sub == INSTANCE SubObjects

Records ==
  [rows |-> Tables, security |-> Classes, analytics |-> Analytics!Classes,
   cert |-> Cert!Classes, fms |-> FMS!Classes, gw |-> GW!Classes, owls |-> OWLS!Classes,
   prov |-> Prov!Classes, sub |-> Sub!Classes]

VARIABLES
  record,   \* <<namespace, name>>
  source,   \* the object that is written
  carrier,  \* the document, or the row
  changed,  \* the field that has another form and that form, <<>> if none
  target,   \* the object that was read
  ok,       \* what from_json returned, or that the row was found
  phase,    \* "held" -> "sent" -> "read" -> "held" ...
  trips     \* trips begun

vars == <<record, source, carrier, changed, target, ok, phase, trips>>

Schema == Records[record[1]][record[2]]
IsRow == record[1] = "rows"

\* What a member may hold in an object somebody filled in.
Filled(kind) ==
  CASE kind = "userRole" -> UserRoles
    [] kind = "accessType" -> ResourceAccessTypes
    [] kind = "locationKind" -> LocationTypes
    [] kind = "contactKind" -> ContactTypes
    [] OTHER -> {"x"}

\* The objects with every member filled in.  At most one member of a struct is
\* an enumeration.
Originals(members) ==
  LET Enum == {m \in DOMAIN members : Filled(members[m]) # {"x"}}
      Values == IF Enum = {} THEN {"x"} ELSE UNION {Filled(members[m]) : m \in Enum}
  IN {[m \in DOMAIN members |-> IF m \in Enum THEN v ELSE "x"] : v \in Values}

Init ==
  \E ns \in DOMAIN Records : \E name \in DOMAIN Records[ns] :
    /\ record = <<ns, name>>
    /\ source \in Originals(Records[ns][name].members)
    /\ carrier = <<>> /\ changed = <<>> /\ target = <<>>
    /\ ok = TRUE /\ phase = "held" /\ trips = 0

\* to_json or Convert.  A request that has no to_json is written by a client
\* that fills in every field.
Write ==
  /\ phase = "held" /\ trips < MaxTrips
  /\ carrier' = IF IsRow THEN ToRow(Schema, source)
                ELSE IF Schema.to = <<>>
                       THEN [f \in {Schema.from[i][1] : i \in DOMAIN Schema.from} |-> "x"]
                       ELSE ToJson(Schema, source)
  /\ phase' = "sent" /\ trips' = trips + 1
  /\ UNCHANGED <<record, source, changed, target, ok>>

Change ==
  /\ phase = "sent" /\ trips = 1 /\ changed = <<>>
  /\ \E i \in DOMAIN Schema.from :
       LET field == Schema.from[i][1]
           kind == Schema.members[Schema.from[i][2]]
       IN /\ field \in DOMAIN carrier
          /\ \E form \in IF IsRow THEN ColumnForms(kind) ELSE Forms(kind) :
               /\ changed' = <<field, form>>
               /\ carrier' = [carrier EXCEPT ![field] = form]
  /\ UNCHANGED <<record, source, target, ok, phase, trips>>

Read ==
  /\ phase = "sent" /\ Schema.reads
  /\ LET r == IF IsRow THEN FromRow(Schema, carrier) ELSE FromJson(Schema, carrier)
     IN target' = r.object /\ ok' = r.ok
  /\ phase' = "read"
  /\ UNCHANGED <<record, source, carrier, changed, trips>>

\* The object that was read is kept and is written the next time.
Keep ==
  /\ phase = "read" /\ ok /\ Schema.to # <<>>
  /\ source' = target /\ changed' = <<>> /\ phase' = "held"
  /\ UNCHANGED <<record, carrier, target, ok, trips>>

Next == Write \/ Change \/ Read \/ Keep

Spec == Init /\ [][Next]_vars

-----------------------------------------------------------------------------
\* Members that one of the two functions leaves out, and that a trip loses.
NotCarried ==
  {<<"security", "WebToken", "id_token_">>, <<"security", "WebToken", "errorCode">>,
   <<"security", "ApiKeyEntry", "created">>,
   <<"analytics", "UETimePoint", "tidstats">>,
   <<"analytics", "DeviceTimePointAnalysis", "timestamp">>,
   <<"gw", "Device", "DeviceType">>,
   <<"gw", "DefaultConfiguration", "Created">>, <<"gw", "DefaultConfiguration", "LastModified">>,
   <<"prov", "ManagementPolicy", "venue">>, <<"prov", "ManagementRole", "inUse">>,
   <<"sub", "HomeDeviceMode", "leaseTime">>}

\* Structs whose from_json returns true without having read anything.
Discarded == {<<"fms", "DeviceReport">>, <<"owls", "Dashboard">>}

\* The members the changed field is read into.
Touched == {Schema.from[i][2] : i \in {j \in DOMAIN Schema.from :
                                         changed # <<>> /\ Schema.from[j][1] = changed[1]}}

\* Values that have no form of their own in the document: an empty string that
\* is embedded as a document becomes "{}", a contact of type manager is read as
\* unknown, and an access type nobody initialised is printed as none (or as the
\* enumerator it happens to be, which is then one of Originals).
Lossy(m) ==
  \/ Schema.members[m] = "document" /\ source[m] = "unset"
  \/ Schema.members[m] = "contactKind" /\ source[m] = "CT_MANAGER"
  \/ Schema.members[m] = "accessType" /\ source[m] = "garbage"

\* Structs whose from_json reports what an exception left as read.
Lenient == {<<"fms", "Firmware">>}

\* The kinds field_from_json has an overload for.
Readable == {"text", "document", "flag", "rawFlag", "number", "rawNumber", "userRole",
             "accessType", "locationKind", "contactKind", "list", "numbers", "pairs", "vector",
             "object", "embedded"}

\* The last statement that reads a member reads a field that the last statement
\* about it writes from the same member; what only a client writes is no enumeration.
Carried(class, m) ==
  \E i \in DOMAIN class.from :
    /\ class.from[i][2] = m
    /\ \A j \in DOMAIN class.from : class.from[j][2] = m => j <= i
    /\ IF class.to = <<>> THEN Filled(class.members[m]) = {"x"}
       ELSE \E k \in DOMAIN class.to :
              /\ class.to[k] = class.from[i]
              /\ \A l \in DOMAIN class.to : class.to[l][1] = class.from[i][1] => l <= k

Fits(ns, name, class) ==
  /\ {class.to, class.from} \subseteq Seq(STRING \X DOMAIN class.members)
  /\ \A i, j \in DOMAIN class.from :
       class.from[i][1] = class.from[j][1] =>
         class.members[class.from[i][2]] = class.members[class.from[j][2]]
  /\ \A m, n \in DOMAIN class.members :
       Filled(class.members[m]) # {"x"} /\ Filled(class.members[n]) # {"x"} => m = n
  /\ \A m \in DOMAIN class.members :
       class.reads /\ class.members[m] = "locationKind" =>
         class.strict /\ \E i \in DOMAIN class.from : class.from[i][2] = m
  /\ class.reads /\ <<ns, name>> \notin Discarded =>
       \A m \in DOMAIN class.members : <<ns, name, m>> \in NotCarried \/ Carried(class, m)
  /\ class.strict \/ <<ns, name>> \in Lenient
  /\ IF ns = "rows"
       THEN /\ class.to # <<>>
            /\ \A i, j \in DOMAIN class.from : class.from[i][2] = class.from[j][2] => i = j
            /\ \A i, j \in DOMAIN class.to : class.to[i][1] = class.to[j][1] => i = j
       ELSE \A i \in DOMAIN class.from : class.members[class.from[i][2]] \in Readable

\* What the two sides of every class and table have to agree on, field by field.
ASSUME SchemasFit ==
  \A ns \in DOMAIN Records : \A name \in DOMAIN Records[ns] : Fits(ns, name, Records[ns][name])

\* What is written is what is read: an object that from_json accepts, or a row
\* that Convert turns into a record, has in every member what the object that
\* was written had, but for the field that was changed on the way, the members
\* that are not carried and the values without a form.  So a field that
\* is bad does not silently cost another member: an answer or a request with
\* one is accepted without it or rejected.  The firmware object is the one that
\* is reported as read after an exception, and loses what follows.
RoundTrip ==
  phase = "read" =>
    /\ ok \/ changed # <<>>
    /\ ok => \A m \in DOMAIN source :
               \/ target[m] = source[m]
               \/ m \in Touched
               \/ <<record[1], record[2], m>> \in NotCarried
               \/ record \in Discarded
               \/ Lossy(m)
               \/ record = <<"fms", "Firmware">> /\ changed # <<>> /\ changed[2] \in {"odd", "mixed"}
=============================================================================
