----------------------------- MODULE JsonFields -----------------------------
(***************************************************************************)
(* How an object becomes a JSON document and comes back: the overloads of  *)
(* field_to_json and field_from_json (framework/RESTAPI_utils.h) and the   *)
(* shape every to_json and from_json has.                                  *)
(*                                                                         *)
(* A struct is a function from its members to their KINDS, one kind per    *)
(* overload.  The value of a member is "x" (what its owner put there),     *)
(* "unset" (as the struct initialises it), "garbage" (never initialised),  *)
(* "other" (converted from something of another type), "part" (some of the *)
(* elements, or some of the members, of what was sent), "{}" or an         *)
(* enumerator.  A field of a document holds such a value, printed, or one  *)
(* of the forms a sender can give it:                                      *)
(*   "none"   absent or null,                                              *)
(*   "odd"    of a type the overload cannot use,                           *)
(*   "mixed"  an array with an element of the wrong type,                  *)
(*   "inner"  an object, or an array of them, with a field from_json       *)
(*            cannot convert.                                              *)
(***************************************************************************)
EXTENDS EnumNames, Naturals, Sequences, FiniteSetsExt

-----------------------------------------------------------------------------
\* Members of each kind, to be joined with @@.
Text(S) == [m \in S |-> "text"]              \* std::string
Flag(S) == [m \in S |-> "flag"]              \* bool
Number(S) == [m \in S |-> "number"]          \* integers, double, float
RawFlag(S) == [m \in S |-> "rawFlag"]        \* the same two without an initialiser
RawNumber(S) == [m \in S |-> "rawNumber"]
List(S) == [m \in S |-> "list"]              \* vectors of strings
Numbers(S) == [m \in S |-> "numbers"]        \* TagList, IntList, DoubleList
Pairs(S) == [m \in S |-> "pairs"]            \* StringPairVec
Counters(S) == [m \in S |-> "counters"]      \* CountedMap and Counted3DMapSII: never read
Vector(S) == [m \in S |-> "vector"]          \* vectors of objects
Object(S) == [m \in S |-> "object"]          \* a nested object
Embedded(S) == [m \in S |-> "embedded"]      \* info: its fields lie among the owner's own
Document(S) == [m \in S |-> "document"]      \* a string that holds JSON (EmbedDocument)
UserRole(S) == [m \in S |-> "userRole"]
AccessType(S) == [m \in S |-> "accessType"]
LocationKind(S) == [m \in S |-> "locationKind"]
ContactKind(S) == [m \in S |-> "contactKind"]

\* What a default-constructed struct holds in a member.
Fresh(kind) ==
  CASE kind \in {"rawFlag", "rawNumber", "accessType", "locationKind"} -> "garbage"
    [] kind = "userRole" -> "UNKNOWN"
    [] kind = "contactKind" -> "CT_USER"
    [] OTHER -> "unset"

-----------------------------------------------------------------------------
\* The field that field_to_json (or EmbedDocument) writes for a member.
FieldToJson(kind, v) ==
  CASE kind = "document" /\ v = "unset" -> "{}"
    [] kind = "userRole" -> UserTypeToString(v)
    [] kind = "accessType" -> ResourceAccessTypeToString(v)
    [] kind = "locationKind" -> LocationToString(v)
    [] kind = "contactKind" -> ContactToString(v)
    [] OTHER -> v

\* The scalar overloads: a field that is absent or null assigns nothing.  A
\* number that does not convert throws before the assignment; a string takes
\* whatever the value prints as, and a bool is false unless it prints "true".
ScalarFromJson(kind, field, v) ==
  CASE field = "none" -> v
    [] field = "odd" -> IF kind \in {"number", "rawNumber"} THEN v ELSE "other"
    [] OTHER -> field

\* The overload with a conversion function; locations and contacts call the
\* conversion themselves, on a string that stays empty when there is no field.
NameFromJson(kind, field, v) ==
  CASE kind = "locationKind" -> location_from_string(field)
    [] kind = "contactKind" -> contact_from_string(field)
    [] kind = "userRole" -> IF field = "none" THEN v ELSE UserTypeFromString(field)
    [] kind = "accessType" ->
         IF field = "none" THEN v ELSE ResourceAccessTypeFromString(field)

\* The overloads for vectors of values and of pairs: anything but an array is
\* ignored, and the elements before one that does not convert stay.
ArrayFromJson(field, v) ==
  CASE field \in {"none", "odd"} -> v
    [] field = "mixed" -> "part"
    [] OTHER -> field

\* The templates for objects and vectors of objects, and info.from_json(Obj):
\* the result of the nested from_json is ignored.
ObjectFromJson(field, v) ==
  CASE field \in {"none", "odd"} -> v
    [] field \in {"mixed", "inner"} -> "part"
    [] OTHER -> field

FieldFromJson(kind, field, v) ==
  CASE kind \in {"text", "document", "flag", "rawFlag", "number", "rawNumber"} ->
           ScalarFromJson(kind, field, v)
    [] kind \in {"userRole", "accessType", "locationKind", "contactKind"} ->
           NameFromJson(kind, field, v)
    [] kind \in {"list", "numbers", "pairs"} -> ArrayFromJson(field, v)
    [] kind \in {"vector", "object", "embedded"} -> ObjectFromJson(field, v)

\* Whether the overload leaves by an exception of Poco.
FieldThrows(kind, field) ==
  \/ field = "odd" /\ kind \in {"number", "rawNumber"}
  \/ field = "mixed"

\* The forms, other than the one to_json writes, that a field of a kind can
\* have in a document.  Any class is assumed to have a member that can fail.
Forms(kind) ==
  CASE kind = "embedded" -> {"inner"}
    [] kind = "object" -> {"none", "odd", "inner"}
    [] kind = "vector" -> {"none", "odd", "mixed", "inner"}
    [] kind \in {"numbers", "pairs"} -> {"none", "odd", "mixed"}
    [] OTHER -> {"none", "odd"}

-----------------------------------------------------------------------------
(* What to_json writes and from_json reads, each as the sequence of its    *)
(* statements <<field, member>>; strict: an exception makes from_json      *)
(* return false; reads: there is a from_json.                              *)
Named(fields, members) == [i \in DOMAIN fields |-> <<fields[i], members[i]>>]
Same(fields) == Named(fields, fields)

Two(to, from) == [to |-> to, from |-> from, strict |-> TRUE, reads |-> TRUE]
Both(fields) == Two(Same(fields), Same(fields))
BothNamed(fields, members) == Two(Named(fields, members), Named(fields, members))
WriteOnly(to) == [Two(to, <<>>) EXCEPT !.reads = FALSE]
ReadOnly(from) == Two(<<>>, from)

Class(members, json) == [members |-> members, to |-> json.to, from |-> json.from,
                         strict |-> json.strict, reads |-> json.reads]

\* Obj after to_json: the last statement that writes a field decides.
ToJson(class, object) ==
  LET Fields == {class.to[i][1] : i \in DOMAIN class.to}
      Writer(f) == Max({i \in DOMAIN class.to : class.to[i][1] = f})
      Member(f) == class.to[Writer(f)][2]
  IN [f \in Fields |-> FieldToJson(class.members[Member(f)], object[Member(f)])]

\* from_json on a default-constructed object: the statements in order, up to
\* the first that throws.  No member with an appending overload is read twice.
FromJson(class, document) ==
  LET Field(i) == IF class.from[i][1] \in DOMAIN document
                    THEN document[class.from[i][1]] ELSE "none"
      Kind(i) == class.members[class.from[i][2]]
      Throwing == {i \in DOMAIN class.from : FieldThrows(Kind(i), Field(i))}
      Done == {i \in DOMAIN class.from : \A j \in Throwing : i <= j}
      Readers(m) == {i \in Done : class.from[i][2] = m}
  IN [ok |-> Throwing = {} \/ ~class.strict,
      object |-> [m \in DOMAIN class.members |->
                    IF Readers(m) = {} THEN Fresh(class.members[m])
                    ELSE FieldFromJson(class.members[m], Field(Max(Readers(m))),
                                       Fresh(class.members[m]))]]
=============================================================================
