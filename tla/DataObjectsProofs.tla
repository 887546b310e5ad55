------------------------- MODULE DataObjectsProofs -------------------------
(***************************************************************************)
(* RoundTrip for any number of trips.  What the two functions of every     *)
(* class and table have to agree on is the assumption SchemasFit, a fact   *)
(* about the finite tables that TLC evaluates; nothing here opens a table. *)
(* From it follows, for any class that fits, that one trip keeps what is   *)
(* carried (JsonTrip, RowTrip) and leaves an object that can make another  *)
(* (JsonHeld): a value is never mistaken for one of the forms of a bad     *)
(* field, and every member of an enumeration stays in it.                  *)
(***************************************************************************)
EXTENDS DataObjects, WellFoundedInduction, TLAPS

\* The forms of a field that no value prints as.
BadForms == {"none", "odd", "mixed", "inner"}

EnumKinds == {"userRole", "accessType", "locationKind", "contactKind"}

\* What a member of a kind can hold.
Held(kind, v) ==
  /\ kind = "userRole" => v \in UserRoles
  /\ kind = "accessType" => v \in ResourceAccessTypes \cup {"garbage"}
  /\ kind = "locationKind" => v \in LocationTypes
  /\ kind = "contactKind" => v \in ContactTypes
  /\ kind \notin EnumKinds => v \notin BadForms

\* Lossy, for a kind and a value.
NoForm(kind, v) ==
  \/ kind = "document" /\ v = "unset"
  \/ kind = "contactKind" /\ v = "CT_MANAGER"
  \/ kind = "accessType" /\ v = "garbage"

\* A set of positions has a last one: the least-number principle, applied to the
\* distances from the end.
LEMMA LastExists ==
  ASSUME NEW n \in Nat, NEW S \in SUBSET (1 .. n), S # {}
  PROVE  \E x \in S : \A y \in S : y <= x
  <1> DEFINE R == {p \in Nat \X Nat : p[1] < p[2]}
             T == {n - x : x \in S}
  <1>1. IsWellFoundedOn(R, Nat)
    BY NatLessThanWellFounded DEF OpToRel
  <1>2. T \subseteq Nat /\ T # {}
    <2>1. \A x \in S : x \in 1 .. n /\ n - x \in Nat
      OBVIOUS
    <2>2. \A d \in T : d \in Nat
      BY <2>1
    <2>3. PICK x \in S : TRUE
      OBVIOUS
    <2>4. n - x \in T
      OBVIOUS
    <2> QED BY <2>2, <2>4
  <1> HIDE DEF R
  <1>3. PICK d \in T : \A e \in T : <<e, d>> \notin R
    BY <1>1, <1>2, WFMin, Zenon
  <1>4. PICK x \in S : d = n - x
    OBVIOUS
  <1>5. ASSUME NEW y \in S PROVE y <= x
    <2>1. <<n - y, d>> \notin R /\ n - y \in Nat /\ d \in Nat
      BY <1>2, <1>3, <1>5
    <2>2. ~ (n - y < d)
      BY <2>1 DEF R
    <2> QED BY <2>2, <1>4
  <1> QED BY <1>5

\* The operator Max finds it.
LEMMA MaxIs ==
  ASSUME NEW S \in SUBSET Nat, NEW x \in S, \A y \in S : y <= x
  PROVE  Max(S) = x
  <1>1. \A z \in S : (\A y \in S : z >= y) => z = x
    OBVIOUS
  <1>2. \A y \in S : x >= y
    OBVIOUS
  <1>3. Max(S) \in S /\ \A y \in S : Max(S) >= y
    BY <1>2, Zenon DEF Max
  <1> QED BY <1>1, <1>3

\* What the printers of the four enumerations print is read back by their parsers
\* and is none of the bad forms.
LEMMA UserRoleTrip ==
  \A v \in UserRoles :
    UserTypeFromString(UserTypeToString(v)) = v /\ UserTypeToString(v) \notin BadForms
  BY DEF UserRoles, UserTypeFromString, UserTypeToString, Lookup, BadForms

\* The same of the access types, but for one that was never initialised.
LEMMA AccessTrip ==
  \A v \in ResourceAccessTypes \cup {"garbage"} :
     /\ ResourceAccessTypeToString(v) \notin BadForms
     /\ v # "garbage" => ResourceAccessTypeFromString(ResourceAccessTypeToString(v)) = v
  BY DEF ResourceAccessTypes, ResourceAccessTypeFromString, ResourceAccessTypeToString, BadForms

\* The same of the locations.
LEMMA LocationTrip ==
  \A v \in LocationTypes :
    location_from_string(LocationToString(v)) = v /\ LocationToString(v) \notin BadForms
  BY DEF LocationTypes, location_from_string, LocationToString, Lookup, BadForms

\* The same of the contacts, but for managers.
LEMMA ContactTrip ==
  \A v \in ContactTypes :
    /\ ContactToString(v) \notin BadForms
    /\ v # "CT_MANAGER" => contact_from_string(ContactToString(v)) = v
  BY DEF ContactTypes, contact_from_string, ContactToString, Lookup, BadForms

\* Whatever they are given, the parsers answer with an enumerator.
LEMMA ParsersStay ==
  \A s : /\ UserTypeFromString(s) \in UserRoles
         /\ ResourceAccessTypeFromString(s) \in ResourceAccessTypes
         /\ location_from_string(s) \in LocationTypes
         /\ contact_from_string(s) \in ContactTypes
  BY DEF UserRoles, UserTypeFromString, ResourceAccessTypes, ResourceAccessTypeFromString,
         LocationTypes, location_from_string, ContactTypes, contact_from_string, Lookup

\* field_from_json undoes field_to_json, overload by overload.
LEMMA FieldTrip ==
  ASSUME NEW kind \in Readable, NEW v, NEW w, Held(kind, v)
  PROVE  /\ FieldToJson(kind, v) \notin BadForms
         /\ ~NoForm(kind, v) => FieldFromJson(kind, FieldToJson(kind, v), w) = v
  <1>1. CASE kind = "userRole"
    BY <1>1, UserRoleTrip DEF Held, EnumKinds, FieldToJson, FieldFromJson, NameFromJson, BadForms
  <1>2. CASE kind = "accessType"
    BY <1>2, AccessTrip DEF Held, EnumKinds, FieldToJson, FieldFromJson, NameFromJson, BadForms, NoForm
  <1>3. CASE kind = "locationKind"
    BY <1>3, LocationTrip DEF Held, EnumKinds, FieldToJson, FieldFromJson, NameFromJson, BadForms
  <1>4. CASE kind = "contactKind"
    BY <1>4, ContactTrip DEF Held, EnumKinds, FieldToJson, FieldFromJson, NameFromJson, BadForms, NoForm
  <1>5. CASE kind \in {"text", "document", "flag", "rawFlag", "number", "rawNumber"}
    BY <1>5 DEF Held, EnumKinds, FieldToJson, FieldFromJson, ScalarFromJson, BadForms, NoForm
  <1>6. CASE kind \in {"list", "numbers", "pairs"}
    BY <1>6 DEF Held, EnumKinds, FieldToJson, FieldFromJson, ArrayFromJson, BadForms
  <1>7. CASE kind \in {"vector", "object", "embedded"}
    BY <1>7 DEF Held, EnumKinds, FieldToJson, FieldFromJson, ObjectFromJson, BadForms
  <1> QED BY <1>1, <1>2, <1>3, <1>4, <1>5, <1>6, <1>7 DEF Readable

\* to_json writes none of the bad forms, for members nobody reads either.
LEMMA WrittenForm ==
  ASSUME NEW kind, NEW v, Held(kind, v)
  PROVE  FieldToJson(kind, v) \notin BadForms
  <1>1. CASE kind \in EnumKinds
    BY <1>1, FieldTrip DEF EnumKinds, Readable
  <1>2. CASE kind \notin EnumKinds
    BY <1>2 DEF Held, EnumKinds, FieldToJson, BadForms
  <1> QED BY <1>1, <1>2

\* A default-constructed member is fit to be written, but for a location.
LEMMA FreshHeld ==
  ASSUME NEW kind, kind # "locationKind"
  PROVE  Held(kind, Fresh(kind))
  BY DEF Held, EnumKinds, Fresh, UserRoles, ContactTypes, BadForms

\* Whatever the field looks like, the member that is read from it can be written.
LEMMA FieldHeld ==
  ASSUME NEW kind \in Readable, NEW field,
         field \notin BadForms \/ field \in Forms(kind) \/ field = "none"
  PROVE  Held(kind, FieldFromJson(kind, field, Fresh(kind)))
  <1>1. CASE kind = "userRole"
    BY <1>1, ParsersStay DEF Held, EnumKinds, FieldFromJson, NameFromJson, Fresh, UserRoles
  <1>2. CASE kind = "accessType"
    BY <1>2, ParsersStay DEF Held, EnumKinds, FieldFromJson, NameFromJson, Fresh
  <1>3. CASE kind = "locationKind"
    BY <1>3, ParsersStay DEF Held, EnumKinds, FieldFromJson, NameFromJson
  <1>4. CASE kind = "contactKind"
    BY <1>4, ParsersStay DEF Held, EnumKinds, FieldFromJson, NameFromJson
  <1>5. CASE kind \in {"text", "document", "flag", "rawFlag", "number", "rawNumber"}
    BY <1>5 DEF Held, EnumKinds, FieldFromJson, ScalarFromJson, BadForms, Forms, Fresh
  <1>6. CASE kind \in {"list", "numbers", "pairs"}
    BY <1>6 DEF Held, EnumKinds, FieldFromJson, ArrayFromJson, BadForms, Forms, Fresh
  <1>7. CASE kind \in {"vector", "object", "embedded"}
    BY <1>7 DEF Held, EnumKinds, FieldFromJson, ObjectFromJson, BadForms, Forms, Fresh
  <1> QED BY <1>1, <1>2, <1>3, <1>4, <1>5, <1>6, <1>7 DEF Readable
-----------------------------------------------------------------------------
\* An object of a class with values its members can hold.
HeldIn(class, object) ==
  /\ DOMAIN object = DOMAIN class.members
  /\ \A m \in DOMAIN class.members : Held(class.members[m], object[m])

\* What a client fills in.
ClientFills(class, object) ==
  \A m \in DOMAIN class.members : Filled(class.members[m]) = {"x"} => object[m] = "x"

\* The document that Write makes.
DocumentOf(class, object) ==
  IF class.to = <<>> THEN [f \in {class.from[i][1] : i \in DOMAIN class.from} |-> "x"]
  ELSE ToJson(class, object)

\* The document, or the row, after the change on the way.
Sent(carried, change) ==
  IF change = <<>> THEN carried ELSE [carried EXCEPT ![change[1]] = change[2]]

\* The statements of a class that fits are about its members.
LEMMA Statements ==
  ASSUME NEW ns, NEW name, NEW class, Fits(ns, name, class)
  PROVE  /\ class.to \in Seq(STRING \X DOMAIN class.members)
         /\ class.from \in Seq(STRING \X DOMAIN class.members)
         /\ DOMAIN class.to \subseteq Nat /\ DOMAIN class.from \subseteq Nat
         /\ \A i \in DOMAIN class.to : class.to[i][2] \in DOMAIN class.members
         /\ \A i \in DOMAIN class.from : class.from[i][2] \in DOMAIN class.members
  <1>1. /\ class.to \in Seq(STRING \X DOMAIN class.members)
        /\ class.from \in Seq(STRING \X DOMAIN class.members)
    BY DEF Fits
  <1>2. DOMAIN class.to = 1 .. Len(class.to) /\ DOMAIN class.from = 1 .. Len(class.from)
    BY <1>1
  <1>3. DOMAIN class.to \subseteq Nat /\ DOMAIN class.from \subseteq Nat
    BY <1>2
  <1> QED BY <1>1, <1>3

\* One field is read into members of one kind.
LEMMA OneKind ==
  ASSUME NEW ns, NEW name, NEW class, Fits(ns, name, class)
  PROVE  \A i, j \in DOMAIN class.from :
           class.from[i][1] = class.from[j][1] =>
             class.members[class.from[i][2]] = class.members[class.from[j][2]]
  BY Zenon DEF Fits

\* The last of some statements is one of them.
LEMMA LastOf ==
  ASSUME NEW T, NEW s \in Seq(T), NEW S \in SUBSET DOMAIN s, S # {}
  PROVE  Max(S) \in S
  <1>1. Len(s) \in Nat /\ S \in SUBSET (1 .. Len(s)) /\ S \in SUBSET Nat
    OBVIOUS
  <1>2. PICK x \in S : \A y \in S : y <= x
    BY <1>1, LastExists
  <1> QED BY <1>1, <1>2, MaxIs

\* No field of a document that was written has a bad form.
LEMMA DocumentPlain ==
  ASSUME NEW ns, NEW name, NEW class, Fits(ns, name, class), NEW object, HeldIn(class, object),
         NEW f \in DOMAIN DocumentOf(class, object)
  PROVE  DocumentOf(class, object)[f] \notin BadForms
  <1>1. CASE class.to = <<>>
    BY <1>1 DEF DocumentOf, BadForms
  <1>2. CASE class.to # <<>>
    <2> DEFINE Writers == {i \in DOMAIN class.to : class.to[i][1] = f}
               m == class.to[Max(Writers)][2]
    <2>1. /\ f \in {class.to[i][1] : i \in DOMAIN class.to}
          /\ DocumentOf(class, object)[f] = FieldToJson(class.members[m], object[m])
      BY <1>2 DEF DocumentOf, ToJson
    <2>2. Max(Writers) \in Writers
      <3>1. class.to \in Seq(STRING \X DOMAIN class.members)
        BY Statements
      <3>2. Writers \in SUBSET DOMAIN class.to /\ Writers # {}
        BY <2>1
      <3> HIDE DEF Writers
      <3> QED BY <3>1, <3>2, LastOf
    <2>3. m \in DOMAIN class.members
      BY <2>2, Statements
    <2> HIDE DEF m
    <2> QED BY <2>1, <2>3, WrittenForm DEF HeldIn
  <1> QED BY <1>1, <1>2

\* The last statement that writes a field decides what is in it.
LEMMA DocumentHas ==
  ASSUME NEW ns, NEW name, NEW class, Fits(ns, name, class), NEW object, class.to # <<>>,
         NEW k \in DOMAIN class.to,
         \A l \in DOMAIN class.to : class.to[l][1] = class.to[k][1] => l <= k
  PROVE  /\ class.to[k][1] \in DOMAIN DocumentOf(class, object)
         /\ DocumentOf(class, object)[class.to[k][1]]
              = FieldToJson(class.members[class.to[k][2]], object[class.to[k][2]])
  <1> DEFINE f == class.to[k][1]
             Writers == {i \in DOMAIN class.to : class.to[i][1] = f}
  <1>0. DOMAIN class.to \subseteq Nat
    BY Statements
  <1>1. Writers \in SUBSET Nat /\ k \in Writers /\ \A y \in Writers : y <= k
    BY <1>0
  <1>2. Max(Writers) = k
    BY <1>1, MaxIs
  <1>3. f \in {class.to[i][1] : i \in DOMAIN class.to}
    OBVIOUS
  <1> QED BY <1>2, <1>3 DEF DocumentOf, ToJson

\* What Change may do to a document.
IsChange(class, change) ==
  \/ change = <<>>
  \/ \E i \in DOMAIN class.from :
       \E form \in Forms(class.members[class.from[i][2]]) : change = <<class.from[i][1], form>>

\* The field a statement of from_json finds.
FieldIn(class, document, i) ==
  IF class.from[i][1] \in DOMAIN document THEN document[class.from[i][1]] ELSE "none"

\* A field that is bad was changed on the way, and has one of the forms of its kind.
LEMMA FieldSent ==
  ASSUME NEW ns, NEW name, NEW class, Fits(ns, name, class), NEW object, HeldIn(class, object),
         NEW change, IsChange(class, change), NEW i \in DOMAIN class.from
  PROVE  LET document == Sent(DocumentOf(class, object), change)
             field == FieldIn(class, document, i)
         IN /\ \/ field \notin BadForms
               \/ field \in Forms(class.members[class.from[i][2]])
               \/ field = "none"
            /\ change = <<>> \/ change[1] # class.from[i][1] =>
                 /\ field = FieldIn(class, DocumentOf(class, object), i)
                 /\ field \notin BadForms \ {"none"}
            /\ change # <<>> /\ field \in {"odd", "mixed"} => field = change[2]
  <1> DEFINE doc == DocumentOf(class, object)
             document == Sent(doc, change)
             f == class.from[i][1]
             field == FieldIn(class, document, i)
  <1>1. FieldIn(class, doc, i) \notin BadForms \ {"none"}
    BY DocumentPlain DEF FieldIn
  <1>2. CASE change = <<>>
    BY <1>1, <1>2 DEF Sent, BadForms
  <1>3. CASE change # <<>>
    <2>1. PICK j \in DOMAIN class.from : \E form \in Forms(class.members[class.from[j][2]]) :
            change = <<class.from[j][1], form>>
      BY <1>3 DEF IsChange
    <2>2. change[2] \in Forms(class.members[class.from[j][2]]) /\ change[1] = class.from[j][1]
      BY <2>1
    <2>3. document = [doc EXCEPT ![change[1]] = change[2]] /\ DOMAIN document = DOMAIN doc
      BY <1>3 DEF Sent
    <2>4. CASE change[1] # f
      <3>1. field = FieldIn(class, doc, i)
        BY <2>3, <2>4 DEF FieldIn
      <3> QED BY <1>1, <2>4, <3>1 DEF BadForms
    <2>5. CASE change[1] = f
      <3>1. class.members[class.from[i][2]] = class.members[class.from[j][2]]
        <4>1. class.from[i][1] = class.from[j][1]
          BY <2>2, <2>5
        <4> QED BY <4>1, OneKind
      <3>2. field \in {"none", change[2]}
        BY <2>3, <2>5 DEF FieldIn
      <3> QED BY <1>3, <2>2, <2>5, <3>1, <3>2
    <2> QED BY <2>4, <2>5
  <1> QED BY <1>2, <1>3
\* The statements of from_json that throw, and those that read a member before.
ThrowsIn(class, document) ==
  {i \in DOMAIN class.from :
     FieldThrows(class.members[class.from[i][2]], FieldIn(class, document, i))}

ReadersIn(class, document, m) ==
  {i \in {j \in DOMAIN class.from : \A k \in ThrowsIn(class, document) : j <= k} :
     class.from[i][2] = m}

\* from_json, in these terms.
LEMMA FromJsonIs ==
  ASSUME NEW class, NEW document
  PROVE  LET r == FromJson(class, document) IN
         /\ r.ok <=> ThrowsIn(class, document) = {} \/ ~class.strict
         /\ DOMAIN r.object = DOMAIN class.members
         /\ \A m \in DOMAIN class.members :
              r.object[m] =
                IF ReadersIn(class, document, m) = {} THEN Fresh(class.members[m])
                ELSE FieldFromJson(class.members[m],
                                   FieldIn(class, document, Max(ReadersIn(class, document, m))),
                                   Fresh(class.members[m]))
  BY DEF FromJson, ThrowsIn, ReadersIn, FieldIn

\* A client's value is written as it is.
LEMMA Plain ==
  ASSUME NEW kind, Filled(kind) = {"x"}
  PROVE  kind \notin EnumKinds /\ FieldToJson(kind, "x") = "x" /\ ~NoForm(kind, "x")
  <1>1. /\ "UNKNOWN" \in UserRoles /\ "READ" \in ResourceAccessTypes
        /\ "LT_AUTO" \in LocationTypes /\ "CT_CSR" \in ContactTypes
    BY DEF UserRoles, ResourceAccessTypes, LocationTypes, ContactTypes
  <1>2. kind \notin EnumKinds
    BY <1>1 DEF Filled, EnumKinds
  <1> QED BY <1>2 DEF EnumKinds, FieldToJson, NoForm

\* Only a changed field of the wrong type makes from_json throw.
LEMMA JsonThrows ==
  ASSUME NEW ns, NEW name, NEW class, Fits(ns, name, class), NEW object, HeldIn(class, object),
         NEW change, IsChange(class, change),
         ThrowsIn(class, Sent(DocumentOf(class, object), change)) # {}
  PROVE  change # <<>> /\ change[2] \in {"odd", "mixed"}
  <1> DEFINE document == Sent(DocumentOf(class, object), change)
  <1>1. PICK i \in DOMAIN class.from :
          FieldThrows(class.members[class.from[i][2]], FieldIn(class, document, i))
    BY DEF ThrowsIn
  <1>2. FieldIn(class, document, i) \in {"odd", "mixed"}
    BY <1>1 DEF FieldThrows
  <1>3. /\ change = <<>> \/ change[1] # class.from[i][1] =>
             FieldIn(class, document, i) \notin BadForms \ {"none"}
        /\ change # <<>> /\ FieldIn(class, document, i) \in {"odd", "mixed"} =>
             FieldIn(class, document, i) = change[2]
    BY FieldSent
  <1> QED BY <1>2, <1>3 DEF BadForms

\* An object that from_json accepts can be written again.
LEMMA JsonHeld ==
  ASSUME NEW ns, NEW name, NEW class, Fits(ns, name, class), ns # "rows", class.reads,
         NEW object, HeldIn(class, object), NEW change, IsChange(class, change),
         FromJson(class, Sent(DocumentOf(class, object), change)).ok
  PROVE  HeldIn(class, FromJson(class, Sent(DocumentOf(class, object), change)).object)
  <1> DEFINE document == Sent(DocumentOf(class, object), change)
             r == FromJson(class, document)
             Readers(m) == ReadersIn(class, document, m)
  <1>1. ASSUME NEW m \in DOMAIN class.members
        PROVE  Held(class.members[m], r.object[m])
    <2>1. CASE Readers(m) = {}
      <3>1. class.members[m] # "locationKind"
        <4> SUFFICES ASSUME class.members[m] = "locationKind" PROVE FALSE
          OBVIOUS
        <4>1. class.strict /\ \E i \in DOMAIN class.from : class.from[i][2] = m
          BY DEF Fits
        <4>2. ThrowsIn(class, document) = {}
          BY <4>1, FromJsonIs
        <4> QED BY <2>1, <4>1, <4>2 DEF ReadersIn
      <3>2. r.object[m] = Fresh(class.members[m])
        BY <2>1, FromJsonIs
      <3> QED BY <3>1, <3>2, FreshHeld
    <2>2. CASE Readers(m) # {}
      <3> DEFINE i == Max(Readers(m))
      <3>1. i \in Readers(m)
        <4>1. class.from \in Seq(STRING \X DOMAIN class.members)
          BY Statements
        <4>2. Readers(m) \in SUBSET DOMAIN class.from
          BY DEF ReadersIn
        <4> HIDE DEF Readers
        <4> QED BY <2>2, <4>1, <4>2, LastOf
      <3>2. i \in DOMAIN class.from /\ class.from[i][2] = m
        BY <3>1 DEF ReadersIn
      <3>3. r.object[m] = FieldFromJson(class.members[m], FieldIn(class, document, i),
                                        Fresh(class.members[m]))
        BY <2>2, FromJsonIs
      <3>4. class.members[m] \in Readable
        BY <3>2 DEF Fits
      <3> HIDE DEF i
      <3>5. \/ FieldIn(class, document, i) \notin BadForms
            \/ FieldIn(class, document, i) \in Forms(class.members[m])
            \/ FieldIn(class, document, i) = "none"
        BY <3>2, FieldSent
      <3> QED BY <3>3, <3>4, <3>5, FieldHeld
    <2> QED BY <2>1, <2>2
  <1> QED BY <1>1, FromJsonIs DEF HeldIn
\* One trip of an object through a document.
LEMMA JsonTrip ==
  ASSUME NEW ns, NEW name, NEW class, Fits(ns, name, class), ns # "rows", class.reads,
         NEW object, HeldIn(class, object), class.to = <<>> => ClientFills(class, object),
         NEW change, IsChange(class, change), NEW m \in DOMAIN class.members,
         FromJson(class, Sent(DocumentOf(class, object), change)).ok
  PROVE  \/ FromJson(class, Sent(DocumentOf(class, object), change)).object[m] = object[m]
         \/ /\ change # <<>>
            /\ \E j \in DOMAIN class.from :
                 class.from[j][1] = change[1] /\ class.from[j][2] = m
         \/ <<ns, name, m>> \in NotCarried
         \/ <<ns, name>> \in Discarded
         \/ NoForm(class.members[m], object[m])
         \/ <<ns, name>> \in Lenient /\ change # <<>> /\ change[2] \in {"odd", "mixed"}
  <1> DEFINE doc == DocumentOf(class, object)
             document == Sent(doc, change)
             r == FromJson(class, document)
             kind == class.members[m]
  <1>1. CASE ThrowsIn(class, document) # {}
    <2>1. ~class.strict
      BY <1>1, FromJsonIs
    <2>2. <<ns, name>> \in Lenient
      BY <2>1 DEF Fits
    <2> QED BY <1>1, <2>2, JsonThrows
  <1>2. CASE ThrowsIn(class, document) = {} /\ <<ns, name>> \notin Discarded
                /\ <<ns, name, m>> \notin NotCarried
    <2>1. Carried(class, m)
      BY <1>2 DEF Fits
    <2>2. PICK i \in DOMAIN class.from :
            /\ class.from[i][2] = m
            /\ \A j \in DOMAIN class.from : class.from[j][2] = m => j <= i
            /\ class.to = <<>> => Filled(class.members[m]) = {"x"}
            /\ class.to # <<>> =>
                 \E k \in DOMAIN class.to :
                    /\ class.to[k] = class.from[i]
                    /\ \A l \in DOMAIN class.to : class.to[l][1] = class.from[i][1] => l <= k
      BY <2>1 DEF Carried
    <2>3. Max(ReadersIn(class, document, m)) = i /\ ReadersIn(class, document, m) # {}
      <3> DEFINE Readers == ReadersIn(class, document, m)
      <3>1. Readers \in SUBSET Nat /\ i \in Readers /\ \A y \in Readers : y <= i
        BY <1>2, <2>2, Statements DEF ReadersIn
      <3> HIDE DEF Readers
      <3>2. Max(Readers) = i /\ Readers # {}
        BY <3>1, MaxIs
      <3> QED BY <3>2 DEF Readers
    <2>4. r.object[m] = FieldFromJson(kind, FieldIn(class, document, i), Fresh(kind))
      BY <2>3, FromJsonIs
    <2>5. kind \in Readable /\ Held(kind, object[m])
      BY <2>2 DEF Fits, HeldIn
    <2>6. CASE change # <<>> /\ change[1] = class.from[i][1]
      BY <2>2, <2>6
    <2>7. CASE change = <<>> \/ change[1] # class.from[i][1]
      <3>1. FieldIn(class, document, i) = FieldIn(class, doc, i)
        BY <2>7, FieldSent
      <3>2. FieldIn(class, doc, i) = FieldToJson(kind, object[m])
        <4>1. CASE class.to = <<>>
          <5>1. object[m] = "x" /\ FieldToJson(kind, "x") = "x"
            BY <2>2, <4>1, Plain DEF ClientFills
          <5>2. /\ class.from[i][1] \in {class.from[j][1] : j \in DOMAIN class.from}
                /\ doc = [f \in {class.from[j][1] : j \in DOMAIN class.from} |-> "x"]
            BY <4>1 DEF DocumentOf
          <5> HIDE DEF doc
          <5> QED BY <5>1, <5>2 DEF FieldIn
        <4>2. CASE class.to # <<>>
          <5>1. PICK k \in DOMAIN class.to :
                  /\ class.to[k] = class.from[i]
                  /\ \A l \in DOMAIN class.to : class.to[l][1] = class.from[i][1] => l <= k
            BY <2>2, <4>2
          <5>2. /\ class.to[k][1] \in DOMAIN doc
                /\ doc[class.to[k][1]] = FieldToJson(kind, object[m])
            BY <2>2, <4>2, <5>1, DocumentHas
          <5> QED BY <5>1, <5>2 DEF FieldIn
        <4> QED BY <4>1, <4>2
      <3> QED BY <2>4, <2>5, <3>1, <3>2, FieldTrip
    <2> QED BY <2>6, <2>7
  <1> QED BY <1>1, <1>2

-----------------------------------------------------------------------------
\* What Change may do to a row.
IsRowChange(table, change) ==
  \/ change = <<>>
  \/ \E i \in DOMAIN table.from :
       \E form \in ColumnForms(table.members[table.from[i][2]]) :
         change = <<table.from[i][1], form>>

\* A column reads as what was put into it, and does not throw.
LEMMA ColumnTrip ==
  ASSUME NEW kind, NEW v, Held(kind, v)
  PROVE  /\ FromColumn(kind, ToColumn(kind, v)) = v
         /\ ToColumn(kind, v) \notin {"none", "odd"} \/ kind \in EnumKinds \ {"userRole"}
         /\ ~ColumnThrows(kind, ToColumn(kind, v))
  <1>1. CASE kind = "userRole"
    BY <1>1, UserRoleTrip DEF Held, FromColumn, ToColumn, ColumnThrows, BadForms
  <1>2. CASE kind \in EnumKinds \ {"userRole"}
    BY <1>2 DEF Held, EnumKinds, FromColumn, ToColumn, ColumnThrows
  <1>3. CASE kind \notin EnumKinds
    BY <1>3 DEF Held, EnumKinds, FromColumn, ToColumn, ColumnThrows, BadForms,
                ArrayFromColumn, ObjectFromColumn
  <1> QED BY <1>1, <1>2, <1>3

\* Nor does a bad text in a column give a value that cannot be written.
LEMMA ColumnHeld ==
  ASSUME NEW kind, NEW text \in ColumnForms(kind)
  PROVE  Held(kind, FromColumn(kind, text))
  BY DEF Held, EnumKinds, FromColumn, ColumnForms, ArrayFromColumn, ObjectFromColumn, BadForms

\* One trip of a record through a row of its table.
LEMMA RowTrip ==
  ASSUME NEW name, NEW table, Fits("rows", name, table), table.reads,
         NEW object, HeldIn(table, object), NEW change, IsRowChange(table, change)
  PROVE  LET r == FromRow(table, Sent(ToRow(table, object), change)) IN
         /\ r.ok \/ change # <<>>
         /\ HeldIn(table, r.object)
         /\ \A m \in DOMAIN table.members :
              \/ r.object[m] = object[m]
              \/ /\ change # <<>>
                 /\ \E j \in DOMAIN table.from :
                      table.from[j][1] = change[1] /\ table.from[j][2] = m
  <1> DEFINE row == ToRow(table, object)
             changedRow == Sent(row, change)
             Position(m) == {i \in DOMAIN table.from : table.from[i][2] = m}
             Cell(m) == changedRow[table.from[CHOOSE i \in Position(m) : TRUE][1]]
             r == FromRow(table, changedRow)
  <1>1. /\ r.ok <=> \A m \in DOMAIN table.members :
                      Position(m) # {} => ~ColumnThrows(table.members[m], Cell(m))
        /\ DOMAIN r.object = DOMAIN table.members
        /\ \A m \in DOMAIN table.members :
             r.object[m] = IF Position(m) = {} THEN Fresh(table.members[m])
                           ELSE FromColumn(table.members[m], Cell(m))
    BY DEF FromRow
  <1> HIDE DEF r
  <1>2. ASSUME NEW m \in DOMAIN table.members
        PROVE  \E i \in DOMAIN table.from :
                 /\ table.from[i][2] = m
                 /\ Position(m) # {} /\ (CHOOSE j \in Position(m) : TRUE) = i
                 /\ table.from[i][1] \in DOMAIN row
                 /\ row[table.from[i][1]] = ToColumn(table.members[m], object[m])
    <2>1. Carried(table, m)
      BY Zenon DEF Fits, NotCarried, Discarded
    <2>2. table.to # <<>>
      BY DEF Fits
    <2>3. PICK i \in DOMAIN table.from : table.from[i][2] = m /\
                 \E k \in DOMAIN table.to : table.to[k] = table.from[i]
      BY <2>1, <2>2 DEF Carried
    <2>4. PICK k \in DOMAIN table.to : table.to[k] = table.from[i]
      BY <2>3
    <2>5. \A j \in Position(m) : j = i
      BY <2>3 DEF Fits
    <2>6. i \in Position(m)
      BY <2>3
    <2>7. (CHOOSE j \in Position(m) : TRUE) \in Position(m)
      BY <2>6, Zenon
    <2>8. \A l \in DOMAIN table.to : table.to[l][1] = table.from[i][1] => l = k
      BY <2>4 DEF Fits
    <2> DEFINE c == table.from[i][1]
    <2>9. (CHOOSE l \in DOMAIN table.to : table.to[l][1] = c) = k
      <3>1. \E l \in DOMAIN table.to : table.to[l][1] = c
        BY <2>4
      <3> HIDE DEF c
      <3>2. (CHOOSE l \in DOMAIN table.to : table.to[l][1] = c) \in DOMAIN table.to
            /\ table.to[CHOOSE l \in DOMAIN table.to : table.to[l][1] = c][1] = c
        BY <3>1, Zenon
      <3> QED BY <2>8, <3>2 DEF c
    <2>10. c \in {table.to[l][1] : l \in DOMAIN table.to}
      BY <2>4
    <2>11. row[c] = ToColumn(table.members[m], object[m]) /\ c \in DOMAIN row
      BY <2>3, <2>4, <2>9, <2>10 DEF ToRow
    <2> QED BY <2>3, <2>5, <2>6, <2>7, <2>11
  <1>3. ASSUME NEW m \in DOMAIN table.members,
               change = <<>> \/ ~ \E j \in DOMAIN table.from :
                                    table.from[j][1] = change[1] /\ table.from[j][2] = m
        PROVE  Position(m) # {} /\ Cell(m) = ToColumn(table.members[m], object[m])
    <2>1. PICK i \in DOMAIN table.from :
            /\ table.from[i][2] = m
            /\ Position(m) # {} /\ (CHOOSE j \in Position(m) : TRUE) = i
            /\ table.from[i][1] \in DOMAIN row
            /\ row[table.from[i][1]] = ToColumn(table.members[m], object[m])
      BY <1>2
    <2> HIDE DEF row
    <2>2. changedRow[table.from[i][1]] = row[table.from[i][1]]
      BY <1>3, <2>1 DEF Sent
    <2> HIDE DEF changedRow
    <2> QED BY <2>1, <2>2
  <1>4. ASSUME NEW m \in DOMAIN table.members,
               NEW j \in DOMAIN table.from, change # <<>>,
               table.from[j][1] = change[1], table.from[j][2] = m
        PROVE  Position(m) # {} /\ Cell(m) \in ColumnForms(table.members[m])
    <2>1. PICK i \in DOMAIN table.from :
            /\ table.from[i][2] = m
            /\ Position(m) # {} /\ (CHOOSE k \in Position(m) : TRUE) = i
            /\ table.from[i][1] \in DOMAIN row
      BY <1>2
    <2>2. i = j
      BY <1>4, <2>1 DEF Fits
    <2>3. PICK k \in DOMAIN table.from :
            \E form \in ColumnForms(table.members[table.from[k][2]]) :
              change = <<table.from[k][1], form>>
      BY <1>4 DEF IsRowChange
    <2>4. /\ change[1] = table.from[k][1]
          /\ change[2] \in ColumnForms(table.members[table.from[k][2]])
      BY <2>3
    <2>5. table.members[table.from[k][2]] = table.members[table.from[j][2]]
      <3>1. table.from[k][1] = table.from[j][1]
        BY <1>4, <2>4
      <3> QED BY <3>1, OneKind
    <2> HIDE DEF row
    <2>6. changedRow[table.from[i][1]] = change[2]
      BY <1>4, <2>1, <2>2 DEF Sent
    <2> HIDE DEF changedRow
    <2> QED BY <1>4, <2>1, <2>4, <2>5, <2>6
  <1> HIDE DEF Position, Cell, changedRow, row
  <1>5. r.ok \/ change # <<>>
    <2>1. ASSUME change = <<>>, NEW m \in DOMAIN table.members
          PROVE  ~ColumnThrows(table.members[m], Cell(m))
      BY <1>3, <2>1, ColumnTrip DEF HeldIn
    <2> QED BY <1>1, <2>1
  <1>6. ASSUME NEW m \in DOMAIN table.members
        PROVE  /\ Held(table.members[m], r.object[m])
               /\ \/ r.object[m] = object[m]
                  \/ /\ change # <<>>
                     /\ \E j \in DOMAIN table.from :
                          table.from[j][1] = change[1] /\ table.from[j][2] = m
    <2>1. CASE change = <<>> \/ ~ \E j \in DOMAIN table.from :
                                    table.from[j][1] = change[1] /\ table.from[j][2] = m
      <3>1. r.object[m] = FromColumn(table.members[m], ToColumn(table.members[m], object[m]))
        BY <1>1, <1>3, <2>1
      <3>2. Held(table.members[m], object[m])
        BY DEF HeldIn
      <3>3. r.object[m] = object[m]
        BY <3>1, <3>2, ColumnTrip
      <3> QED BY <3>2, <3>3
    <2>2. CASE change # <<>> /\ \E j \in DOMAIN table.from :
                                 table.from[j][1] = change[1] /\ table.from[j][2] = m
      <3>1. Position(m) # {} /\ Cell(m) \in ColumnForms(table.members[m])
        BY <1>4, <2>2
      <3>2. r.object[m] = FromColumn(table.members[m], Cell(m))
        BY <1>1, <3>1
      <3> QED BY <2>2, <3>1, <3>2, ColumnHeld
    <2> QED BY <2>1, <2>2
  <1>7. HeldIn(table, r.object)
    BY <1>1, <1>6 DEF HeldIn
  <1> QED BY <1>5, <1>6, <1>7 DEF r, changedRow, row
-----------------------------------------------------------------------------
\* The change of the state is one of those.
ChangeOK ==
  \/ changed = <<>>
  \/ \E i \in DOMAIN Schema.from :
       LET kind == Schema.members[Schema.from[i][2]] IN
       \E form \in IF IsRow THEN ColumnForms(kind) ELSE Forms(kind) :
         changed = <<Schema.from[i][1], form>>

\* What Write put into the carrier.
AsWritten == IF IsRow THEN ToRow(Schema, source) ELSE DocumentOf(Schema, source)

\* The inductive invariant: the carrier is what was written but for the change, and
\* what is to be written or was read can make a trip.
IInv ==
  /\ \E ns \in DOMAIN Records : \E name \in DOMAIN Records[ns] : record = <<ns, name>>
  /\ phase \in {"held", "sent", "read"}
  /\ HeldIn(Schema, source)
  /\ Schema.to = <<>> => ClientFills(Schema, source)
  /\ phase = "held" => changed = <<>>
  /\ phase = "sent" => ChangeOK /\ carrier = Sent(AsWritten, changed)
  /\ phase = "read" => RoundTrip /\ Schema.reads /\ (ok => HeldIn(Schema, target))

\* The class or table of the record fits.
LEMMA SchemaFits ==
  ASSUME IInv
  PROVE  /\ record = <<record[1], record[2]>>
         /\ Fits(record[1], record[2], Schema)
  BY SchemasFit DEF IInv, Schema

\* The objects their owners fill in can be written.
LEMMA OriginalsHeld ==
  ASSUME NEW ns, NEW name, NEW class, Fits(ns, name, class),
         NEW object \in Originals(class.members)
  PROVE  HeldIn(class, object) /\ ClientFills(class, object)
  <1> DEFINE Enum == {m \in DOMAIN class.members : Filled(class.members[m]) # {"x"}}
             Values == IF Enum = {} THEN {"x"} ELSE UNION {Filled(class.members[m]) : m \in Enum}
  <1>1. PICK v \in Values : object = [m \in DOMAIN class.members |-> IF m \in Enum THEN v ELSE "x"]
    BY Zenon DEF Originals
  <1>2. ASSUME NEW m \in DOMAIN class.members
        PROVE  /\ Held(class.members[m], object[m])
               /\ Filled(class.members[m]) = {"x"} => object[m] = "x"
    <2>1. CASE m \notin Enum
      <3>1. object[m] = "x" /\ Filled(class.members[m]) = {"x"}
        BY <1>1, <2>1
      <3> QED BY <3>1, Plain DEF Held, EnumKinds, BadForms
    <2>2. CASE m \in Enum
      <3>1. PICK n \in Enum : v \in Filled(class.members[n])
        BY <2>2
      <3>2. n = m
        BY <2>2, <3>1 DEF Fits
      <3>3. object[m] = v /\ v \in Filled(class.members[m]) /\ Filled(class.members[m]) # {"x"}
        BY <1>1, <2>2, <3>1, <3>2
      <3> QED BY <3>3 DEF Filled, Held, EnumKinds, BadForms
    <2> QED BY <2>1, <2>2
  <1> QED BY <1>1, <1>2 DEF HeldIn, ClientFills
\* The first of the two facts an invariant needs ...
LEMMA InitInv == Init => IInv
  <1> SUFFICES ASSUME Init PROVE IInv
    OBVIOUS
  <1>1. PICK ns \in DOMAIN Records : \E name \in DOMAIN Records[ns] :
          /\ record = <<ns, name>>
          /\ source \in Originals(Records[ns][name].members)
          /\ changed = <<>> /\ phase = "held"
    BY DEF Init
  <1>0. PICK name \in DOMAIN Records[ns] :
          /\ record = <<ns, name>>
          /\ source \in Originals(Records[ns][name].members)
          /\ changed = <<>> /\ phase = "held"
    BY <1>1
  <1>2. Schema = Records[ns][name] /\ Fits(ns, name, Schema)
    BY <1>0, SchemasFit DEF Schema
  <1>3. HeldIn(Schema, source) /\ ClientFills(Schema, source)
    BY <1>0, <1>2, OriginalsHeld
  <1> QED BY <1>0, <1>3 DEF IInv

\* ... the step that reads, where the trip shows ...
LEMMA ReadStep ==
  ASSUME IInv, Read
  PROVE  IInv'
  <1> DEFINE r == IF IsRow THEN FromRow(Schema, carrier) ELSE FromJson(Schema, carrier)
             ns == record[1]
             name == record[2]
  <1>1. /\ phase = "sent" /\ phase' = "read" /\ Schema.reads
        /\ target' = r.object /\ ok' = r.ok
        /\ record' = record /\ source' = source /\ changed' = changed
    BY DEF Read
  <1>2. Schema' = Schema /\ IsRow' = IsRow
    BY <1>1 DEF Schema, IsRow
  <1>3. /\ record = <<ns, name>> /\ Fits(ns, name, Schema)
        /\ HeldIn(Schema, source)
        /\ Schema.to = <<>> => ClientFills(Schema, source)
        /\ ChangeOK /\ carrier = Sent(AsWritten, changed)
    BY <1>1, SchemaFits DEF IInv
  <1> DEFINE TouchedBy(m) == /\ changed # <<>>
                             /\ \E j \in DOMAIN Schema.from :
                                  Schema.from[j][1] = changed[1] /\ Schema.from[j][2] = m
  <1>4. /\ r.ok \/ changed # <<>>
        /\ r.ok => HeldIn(Schema, r.object)
        /\ r.ok => \A m \in DOMAIN Schema.members :
             \/ r.object[m] = source[m]
             \/ TouchedBy(m)
             \/ <<ns, name, m>> \in NotCarried
             \/ record \in Discarded
             \/ NoForm(Schema.members[m], source[m])
             \/ record \in Lenient /\ changed # <<>> /\ changed[2] \in {"odd", "mixed"}
    <2>1. CASE IsRow
      <3>1. IsRowChange(Schema, changed)
        BY <1>3, <2>1 DEF ChangeOK, IsRowChange
      <3>2. r = FromRow(Schema, Sent(ToRow(Schema, source), changed)) /\ Fits("rows", name, Schema)
        BY <1>3, <2>1 DEF AsWritten, IsRow
      <3> HIDE DEF r
      <3> QED BY <1>1, <1>3, <3>1, <3>2, RowTrip
    <2>2. CASE ~IsRow
      <3>1. IsChange(Schema, changed)
        BY <1>3, <2>2 DEF ChangeOK, IsChange
      <3>2. r = FromJson(Schema, Sent(DocumentOf(Schema, source), changed)) /\ ns # "rows"
        BY <1>3, <2>2 DEF AsWritten, IsRow
      <3> HIDE DEF r
      <3>3. r.ok \/ changed # <<>>
        BY <1>3, <3>1, <3>2, JsonThrows, FromJsonIs
      <3>4. r.ok => HeldIn(Schema, r.object)
        BY <1>1, <1>3, <3>1, <3>2, JsonHeld
      <3> QED BY <1>1, <1>3, <3>1, <3>2, <3>3, <3>4, JsonTrip
    <2> QED BY <2>1, <2>2
  <1> HIDE DEF r
  <1>5. \A m : TouchedBy(m) => m \in Touched
    BY DEF Touched
  <1>6. \A m : NoForm(Schema.members[m], source[m]) => Lossy(m)
    BY DEF NoForm, Lossy
  <1>7. DOMAIN source = DOMAIN Schema.members
    BY <1>3 DEF HeldIn
  <1> HIDE DEF TouchedBy
  <1>8. /\ ok' \/ changed' # <<>>
        /\ ok' => \A m \in DOMAIN source' :
             \/ target'[m] = source'[m]
             \/ m \in Touched
             \/ <<ns, name, m>> \in NotCarried
             \/ record \in Discarded
             \/ Lossy(m)
             \/ record = <<"fms", "Firmware">> /\ changed # <<>> /\ changed[2] \in {"odd", "mixed"}
    BY <1>1, <1>4, <1>5, <1>6, <1>7 DEF Lenient
  <1>9. Touched' = Touched /\ \A m : Lossy(m)' = Lossy(m)
    BY <1>1, <1>2 DEF Touched, Lossy
  <1>10. RoundTrip'
    BY <1>1, <1>8, <1>9 DEF RoundTrip
  <1>11. ok' => HeldIn(Schema, target)'
    BY <1>1, <1>2, <1>4 DEF HeldIn
  <1>12. HeldIn(Schema, source)' /\ ((Schema.to = <<>>)' => ClientFills(Schema, source)')
    BY <1>1, <1>2, <1>3 DEF HeldIn, ClientFills
  <1> QED BY <1>1, <1>2, <1>10, <1>11, <1>12 DEF IInv

\* ... and the second fact: every step keeps it.
LEMMA StepInv == IInv /\ [Next]_vars => IInv'
  <1> SUFFICES ASSUME IInv, [Next]_vars PROVE IInv'
    OBVIOUS
  <1>1. CASE Write
    <2>1. /\ phase = "held" /\ phase' = "sent" /\ changed' = changed
          /\ record' = record /\ source' = source
          /\ carrier' = AsWritten
      BY <1>1 DEF Write, AsWritten, DocumentOf
    <2>2. changed = <<>> /\ Schema' = Schema /\ IsRow' = IsRow
      BY <2>1 DEF IInv, Schema, IsRow
    <2>3. ChangeOK' /\ carrier' = Sent(AsWritten, changed)'
      BY <2>1, <2>2 DEF ChangeOK, Sent, AsWritten, DocumentOf
    <2> QED BY <2>1, <2>2, <2>3 DEF IInv, HeldIn, ClientFills
  <1>2. CASE Change
    <2>1. PICK i \in DOMAIN Schema.from :
            \E form \in IF IsRow THEN ColumnForms(Schema.members[Schema.from[i][2]])
                        ELSE Forms(Schema.members[Schema.from[i][2]]) :
              /\ changed' = <<Schema.from[i][1], form>>
              /\ carrier' = [carrier EXCEPT ![Schema.from[i][1]] = form]
      BY <1>2 DEF Change
    <2>2. PICK form \in IF IsRow THEN ColumnForms(Schema.members[Schema.from[i][2]])
                        ELSE Forms(Schema.members[Schema.from[i][2]]) :
              /\ changed' = <<Schema.from[i][1], form>>
              /\ carrier' = [carrier EXCEPT ![Schema.from[i][1]] = form]
      BY <2>1
    <2>3. /\ phase = "sent" /\ phase' = "sent" /\ changed = <<>>
          /\ record' = record /\ source' = source
      BY <1>2 DEF Change
    <2>4. Schema' = Schema /\ IsRow' = IsRow /\ carrier = AsWritten
      BY <2>3 DEF IInv, Schema, IsRow, Sent
    <2>5. AsWritten' = AsWritten
      BY <2>3, <2>4 DEF AsWritten
    <2>6. ChangeOK'
      BY <2>2, <2>4 DEF ChangeOK
    <2>7. carrier' = Sent(AsWritten, changed)'
      BY <2>2, <2>4, <2>5 DEF Sent
    <2> QED BY <2>3, <2>4, <2>6, <2>7 DEF IInv, HeldIn, ClientFills
  <1>3. CASE Read
    BY <1>3, ReadStep
  <1>4. CASE Keep
    <2>1. /\ phase = "read" /\ ok /\ Schema.to # <<>> /\ phase' = "held" /\ changed' = <<>>
          /\ source' = target /\ record' = record
      BY <1>4 DEF Keep
    <2>2. Schema' = Schema /\ HeldIn(Schema, target)
      BY <2>1 DEF IInv, Schema
    <2> QED BY <2>1, <2>2 DEF IInv, HeldIn
  <1>5. CASE UNCHANGED vars
    BY <1>5 DEF vars, IInv, HeldIn, ClientFills, Schema, IsRow, ChangeOK, AsWritten, RoundTrip,
                Touched, Lossy
  <1> QED BY <1>1, <1>2, <1>3, <1>4, <1>5 DEF Next

\* Every object that is held, sent or read is fit for its next trip, and what is in
\* the carrier is what to_json or Convert wrote, but for the field that was changed.
THEOREM ObjectsInvariance == Spec => []IInv
  <1>1. Init => IInv
    BY InitInv
  <1>2. IInv /\ [Next]_vars => IInv'
    BY StepInv
  <1> QED BY <1>1, <1>2, PTL DEF Spec

\* However often an object is written and read, what from_json or Convert accepts has
\* in every carried member what was written, but for the changed field.
THEOREM TripsAlwaysRound == Spec => []RoundTrip
  <1>1. IInv => RoundTrip
    BY DEF IInv, RoundTrip
  <1> QED BY <1>1, ObjectsInvariance, PTL
=============================================================================
