----------------------------- MODULE Validation -----------------------------
(***************************************************************************)
(* The validators of the management service (src/validation): they report  *)
(* the fields of an input that are missing or out of bounds.               *)
(*                                                                         *)
(* A value is what arrives in a request: nothing, a text, a number.        *)
(* Latitudes and longitudes are in units of 90 degrees, weights of 500 kg  *)
(* and vertex counts start at 3, so that the bounds are small numbers.     *)
(***************************************************************************)
EXTENDS Ordering, Integers, SequencesExt

CONSTANT VertexMax   \* ZONE_MAX_VERTICES

ASSUME ValidationAssumption == VertexMax \in Nat

VARIABLE form        \* the request: its validator and its values

Number(n) == <<"number", n>>
Absent == <<"absent">>   \* undefined or null
Blank  == <<"blank">>    \* a text of spaces
Text   == <<"text">>     \* any other text
NaN    == <<"NaN">>
List(n) == <<"list", n>> \* an array of n elements

Bounded(v, low, high) == v[1] = "number" /\ v[2] \in low..high

IsMissing(v)           == v \in {Absent, Blank, NaN}
IsValidLatitude(v)     == Bounded(v, -1, 1)
IsValidLongitude(v)    == Bounded(v, -2, 2)
MutIsValidWeight(v)    == Bounded(v, 0, 2)
IsValidWeight(v)       == Bounded(v, 1, 2)
IsValidVertexCount(n)  == n \in 3..VertexMax

\* FieldCollector: names in the order they are first reported.
Collect(reports) ==
  SelectAt(reports, {i \in DOMAIN reports : \A j \in 1..i - 1 : reports[j] # reports[i]})

\* fields: all of them, in the order the validator lists them; checks: those
\* with a bound, and whether the value is within it.
Reports(input, fields, checks) ==
  SelectAt(fields, {i \in DOMAIN fields : IsMissing(input[fields[i]])})
    \o SelectAt(fields, {i \in DOMAIN fields :
         LET f == fields[i] IN f \in DOMAIN checks /\ ~IsMissing(input[f]) /\ ~checks[f]})

ValidateDriverInput(input) ==
  Collect(Reports(input, <<"name", "email", "phone", "licenseNumber">>, <<>>))

ValidatePingInput(input) ==
  Collect(Reports(input, <<"vehicleId", "lat", "lng", "timestamp">>,
    [lat |-> IsValidLatitude(input.lat), lng |-> IsValidLongitude(input.lng)]))

ValidateDeliveryInput(input) ==
  Collect(Reports(input, <<"address", "recipientName", "recipientContact", "weightKg">>,
    [weightKg |-> IsValidWeight(input.weightKg)]))

ValidateZoneInput(input) ==
  (IF IsMissing(input.name) THEN <<"name">> ELSE <<>>)
    \o (IF input.vertices[1] = "list" /\ IsValidVertexCount(input.vertices[2])
        THEN <<>> ELSE <<"vertices">>)

Validate(kind, input) ==
  CASE kind = "driver"   -> ValidateDriverInput(input)
    [] kind = "ping"     -> ValidatePingInput(input)
    [] kind = "delivery" -> ValidateDeliveryInput(input)
    [] kind = "zone"     -> ValidateZoneInput(input)

-----------------------------------------------------------------------------
(***************************************************************************)
(* The requests, one at a time: validation keeps no state.                 *)
(***************************************************************************)

Word   == {Absent, Blank, Text}
Amount == {Absent, NaN, Text} \cup {Number(n) : n \in -3..3}

Input ==
  [driver   |-> [name : Word, email : Word, phone : Word, licenseNumber : Word],
   ping     |-> [vehicleId : Word, lat : Amount, lng : Amount, timestamp : Word],
   delivery |-> [address : Word, recipientName : Word, recipientContact : Word,
                 weightKg : Amount],
   zone     |-> [name : Word, vertices : Word \cup {List(n) : n \in 0..VertexMax + 1}]]

NoForm == [kind |-> "none"]
FormInit == form = NoForm
SubmitForm(kind, input) == form = NoForm /\ form' = [kind |-> kind, input |-> input]
FormNext == \E kind \in DOMAIN Input : \E input \in Input[kind] : SubmitForm(kind, input)
FormSpec == FormInit /\ [][FormNext]_form

-----------------------------------------------------------------------------
(***************************************************************************)
(* Properties.                                                             *)
(***************************************************************************)

\* What the API accepts in each field that is not a text.
Acceptable ==
  [lat |-> {Number(n) : n \in -1..1}, lng |-> {Number(n) : n \in -2..2},
   weightKg |-> {Number(1), Number(2)}, vertices |-> {List(n) : n \in 3..VertexMax}]

\* Requirement 1.2 and its like: the error names every field that is missing or
\* out of bounds, each once (a value that is missing is not also out of bounds),
\* and no other; a request without faults has no error.  A number that comes as
\* a text is a fault.
FieldsNameTheFaults ==
  form # NoForm =>
    LET fields == Validate(form.kind, form.input) IN
      /\ IsInjective(fields)
      /\ ToSet(fields) = {f \in DOMAIN form.input :
                            IF f \in DOMAIN Acceptable THEN form.input[f] \notin Acceptable[f]
                            ELSE form.input[f] # Text}
=============================================================================
