------------------------------ MODULE Admission ------------------------------
(***************************************************************************)
(* Defaulting and validation of DuckTypes and Ducks (api/v1/*_webhook.go)  *)
(* and the DuckTypes that get past it.  The webhook that is deployed only  *)
(* validates: its handler fills in the defaults of its own copy, and what  *)
(* is stored lacks them until the controller fills them in again.          *)
(*                                                                         *)
(* A string is the sequence of its labels, what stands between its dots;   *)
(* "%s.%s" puts two such sequences one after the other.  Nothing keeps     *)
(* dots out of a plural, so that one name fits several plurals and groups. *)
(* What is never put together with a dot or searched for one is a label.   *)
(***************************************************************************)
EXTENDS Naturals, Sequences

CONSTANTS
    Labels,   \* what stands between dots
    Empty,    \* the label of the empty string
    lower,    \* strings.ToLower of a label
    listKind, \* "%sList" of a label
    Names,    \* names of DuckTypes
    Specs,    \* values of .spec that users ask for
    None

String == Seq(Labels) \ {<<>>}

DuckTypeSpec == [group : String, plural : String, singular : Labels,
                 kind : Labels, listKind : Labels]

DuckSpec == [group : String, version : Labels, kind : Labels]

ASSUME AdmissionAssumption ==
    /\ Empty \in Labels
    /\ lower \in [Labels -> Labels]
    /\ lower[Empty] = Empty
    /\ \A l \in Labels : lower[lower[l]] = lower[l] /\ (lower[l] = Empty => l = Empty)
    /\ listKind \in [Labels -> Labels \ {Empty}]
    /\ Names \subseteq String
    /\ Specs \subseteq DuckTypeSpec
    /\ None \notin Specs

VARIABLE stored \* .spec of the DuckTypes at the API server, by name

IsLower(s) == \A i \in DOMAIN s : lower[s[i]] = s[i]

-----------------------------------------------------------------------------
(* DuckTypes.                                                              *)

Default(spec) ==
    [spec EXCEPT !.singular = IF @ = Empty THEN lower[spec.kind] ELSE @,
                 !.listKind = IF @ = Empty THEN listKind[spec.kind] ELSE @]

\* No field is reported as missing or as not in lowercase.
SpecValid(spec) ==
    /\ spec.group # <<Empty>> /\ IsLower(spec.group)
    /\ spec.plural # <<Empty>> /\ IsLower(spec.plural)
    /\ spec.singular # Empty /\ lower[spec.singular] = spec.singular
    /\ spec.kind # Empty
    /\ spec.listKind # Empty

\* Faulty variant of Validate: the name need only start with the plural.
ValidatePlural(name, spec) ==
    SubSeq(name, 1, Len(spec.plural)) = spec.plural /\ SpecValid(spec)

Validate(name, spec) == name = spec.plural \o spec.group /\ SpecValid(spec)

\* Faulty variant of ValidateCreate: the name is left to later requests.
ValidateCreateAnyName(name, spec) == SpecValid(Default(spec))

ValidateCreate(name, spec) == Validate(name, Default(spec))

\* The object that is replaced is not looked at.
ValidateUpdate(name, spec) == Validate(name, Default(spec))

AdmissionInit == stored = [n \in Names |-> None]

Create(n) ==
    /\ stored[n] = None
    /\ \E spec \in Specs :
        ValidateCreate(n, spec) /\ stored' = [stored EXCEPT ![n] = spec]

Update(n) ==
    /\ stored[n] # None
    /\ \E spec \in Specs \ {stored[n]} :
        ValidateUpdate(n, spec) /\ stored' = [stored EXCEPT ![n] = spec]

\* ValidateDelete refuses nothing.
Delete(n) == stored[n] # None /\ stored' = [stored EXCEPT ![n] = None]

-----------------------------------------------------------------------------
(* Ducks.  No program of the repository registers their webhook.           *)

DuckDefault(spec) == spec

DuckSpecValid(spec) ==
    spec.group # <<Empty>> /\ spec.version # Empty /\ spec.kind # Empty

HasSuffix(name, group) ==
    /\ Len(name) > Len(group)
    /\ SubSeq(name, Len(name) - Len(group) + 1, Len(name)) = group

DuckValidate(name, spec) == DuckSpecValid(spec) /\ HasSuffix(name, spec.group)

DuckValidateCreate(name, spec) == DuckValidate(name, DuckDefault(spec))

DuckValidateUpdate(name, spec) == DuckValidate(name, DuckDefault(spec))

\* The resource that a Duck marks ends at the first dot of its name.
GroupResource(name) ==
    [resource |-> Head(name),
     group |-> IF Len(name) = 1 THEN <<Empty>> ELSE Tail(name)]

GroupResourceString(gr) ==
    IF gr.group = <<Empty>> THEN <<gr.resource>> ELSE <<gr.resource>> \o gr.group

\* One of the resources that discovery lists makes the Duck Available.
ReadyCheck(name, spec, resource, kind) ==
    /\ name = GroupResourceString([resource |-> resource,
                                   group |-> GroupResource(name).group])
    /\ <<resource>> \o spec.group = name
    /\ kind = spec.kind

=============================================================================
