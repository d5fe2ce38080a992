--------------------------- MODULE MCControlPlane ---------------------------
(* The instance of ControlPlane that TLC checks.                           *)
EXTENDS ControlPlane, TLC

MCLabels == {"", "as", "bs", "a", "b", "A", "B", "AList", "BList", "g", "G"}

MClower == [l \in MCLabels |->
    CASE l = "A" -> "a" [] l = "B" -> "b" [] l = "G" -> "g"
      [] l \in {"AList", "BList"} -> "a" [] OTHER -> l]

MClistKind == [l \in MCLabels |-> IF l = "B" THEN "BList" ELSE "AList"]

MCNames == {<<"as", "b", "g">>, <<"bs", "g">>}

Of(group, plural, singular, kind, list) ==
    [group |-> group, plural |-> plural, singular |-> singular, kind |-> kind,
     listKind |-> list]

\* Valid without defaults and, under the same name, with another plural and group; with
\* another group or singular that is refused; without a kind.
MCSpecs == {
    Of(<<"b", "g">>, <<"as">>, "", "A", ""),
    Of(<<"g">>, <<"as", "b">>, "a", "A", "AList"),
    Of(<<"g">>, <<"bs">>, "", "B", "BList"),
    Of(<<"b", "g">>, <<"as">>, "A", "A", ""),
    Of(<<"a">>, <<"as">>, "", "A", ""),
    Of(<<"b", "g">>, <<"as">>, "a", "", "")}

\* The last are those of a spec that is refused.
MCDuckKinds ==
    {<<<<"b", "g">>, "A">>, <<<<"g">>, "A">>, <<<<"g">>, "B">>, <<<<"a">>, "A">>}

MCListKinds ==
    {<<<<"b", "g">>, "AList">>, <<<<"g">>, "AList">>, <<<<"g">>, "BList">>,
     <<<<"a">>, "AList">>}

MCFlagSets == {
    [http2 |-> FALSE, certs |-> Servers, elect |-> TRUE],
    [http2 |-> FALSE, certs |-> {"webhook"}, elect |-> FALSE],
    [http2 |-> TRUE, certs |-> {"metrics"}, elect |-> FALSE]}

=============================================================================
