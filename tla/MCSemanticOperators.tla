------------------------ MODULE MCSemanticOperators ------------------------
EXTENDS SemanticOperators

\* Confidence 0.8, the error split over one to six floors.
QuantilesDef == <<71, 164, 225, 271, 308, 338>>

PlaceDef == [d \in 1 .. 4 |-> <<5, 0, 7, 2>>[d]]
RelationsDef == {<<1, Null, 2, 1, 4, 3>>, <<4, 2>>, <<Null>>}
NamesDef == {<<"A">>, <<"A", 2>>}

\* Branches "f" and "g" are ordinary, the others MEANS.
CasesDef == {<<"f", "a", "b">>, <<"a", "f", "c">>, <<"f", "b">>, <<"f", "g", "a", "c">>}
TextDef == [r \in {1, 2} |-> <<"t", "u">>[r]]
OutcomesDef ==
    [r \in 1 .. 3 |-> <<[f |-> "false", g |-> "null"],
                        [f |-> "null", g |-> "true"],
                        [f |-> "true", g |-> "false"]>>[r]]
============================================================================
