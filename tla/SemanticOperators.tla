-------------------------- MODULE SemanticOperators --------------------------
(***************************************************************************)
(* The operators that decide what a row of a semantic query is or costs,   *)
(* side by side: the calibrated scan, DISTINCT ON and CLUSTER BY, MEANS as *)
(* a label, and the chunking of what an index embeds. They share no state, *)
(* so a behaviour runs one of them and leaves the others as they began.    *)
(***************************************************************************)
EXTENDS Calibration, Grouping, Classification, Chunking

VARIABLE operator   \* the operator this behaviour runs

operatorsVars ==
    <<operator, calibrationVars, groupingVars, classificationVars, chunkVars>>

Init ==
    /\ operator \in {"filter", "group", "label", "embed"}
    /\ CalibrationInit
    /\ operator # "filter" => /\ input = {}
                              /\ best = <<>>
                              /\ \A d \in Sampled : verdicts[d] = "none"
    /\ GroupingInit
    /\ ClassificationInit
    /\ ChunkInit
    /\ operator # "embed" => /\ \A n \in Lengths : words <= n
                             /\ \A m \in MaxTokens : config.max <= m
                             /\ \A o \in OverlapTokens : config.overlap <= o

Next ==
    /\ UNCHANGED operator
    /\ \/ /\ operator = "filter"
          /\ CalibrationNext
          /\ UNCHANGED <<groupingVars, classificationVars, chunkVars>>
       \/ /\ operator = "group"
          /\ GroupingNext
          /\ UNCHANGED <<calibrationVars, classificationVars, chunkVars>>
       \/ /\ operator = "label"
          /\ ClassificationNext
          /\ UNCHANGED <<calibrationVars, groupingVars, chunkVars>>
       \/ /\ operator = "embed"
          /\ PushWindow
          /\ UNCHANGED <<calibrationVars, groupingVars, classificationVars>>

Spec == Init /\ [][Next]_operatorsVars
============================================================================
