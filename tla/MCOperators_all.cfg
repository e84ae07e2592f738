SPECIFICATION Spec
CONSTANTS
    Null = Null
    Sampled = {1, 2, 3, 4}
    Similarities = {2, 6}
    Probabilities = {1, 3}
    DefaultFloor = 4
    Target = 60
    SampleSize = 2
    LabelBudget = 4
    MinExamples = 2
    Quantiles <- QuantilesDef
    Documents = {1, 2, 3, 4}
    Place <- PlaceDef
    Near = 2
    Relations <- RelationsDef
    Ks = {1, 3}
    AutoKs = {2}
    MaxIterations = 4
    Names <- NamesDef
    MaxGroupings = 2
    Rows = {1, 2, 3}
    Text <- TextDef
    Conditions = {"a", "b", "c"}
    Cases <- CasesDef
    Outcomes <- OutcomesDef
    MaxStatements = 2
    Lengths = {0, 1, 2, 3, 5, 8, 9, 12}
    MaxTokens = {0, 1, 2, 3, 4, 5, 8}
    OverlapTokens = {0, 1, 2, 3, 4, 5, 8, 12}
INVARIANTS
    SampleSurvives
    FailureOnlyLowersFloor
    KeptRowsDiffer
    ClustersSettle
    GuardSkipsNothingNeeded
    AnswersStayWarm
    WindowsCoverText
CHECK_DEADLOCK FALSE
