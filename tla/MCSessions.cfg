\* Two sessions, one query string each.
SPECIFICATION FairSpec
CONSTANTS
    Whole = Whole
    Inline = Inline
    Lower <- LowerDef
    AutoK <- AutoKDef
    DefaultSimilarity = 90
    Clients = {c1, c2}
    Strings <- StringsDef
    Statements <- StatementsDef
    Texts = {"body", "title"}
    ChannelCapacity = 2
    MaxTicks = 1
    MaxStrings = 1
INVARIANTS
    NoticesThenResponse
    WhereKeepsMatches
    UnitsAskedWhole
PROPERTIES
    EveryStringAnswered
CHECK_DEADLOCK FALSE
