SPECIFICATION Spec
CONSTANTS
    Letters = {"a", "b"}
    Star = "*"
    Foreign = "x"
    Patterns <- PatternsDef
    Names <- NamesDef
    MaxRules = 2
    MaxEvents = 2
    MaxTokens = 1
INVARIANTS
    Inv
    RecordIsExact
PROPERTY
    AnswerEnds
CHECK_DEADLOCK FALSE
