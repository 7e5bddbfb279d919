CONSTANTS
    MaxPieces = 4
    Texts <- MCTexts
    Types = {"content", "reasoning"}
    Styles = {"delta", "cumulative"}
SPECIFICATION Spec
INVARIANTS
    AnswerExact
    NoTagFragmentShown
CHECK_DEADLOCK FALSE
