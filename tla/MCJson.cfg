CONSTANTS
    Values <- MCValues
    Options <- MCOptions
    Texts <- MCTexts
    Documents <- MCDocuments
    Hidden <- A
    Nothing = Nothing
SPECIFICATION Spec
INVARIANTS
    ReadsBackWhatItWrote
    ReadsTheGrammar
    PatchLeadsToTarget
CHECK_DEADLOCK FALSE
