SPECIFICATION Spec
CONSTANTS
    Documents <- MCDocuments
    Env = {"e"}
    RequiredOptions = {"k"}
INVARIANTS
    AcceptedIsComplete
    LinksFollowTheText
    WordsStayAllocated
PROPERTY
    SetContentEnds
CHECK_DEADLOCK FALSE
