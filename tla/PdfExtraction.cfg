\* One extraction of a three-page document in chunks of two pages, each reader
\* finding, misreading, rejecting or missing any of four rows, or failing.
SPECIFICATION Spec
CONSTANTS
    None = None
    Documents <- MCDocuments
    Ranges <- MCRanges
    LayoutAnswers <- MCLayoutAnswers
    CoordinateAnswers <- MCCoordinateAnswers
    GridAnswers <- MCGridAnswers
    Span = 2
    ScanPages = 4
    MaxGridPages = 3
    MaxRecords = 5
INVARIANTS
    NothingDropped
    RecordsAgree
    CompleteIsEarned
CHECK_DEADLOCK FALSE
