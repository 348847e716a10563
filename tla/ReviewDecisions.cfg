SPECIFICATION ReviewSpec
CONSTANTS
    None = None
    Points = {1, 2, 3}
    Drafts <- MCDrafts
    Decisions <- MCDecisions
    Evidence <- MCEvidence
    Codes = {"pdf-human-review-required"}
    MaxDecisions = 2
    MaxReviews = 2
INVARIANTS
    Accountable
    HoldsAnswered
    ApprovedIsSafe
CHECK_DEADLOCK FALSE
