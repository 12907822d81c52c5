SPECIFICATION CountSpec
CONSTANTS
    N = 4
    ThreadCounts = {1, 3}
INVARIANTS LastDecisionRight OneDecision
CHECK_DEADLOCK FALSE
