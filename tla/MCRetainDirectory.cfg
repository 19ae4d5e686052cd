\* Two cases of one signature and score in two campaigns, a cap of one.
CONSTANTS
    c1 = c1
    c2 = c2
    c3 = c3
    c4 = c4
    CaseIds <- TwoCases
    Sigs = {"s1"}
    Scores = {20}
    Cap = 1
    MaxRuns = 2

SPECIFICATION Spec

INVARIANT DirectoryWithinCap

CHECK_DEADLOCK FALSE
