\* Three cases in two campaigns, a cap of two.
CONSTANTS
    c1 = c1
    c2 = c2
    c3 = c3
    c4 = c4
    CaseIds <- ThreeCases
    Sigs = {"s1", "s2"}
    Scores = {20, 100}
    Cap = 2
    MaxRuns = 2

SPECIFICATION Spec
SYMMETRY CaseSymmetry

INVARIANT ReplayNeedsOnlyNode
INVARIANT BestIsKept
INVARIANT OneOriginal

\* All cases are accepted.
CHECK_DEADLOCK FALSE
