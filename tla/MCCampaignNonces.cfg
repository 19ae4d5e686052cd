\* Four cases of two keys, with authorisations, and one foreign transaction.
CONSTANTS
    Cases = 4
    NumKeys = 2
    Pectra = TRUE
    NoLane = NoLane
    NoNonce = NoNonce
    Other = Other
    MaxOther = 1

SPECIFICATION FairSpec

INVARIANT TxNoncesConsecutive
INVARIANT OnlyOthersDisplace
INVARIANT RejectionStrands
PROPERTY AllGetIncluded

\* The campaign returns and the pool empties.
CHECK_DEADLOCK FALSE
