\* Three cases through a window of two; every budget can run out before another.
CONSTANTS
    Cases = 3
    MaxInFlight = 2
    ConfirmSLA = 1
    ConfirmDrain = 2
    ReceiptTimeout = 1
    RetainPerSig = 1

SPECIFICATION FairSpec

INVARIANT TypeOK
INVARIANT LimiterAgrees
INVARIANT FifoOnce
INVARIANT ArtifactsAgree
INVARIANT ReportAddsUp
INVARIANT EverySignatureKept
PROPERTY DrainDeadlineTerminal
PROPERTY Termination
PROPERTY ImplementsPipeline

\* The campaign returns.
CHECK_DEADLOCK FALSE
