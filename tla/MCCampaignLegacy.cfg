\* Three cases, one receipt timeout.
CONSTANTS
    Cases = 3
    ReceiptTimeout = 1
    RetainPerSig = 2

SPECIFICATION FairSpec

INVARIANT ReportAddsUp
PROPERTY Termination
PROPERTY ImplementsPipeline

\* The campaign returns.
CHECK_DEADLOCK FALSE
