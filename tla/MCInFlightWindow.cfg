\* Two cases through a window of one, with the default receipt budget.
CONSTANTS
    Cases = 2
    MaxInFlight = 1
    ConfirmSLA = 1
    ConfirmDrain = 2
    ReceiptTimeout = 0
    RetainPerSig = 1

SPECIFICATION Spec

INVARIANT PoolWithinWindow

CHECK_DEADLOCK FALSE
