\* Two cases; the deadline of the drain passes while the first is awaited.
CONSTANTS
    Cases = 2
    MaxInFlight = 2
    ConfirmSLA = 1
    ConfirmDrain = 2
    ReceiptTimeout = 0
    RetainPerSig = 1

SPECIFICATION Spec

INVARIANT DrainClassifies

CHECK_DEADLOCK FALSE
