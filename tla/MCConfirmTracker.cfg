\* Two transactions, tracked three times between them; batches of two.
CONSTANTS
    Hashes = {1, 2}
    BatchSize = 2
    SLA = 1
    Passed <- PassedValue
    MaxTracked = 3

SPECIFICATION Spec

INVARIANT TransitionsTellAll
INVARIANT ReceiptMeansIncluded
INVARIANT PollsWhatIsOpen
PROPERTY OverIsOver
