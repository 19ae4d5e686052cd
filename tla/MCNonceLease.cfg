\* Three lanes lease nonces of two addresses; every RPC may fail.
CONSTANTS
    l1 = l1
    l2 = l2
    l3 = l3
    a1 = a1
    a2 = a2
    Lanes <- LanesValue
    Addrs <- AddrsValue
    NoLane = NoLane
    NoNonce = NoNonce
    MaxChain = 1

SPECIFICATION FairSpec

INVARIANT TypeOK
INVARIANT UniqueLease
INVARIANT NoGapInLeases
PROPERTY RequestReturns
PROPERTY ImplementsTickets

\* The campaign ends once every lane has its leases.
CHECK_DEADLOCK FALSE
