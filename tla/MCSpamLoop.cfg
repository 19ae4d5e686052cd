\* Two keys of an accounts file, whose first account is also the faucet, with
\* authorisations; one round.
CONSTANTS
    NumKeys = 2
    Faucet = 1
    N = 1
    Pectra = TRUE
    BatchSize = 1
    Tries = 2
    NoTx = NoTx
    NoAuth = NoAuth
    MaxRounds = 1
    MaxStuck = 1

SPECIFICATION FairSpec

PROPERTY PhasesEnd
PROPERTY PassedOverIsClear
PROPERTY OnlyUnstuckReplaces

\* The loop stops at MaxRounds, or ends with an error of the airdrop.
CHECK_DEADLOCK FALSE
