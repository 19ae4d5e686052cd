\* Command lines in five groups, a corpus of up to two elements, two cases.
CONSTANTS
    none = none
    one = one
    five = five
    nine = nine
    Unset = Unset
    Invalid = Invalid
    Sockets = {"url1"}
    Down = Down
    Fresh = Fresh
    MaxShuffle = 4
    StaticKeys <- CompiledKeys
    SK = "compiled"
    DefaultCount = 2
    DefaultGasLimit = 2
    WordSize = 256
    FieldsPerBlob = 2
    BytesPerField = 2
    CommandLines <- AllLines
    Files = {none, one, five, nine}
    Contents <- FileContents
    RandomBytes <- TwoRandomBytes
    SizeClasses = {8, 16, 24, 32, 48, 64}
    Chains = {1, 7}
    Answers <- AllAnswers
    CodeGas = {0, 2048}
    BlobData <- Blobs

SPECIFICATION Spec

INVARIANT ConfigIsUsable
INVARIANT MutationsAreEdits
INVARIANT BaseIsTheCorpus
INVARIANT CasesAreWellFormed
PROPERTY BuildEnds

\* The program ends, and an empty base is mutated for ever.
CHECK_DEADLOCK FALSE
