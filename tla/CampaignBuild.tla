---------------------------- MODULE CampaignBuild ----------------------------
(***************************************************************************)
(* A campaign from its command line to its signed cases, without sending   *)
(* them: RunCampaignFamilyFromContext and campaignBuilder.Build of         *)
(* spammer/campaign.go over the configuration, the mutator and the         *)
(* construction of transactions.  The arrays of the corpus live as long as *)
(* the campaign and every case copies one of them, mutates the copy in     *)
(* place and hashes the original; what the node answers is asked for       *)
(* several times per case and may differ each time.  Nonces are the        *)
(* subject of CampaignNonces.                                              *)
(***************************************************************************)
EXTENDS Mutator, Configuration, Transactions

CONSTANTS CommandLines,  \* command lines, with the files they name
          Files,         \* the elements of the corpus
          Contents,      \* Contents[f]: the bytes of a file, a sequence
          RandomBytes,   \* a random base, 10,000 bytes in the code
          SizeClasses,   \* sizes of the arrays that Go's allocator hands out
          Chains,        \* chain IDs a node may report
          Answers,       \* the node's answers during one construction
          CodeGas,       \* what the generated code costs to carry
          BlobData       \* what randomBlobData returns

ASSUME BuildAssumption ==
    /\ RandomBytes # <<>> /\ RandomBytes \in Seq(Nat)
    /\ \A f \in Files : Contents[f] \in Seq(Nat)
    /\ Files \cap {Unset, "base", "mutated"} = {}
    /\ BlobData \subseteq Seq(Nat)
    /\ CodeGas \subseteq Nat
    /\ \A a \in Answers : {a.estimate, a.accessList} \subseteq Nat \cup {Down}

\* size is what the allocator rounds n bytes up to.
RoundsUpTo(n, size) ==
    /\ size \in SizeClasses /\ size >= n
    /\ \A other \in SizeClasses : other >= n => size <= other

\* The lengths of the bases, and with them of all the slices the campaign copies.
BaseLengths == {Len(RandomBytes)} \cup {Len(Contents[f]) : f \in Files}

ASSUME SizeAssumption ==
    /\ SizeClasses \subseteq Nat
    /\ \A n \in BaseLengths : \E size \in SizeClasses : RoundsUpTo(n, size)

\* Numeric flags are integers, and the count of transactions fits its word; files
\* that can be read are lists, a directory of the corpus a set of its elements.
ASSUME CommandLineAssumption ==
    \A c \in CommandLines :
        /\ {c.count, c.gasLimit, c.cases, c.retainPerSig, c.maxInFlight,
             c.sla, c.drain, c.receiptTimeout} \subseteq Int
        /\ c.txCount \in (1 - WordSize)..(WordSize - 1)
        /\ c.blockGas = Invalid \/ c.blockGas \in Int
        /\ c.accounts \in {Unset, Invalid} \/ IsSequence(c.accounts)
        /\ c.corpus \in {Unset, Invalid} \/ c.corpus \subseteq Files

VARIABLES
    pc,        \* where the program is
    line,      \* the command line
    config,    \* the configuration, Unset until there is one
    options,   \* the campaign's options, normalised
    chainID,   \* the chain the campaign signs for
    sequence,  \* the number of the case
    ref,       \* the element of the corpus its base is from, or Unset
    base,      \* the slice with the base
    tx,        \* its transaction, Unset until it is built
    blobData,  \* the data its blobs were made from
    record     \* what is recorded of it, Unset until the base is hashed

campaignVars == <<line, config, options, chainID>>
caseVars == <<sequence, ref, base, tx, blobData, record>>
vars == <<pc, campaignVars, caseVars, mutatorVars>>

NoSlice == [arr |-> "base", len |-> 0, cap |-> 0]
ArrayOf(s, cap) == [i \in 0..(cap - 1) |-> IF i < Len(s) THEN s[i + 1] ELSE 0]

\* append([]byte(nil), s...) allocates the smallest size that holds the bytes and
\* makes all of it the capacity of the copy: 10,240 for 10,000 bytes, 48 for 33, and
\* nothing for no bytes.  (The random base itself has no more room than its length,
\* which nobody looks at.)
CapacityFor(n) == IF n = 0 THEN 0 ELSE CHOOSE size \in SizeClasses : RoundsUpTo(n, size)
SliceOf(array, s) == [arr |-> array, len |-> Len(s), cap |-> CapacityFor(Len(s))]

Init ==
    /\ pc = "start"
    /\ line \in CommandLines
    /\ config = Unset /\ options = Unset /\ chainID = AnyChain
    /\ sequence = 0 /\ ref = Unset /\ base = NoSlice
    /\ tx = Unset /\ blobData = <<>> /\ record = Unset
    /\ heap = [a \in Files \cup {"base", "mutated"} |->
                  IF a \in Files THEN ArrayOf(Contents[a], Len(Contents[a])) ELSE <<>>]
    /\ b = NoSlice /\ mut = "none"

Ends == pc' = "ended"

Configure ==
    /\ pc = "start"
    /\ \/ /\ config' \in NewConfigFromContext(line)
          /\ pc' = "configured"
       \/ /\ \A made \in NewConfigFromContext(line) : MayBeDown(made.endpoint)
          /\ Ends /\ UNCHANGED config
    /\ UNCHANGED <<line, options, chainID, caseVars, mutatorVars>>

\* RunCampaign before its first case.
StartCampaign ==
    /\ pc = "configured"
    /\ options' = NormalizeCampaignOptions(CampaignOptionsFromContext(line))
    /\ \/ /\ ValidCampaignExecutionMode(options')
          /\ chainID' \in Chains
          /\ pc' = "next"
       \/ Ends /\ UNCHANGED chainID
    /\ UNCHANGED <<line, config, caseVars, mutatorVars>>

\* Build is called again; the lease of its nonce may fail.
NextCase ==
    /\ pc = "next"
    /\ sequence < options.cases
    /\ sequence' = sequence + 1
    /\ tx' = Unset /\ blobData' = <<>> /\ record' = Unset
    /\ pc' = "filler" \/ Ends
    /\ UNCHANGED <<campaignVars, ref, base, mutatorVars>>

\* Mutant of Filler: the mutator is given the base itself.
FillerWithoutCopy(s) ==
    /\ heap' = [heap EXCEPT !["base"] = ArrayOf(s, CapacityFor(Len(s)))]
    /\ base' = SliceOf("base", s)
    /\ b' = SliceOf("base", s)

\* The base is a copy of its source, and what is mutated a copy of the base.
Filler(s) ==
    /\ heap' = [heap EXCEPT !["base"] = ArrayOf(s, CapacityFor(Len(s))),
                            !["mutated"] = ArrayOf(s, CapacityFor(Len(s)))]
    /\ base' = SliceOf("base", s)
    /\ b' = SliceOf("mutated", s)

\* Mutant of RandomBase: the array is made with a capacity and no length.
RandomBaseUnfilled == <<>>

RandomBase == RandomBytes

\* buildCampaignFiller up to the mutation.
BuildFiller ==
    /\ pc = "filler"
    /\ \/ config.corpus = {} /\ ref' = Unset /\ Filler(RandomBase)
       \/ \E f \in config.corpus :
             ref' = f /\ Filler([i \in 1..Len(Contents[f]) |-> heap[f][i - 1]])
    /\ mut' = "none"
    /\ pc' = "mutate"
    /\ UNCHANGED <<campaignVars, sequence, tx, blobData, record>>

Mutate ==
    /\ pc = "mutate"
    /\ MutateBytes
    /\ pc' = "filled"
    /\ UNCHANGED <<campaignVars, caseVars>>

\* The base is hashed after the mutation; nobody refers to the arrays after that
\* but the filler, of which the length of the generated code is all that counts.
HashBase ==
    /\ pc = "filled"
    /\ record' = [ref |-> ref, base |-> Content(base), blobCount |-> 0, authCount |-> 0]
    /\ heap' = [heap EXCEPT !["base"] = <<>>, !["mutated"] = <<>>]
    /\ base' = NoSlice /\ b' = NoSlice /\ mut' = "none"
    /\ pc' = "tx"
    /\ UNCHANGED <<campaignVars, sequence, ref, tx, blobData>>

\* buildSetCodeAuthorizations makes one authorisation, unless its lease fails.
BuildSetCodeAuthorizations == IF config.keys = <<>> THEN 0 ELSE 1

BuildCampaignTx ==
    /\ pc = "tx"
    /\ \E a \in Answers, data \in CodeGas :
         \/ /\ options.family = "basic"
            /\ tx' \in RandomValidTx(a, data, config.accessList)
            /\ UNCHANGED blobData
         \/ /\ options.family = "blob"
            /\ blobData' \in BlobData
            /\ tx' = RandomBlobTx(a, data, config.accessList, blobData')
         \/ /\ options.family = "pectra" /\ BuildSetCodeAuthorizations > 0
            /\ tx' = RandomAuthTx(a, data, config.accessList, BuildSetCodeAuthorizations)
            /\ UNCHANGED blobData
    /\ pc' = IF tx' = Failed THEN "ended" ELSE "built"
    /\ UNCHANGED <<campaignVars, sequence, ref, base, record, mutatorVars>>

\* The lease of an authorisation failed, or the family is not known.
BuildCampaignTxFails ==
    /\ pc = "tx"
    /\ options.family # "basic" /\ options.family # "blob"
    /\ Ends
    /\ UNCHANGED <<campaignVars, caseVars, mutatorVars>>

EnsureIntrinsicGasFloor(t) == ApplyIntrinsicGasFloor(t)

FinishCampaignTx ==
    /\ pc = "built"
    /\ tx' = IF options.family = "basic" THEN EnsureIntrinsicGasFloor(tx) ELSE tx
    /\ pc' = "sign"
    /\ UNCHANGED <<campaignVars, sequence, ref, base, blobData, record, mutatorVars>>

\* applyFamilyMetadata counts in the signed transaction, by family.
Recorded(family, t) ==
    [record EXCEPT !.blobCount = IF family = "blob" THEN Len(t.blobs) ELSE 0,
                   !.authCount = IF family = "pectra" THEN t.auths ELSE 0]

\* types.SignTx with the signer of the campaign's chain: it gives a legacy
\* transaction the chain and refuses one that is made for another.
SignTx ==
    /\ pc = "sign"
    /\ tx.chain \in {AnyChain, chainID}
    /\ tx' = [tx EXCEPT !.chain = chainID]
    /\ record' = Recorded(options.family, tx')
    /\ pc' = "next"
    /\ UNCHANGED <<campaignVars, sequence, ref, base, blobData, mutatorVars>>

SignTxFails ==
    /\ pc = "sign"
    /\ tx.chain \notin {AnyChain, chainID}
    /\ Ends
    /\ UNCHANGED <<campaignVars, caseVars, mutatorVars>>

EndCampaign ==
    /\ pc = "next"
    /\ sequence = options.cases
    /\ Ends
    /\ UNCHANGED <<campaignVars, caseVars, mutatorVars>>

Next ==
    \/ Configure \/ StartCampaign \/ NextCase \/ BuildFiller \/ Mutate \/ HashBase
    \/ BuildCampaignTx \/ BuildCampaignTxFails \/ FinishCampaignTx
    \/ SignTx \/ SignTxFails \/ EndCampaign

\* One goroutine, whose calls to the node return.
Spec == Init /\ [][Next]_vars /\ WF_vars(Next)

-----------------------------------------------------------------------------
(* Properties *)

Ready == pc \notin {"start", "configured", "ended"}

\* Whatever the flags, the files and the node say, a configuration that is made
\* can be used: nothing is divided by zero, there is a key for every case, keys
\* come from the accounts file when it lists any and are as many as were asked
\* for and exist, and the options of a campaign that runs are those the runners
\* are built for: positive counts and times, and the v2 mode with basic cases.  (A
\* negative count of transactions has wrapped to a huge one, and is used as it is.)
ConfigIsUsable ==
    /\ config # Unset =>
         LET listed == OrElse(line.accounts, <<>>)
             source == IF listed = <<>> THEN StaticKeys ELSE listed
             keys == Len(config.keys)
         IN  /\ config.N >= 1 /\ config.gasLimit >= 1
             /\ keys >= 1 /\ config.keys = SubSeq(source, 1, keys)
             /\ line.count > 0 => keys <= line.count
             /\ keys < Len(source) => keys = OrPositive(line.count, DefaultCount)
    /\ Ready =>
         /\ \A v \in {options.cases, options.retainPerSig, options.maxInFlight,
                      options.sla, options.drain, options.receiptTimeout} : v >= 1
         /\ options.mode \in {Legacy, V2SingleLane}
         /\ options.mode = V2SingleLane => options.family = "basic"

\* Shifting bytes in place with a scratch area at the end of the slice does to
\* the contents what the mutator says: the result is the base with one block
\* removed, inserted, copied, reordered or overwritten, or two blocks swapped.
MutationsAreEdits == pc = "filled" => IsEdit(mut, Content(base), Content(b))

\* What is recorded as the base of a case is its element of the corpus as it is
\* on disk, however many cases were mutated before, and the elements themselves
\* never change.
BaseIsTheCorpus ==
    /\ record # Unset =>
         record.base = IF record.ref = Unset THEN RandomBytes ELSE Contents[record.ref]
    /\ \A f \in Files : heap[f] = ArrayOf(Contents[f], Len(Contents[f]))

\* A basic transaction covers its own cost, with the access list it carries, as
\* soon as RandomValidTx returns it; every case is signed for the chain of the
\* campaign although the chain was asked for twice and may be made up; and its
\* blobs hold its data, in as many blobs as it takes and as are recorded.
CasesAreWellFormed ==
    /\ pc = "built" /\ options.family = "basic" => tx.gas >= IntrinsicGas(tx)
    /\ pc = "next" /\ tx # Unset =>
         /\ tx.chain = chainID
         /\ record.authCount = (IF options.family = "pectra" THEN 1 ELSE 0)
         /\ options.family = "blob" =>
              LET decoded == Decode(tx.blobs)
                  perBlob == FieldsPerBlob * BytesPerField
              IN  /\ SubSeq(decoded, 1, Len(blobData)) = blobData
                  /\ \A i \in (Len(blobData) + 1)..Len(decoded) : decoded[i] = 0
                  /\ record.blobCount = Len(tx.blobs)
                  /\ record.blobCount = Larger(1, (Len(blobData) + perBlob - 1) \div perBlob)

\* The campaign comes to an end, unless it takes an empty file of the corpus as
\* a base: the copy of it has no room, no mutation applies, and MutateBytes
\* tries for ever.
BuildEnds ==
    <>(pc = "ended" \/ (pc = "mutate" /\ ref # Unset /\ Contents[ref] = <<>>))
=============================================================================
