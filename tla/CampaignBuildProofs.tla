------------------------ MODULE CampaignBuildProofs ------------------------
(***************************************************************************)
(* Proofs about CampaignBuild, for any command lines, corpus, answers of   *)
(* the node and sizes of blobs.  BuildInv says of every state that the     *)
(* configuration can be used (ConfigInv), that the arrays of the corpus    *)
(* are as their files were (CorpusInv), that the base on record is what it *)
(* was taken from (RecordInv), and that a transaction is one the node can  *)
(* take, with blobs that hold their data (TxInv).                          *)
(*                                                                         *)
(* Two parts need more than the invariant.  The blobs are a recursive      *)
(* function of the fields: its existence and what it computes are shown by *)
(* the least field for which they would fail.  A mutation is a series of   *)
(* copies and stores in an array; each is followed position by position    *)
(* (Holds, Copy), and what the slice holds in the end is put together from *)
(* the stretches of what it held before, as IsEdit asks.                   *)
(***************************************************************************)
EXTENDS CampaignBuild, SequenceTheorems, FunctionTheorems, FiniteSetTheorems,
        NaturalsInduction, WellFoundedInduction, TLAPS

\* What a case's base is taken from.
Source(r) == IF r = Unset THEN RandomBytes ELSE Contents[r]

-----------------------------------------------------------------------------
(* The configuration *)

GoodKeys(c, keys) ==
    LET listed == OrElse(c.accounts, <<>>)
        source == IF listed = <<>> THEN StaticKeys ELSE listed
    IN  /\ Len(keys) \in Nat /\ Len(keys) >= 1
        /\ keys = SubSeq(source, 1, Len(keys))
        /\ c.count > 0 => Len(keys) <= c.count
        /\ Len(keys) < Len(source) => Len(keys) = OrPositive(c.count, DefaultCount)

GoodConfig(c, config_) ==
    /\ GoodKeys(c, config_.keys)
    /\ config_.N >= 1 /\ config_.gasLimit >= 1
    /\ config_.corpus \subseteq Files

\* As many keys of a list as are wanted, all of them by default.
LEMMA TakenKeys ==
    ASSUME NEW S, NEW s \in Seq(S), s # <<>>, NEW requested \in Int
    PROVE  LET keys == SubSeq(s, 1, Taken(requested, Len(s)))
               n == Taken(requested, Len(s))
           IN  /\ keys \in Seq(S) /\ Len(keys) = n
               /\ n \in 1..Len(s)
               /\ requested > 0 => n <= requested
               /\ n < Len(s) => n = requested
<1>1. Len(s) \in Nat /\ Len(s) >= 1 /\ \A i \in 1..Len(s) : s[i] \in S
  BY EmptySeq, ElementOfSeq
<1>2. Taken(requested, Len(s)) \in 1..Len(s)
  BY <1>1 DEF Taken
<1>3. /\ SubSeq(s, 1, Taken(requested, Len(s))) \in Seq(S)
      /\ Len(SubSeq(s, 1, Taken(requested, Len(s)))) = Taken(requested, Len(s))
  <2> DEFINE n == Taken(requested, Len(s))
  <2>1. n \in Int /\ 1 <= n /\ \A i \in 1..n : s[i] \in S
    BY <1>1, <1>2
  <2>2. SubSeq(s, 1, n) \in Seq(S) /\ Len(SubSeq(s, 1, n)) = n
    <3> HIDE DEF n
    <3> QED
      BY <2>1, SubSeqProperties, 1 \in Int
  <2> QED
    BY <2>2
<1> QED
  BY <1>1, <1>2, <1>3 DEF Taken

\* The keys of a configuration, from the file of accounts or those compiled in.
LEMMA KeysAreGood ==
    ASSUME NEW c \in CommandLines,
           NEW accounts \in ResolveConfiguredAccounts(c, IF c.count = 0 THEN DefaultCount ELSE c.count)
    PROVE  accounts.keys # <<>> /\ GoodKeys(c, accounts.keys)
<1> DEFINE requested == IF c.count = 0 THEN DefaultCount ELSE c.count
           listed == OrElse(c.accounts, <<>>)
<1>1. c.count \in Int /\ requested \in Int /\ DefaultCount > 0
  BY CommandLineAssumption, ConfigurationAssumption
<1>2. StaticKeys # <<>> /\ IsSequence(StaticKeys) /\ Unset # Invalid
  BY ConfigurationAssumption
<1>3. c.accounts \in {Unset, Invalid} \/ IsSequence(c.accounts)
  BY CommandLineAssumption
<1>4. /\ c.accounts # Invalid
      /\ accounts \in IF listed = <<>>
                      THEN {[faucet |-> SK, keys |-> DefaultKeyList(requested)]}
                      ELSE {[faucet |-> keys[1], keys |-> keys] :
                              keys \in ParsedKeys(SubSeq(listed, 1, Taken(requested, Len(listed))))}
  BY DEF ResolveConfiguredAccounts, LoadAccountEntries
<1> DEFINE source == IF listed = <<>> THEN StaticKeys ELSE listed
           keys == SubSeq(source, 1, Taken(requested, Len(source)))
<1>5. IsSequence(source) /\ source # <<>>
  BY <1>2, <1>3, <1>4 DEF OrElse
<1>6. accounts.keys = keys
  BY <1>4 DEF DefaultKeyList, ParsedKeys
<1>7. /\ keys \in Seq({source[i] : i \in DOMAIN source})
      /\ Len(keys) = Taken(requested, Len(source))
      /\ Taken(requested, Len(source)) \in 1..Len(source)
      /\ requested > 0 => Taken(requested, Len(source)) <= requested
      /\ Taken(requested, Len(source)) < Len(source) => Taken(requested, Len(source)) = requested
  <2> HIDE DEF requested, source
  <2> QED
    BY <1>1, <1>5, TakenKeys DEF IsSequence
<1>8. keys # <<>> /\ Len(keys) \in Nat /\ Len(keys) >= 1
  <2> HIDE DEF keys, source, requested
  <2>1. Len(source) \in Nat
    BY <1>5 DEF IsSequence
  <2> QED
    BY <2>1, <1>7, EmptySeq
<1>9. requested > 0 => requested = OrPositive(c.count, DefaultCount)
  BY <1>1 DEF OrPositive
<1>10. Taken(requested, Len(source)) < Len(source) => requested > 0
  BY <1>1, <1>7
<1>11. c.count > 0 => requested = c.count
  BY <1>1
<1> HIDE DEF requested
<1>12. GoodKeys(c, keys)
  <2>1. keys = SubSeq(source, 1, Len(keys))
    BY <1>7
  <2>2. c.count > 0 => Len(keys) <= c.count
    BY <1>7, <1>11
  <2>3. Len(keys) < Len(source) => Len(keys) = OrPositive(c.count, DefaultCount)
    BY <1>7, <1>9, <1>10
  <2> HIDE DEF keys
  <2> QED
    BY <1>8, <2>1, <2>2, <2>3 DEF GoodKeys
<1> QED
  BY <1>6, <1>8, <1>12

\* Nothing is divided by zero, and the word for a count of transactions holds it.
LEMMA CountIsPositive ==
    ASSUME NEW c \in CommandLines, NEW keys \in Nat \ {0}, NEW gasLimit \in Nat \ {0},
           NEW n \in TxCount(c, keys, gasLimit)
    PROVE  n >= 1
<1>1. /\ WordSize \in Nat \ {0}
      /\ c.txCount \in (1 - WordSize)..(WordSize - 1)
      /\ c.blockGas = Invalid \/ c.blockGas \in Int
  BY CommandLineAssumption, ConfigurationAssumption
<1>2. CASE c.txCount = 0
  <2>1. c.blockGas # Invalid /\ n = OrPositive((c.blockGas \div gasLimit) \div keys, 1)
    BY <1>2 DEF TxCount, SetupN
  <2>2. (c.blockGas \div gasLimit) \in Int
    BY <1>1, <2>1
  <2>3. ((c.blockGas \div gasLimit) \div keys) \in Int
    BY <2>2
  <2> QED
    BY <2>1, <2>3 DEF OrPositive
<1>3. CASE c.txCount # 0
  <2>1. n = c.txCount % WordSize
    BY <1>3 DEF TxCount
  <2>2. CASE c.txCount > 0
    <3>1. c.txCount = c.txCount % WordSize
      BY <1>1, <2>2
    <3> QED
      BY <1>1, <2>1, <2>2, <3>1
  <2>3. CASE c.txCount < 0
    <3>1. c.txCount % WordSize = c.txCount + WordSize
      BY <1>1, <2>3
    <3> QED
      BY <1>1, <2>1, <3>1
  <2> QED
    BY <1>1, <1>3, <2>2, <2>3
<1> QED
  BY <1>2, <1>3

LEMMA ConfigsAreGood ==
    ASSUME NEW c \in CommandLines, NEW made \in NewConfigFromContext(c)
    PROVE  GoodConfig(c, made)
<1> DEFINE requested == IF c.count = 0 THEN DefaultCount ELSE c.count
           gasLimit == OrPositive(c.gasLimit, DefaultGasLimit)
           keysOf(a) == IF a.keys = <<>> THEN DefaultKeyList(requested) ELSE a.keys
           Made(a, e, f, n, files) ==
              [endpoint |-> e, N |-> n, faucet |-> f, keys |-> keysOf(a), gasLimit |-> gasLimit,
               corpus |-> files, accessList |-> ~c.noAccessList]
<1>1. PICK a \in ResolveConfiguredAccounts(c, requested) :
        \E e \in Dial(ResolveEndpointSelection(c)), f \in Faucet(c, a.faucet),
           n \in TxCount(c, Len(keysOf(a)), gasLimit), files \in ReadCorpusElements(c) :
             made = Made(a, e, f, n, files)
  BY DEF NewConfigFromContext
<1>2. a.keys # <<>> /\ GoodKeys(c, a.keys) /\ keysOf(a) = a.keys
  BY KeysAreGood
<1>3. PICK n \in TxCount(c, Len(a.keys), gasLimit), files \in ReadCorpusElements(c) :
        made.N = n /\ made.keys = a.keys /\ made.gasLimit = gasLimit /\ made.corpus = files
  BY <1>1, <1>2
<1>4. gasLimit \in Nat \ {0}
  BY CommandLineAssumption, ConfigurationAssumption DEF OrPositive
<1>5. n >= 1
  <2> Len(a.keys) \in Nat \ {0}
    BY <1>2 DEF GoodKeys
  <2> HIDE DEF gasLimit
  <2> QED
    BY <1>4, CountIsPositive
<1>6. files \subseteq Files
  BY CommandLineAssumption DEF ReadCorpusElements, OrElse
<1> QED
  BY <1>2, <1>3, <1>4, <1>5, <1>6 DEF GoodConfig

-----------------------------------------------------------------------------
(* The options *)

Modes == {Legacy, V2SingleLane}

Positive(o) ==
    \A v \in {o.cases, o.retainPerSig, o.maxInFlight, o.sla, o.drain, o.receiptTimeout} :
        v \in Int /\ v >= 1

GoodOptions(o) ==
    /\ Positive(o)
    /\ o.mode \in Modes
    /\ o.mode = V2SingleLane => o.family = "basic"

\* Defaults take the place of what is not positive.
LEMMA NormalizedIsPositive ==
    ASSUME NEW c \in CommandLines
    PROVE  Positive(NormalizeCampaignOptions(CampaignOptionsFromContext(c)))
<1> {c.cases, c.retainPerSig, c.maxInFlight, c.sla, c.drain, c.receiptTimeout} \subseteq Int
  BY CommandLineAssumption
<1> QED
  BY DEF Positive, NormalizeCampaignOptions, CampaignOptionsFromContext, OrPositive

-----------------------------------------------------------------------------
(* The invariant of the campaign.  ConfigInv: a configuration is good as     *)
(* soon as there is one, and so are the options of a campaign that runs.     *)

Early == {"start", "configured", "ended"}
Steps == {"next", "filler", "mutate", "filled", "tx", "built", "sign"}

ConfigInv ==
    /\ pc \in Early \cup Steps
    /\ line \in CommandLines
    /\ config = Unset \/ GoodConfig(line, config)
    /\ pc \notin {"start", "ended"} => GoodConfig(line, config)
    /\ pc \in Steps => GoodOptions(options)

\* Reading the command line makes a good configuration or ends the program, and
\* nothing touches the configuration or the options after that.
LEMMA ConfigStep == ConfigInv /\ [Next]_vars => ConfigInv'
<1> SUFFICES ASSUME ConfigInv, [Next]_vars PROVE ConfigInv'
  OBVIOUS
<1> USE DEF ConfigInv, Early, Steps
<1>1. CASE Configure
  <2>1. line' = line
    BY <1>1 DEF Configure
  <2>2. CASE config' \in NewConfigFromContext(line) /\ pc' = "configured"
    BY <2>1, <2>2, ConfigsAreGood
  <2>3. CASE Ends /\ UNCHANGED config
    BY <2>1, <2>3 DEF Ends
  <2> QED
    BY <1>1, <2>2, <2>3 DEF Configure
<1>2. CASE StartCampaign
  <2>1. UNCHANGED <<line, config>> /\ GoodConfig(line, config)
    BY <1>2 DEF StartCampaign
  <2>2. CASE Ends
    BY <2>1, <2>2 DEF Ends
  <2>3. CASE ValidCampaignExecutionMode(options') /\ pc' = "next"
    <3>1. Positive(options')
      BY <1>2, NormalizedIsPositive DEF StartCampaign
    <3>2. GoodOptions(options')
      BY <2>3, <3>1 DEF GoodOptions, Modes, ValidCampaignExecutionMode, Legacy, V2SingleLane
    <3> QED
      BY <2>1, <2>3, <3>2
  <2> QED
    BY <1>2, <2>2, <2>3 DEF StartCampaign
<1>3. CASE pc \in Steps /\ pc' \in Steps \cup {"ended"} /\ UNCHANGED campaignVars
  BY <1>3 DEF campaignVars
<1>4. CASE UNCHANGED vars
  BY <1>4 DEF vars, campaignVars
<1>5. ASSUME Next, ~Configure, ~StartCampaign
      PROVE  pc \in Steps /\ pc' \in Steps \cup {"ended"} /\ UNCHANGED campaignVars
  <2>1. CASE NextCase
    BY <2>1 DEF NextCase, Ends
  <2>2. CASE BuildFiller
    BY <2>2 DEF BuildFiller
  <2>3. CASE Mutate
    BY <2>3 DEF Mutate
  <2>4. CASE HashBase
    BY <2>4 DEF HashBase
  <2>5. CASE BuildCampaignTx
    BY <2>5 DEF BuildCampaignTx
  <2>6. CASE BuildCampaignTxFails
    BY <2>6 DEF BuildCampaignTxFails, Ends
  <2>7. CASE FinishCampaignTx
    BY <2>7 DEF FinishCampaignTx
  <2>8. CASE SignTx
    BY <2>8 DEF SignTx
  <2>9. CASE SignTxFails
    BY <2>9 DEF SignTxFails, Ends
  <2>10. CASE EndCampaign
    BY <2>10 DEF EndCampaign, Ends
  <2> QED
    BY <1>5, <2>1, <2>2, <2>3, <2>4, <2>5, <2>6, <2>7, <2>8, <2>9, <2>10 DEF Next
<1> QED
  BY <1>1, <1>2, <1>3, <1>4, <1>5

\* Whatever the flags, the files and the node say, a configuration that is made
\* can be used: nothing is divided by zero, the keys exist and are as many as
\* asked for, and a campaign that runs has positive counts and times.
THEOREM EveryConfigIsUsable == Spec => []ConfigIsUsable
<1>1. Init => ConfigInv
  BY DEF Init, ConfigInv, Early, Steps
<1>2. ConfigInv => ConfigIsUsable
  <2> SUFFICES ASSUME ConfigInv PROVE ConfigIsUsable
    OBVIOUS
  <2>1. ASSUME config # Unset PROVE GoodConfig(line, config)
    BY <2>1 DEF ConfigInv
  <2>2. ASSUME Ready PROVE GoodOptions(options)
    BY <2>2 DEF ConfigInv, Ready, Early, Steps
  <2> QED
    BY <2>1, <2>2 DEF ConfigIsUsable, GoodConfig, GoodKeys, GoodOptions, Positive, Modes
<1> QED
  BY <1>1, <1>2, ConfigStep, PTL DEF Spec

-----------------------------------------------------------------------------
(* The arrays.  CorpusInv: the elements of the corpus stay as they were read, *)
(* from the making of a base to its hashing its array holds the source, and   *)
(* before the mutation what is mutated is a copy of it in another array.      *)

Arrays == Files \cup {"base", "mutated"}
CopyOf(s) == ArrayOf(s, CapacityFor(Len(s)))

BaseInv ==
    /\ heap["base"] = CopyOf(Source(ref))
    /\ base = SliceOf("base", Source(ref))

CorpusInv ==
    /\ heap = [a \in Arrays |-> heap[a]]
    /\ \A f \in Files : heap[f] = ArrayOf(Contents[f], Len(Contents[f]))
    /\ ref \in Files \cup {Unset}
    /\ pc \in {"mutate", "filled"} => BaseInv
    /\ pc = "mutate" =>
         heap["mutated"] = CopyOf(Source(ref)) /\ b = SliceOf("mutated", Source(ref))

GoodRecord(r) ==
    \E f \in Files \cup {Unset} :
        r = [ref |-> f, base |-> Source(f), blobCount |-> r.blobCount, authCount |-> r.authCount]

RecordInv ==
    /\ record = Unset \/ GoodRecord(record)
    /\ pc \in {"tx", "built", "sign"} => GoodRecord(record)

LEMMA SourceType == \A r \in Files \cup {Unset} : Source(r) \in Seq(Nat)
  BY BuildAssumption DEF Source

\* An array of a sequence, read back.
LEMMA ReadBack ==
    ASSUME NEW S, NEW s \in Seq(S), NEW cap \in Int, cap >= Len(s)
    PROVE  [i \in 1..Len(s) |-> ArrayOf(s, cap)[i - 1]] = s
<1>1. \A i \in 1..Len(s) : ArrayOf(s, cap)[i - 1] = s[i]
  BY DEF ArrayOf
<1>2. s = [i \in 1..Len(s) |-> s[i]]
  OBVIOUS
<1> QED
  BY <1>1, <1>2

\* A copy has room for what is copied.
LEMMA CapacitySuffices == \A n \in BaseLengths : CapacityFor(n) \in Nat /\ CapacityFor(n) >= n
<1> SUFFICES ASSUME NEW n \in BaseLengths PROVE CapacityFor(n) \in Nat /\ CapacityFor(n) >= n
  OBVIOUS
<1>1. CASE n = 0
  BY <1>1 DEF CapacityFor
<1>2. CASE n # 0
  <2> DEFINE size == CapacityFor(n)
  <2>1. \E c \in SizeClasses : RoundsUpTo(n, c)
    BY SizeAssumption
  <2>2. RoundsUpTo(n, size)
    BY <1>2, <2>1 DEF CapacityFor
  <2> QED
    BY <2>2, SizeAssumption DEF RoundsUpTo
<1> QED
  BY <1>1, <1>2

\* The bases are of the lengths that are accounted for.
LEMMA SourceLength == \A r \in Files \cup {Unset} : Len(Source(r)) \in BaseLengths
  BY DEF Source, BaseLengths

\* No mutation writes to another array than the one it is given.
LEMMA MutationsStayInPlace ==
    ASSUME MutateBytes
    PROVE  \E mem : heap' = [heap EXCEPT ![b.arr] = mem]
<1> USE DEF Becomes
<1>1. CASE RemoveBytes
  BY <1>1 DEF RemoveBytes
<1>2. CASE InsertRandomBytes
  BY <1>2 DEF InsertRandomBytes
<1>3. CASE DuplicateBytes
  BY <1>3 DEF DuplicateBytes
<1>4. CASE OverwriteBytes
  BY <1>4 DEF OverwriteBytes
<1>5. CASE BitFlip \/ XORByte \/ ArithmeticUint8
  BY <1>5 DEF BitFlip, XORByte, ArithmeticUint8
<1>6. CASE SwapByte
  BY <1>6 DEF SwapByte
<1>7. ASSUME NEW width \in {2, 4, 8}, ArithmeticUint(width)
      PROVE  \E mem : heap' = [heap EXCEPT ![b.arr] = mem]
  BY <1>7 DEF ArithmeticUint
<1>8. ASSUME NEW width \in {1, 2, 4}, OverwriteInteresting(width)
      PROVE  \E mem : heap' = [heap EXCEPT ![b.arr] = mem]
  BY <1>8 DEF OverwriteInteresting
<1>9. CASE InsertConstantBytes
  BY <1>9 DEF InsertConstantBytes
<1>10. CASE OverwriteConstantBytes
  BY <1>10 DEF OverwriteConstantBytes
<1>11. CASE ShuffleBytes
  BY <1>11 DEF ShuffleBytes
<1>12. CASE SwapBytes
  BY <1>12 DEF SwapBytes
<1> QED
  BY <1>1, <1>2, <1>3, <1>4, <1>5, <1>6, <1>7, <1>8, <1>9, <1>10, <1>11, <1>12 DEF MutateBytes

LEMMA CorpusStep == ConfigInv /\ CorpusInv /\ [Next]_vars => CorpusInv'
<1> SUFFICES ASSUME ConfigInv, CorpusInv, [Next]_vars PROVE CorpusInv'
  OBVIOUS
<1> USE DEF CorpusInv
<1>a. "base" \notin Files /\ "mutated" \notin Files /\ Unset \notin Files
  BY BuildAssumption
<1>1. CASE BuildFiller
  <2>1. ASSUME NEW s, Filler(s), s = Source(ref'), ref' \in Files \cup {Unset}
        PROVE  CorpusInv'
    <3>1. /\ heap' = [a \in Arrays |-> heap'[a]]
          /\ \A f \in Files : heap'[f] = heap[f]
          /\ heap'["base"] = CopyOf(s) /\ heap'["mutated"] = CopyOf(s)
      BY <1>a, <2>1 DEF Filler, Arrays, CopyOf
    <3>2. base' = SliceOf("base", s) /\ b' = SliceOf("mutated", s)
      BY <2>1 DEF Filler
    <3> QED
      BY <2>1, <3>1, <3>2 DEF BaseInv
  <2>2. CASE ref' = Unset /\ Filler(RandomBase)
    BY <2>1, <2>2 DEF Source, RandomBase
  <2>3. ASSUME NEW f \in config.corpus, ref' = f,
               Filler([i \in 1..Len(Contents[f]) |-> heap[f][i - 1]])
        PROVE  CorpusInv'
    <3>1. f \in Files
      BY <1>1 DEF ConfigInv, GoodConfig, BuildFiller
    <3>2. [i \in 1..Len(Contents[f]) |-> heap[f][i - 1]] = Contents[f]
      <4>1. Contents[f] \in Seq(Nat) /\ heap[f] = ArrayOf(Contents[f], Len(Contents[f]))
        BY <3>1, BuildAssumption
      <4> DEFINE s == Contents[f]
      <4>2. s \in Seq(Nat) /\ Len(s) \in Int /\ Len(s) >= Len(s)
        BY <4>1
      <4>3. [i \in 1..Len(s) |-> ArrayOf(s, Len(s))[i - 1]] = s
        <5> HIDE DEF s
        <5> QED
          BY <4>2, ReadBack
      <4> QED
        BY <4>1, <4>3
    <3> QED
      BY <1>a, <2>1, <2>3, <3>1, <3>2 DEF Source
  <2> QED
    BY <1>1, <2>2, <2>3 DEF BuildFiller
<1>2. CASE Mutate
  <2>1. pc = "mutate" /\ pc' = "filled" /\ UNCHANGED <<ref, base>> /\ MutateBytes
    BY <1>2 DEF Mutate, caseVars
  <2>2. b.arr = "mutated"
    BY <2>1 DEF SliceOf
  <2>3. PICK mem : heap' = [heap EXCEPT !["mutated"] = mem]
    BY <2>1, <2>2, MutationsStayInPlace
  <2>4. heap' = [a \in Arrays |-> heap'[a]] /\ \A a \in Files \cup {"base"} : heap'[a] = heap[a]
    BY <1>a, <2>3 DEF Arrays
  <2> QED
    BY <2>1, <2>4 DEF BaseInv
<1>3. CASE HashBase
  <2>1. heap' = [a \in Arrays |-> heap'[a]] /\ \A f \in Files : heap'[f] = heap[f]
    BY <1>a, <1>3 DEF HashBase, Arrays
  <2> QED
    BY <1>3, <2>1 DEF HashBase
<1>4. CASE pc' \notin {"mutate", "filled"} /\ UNCHANGED <<ref, heap>>
  BY <1>4
<1>5. CASE UNCHANGED vars
  BY <1>5 DEF vars, caseVars, mutatorVars, BaseInv
<1>6. ASSUME Next, ~BuildFiller, ~Mutate, ~HashBase
      PROVE  pc' \notin {"mutate", "filled"} /\ UNCHANGED <<ref, heap>>
  <2> USE DEF caseVars, mutatorVars, Ends
  <2>1. CASE Configure
    BY <2>1 DEF Configure
  <2>2. CASE StartCampaign
    BY <2>2 DEF StartCampaign
  <2>3. CASE NextCase
    BY <2>3 DEF NextCase
  <2>4. CASE BuildCampaignTx
    BY <2>4 DEF BuildCampaignTx
  <2>5. CASE BuildCampaignTxFails
    BY <2>5 DEF BuildCampaignTxFails
  <2>6. CASE FinishCampaignTx
    BY <2>6 DEF FinishCampaignTx
  <2>7. CASE SignTx
    BY <2>7 DEF SignTx
  <2>8. CASE SignTxFails
    BY <2>8 DEF SignTxFails
  <2>9. CASE EndCampaign
    BY <2>9 DEF EndCampaign
  <2> QED
    BY <1>6, <2>1, <2>2, <2>3, <2>4, <2>5, <2>6, <2>7, <2>8, <2>9 DEF Next
<1> QED
  BY <1>1, <1>2, <1>3, <1>4, <1>5, <1>6

\* The base that is hashed is the source.
LEMMA HashedBase ==
    ASSUME CorpusInv, HashBase
    PROVE  GoodRecord(record')
<1>1. BaseInv /\ ref \in Files \cup {Unset}
  BY DEF CorpusInv, HashBase
<1>2. Content(base) = Source(ref)
  BY <1>1, SourceType, SourceLength, ReadBack, CapacitySuffices DEF Content, BaseInv, SliceOf, CopyOf
<1> QED
  BY <1>1, <1>2 DEF HashBase, GoodRecord

-----------------------------------------------------------------------------
(* Division.  The provers know little of it when the divisor is a constant; *)
(* all the facts come from the uniqueness of quotient and remainder.        *)

LEMMA TimesGrows ==
    ASSUME NEW a \in Nat, NEW p \in Nat, NEW q \in Nat, p < q
    PROVE  a * p \in Nat /\ a * q \in Nat /\ a * p + a <= a * q
<1>1. PICK d \in Nat : q = p + 1 + d
  <2> q - p - 1 \in Nat /\ q = p + 1 + (q - p - 1)
    OBVIOUS
  <2> QED
    OBVIOUS
<1>2. a * (p + 1 + d) = a * p + a + a * d
  OBVIOUS
<1>3. a * p \in Nat /\ a * d \in Nat
  OBVIOUS
<1> QED
  BY <1>1, <1>2, <1>3

LEMMA Quotient ==
    ASSUME NEW n \in Nat, NEW d \in Nat \ {0}
    PROVE  /\ n \div d \in Nat /\ n % d \in 0..(d - 1)
           /\ n = d * (n \div d) + (n % d)
<1>1. n % d \in 0..(d - 1)
  OBVIOUS
<1>2. n \div d \in Nat
  OBVIOUS
<1>3. n = d * (n \div d) + (n % d)
  OBVIOUS
<1> QED
  BY <1>1, <1>2, <1>3

LEMMA QuotientUnique ==
    ASSUME NEW d \in Nat \ {0}, NEW p \in Nat, NEW r \in 0..(d - 1),
           NEW n, n = d * p + r
    PROVE  n \in Nat /\ n \div d = p /\ n % d = r
<1>1. d * p \in Nat
  OBVIOUS
<1>2. n \in Nat
  BY <1>1
<1> DEFINE q == n \div d
           s == n % d
<1>3. q \in Nat /\ s \in 0..(d - 1) /\ n = d * q + s
  BY <1>2, Quotient
<1> HIDE DEF q, s
<1>4. q = p
  <2>1. CASE p < q
    <3> d * p + d <= d * q
      BY <2>1, <1>3, TimesGrows
    <3> d * q \in Nat
      BY <1>3
    <3> QED
      BY <1>1, <1>3
  <2>2. CASE q < p
    <3> d * q + d <= d * p
      BY <2>2, <1>3, TimesGrows
    <3> d * q \in Nat
      BY <1>3
    <3> QED
      BY <1>1, <1>3
  <2> QED
    BY <1>3, <2>1, <2>2
<1>5. s = r
  BY <1>1, <1>3, <1>4
<1> QED
  BY <1>2, <1>4, <1>5 DEF q, s

LEMMA QuotientGrows ==
    ASSUME NEW d \in Nat \ {0}, NEW m \in Nat, NEW n \in Nat, m <= n
    PROVE  m \div d <= n \div d
<1> DEFINE p == m \div d
           q == n \div d
<1>1. /\ p \in Nat /\ m % d \in 0..(d - 1) /\ m = d * p + (m % d)
      /\ q \in Nat /\ n % d \in 0..(d - 1) /\ n = d * q + (n % d)
  BY Quotient
<1> HIDE DEF p, q
<1>2. CASE q < p
  <2> d * q + d <= d * p /\ d * q \in Nat /\ d * p \in Nat
    BY <1>1, <1>2, TimesGrows
  <2> QED
    BY <1>1
<1> QED
  BY <1>1, <1>2 DEF p, q

LEMMA QuotientOfQuotient ==
    ASSUME NEW a \in Nat \ {0}, NEW d \in Nat \ {0}, NEW n \in Nat
    PROVE  (n \div a) \div d = n \div (a * d)
<1> DEFINE q == n \div a
           r == n % a
           p == q \div d
           s == q % d
           c == a * d
           t == a * s + r
<1>1. q \in Nat /\ r \in 0..(a - 1) /\ n = a * q + r
  BY Quotient
<1>2. p \in Nat /\ s \in 0..(d - 1) /\ q = d * p + s
  <2> HIDE DEF q
  <2> QED
    BY <1>1, Quotient
<1> HIDE DEF q, r, p, s
<1>3. c \in Nat \ {0}
  <2> a * d \in Nat /\ a * d # 0
    OBVIOUS
  <2> QED
    OBVIOUS
<1>4. a * q = c * p + a * s
  <2>1. a * (d * p + s) = (a * d) * p + a * s
    BY <1>2
  <2> QED
    BY <1>2, <2>1
<1>5. a * s + a <= c /\ a * s \in Nat
  BY <1>2, TimesGrows
<1> HIDE DEF c
<1>6. t \in 0..(c - 1)
  BY <1>1, <1>3, <1>5
<1>7. c * p \in Nat
  BY <1>2, <1>3
<1>8. n = c * p + t
  BY <1>1, <1>4, <1>5, <1>7
<1> HIDE DEF t
<1>9. n \div c = p
  BY <1>2, <1>3, <1>6, <1>8, QuotientUnique
<1> QED
  BY <1>9 DEF p, q, c

-----------------------------------------------------------------------------
(* Where a field of the data is *)

\* The blob and the place in it of field number c, counting from one.
BlobOf(c) == 1 + ((c - 1) \div FieldsPerBlob)
PlaceOf(c) == (c - 1) % FieldsPerBlob

LEMMA Places ==
    /\ \A c \in Nat \ {0} : BlobOf(c) \in Nat \ {0} /\ PlaceOf(c) \in 0..(FieldsPerBlob - 1)
    /\ \A c, d \in Nat \ {0} : BlobOf(c) = BlobOf(d) /\ PlaceOf(c) = PlaceOf(d) => c = d
    /\ \A c, d \in Nat \ {0} : c <= d => BlobOf(c) <= BlobOf(d)
    /\ BlobOf(1) = 1 /\ PlaceOf(1) = 0
<1> DEFINE F == FieldsPerBlob
<1>1. F \in Nat \ {0}
  BY TransactionsAssumption
<1> HIDE DEF F
<1>2. ASSUME NEW c \in Nat \ {0}
      PROVE  /\ BlobOf(c) \in Nat \ {0} /\ PlaceOf(c) \in 0..(FieldsPerBlob - 1)
             /\ c - 1 = F * (BlobOf(c) - 1) + PlaceOf(c)
  <2> DEFINE n == c - 1
             p == n \div F
  <2>1. n \in Nat
    OBVIOUS
  <2>2. p \in Nat /\ n % F \in 0..(F - 1) /\ n = F * p + (n % F)
    <3> HIDE DEF n
    <3> QED
      BY <1>1, <2>1, Quotient
  <2>3. BlobOf(c) = 1 + p /\ PlaceOf(c) = n % F
    BY DEF BlobOf, PlaceOf, F
  <2>4. BlobOf(c) - 1 = p /\ BlobOf(c) \in Nat \ {0}
    <3> HIDE DEF p
    <3> QED
      BY <2>2, <2>3
  <2> HIDE DEF p
  <2>5. c - 1 = F * (BlobOf(c) - 1) + PlaceOf(c)
    BY <2>2, <2>3, <2>4
  <2> QED
    BY <2>2, <2>3, <2>4, <2>5 DEF F
<1>3. ASSUME NEW c \in Nat \ {0}, NEW d \in Nat \ {0},
             BlobOf(c) = BlobOf(d), PlaceOf(c) = PlaceOf(d)
      PROVE  c = d
  <2>1. c - 1 = d - 1
    BY <1>2, <1>3
  <2> QED
    BY <2>1
<1>4. ASSUME NEW c \in Nat \ {0}, NEW d \in Nat \ {0}, c <= d
      PROVE  BlobOf(c) <= BlobOf(d)
  <2> DEFINE m == c - 1
             n == d - 1
  <2>1. m \in Nat /\ n \in Nat /\ m <= n
    BY <1>4
  <2>2. m \div F <= n \div F /\ m \div F \in Nat /\ n \div F \in Nat
    <3> HIDE DEF m, n
    <3> QED
      BY <1>1, <2>1, QuotientGrows, Quotient
  <2> QED
    BY <2>2 DEF BlobOf, F
<1>5. BlobOf(1) = 1 /\ PlaceOf(1) = 0
  <2>1. 0 = F * 0 + 0 /\ 0 \in 0..(F - 1)
    BY <1>1
  <2>2. 0 \div F = 0 /\ 0 % F = 0
    BY <1>1, <2>1, QuotientUnique
  <2> QED
    BY <2>2 DEF BlobOf, PlaceOf, F
<1> QED
  BY <1>2, <1>3, <1>4, <1>5

\* The next field is the next one of its blob, or the first one of the next blob.
LEMMA NextPlace ==
    ASSUME NEW c \in Nat \ {0}
    PROVE  IF PlaceOf(c) + 1 = FieldsPerBlob
           THEN BlobOf(c + 1) = BlobOf(c) + 1 /\ PlaceOf(c + 1) = 0
           ELSE BlobOf(c + 1) = BlobOf(c) /\ PlaceOf(c + 1) = PlaceOf(c) + 1
<1> DEFINE F == FieldsPerBlob
           n == c - 1
           p == n \div F
           r == n % F
<1>1. F \in Nat \ {0} /\ n \in Nat /\ n + 1 = c
  BY TransactionsAssumption
<1>2. p \in Nat /\ r \in 0..(F - 1) /\ n = F * p + r
  <2> HIDE DEF n, F
  <2> QED
    BY <1>1, Quotient
<1>3. BlobOf(c) = 1 + p /\ PlaceOf(c) = r
  BY DEF BlobOf, PlaceOf
<1>4. BlobOf(c + 1) = 1 + (c \div F) /\ PlaceOf(c + 1) = c % F
  BY DEF BlobOf, PlaceOf
<1> HIDE DEF p, r, n
<1>5. CASE r + 1 = F
  <2>1. F * (p + 1) = F * p + F /\ F * p \in Nat
    BY <1>1, <1>2
  <2>2. c = F * (p + 1) + 0 /\ p + 1 \in Nat /\ 0 \in 0..(F - 1)
    BY <1>1, <1>2, <1>5, <2>1
  <2>3. c \div F = p + 1 /\ c % F = 0
    <3> HIDE DEF F
    <3> QED
      BY <1>1, <2>2, QuotientUnique
  <2> QED
    BY <1>2, <1>3, <1>4, <1>5, <2>3
<1>6. CASE r + 1 # F
  <2>1. F * p \in Nat
    BY <1>1, <1>2
  <2>2. c = F * p + (r + 1) /\ r + 1 \in 0..(F - 1)
    BY <1>1, <1>2, <1>6, <2>1
  <2>3. c \div F = p /\ c % F = r + 1
    <3> HIDE DEF F
    <3> QED
      BY <1>1, <1>2, <2>2, QuotientUnique
  <2> QED
    BY <1>2, <1>3, <1>4, <1>6, <2>3
<1> QED
  BY <1>5, <1>6

-----------------------------------------------------------------------------
(* The loop of EncodeBlobs.  Its function is recursive; that there is one,   *)
(* and what holds after k fields, is proved by taking the least number for    *)
(* which it fails.                                                            *)

NoField == [i \in 0..BytesPerField |-> 0]
Bytes == [0..BytesPerField -> Nat]

EncStart == [blobs |-> <<EmptyBlob>>, field |-> -1]

EncWrite(data, before, k) ==
    LET full == before.field + 1 = FieldsPerBlob
        field == IF full THEN 0 ELSE before.field + 1
        blobs == IF full THEN Append(before.blobs, EmptyBlob) ELSE before.blobs
    IN  [blobs |-> [blobs EXCEPT ![Len(blobs)][field] = Field(data, k)],
         field |-> field]

Encodes(data, n, g) ==
    g = [k \in 0..n |-> IF k = 0 THEN EncStart ELSE EncWrite(data, g[k - 1], k)]

LEMMA LeastNumber ==
    ASSUME NEW T, T \subseteq Nat, T # {}
    PROVE  \E x \in T : \A y \in T : x <= y
<1> DEFINE R == OpToRel(<, Nat)
<1>1. IsWellFoundedOn(R, Nat)
  BY NatLessThanWellFounded
<1>2. PICK x \in T : \A y \in T : <<y, x>> \notin R
  <2> HIDE DEF R
  <2> QED
    BY <1>1, WFMin
<1>3. \A y \in T : ~(y < x)
  BY <1>2 DEF OpToRel
<1> QED
  BY <1>3

\* The recursive function of EncodeBlobs exists.
LEMMA EncodingExists ==
    ASSUME NEW data, NEW n \in Nat
    PROVE  \E g : Encodes(data, n, g)
<1> DEFINE T == {m \in Nat : ~\E g : Encodes(data, m, g)}
<1>1. ASSUME T # {} PROVE FALSE
  <2>1. PICK m \in T : \A j \in T : m <= j
    <3> T \subseteq Nat
      OBVIOUS
    <3> HIDE DEF T
    <3> QED
      BY <1>1, LeastNumber
  <2>2. m \in Nat /\ ~\E g : Encodes(data, m, g)
    BY <2>1
  <2>3. CASE m = 0
    <3> DEFINE g == [k \in 0..0 |-> EncStart]
    <3>1. Encodes(data, 0, g)
      BY DEF Encodes
    <3> QED
      BY <2>2, <2>3, <3>1
  <2>4. CASE m # 0
    <3>1. m - 1 \in Nat /\ m - 1 \notin T
      BY <2>1, <2>2, <2>4
    <3>2. PICK g : Encodes(data, m - 1, g)
      BY <3>1
    <3> DEFINE h == [k \in 0..m |-> IF k = m THEN EncWrite(data, g[m - 1], m) ELSE g[k]]
    <3>3. ASSUME NEW k \in 0..m
          PROVE  h[k] = IF k = 0 THEN EncStart ELSE EncWrite(data, h[k - 1], k)
      <4>1. CASE k = m
        BY <2>2, <2>4, <4>1
      <4>2. CASE k # m
        <5>1. k \in 0..(m - 1)
          BY <2>2, <4>2
        <5>2. g[k] = IF k = 0 THEN EncStart ELSE EncWrite(data, g[k - 1], k)
          BY <3>2, <5>1 DEF Encodes
        <5>3. h[k] = g[k] /\ (k # 0 => h[k - 1] = g[k - 1])
          BY <2>2, <4>2, <5>1
        <5> HIDE DEF h
        <5> QED
          BY <5>2, <5>3
      <4> QED
        BY <4>1, <4>2
    <3>4. h = [k \in 0..m |-> h[k]]
      OBVIOUS
    <3> HIDE DEF h
    <3>5. Encodes(data, m, h)
      BY <3>3, <3>4 DEF Encodes
    <3> QED
      BY <2>2, <3>5
  <2> QED
    BY <2>3, <2>4
<1> QED
  BY <1>1

Blobs == [0..(FieldsPerBlob - 1) -> Bytes]

\* After k fields: the blobs there are, and what each place in them holds.
Encoded(data, r, k) ==
    /\ r.field = (IF k = 0 THEN -1 ELSE PlaceOf(k))
    /\ r.blobs \in Seq(Blobs)
    /\ Len(r.blobs) = (IF k = 0 THEN 1 ELSE BlobOf(k))
    /\ \A c \in Nat \ {0} : BlobOf(c) <= Len(r.blobs) =>
          r.blobs[BlobOf(c)][PlaceOf(c)] = IF c <= k THEN Field(data, c) ELSE NoField

LEMMA FieldTypes ==
    /\ \A data \in Seq(Nat), c \in Nat \ {0} : Field(data, c) \in Bytes
    /\ EmptyBlob \in Blobs
    /\ \A f \in 0..(FieldsPerBlob - 1) : EmptyBlob[f] = NoField
<1>1. ASSUME NEW data \in Seq(Nat), NEW c \in Nat \ {0} PROVE Field(data, c) \in Bytes
  <2> DEFINE start == (c - 1) * BytesPerField
  <2>1. start \in Nat /\ BytesPerField \in Nat
    BY TransactionsAssumption
  <2> HIDE DEF start
  <2>2. \A i \in 0..BytesPerField :
           (IF i > 0 /\ start + i <= Len(data) THEN data[start + i] ELSE 0) \in Nat
    BY <2>1
  <2>3. Field(data, c) = [i \in 0..BytesPerField |->
                            IF i > 0 /\ start + i <= Len(data) THEN data[start + i] ELSE 0]
    BY DEF Field, start
  <2> QED
    BY <2>2, <2>3 DEF Bytes
<1>2. NoField \in Bytes
  BY DEF NoField, Bytes
<1>3. EmptyBlob = [f \in 0..(FieldsPerBlob - 1) |-> NoField]
  BY DEF EmptyBlob, NoField
<1> QED
  BY <1>1, <1>2, <1>3 DEF Blobs

LEMMA EncodedStart == \A data : Encoded(data, EncStart, 0)
<1>1. EncStart.field = -1 /\ EncStart.blobs = <<EmptyBlob>>
  BY DEF EncStart
<1>2. <<EmptyBlob>> \in Seq(Blobs) /\ Len(<<EmptyBlob>>) = 1 /\ <<EmptyBlob>>[1] = EmptyBlob
  BY FieldTypes
<1>3. \A c \in Nat \ {0} : BlobOf(c) <= 1 => BlobOf(c) = 1
  BY Places
<1>4. \A c \in Nat \ {0} : EmptyBlob[PlaceOf(c)] = NoField
  BY Places, FieldTypes
<1> QED
  BY <1>1, <1>2, <1>3, <1>4 DEF Encoded

LEMMA EncodedStep ==
    ASSUME NEW data \in Seq(Nat), NEW k \in Nat \ {0}, NEW r, Encoded(data, r, k - 1)
    PROVE  Encoded(data, EncWrite(data, r, k), k)
<1> DEFINE full == r.field + 1 = FieldsPerBlob
           field == IF full THEN 0 ELSE r.field + 1
           blobs == IF full THEN Append(r.blobs, EmptyBlob) ELSE r.blobs
           L == Len(blobs)
           X == Field(data, k)
           w == [blobs EXCEPT ![L][field] = X]
<1>1. EncWrite(data, r, k) = [blobs |-> w, field |-> field]
  BY DEF EncWrite
<1>2. /\ r.field = (IF k - 1 = 0 THEN -1 ELSE PlaceOf(k - 1))
      /\ r.blobs \in Seq(Blobs)
      /\ Len(r.blobs) = (IF k - 1 = 0 THEN 1 ELSE BlobOf(k - 1))
      /\ \A c \in Nat \ {0} : BlobOf(c) <= Len(r.blobs) =>
            r.blobs[BlobOf(c)][PlaceOf(c)] = IF c <= k - 1 THEN Field(data, c) ELSE NoField
  BY DEF Encoded
<1>3. /\ field = PlaceOf(k)
      /\ blobs \in Seq(Blobs)
      /\ L = BlobOf(k)
      /\ \A c \in Nat \ {0} : BlobOf(c) <= L =>
            blobs[BlobOf(c)][PlaceOf(c)] = IF c <= k - 1 THEN Field(data, c) ELSE NoField
  <2>1. CASE k = 1
    <3>1. r.field = -1 /\ FieldsPerBlob # 0 /\ Len(r.blobs) = 1
      BY <1>2, <2>1, TransactionsAssumption
    <3>2. ~full
      BY <3>1
    <3>3. field = 0 /\ blobs = r.blobs
      BY <3>1, <3>2
    <3> QED
      BY <1>2, <2>1, <3>1, <3>3, Places
  <2>2. CASE k # 1
    <3> DEFINE j == k - 1
    <3>1. j \in Nat \ {0} /\ j + 1 = k /\ j # 0
      BY <2>2
    <3>2. /\ r.field = PlaceOf(j) /\ Len(r.blobs) = BlobOf(j)
          /\ \A c \in Nat \ {0} : BlobOf(c) <= Len(r.blobs) =>
                r.blobs[BlobOf(c)][PlaceOf(c)] = IF c <= j THEN Field(data, c) ELSE NoField
      BY <1>2, <3>1
    <3> HIDE DEF j
    <3>3. IF PlaceOf(j) + 1 = FieldsPerBlob
          THEN BlobOf(k) = BlobOf(j) + 1 /\ PlaceOf(k) = 0
          ELSE BlobOf(k) = BlobOf(j) /\ PlaceOf(k) = PlaceOf(j) + 1
      BY <3>1, NextPlace
    <3>4. CASE ~full
      <4>1. field = PlaceOf(k) /\ blobs = r.blobs /\ BlobOf(k) = BlobOf(j)
        BY <3>2, <3>3, <3>4
      <4> QED
        BY <1>2, <3>2, <4>1 DEF j
    <3>5. CASE full
      <4>1. /\ field = PlaceOf(k) /\ blobs = Append(r.blobs, EmptyBlob)
            /\ BlobOf(k) = BlobOf(j) + 1
        BY <3>2, <3>3, <3>5
      <4> HIDE DEF field, blobs
      <4>2. /\ blobs \in Seq(Blobs) /\ Len(blobs) = Len(r.blobs) + 1
            /\ \A i \in 1..Len(r.blobs) : blobs[i] = r.blobs[i]
            /\ blobs[Len(r.blobs) + 1] = EmptyBlob
        BY <1>2, <4>1, FieldTypes, AppendProperties
      <4>3. ASSUME NEW c \in Nat \ {0}, BlobOf(c) <= L
            PROVE  blobs[BlobOf(c)][PlaceOf(c)] = IF c <= j THEN Field(data, c) ELSE NoField
        <5>1. BlobOf(c) \in Nat \ {0} /\ Len(r.blobs) \in Nat /\ BlobOf(j) \in Nat
          BY <1>2, <3>1, Places
        <5>2. CASE BlobOf(c) <= Len(r.blobs)
          <6>1. blobs[BlobOf(c)] = r.blobs[BlobOf(c)]
            BY <4>2, <5>1, <5>2
          <6> QED
            BY <3>2, <5>2, <6>1
        <5>3. CASE BlobOf(c) = Len(r.blobs) + 1
          <6>1. ~(c <= j)
            BY <3>1, <3>2, <5>1, <5>3, Places
          <6>2. EmptyBlob[PlaceOf(c)] = NoField
            BY Places, FieldTypes
          <6> QED
            BY <4>2, <5>3, <6>1, <6>2
        <5> QED
          BY <4>2, <4>3, <5>1, <5>2, <5>3
      <4> QED
        BY <3>2, <4>1, <4>2, <4>3 DEF j
    <3> QED
      BY <3>4, <3>5
  <2> QED
    BY <2>1, <2>2
<1> HIDE DEF blobs, field
<1>4. X \in Bytes
  BY FieldTypes
<1>5. /\ BlobOf(k) \in Nat \ {0} /\ PlaceOf(k) \in 0..(FieldsPerBlob - 1)
      /\ L \in 1..Len(blobs) /\ blobs[L] \in Blobs
  BY <1>3, Places
<1> DEFINE y == [blobs[L] EXCEPT ![field] = X]
<1>6. w = [blobs EXCEPT ![L] = y]
  OBVIOUS
<1>7. /\ y \in Blobs /\ y[field] = X
      /\ \A p \in 0..(FieldsPerBlob - 1) : p # field => y[p] = blobs[L][p]
  <2> HIDE DEF X
  <2> QED
    BY <1>3, <1>4, <1>5 DEF Blobs
<1>8. /\ w \in Seq(Blobs) /\ Len(w) = L /\ w[L] = y
      /\ \A i \in 1..L : i # L => w[i] = blobs[i]
  <2> HIDE DEF y, w
  <2> QED
    BY <1>3, <1>5, <1>6, <1>7, ExceptSeq
<1>9. ASSUME NEW c \in Nat \ {0}, BlobOf(c) <= L
      PROVE  w[BlobOf(c)][PlaceOf(c)] = IF c <= k THEN Field(data, c) ELSE NoField
  <2> HIDE DEF y, w, X
  <2>1. BlobOf(c) \in 1..L /\ PlaceOf(c) \in 0..(FieldsPerBlob - 1) /\ L \in Nat
    BY <1>3, <1>5, <1>9, Places
  <2>2. blobs[BlobOf(c)][PlaceOf(c)] = IF c <= k - 1 THEN Field(data, c) ELSE NoField
    BY <1>3, <1>9
  <2>3. CASE c = k
    <3>1. w[BlobOf(c)][PlaceOf(c)] = X
      BY <1>3, <1>7, <1>8, <2>3
    <3> QED
      BY <2>3, <3>1 DEF X
  <2>4. CASE c # k
    <3>1. w[BlobOf(c)][PlaceOf(c)] = blobs[BlobOf(c)][PlaceOf(c)]
      <4>1. CASE BlobOf(c) # L
        BY <1>8, <2>1, <4>1
      <4>2. CASE BlobOf(c) = L
        <5>1. PlaceOf(c) # field
          BY <1>3, <2>4, <4>2, Places
        <5> QED
          BY <1>7, <1>8, <2>1, <4>2, <5>1
      <4> QED
        BY <4>1, <4>2
    <3> QED
      BY <2>2, <2>4, <3>1
  <2> QED
    BY <2>3, <2>4
<1> HIDE DEF w
<1>10. EncWrite(data, r, k).blobs = w /\ EncWrite(data, r, k).field = field
  BY <1>1
<1> QED
  BY <1>3, <1>8, <1>9, <1>10 DEF Encoded

\* What the loop of EncodeBlobs has made at its end.
LEMMA EncodeBlobsFacts ==
    ASSUME NEW data \in Seq(Nat)
    PROVE  /\ Chunks(data) \in Nat
           /\ \E r : Encoded(data, r, Chunks(data)) /\ EncodeBlobs(data) = r.blobs
<1> DEFINE n == Chunks(data)
           Loop == CHOOSE g : Encodes(data, n, g)
<1>1. n \in Nat
  <2> DEFINE m == Len(data) + BytesPerField - 1
  <2>1. m \in Nat /\ BytesPerField \in Nat \ {0}
    BY TransactionsAssumption
  <2>2. m \div BytesPerField \in Nat
    <3> HIDE DEF m
    <3> QED
      BY <2>1, Quotient
  <2> QED
    BY <2>2 DEF Chunks
<1>2. EncodeBlobs(data) = Loop[n].blobs
  BY DEF EncodeBlobs, Encodes, EncStart, EncWrite
<1>3. Encodes(data, n, Loop)
  <2> HIDE DEF n
  <2> QED
    BY <1>1, EncodingExists
<1> HIDE DEF n, Loop
<1> DEFINE T == {k \in 0..n : ~Encoded(data, Loop[k], k)}
<1>4. ASSUME T # {} PROVE FALSE
  <2>1. PICK k \in T : \A j \in T : k <= j
    <3> T \subseteq Nat
      OBVIOUS
    <3> HIDE DEF T
    <3> QED
      BY <1>4, LeastNumber
  <2>2. k \in 0..n /\ ~Encoded(data, Loop[k], k)
    BY <2>1
  <2>3. k # 0
    BY <2>2, <1>3, EncodedStart DEF Encodes
  <2>4. k - 1 \in 0..n /\ k - 1 \notin T
    BY <1>1, <2>1, <2>2, <2>3
  <2>5. Encoded(data, Loop[k - 1], k - 1) /\ k \in Nat \ {0}
    BY <2>2, <2>3, <2>4
  <2>6. Loop[k] = EncWrite(data, Loop[k - 1], k)
    BY <1>3, <2>2, <2>3 DEF Encodes
  <2> QED
    BY <2>2, <2>5, <2>6, EncodedStep
<1>5. Encoded(data, Loop[n], n)
  BY <1>1, <1>4
<1> QED
  BY <1>1, <1>2, <1>5 DEF n

LEMMA RoundedUp ==
    ASSUME NEW d \in Nat \ {0}
    PROVE  /\ (0 + d - 1) \div d = 0
           /\ \A m \in Nat \ {0} : (m + d - 1) \div d = 1 + ((m - 1) \div d)
<1>1. (0 + d - 1) \div d = 0
  <2>1. d - 1 \in 0..(d - 1) /\ d - 1 = d * 0 + (d - 1)
    OBVIOUS
  <2> QED
    BY <2>1, QuotientUnique
<1>2. ASSUME NEW m \in Nat \ {0} PROVE (m + d - 1) \div d = 1 + ((m - 1) \div d)
  <2> DEFINE n == m - 1
             q == n \div d
             r == n % d
  <2>1. n \in Nat /\ m + d - 1 = n + d
    OBVIOUS
  <2>2. q \in Nat /\ r \in 0..(d - 1) /\ n = d * q + r
    <3> HIDE DEF n
    <3> QED
      BY <2>1, Quotient
  <2> HIDE DEF q, r, n
  <2>3. d * (1 + q) = d * q + d /\ d * q \in Nat
    BY <2>2
  <2>4. n + d = d * (1 + q) + r /\ 1 + q \in Nat
    BY <2>2, <2>3
  <2> DEFINE x == n + d
             p == 1 + q
  <2>5. x \div d = p
    <3> HIDE DEF x, p
    <3>1. x = d * p + r /\ p \in Nat
      BY <2>4 DEF x, p
    <3> QED
      BY <2>2, <3>1, QuotientUnique
  <2> QED
    BY <2>1, <2>5 DEF q, n
<1> QED
  BY <1>1, <1>2

\* How many fields and blobs there are for some data.
LEMMA Sizes ==
    ASSUME NEW data \in Seq(Nat)
    PROVE  LET n == Chunks(data)
               perBlob == FieldsPerBlob * BytesPerField
               blobs == IF n = 0 THEN 1 ELSE BlobOf(n)
           IN  /\ n = 0 <=> Len(data) = 0
               /\ n > 0 => n - 1 = (Len(data) - 1) \div BytesPerField
               /\ blobs = Larger(1, (Len(data) + perBlob - 1) \div perBlob)
<1> DEFINE B == BytesPerField
           F == FieldsPerBlob
           P == F * B
           len == Len(data)
           n == Chunks(data)
           q == (len - 1) \div B
<1>1. B \in Nat \ {0} /\ F \in Nat \ {0} /\ len \in Nat
  BY TransactionsAssumption
<1>2. P \in Nat \ {0} /\ P = B * F
  <2> HIDE DEF B, F
  <2>1. F * B \in Nat /\ F * B # 0 /\ F * B = B * F
    BY <1>1
  <2> QED
    BY <2>1
<1>3. n = (len + B - 1) \div B
  BY DEF Chunks
<1> HIDE DEF B, n, P, F
<1>4. CASE len = 0
  <2>1. n = 0
    BY <1>1, <1>3, <1>4, RoundedUp
  <2>2. (len + P - 1) \div P = 0
    BY <1>2, <1>4, RoundedUp
  <2> QED
    BY <1>4, <2>1, <2>2 DEF Larger, n, P, F, B
<1>5. CASE len # 0
  <2>1. len \in Nat \ {0} /\ len - 1 \in Nat
    BY <1>1, <1>5
  <2> HIDE DEF len
  <2>2. n = 1 + ((len - 1) \div B) /\ (len - 1) \div B \in Nat
    BY <1>1, <1>3, <2>1, RoundedUp, Quotient
  <2>3. (len + P - 1) \div P = 1 + ((len - 1) \div P) /\ (len - 1) \div P \in Nat
    BY <1>2, <2>1, RoundedUp, Quotient
  <2>4. n - 1 = (len - 1) \div B
    BY <2>2
  <2>5. (n - 1) \div F = (len - 1) \div P
    BY <1>1, <1>2, <2>1, <2>4, QuotientOfQuotient
  <2>6. BlobOf(n) = (len + P - 1) \div P
    BY <2>3, <2>5 DEF BlobOf, F
  <2>7. n > 0 /\ Larger(1, (len + P - 1) \div P) = (len + P - 1) \div P
    BY <2>2, <2>3 DEF Larger
  <2> QED
    BY <1>1, <2>1, <2>4, <2>6, <2>7 DEF n, P, F, B, len
<1> QED
  BY <1>4, <1>5

LEMMA QuotientBelow ==
    ASSUME NEW d \in Nat \ {0}, NEW a \in Nat, NEW x \in Nat, x < a * d
    PROVE  x \div d < a
<1> DEFINE q == x \div d
           r == x % d
<1>1. q \in Nat /\ r \in 0..(d - 1) /\ x = d * q + r
  BY Quotient
<1> HIDE DEF q, r
<1>2. d * q \in Nat /\ a * d = d * a /\ d * a \in Nat
  BY <1>1
<1>3. CASE a < q
  <2> d * a + d <= d * q
    BY <1>1, <1>3, TimesGrows
  <2> QED
    BY <1>1, <1>2
<1>4. CASE a = q
  BY <1>1, <1>2, <1>4
<1> QED
  BY <1>1, <1>3, <1>4 DEF q

\* Reading blobs back gives the data, and zeros to the end of the last blob.
LEMMA BlobsHoldData ==
    ASSUME NEW data \in Seq(Nat)
    PROVE  LET blobs == EncodeBlobs(data)
               decoded == Decode(blobs)
               perBlob == FieldsPerBlob * BytesPerField
           IN  /\ SubSeq(decoded, 1, Len(data)) = data
               /\ \A i \in (Len(data) + 1)..Len(decoded) : decoded[i] = 0
               /\ Len(blobs) = Larger(1, (Len(data) + perBlob - 1) \div perBlob)
<1> DEFINE B == BytesPerField
           F == FieldsPerBlob
           len == Len(data)
           n == Chunks(data)
           blobs == EncodeBlobs(data)
           L == Len(blobs)
           M == L * F * B
           decoded == Decode(blobs)
<1>1. B \in Nat \ {0} /\ F \in Nat \ {0} /\ len \in Nat /\ n \in Nat
  BY TransactionsAssumption, EncodeBlobsFacts
<1>2. /\ n = 0 <=> len = 0
      /\ n > 0 => n - 1 = (len - 1) \div B
      /\ (IF n = 0 THEN 1 ELSE BlobOf(n))
            = Larger(1, (len + F * B - 1) \div (F * B))
  BY Sizes
<1>3. PICK r : Encoded(data, r, n) /\ blobs = r.blobs
  BY EncodeBlobsFacts
<1>4. /\ L = (IF n = 0 THEN 1 ELSE BlobOf(n))
      /\ blobs \in Seq(Blobs)
      /\ \A c \in Nat \ {0} : BlobOf(c) <= L =>
            blobs[BlobOf(c)][PlaceOf(c)] = IF c <= n THEN Field(data, c) ELSE NoField
  BY <1>3 DEF Encoded
<1> HIDE DEF blobs, n
<1>5. L \in Nat
  BY <1>4
<1> HIDE DEF L
<1>6. L * F \in Nat /\ M = (L * F) * B /\ M \in Nat
  <2> HIDE DEF F, B
  <2>1. L * F \in Nat
    BY <1>1, <1>5
  <2> QED
    BY <1>1, <2>1
<1>7. decoded = [i \in 1..M |->
         blobs[1 + (((i - 1) \div B) \div F)][((i - 1) \div B) % F][1 + ((i - 1) % B)]]
  BY DEF Decode, L
<1> HIDE DEF decoded
<1>8. ASSUME NEW i \in 1..M PROVE decoded[i] = IF i <= len THEN data[i] ELSE 0
  <2> DEFINE k == (i - 1) \div B
             c == k + 1
             r0 == (i - 1) % B
  <2>1. i - 1 \in Nat /\ i - 1 < (L * F) * B
    BY <1>6
  <2>2. k \in Nat /\ r0 \in 0..(B - 1) /\ i - 1 = B * k + r0
    <3> HIDE DEF B
    <3> QED
      BY <1>1, <2>1, Quotient
  <2>3. k < L * F
    <3> HIDE DEF B, F
    <3> QED
      BY <1>1, <1>6, <2>1, QuotientBelow
  <2> HIDE DEF k, r0
  <2>4. k \div F < L
    <3> HIDE DEF F
    <3> QED
      BY <1>1, <1>5, <2>2, <2>3, QuotientBelow
  <2>5. c \in Nat \ {0} /\ BlobOf(c) = 1 + (k \div F) /\ PlaceOf(c) = k % F
    BY <2>2 DEF BlobOf, PlaceOf
  <2>6. BlobOf(c) <= L
    <3>1. k \div F \in Nat
      <4> HIDE DEF F
      <4> QED
        BY <1>1, <2>2, Quotient
    <3> QED
      BY <1>5, <2>4, <2>5, <3>1
  <2>7. decoded[i] = blobs[BlobOf(c)][PlaceOf(c)][1 + r0]
    BY <1>7, <2>5 DEF k, r0
  <2>8. blobs[BlobOf(c)][PlaceOf(c)] = IF c <= n THEN Field(data, c) ELSE NoField
    BY <1>4, <2>5, <2>6
  <2>9. 1 + r0 \in 0..B /\ 1 + r0 > 0
    BY <1>1, <2>2
  <2>10. (c - 1) * B + (1 + r0) = i
    <3> HIDE DEF B
    <3>1. (c - 1) * B = B * k /\ B * k \in Nat
      BY <1>1, <2>2
    <3> QED
      BY <2>2, <3>1
  <2>11. Field(data, c)[1 + r0] = IF i <= len THEN data[i] ELSE 0
    BY <2>9, <2>10 DEF Field
  <2>12. NoField[1 + r0] = 0
    BY <2>9 DEF NoField
  <2>13. i <= len => c <= n
    <3> SUFFICES ASSUME i <= len PROVE c <= n
      OBVIOUS
    <3> DEFINE x == i - 1
               z == len - 1
    <3>1. x \in Nat /\ z \in Nat /\ x <= z /\ len > 0
      BY <1>1, <2>1
    <3>2. x \div B <= z \div B
      <4> HIDE DEF x, z, B
      <4> QED
        BY <1>1, <3>1, QuotientGrows
    <3>3. n > 0 /\ n - 1 = z \div B
      BY <1>1, <1>2, <3>1
    <3>4. k = x \div B
      BY DEF k
    <3> HIDE DEF x, z
    <3> QED
      BY <1>1, <2>2, <3>2, <3>3, <3>4
  <2> HIDE DEF c
  <2> QED
    BY <2>7, <2>8, <2>11, <2>12, <2>13
<1>9. len <= M
  <2>1. CASE len = 0
    BY <1>1, <1>6, <2>1
  <2>2. CASE len # 0
    <3> DEFINE m == n - 1
               z == len - 1
    <3>1. n > 0 /\ m \in Nat /\ z \in Nat /\ m = z \div B
      BY <1>1, <1>2, <2>2
    <3>2. L = 1 + (m \div F)
      BY <1>4, <3>1 DEF BlobOf
    <3> HIDE DEF m, z
    <3>3. m \div F \in Nat /\ m % F \in 0..(F - 1) /\ m = F * (m \div F) + (m % F)
      <4> HIDE DEF F
      <4> QED
        BY <1>1, <3>1, Quotient
    <3>4. z % B \in 0..(B - 1) /\ z = B * m + (z % B)
      <4> HIDE DEF B
      <4> QED
        BY <1>1, <3>1, Quotient
    <3>5. m + 1 <= L * F
      <4> DEFINE p == m \div F
      <4> HIDE DEF p
      <4>1. p \in Nat /\ m % F \in 0..(F - 1) /\ m = F * p + (m % F) /\ L = 1 + p
        BY <3>2, <3>3 DEF p
      <4>2. L * F = F * p + F /\ F * p \in Nat
        <5> HIDE DEF F
        <5> QED
          BY <1>1, <4>1
      <4> QED
        BY <1>1, <4>1, <4>2
    <3>6. z + 1 <= M
      <4> DEFINE W == L * F
      <4>1. W \in Nat /\ M = W * B /\ m < W
        BY <1>6, <3>1, <3>5
      <4> HIDE DEF W, M
      <4>2. B * m + B <= B * W /\ B * m \in Nat /\ B * W \in Nat
        <5> HIDE DEF B
        <5> QED
          BY <1>1, <3>1, <4>1, TimesGrows
      <4>3. M = B * W
        <5> HIDE DEF B
        <5> QED
          BY <1>1, <4>1
      <4> QED
        BY <1>1, <3>4, <4>2, <4>3
    <3> QED
      BY <1>1, <3>6 DEF z
  <2> QED
    BY <2>1, <2>2
<1> HIDE DEF M
<1>10. \A i \in 1..len : decoded[i] \in Nat /\ decoded[i] = data[i]
  BY <1>1, <1>6, <1>8, <1>9
<1>11. SubSeq(decoded, 1, len) = data
  <2> DEFINE s == SubSeq(decoded, 1, len)
  <2>1. /\ s \in Seq(Nat) /\ Len(s) = len
        /\ \A i \in 1..len : s[i] = decoded[i]
    <3>1. /\ SubSeq(decoded, 1, len) \in Seq(Nat)
          /\ Len(SubSeq(decoded, 1, len)) = IF 1 <= len THEN len - 1 + 1 ELSE 0
          /\ \A i \in 1..(len - 1 + 1) : SubSeq(decoded, 1, len)[i] = decoded[1 + i - 1]
      BY <1>1, <1>10, SubSeqProperties
    <3> QED
      BY <1>1, <3>1
  <2> HIDE DEF s
  <2>2. s = data
    BY <1>1, <1>10, <2>1, SeqEqual
  <2> QED
    BY <2>2 DEF s
<1>12. \A i \in (len + 1)..Len(decoded) : decoded[i] = 0
  <2>1. Len(decoded) = M
    BY <1>6, <1>7
  <2> QED
    BY <1>1, <1>6, <1>8, <2>1
<1> QED
  BY <1>2, <1>4, <1>11, <1>12 DEF blobs, decoded, L

-----------------------------------------------------------------------------
(* The transactions *)

IsTx(t) ==
    t = [type |-> t.type, create |-> t.create, gas |-> t.gas, data |-> t.data,
         chain |-> t.chain, accessList |-> t.accessList, auths |-> t.auths, blobs |-> t.blobs]

\* A plain transaction covers its own cost after the floor is applied.
LEMMA FloorCovers ==
    ASSUME NEW t, IsTx(t), t.type \in {"legacy", "accessList", "dynamic"},
           t.gas \in Int, IntrinsicGas(t) \in Int
    PROVE  /\ IsTx(ApplyIntrinsicGasFloor(t))
           /\ ApplyIntrinsicGasFloor(t).gas \in Int
           /\ IntrinsicGas(ApplyIntrinsicGasFloor(t)) \in Int
           /\ ApplyIntrinsicGasFloor(t).gas >= IntrinsicGas(ApplyIntrinsicGasFloor(t))
<1>1. CASE t.gas < IntrinsicGas(t)
  <2> DEFINE g == IntrinsicGas(t)
             u == [t EXCEPT !.gas = g]
  <2>1. ApplyIntrinsicGasFloor(t) = u
    BY <1>1 DEF ApplyIntrinsicGasFloor
  <2>2. /\ IsTx(u) /\ u.gas = g /\ u.create = t.create /\ u.data = t.data
        /\ u.accessList = t.accessList /\ u.auths = t.auths
    <3> HIDE DEF g
    <3> QED
      BY DEF IsTx
  <2>3. IntrinsicGas(u) = IntrinsicGas(t)
    <3> HIDE DEF u
    <3> QED
      BY <2>2 DEF IntrinsicGas
  <2> QED
    BY <2>1, <2>2, <2>3
<1>2. CASE ~(t.gas < IntrinsicGas(t))
  BY <1>2 DEF ApplyIntrinsicGasFloor
<1> QED
  BY <1>1, <1>2

LEMMA NewTxFacts ==
    ASSUME NEW type, NEW create \in BOOLEAN, NEW conf, conf.gas \in Nat, conf.data \in Nat
    PROVE  LET t == NewTx(type, create, conf)
           IN  /\ IsTx(t) /\ t.type = type /\ t.create = create /\ t.gas \in Nat
               /\ t.data \in Nat /\ t.accessList = 0 /\ t.auths = 0
               /\ IntrinsicGas(t) \in Nat
  BY DEF NewTx, IsTx, IntrinsicGas

Covered(t) == t.gas \in Int /\ IntrinsicGas(t) \in Int /\ t.gas >= IntrinsicGas(t)

\* Every strategy for a basic transaction fails or covers its cost, with or
\* without an access list.
LEMMA BasicTxCovers ==
    ASSUME NEW a \in Answers, NEW data \in CodeGas, NEW al,
           NEW t \in RandomValidTx(a, data, al)
    PROVE  t = Failed \/ (IsTx(t) /\ Covered(t))
<1> DEFINE conf == InitDefaultTxConf(a, data)
           Covers(u) == IsTx(u) /\ Covered(u)
           Plain == {"legacy", "accessList", "dynamic"}
<1>1. conf.gas \in Nat /\ conf.data \in Nat
  BY BuildAssumption DEF InitDefaultTxConf, Answered, DefaultGas
<1>2. ASSUME NEW type \in Plain, NEW create \in BOOLEAN
      PROVE  Covers(PlainTx(type, create, conf))
  <2> HIDE DEF conf
  <2> DEFINE u == NewTx(type, create, conf)
  <2>1. IsTx(u) /\ u.type \in Plain /\ u.gas \in Int /\ IntrinsicGas(u) \in Int
    BY <1>1, NewTxFacts
  <2> HIDE DEF u
  <2>2. Covers(ApplyIntrinsicGasFloor(u))
    BY <2>1, FloorCovers DEF Covered
  <2> QED
    BY <2>2 DEF PlainTx, u
<1>3. ASSUME NEW type \in {"accessList", "dynamic"}, NEW create \in BOOLEAN
      PROVE  FullAl(type, create, conf, a) = Failed \/ Covers(FullAl(type, create, conf, a))
  <2> SUFFICES ASSUME CreateAccessList(a) # Down
               PROVE  Covers(ApplyIntrinsicGasFloor([NewTx(type, create, conf) EXCEPT
                         !.gas = PlainTx("legacy", create, conf).gas,
                         !.accessList = CreateAccessList(a)]))
                      \/ (type = "dynamic" /\ ~CapsKnown(a))
    BY DEF FullAl
  <2> DEFINE u == NewTx(type, create, conf)
             g == PlainTx("legacy", create, conf).gas
             n == CreateAccessList(a)
             w == [u EXCEPT !.gas = g, !.accessList = n]
  <2>1. g \in Int
    BY <1>2 DEF Covered
  <2>2. n \in Nat
    BY BuildAssumption DEF CreateAccessList
  <2>3. /\ IsTx(u) /\ u.type = type /\ u.create = create
        /\ u.data \in Nat /\ u.auths = 0
    <3> HIDE DEF conf
    <3> QED
      BY <1>1, NewTxFacts
  <2>4. /\ IsTx(w) /\ w.type = type /\ w.gas = g /\ w.create = create
        /\ w.data \in Nat /\ w.accessList = n /\ w.auths = 0
    <3> HIDE DEF u, g, n
    <3> DEFINE v == [u EXCEPT !.gas = g]
    <3>1. w = [v EXCEPT !.accessList = n]
      OBVIOUS
    <3>2. /\ IsTx(v) /\ v.type = type /\ v.gas = g /\ v.create = create
          /\ v.data \in Nat /\ v.auths = 0
      BY <2>3 DEF IsTx
    <3> HIDE DEF v, w
    <3> QED
      BY <3>1, <3>2 DEF IsTx
  <2>5. IntrinsicGas(w) \in Int
    <3> HIDE DEF w, n
    <3> QED
      BY <2>2, <2>4 DEF IntrinsicGas
  <2>6. Covers(ApplyIntrinsicGasFloor(w))
    <3> HIDE DEF w, g
    <3> QED
      BY <2>1, <2>4, <2>5, FloorCovers DEF Covered
  <2> QED
    BY <2>6
<1>4. ASSUME NEW u \in NoAlStrategies(conf, a) PROVE u = Failed \/ Covers(u)
  <2>1. \/ \E type \in {"legacy", "accessList"}, create \in BOOLEAN : u = PlainTx(type, create, conf)
        \/ \E create \in BOOLEAN : u = DynamicTx(create, conf, a)
    BY <1>4 DEF NoAlStrategies
  <2> HIDE DEF conf, Covers
  <2> QED
    BY <1>2, <2>1 DEF DynamicTx
<1>5. \/ t \in NoAlStrategies(conf, a)
      \/ \E type \in {"accessList", "dynamic"}, create \in BOOLEAN : t = FullAl(type, create, conf, a)
  BY DEF RandomValidTx, AlStrategies
<1> QED
  <2> HIDE DEF conf
  <2> QED
    BY <1>3, <1>4, <1>5

\* The transaction as its family builds it.
GoodTx ==
    /\ IsTx(tx)
    /\ options.family = "basic" => Covered(tx)
    /\ options.family = "pectra" => tx.auths = 1
    /\ options.family = "blob" => blobData \in BlobData /\ tx.blobs = EncodeBlobs(blobData)

\* A signed case with its record.
GoodCase ==
    /\ tx.chain = chainID
    /\ record.authCount = (IF options.family = "pectra" THEN 1 ELSE 0)
    /\ options.family = "blob" =>
         /\ blobData \in BlobData /\ tx.blobs = EncodeBlobs(blobData)
         /\ record.blobCount = Len(tx.blobs)

TxInv ==
    /\ pc \in Early \cup Steps
    /\ pc \notin {"built", "sign", "next", "ended"} => tx = Unset
    /\ pc \in {"built", "sign"} => GoodTx
    /\ pc = "next" => tx = Unset \/ GoodCase

\* A plain call with its blobs or its authorisations.
LEMMA WithBlobs ==
    ASSUME NEW conf, NEW n, NEW data, conf.gas \in Nat, conf.data \in Nat
    PROVE  IsTx(BlobTx(conf, n, data)) /\ BlobTx(conf, n, data).blobs = EncodeBlobs(data)
<1> DEFINE u == NewTx("blob", FALSE, conf)
           v == [u EXCEPT !.accessList = n]
           e == EncodeBlobs(data)
<1>1. IsTx(u)
  BY NewTxFacts
<1>2. IsTx(v)
  <2> HIDE DEF u
  <2> QED
    BY <1>1 DEF IsTx
<1>3. IsTx([v EXCEPT !.blobs = e]) /\ [v EXCEPT !.blobs = e].blobs = e
  <2> HIDE DEF v, e
  <2> QED
    BY <1>2 DEF IsTx
<1>4. BlobTx(conf, n, data) = [v EXCEPT !.blobs = e]
  BY DEF BlobTx
<1> QED
  BY <1>3, <1>4

LEMMA WithAuths ==
    ASSUME NEW conf, NEW n, NEW auths, conf.gas \in Nat, conf.data \in Nat
    PROVE  IsTx(SetCodeTx(conf, n, auths)) /\ SetCodeTx(conf, n, auths).auths = auths
<1> DEFINE u == NewTx("setCode", FALSE, conf)
           v == [u EXCEPT !.accessList = n]
<1>1. IsTx(u)
  BY NewTxFacts
<1>2. IsTx(v)
  <2> HIDE DEF u
  <2> QED
    BY <1>1 DEF IsTx
<1>3. IsTx([v EXCEPT !.auths = auths]) /\ [v EXCEPT !.auths = auths].auths = auths
  <2> HIDE DEF v
  <2> QED
    BY <1>2 DEF IsTx
<1>4. SetCodeTx(conf, n, auths) = [v EXCEPT !.auths = auths]
  BY DEF SetCodeTx
<1> QED
  BY <1>3, <1>4

\* What BuildCampaignTx makes is good, or the campaign ends.
LEMMA BuiltIsGood ==
    ASSUME BuildCampaignTx, pc' # "ended"
    PROVE  pc' = "built" /\ GoodTx'
<1>1. pc' = "built" /\ tx' # Failed /\ UNCHANGED options
  BY DEF BuildCampaignTx, campaignVars
<1>2. PICK a \in Answers, data \in CodeGas :
        \/ /\ options.family = "basic"
           /\ tx' \in RandomValidTx(a, data, config.accessList)
        \/ /\ options.family = "blob"
           /\ blobData' \in BlobData
           /\ tx' = RandomBlobTx(a, data, config.accessList, blobData')
        \/ /\ options.family = "pectra" /\ BuildSetCodeAuthorizations > 0
           /\ tx' = RandomAuthTx(a, data, config.accessList, BuildSetCodeAuthorizations)
  BY DEF BuildCampaignTx
<1> DEFINE conf == InitDefaultTxConf(a, data)
           n == AccessListOf(a, config.accessList)
<1>3. conf.gas \in Nat /\ conf.data \in Nat
  BY BuildAssumption DEF InitDefaultTxConf, Answered, DefaultGas
<1>4. CASE options.family = "basic"
  <2>1. tx' \in RandomValidTx(a, data, config.accessList)
    BY <1>2, <1>4
  <2>2. IsTx(tx') /\ Covered(tx')
    BY <1>1, <2>1, BasicTxCovers
  <2> QED
    BY <1>1, <1>4, <2>2 DEF GoodTx, Covered
<1>5. CASE options.family = "blob"
  <2>1. blobData' \in BlobData /\ tx' = BlobTx(conf, n, blobData')
    BY <1>1, <1>2, <1>5 DEF RandomBlobTx
  <2>2. IsTx(tx') /\ tx'.blobs = EncodeBlobs(blobData')
    <3> HIDE DEF conf, n
    <3> QED
      BY <1>3, <2>1, WithBlobs
  <2> QED
    BY <1>1, <1>5, <2>1, <2>2 DEF GoodTx
<1>6. CASE options.family = "pectra"
  <2>1. BuildSetCodeAuthorizations = 1
    BY <1>2, <1>6 DEF BuildSetCodeAuthorizations
  <2>2. tx' = SetCodeTx(conf, n, 1)
    BY <1>1, <1>2, <1>6, <2>1 DEF RandomAuthTx
  <2>3. IsTx(tx') /\ tx'.auths = 1
    <3> HIDE DEF conf, n
    <3> QED
      BY <1>3, <2>2, WithAuths
  <2> QED
    BY <1>1, <1>6, <2>3 DEF GoodTx
<1> QED
  BY <1>2, <1>4, <1>5, <1>6

\* The second floor keeps what is built, and signing adds the chain and counts.
LEMMA FinishedIsGood ==
    ASSUME GoodTx, FinishCampaignTx
    PROVE  GoodTx'
<1>1. UNCHANGED <<options, blobData>>
  BY DEF FinishCampaignTx, campaignVars
<1>2. CASE options.family = "basic"
  <2>1. tx' = tx \/ (tx' = [tx EXCEPT !.gas = IntrinsicGas(tx)] /\ tx.gas < IntrinsicGas(tx))
    BY <1>2 DEF FinishCampaignTx, EnsureIntrinsicGasFloor, ApplyIntrinsicGasFloor
  <2>2. tx' = tx
    BY <1>2, <2>1 DEF GoodTx, Covered
  <2> QED
    BY <1>1, <2>2 DEF GoodTx
<1>3. CASE options.family # "basic"
  BY <1>1, <1>3 DEF GoodTx, FinishCampaignTx
<1> QED
  BY <1>2, <1>3

\* Counting in the signed transaction leaves the base alone.
LEMMA CountedRecord ==
    ASSUME NEW family, NEW t, GoodRecord(record)
    PROVE  /\ GoodRecord(Recorded(family, t))
           /\ Recorded(family, t).blobCount = (IF family = "blob" THEN Len(t.blobs) ELSE 0)
           /\ Recorded(family, t).authCount = (IF family = "pectra" THEN t.auths ELSE 0)
<1> DEFINE m == IF family = "blob" THEN Len(t.blobs) ELSE 0
           n == IF family = "pectra" THEN t.auths ELSE 0
           r == [record EXCEPT !.blobCount = m]
           q == [r EXCEPT !.authCount = n]
<1>1. Recorded(family, t) = q
  BY DEF Recorded
<1>2. GoodRecord(r) /\ r.blobCount = m
  <2> HIDE DEF m
  <2> QED
    BY DEF GoodRecord
<1>3. GoodRecord(q) /\ q.blobCount = m /\ q.authCount = n
  <2> HIDE DEF r, m, n
  <2> QED
    BY <1>2 DEF GoodRecord
<1> QED
  BY <1>1, <1>3

LEMMA SignedIsGood ==
    ASSUME GoodTx, RecordInv, SignTx
    PROVE  GoodCase'
<1>1. GoodRecord(record)
  BY DEF SignTx, RecordInv
<1>2. UNCHANGED <<options, blobData, chainID>>
  BY DEF SignTx, campaignVars
<1>3. tx' = [tx EXCEPT !.chain = chainID] /\ record' = Recorded(options.family, tx')
  BY DEF SignTx
<1>4. tx'.chain = chainID /\ tx'.auths = tx.auths /\ tx'.blobs = tx.blobs
  BY <1>3 DEF GoodTx, IsTx
<1>6. /\ record'.blobCount = (IF options.family = "blob" THEN Len(tx'.blobs) ELSE 0)
      /\ record'.authCount = (IF options.family = "pectra" THEN tx'.auths ELSE 0)
  BY <1>1, <1>3, CountedRecord
<1> QED
  BY <1>2, <1>4, <1>6 DEF GoodTx, GoodCase

LEMMA TxStep == RecordInv /\ TxInv /\ [Next]_vars => TxInv'
<1> SUFFICES ASSUME RecordInv, TxInv, [Next]_vars PROVE TxInv'
  OBVIOUS
<1> USE DEF Early, Steps, caseVars, campaignVars, Ends
<1>1. CASE Configure
  BY <1>1 DEF TxInv, Configure
<1>2. CASE StartCampaign
  BY <1>2 DEF TxInv, StartCampaign
<1>3. CASE NextCase
  BY <1>3 DEF TxInv, NextCase
<1>4. CASE BuildFiller
  BY <1>4 DEF TxInv, BuildFiller
<1>5. CASE Mutate
  BY <1>5 DEF TxInv, Mutate
<1>6. CASE HashBase
  BY <1>6 DEF TxInv, HashBase
<1>7. CASE BuildCampaignTx
  <2>1. pc' = "ended" \/ pc' = "built"
    BY <1>7 DEF BuildCampaignTx
  <2> QED
    BY <1>7, <2>1, BuiltIsGood DEF TxInv
<1>8. CASE BuildCampaignTxFails
  BY <1>8 DEF TxInv, BuildCampaignTxFails
<1>9. CASE FinishCampaignTx
  <2>1. GoodTx'
    BY <1>9, FinishedIsGood DEF TxInv, FinishCampaignTx
  <2>2. pc' = "sign"
    BY <1>9 DEF FinishCampaignTx
  <2> QED
    BY <2>1, <2>2 DEF TxInv
<1>10. CASE SignTx
  <2>1. GoodCase'
    BY <1>10, SignedIsGood DEF TxInv, SignTx
  <2>2. pc' = "next"
    BY <1>10 DEF SignTx
  <2> QED
    BY <2>1, <2>2 DEF TxInv
<1>11. CASE SignTxFails
  BY <1>11 DEF TxInv, SignTxFails
<1>12. CASE EndCampaign
  BY <1>12 DEF TxInv, EndCampaign
<1>13. CASE UNCHANGED vars
  BY <1>13 DEF TxInv, GoodTx, GoodCase, vars
<1> QED
  BY <1>1, <1>2, <1>3, <1>4, <1>5, <1>6, <1>7, <1>8, <1>9, <1>10, <1>11, <1>12, <1>13 DEF Next

\* A record is Unset before the base is hashed, or good.
LEMMA RecordStep == CorpusInv /\ RecordInv /\ [Next]_vars => RecordInv'
<1> SUFFICES ASSUME CorpusInv, RecordInv, [Next]_vars PROVE RecordInv'
  OBVIOUS
<1> USE DEF caseVars, Ends
<1>1. CASE Configure
  BY <1>1 DEF RecordInv, Configure
<1>2. CASE StartCampaign
  BY <1>2 DEF RecordInv, StartCampaign
<1>3. CASE NextCase
  BY <1>3 DEF RecordInv, NextCase
<1>4. CASE BuildFiller
  BY <1>4 DEF RecordInv, BuildFiller
<1>5. CASE Mutate
  BY <1>5 DEF RecordInv, Mutate
<1>6. CASE HashBase
  BY <1>6, HashedBase DEF RecordInv
<1>7. CASE BuildCampaignTx
  BY <1>7 DEF RecordInv, BuildCampaignTx
<1>8. CASE BuildCampaignTxFails
  BY <1>8 DEF RecordInv, BuildCampaignTxFails
<1>9. CASE FinishCampaignTx
  BY <1>9 DEF RecordInv, FinishCampaignTx
<1>10. CASE SignTx
  <2>1. GoodRecord(record)
    BY <1>10 DEF SignTx, RecordInv
  <2>2. record' = Recorded(options.family, tx')
    BY <1>10 DEF SignTx
  <2> QED
    BY <2>1, <2>2, CountedRecord DEF RecordInv
<1>11. CASE SignTxFails
  BY <1>11 DEF RecordInv, SignTxFails
<1>12. CASE EndCampaign
  BY <1>12 DEF RecordInv, EndCampaign
<1>13. CASE UNCHANGED vars
  BY <1>13 DEF RecordInv, vars
<1> QED
  BY <1>1, <1>2, <1>3, <1>4, <1>5, <1>6, <1>7, <1>8, <1>9, <1>10, <1>11, <1>12, <1>13 DEF Next

-----------------------------------------------------------------------------
(* The mutations.  An array Holds a sequence when it starts with its bytes;   *)
(* what copy and put leave at each index is followed through the shifts and   *)
(* the scratch area behind the length, and what the first bytes then are is   *)
(* compared with what the mutation is meant to do.                            *)

Letters == Nat \cup {Fresh}

\* The first n bytes of an array.
Read(mem, n) == [i \in 1..n |-> mem[i - 1]]

\* The array holds the bytes of s, from its start.
Holds(mem, cap, s) ==
    /\ cap \in Nat /\ DOMAIN mem = 0..(cap - 1) /\ Len(s) <= cap
    /\ \A i \in 1..Len(s) : mem[i - 1] = s[i]

LEMMA ReadSeq ==
    ASSUME NEW mem, NEW n \in Nat, \A i \in 1..n : mem[i - 1] \in Letters
    PROVE  /\ Read(mem, n) \in Seq(Letters) /\ Len(Read(mem, n)) = n
           /\ \A i \in 1..n : Read(mem, n)[i] = mem[i - 1]
  BY DEF Read

\* Equal stretches of two sequences.
LEMMA SameStretch ==
    ASSUME NEW s, NEW t, NEW i \in Int, NEW j \in Int, NEW k \in Int, NEW l \in Int,
           j - i = l - k, \A m \in i..j : s[m] = t[m + (k - i)]
    PROVE  SubSeq(s, i, j) = SubSeq(t, k, l)
<1>1. \A m \in 1..(j - i + 1) : s[m + i - 1] = t[m + k - 1]
  <2> SUFFICES ASSUME NEW m \in 1..(j - i + 1) PROVE s[m + i - 1] = t[m + k - 1]
    OBVIOUS
  <2>1. m + i - 1 \in i..j /\ (m + i - 1) + (k - i) = m + k - 1
    OBVIOUS
  <2> QED
    BY <2>1
<1>2. /\ SubSeq(s, i, j) = [m \in 1..(j - i + 1) |-> s[m + i - 1]]
      /\ SubSeq(t, k, l) = [m \in 1..(l - k + 1) |-> t[m + k - 1]]
  OBVIOUS
<1> QED
  BY <1>1, <1>2

LEMMA KeptStretch ==
    ASSUME NEW s, NEW t, NEW i \in Int, NEW j \in Int, \A m \in i..j : s[m] = t[m]
    PROVE  SubSeq(s, i, j) = SubSeq(t, i, j)
<1>1. \A m \in 1..(j - i + 1) : s[m + i - 1] = t[m + i - 1]
  <2> SUFFICES ASSUME NEW m \in 1..(j - i + 1) PROVE s[m + i - 1] = t[m + i - 1]
    OBVIOUS
  <2>1. m + i - 1 \in i..j
    OBVIOUS
  <2> QED
    BY <2>1
<1>2. /\ SubSeq(s, i, j) = [m \in 1..(j - i + 1) |-> s[m + i - 1]]
      /\ SubSeq(t, i, j) = [m \in 1..(j - i + 1) |-> t[m + i - 1]]
  OBVIOUS
<1> QED
  BY <1>1, <1>2

LEMMA AroundFacts ==
    ASSUME NEW s \in Seq(Letters), NEW p \in 0..Len(s), NEW q \in p..Len(s)
    PROVE  /\ Around(s, p, q) \in Seq(Letters)
           /\ Len(Around(s, p, q)) = Len(s) - (q - p)
           /\ \A i \in 1..(Len(s) - (q - p)) :
                 Around(s, p, q)[i] = IF i <= p THEN s[i] ELSE s[i + (q - p)]
<1> DEFINE u == SubSeq(s, 1, p)
           v == SubSeq(s, q + 1, Len(s))
<1>1. u \in Seq(Letters) /\ Len(u) = p /\ \A i \in 1..p : u[i] = s[i]
  <2>1. /\ SubSeq(s, 1, p) \in Seq(Letters)
        /\ Len(SubSeq(s, 1, p)) = IF 1 <= p THEN p - 1 + 1 ELSE 0
        /\ \A i \in 1..(p - 1 + 1) : SubSeq(s, 1, p)[i] = s[1 + i - 1]
    <3>1. \A i \in 1..p : s[i] \in Letters
      BY ElementOfSeq
    <3> QED
      BY <3>1, SubSeqProperties
  <2> QED
    BY <2>1
<1>2. /\ v \in Seq(Letters) /\ Len(v) = Len(s) - q
      /\ \A i \in 1..(Len(s) - q) : v[i] = s[i + q]
  <2> DEFINE m == q + 1
             l == Len(s)
  <2>1. m \in Int /\ l \in Int /\ \A i \in m..l : s[i] \in Letters
    BY ElementOfSeq
  <2>2. /\ SubSeq(s, m, l) \in Seq(Letters)
        /\ Len(SubSeq(s, m, l)) = IF m <= l THEN l - m + 1 ELSE 0
        /\ \A i \in 1..(l - m + 1) : SubSeq(s, m, l)[i] = s[m + i - 1]
    <3> HIDE DEF m, l
    <3> QED
      BY <2>1, SubSeqProperties
  <2> QED
    BY <2>2
<1> HIDE DEF u, v
<1>3. /\ u \o v \in Seq(Letters) /\ Len(u \o v) = Len(u) + Len(v)
      /\ \A i \in 1..(Len(u) + Len(v)) :
            (u \o v)[i] = IF i <= Len(u) THEN u[i] ELSE v[i - Len(u)]
  BY <1>1, <1>2, ConcatProperties
<1>4. Around(s, p, q) = u \o v
  BY DEF Around, u, v
<1> DEFINE w == u \o v
           N == Len(s)
<1>5. N \in Nat /\ p \in Nat /\ q \in Nat /\ p <= q /\ q <= N
  OBVIOUS
<1>6. Len(w) = N - (q - p)
  BY <1>1, <1>2, <1>3
<1>7. ASSUME NEW i \in 1..(N - (q - p)) PROVE w[i] = IF i <= p THEN s[i] ELSE s[i + (q - p)]
  <2> HIDE DEF N, w
  <2>1. CASE i <= p
    <3>1. w[i] = u[i] /\ u[i] = s[i]
      BY <1>1, <1>2, <1>3, <1>5, <2>1 DEF w, N
    <3> QED
      BY <2>1, <3>1
  <2>2. CASE ~(i <= p)
    <3>1. i - p \in 1..(Len(s) - q) /\ (i - p) + q = i + (q - p) /\ i \in 1..(Len(u) + Len(v))
      BY <1>1, <1>2, <1>5, <2>2 DEF N
    <3>2. w[i] = v[i - p]
      BY <1>1, <1>3, <2>2, <3>1 DEF w
    <3> QED
      BY <1>2, <2>2, <3>1, <3>2
  <2> QED
    BY <2>1, <2>2
<1> HIDE DEF w
<1> QED
  BY <1>3, <1>4, <1>6, <1>7 DEF w

\* A block of s left out.
LEMMA LeftOut ==
    ASSUME NEW s \in Seq(Letters), NEW t \in Seq(Letters),
           NEW p \in 0..Len(s), NEW n \in 0..(Len(s) - p), Len(t) = Len(s) - n,
           \A i \in 1..Len(t) : t[i] = IF i <= p THEN s[i] ELSE s[i + n]
    PROVE  Around(s, p, p + n) = t
<1> DEFINE q == p + n
           u == Around(s, p, q)
<1>1. q \in p..Len(s) /\ q - p = n
  OBVIOUS
<1> HIDE DEF q
<1>2. /\ u \in Seq(Letters) /\ Len(u) = Len(s) - (q - p)
      /\ \A i \in 1..(Len(s) - (q - p)) : u[i] = IF i <= p THEN s[i] ELSE s[i + (q - p)]
  BY <1>1, AroundFacts
<1> HIDE DEF u
<1>3. \A i \in 1..Len(u) : u[i] = t[i]
  BY <1>1, <1>2
<1>4. u = t
  BY <1>1, <1>2, <1>3, SeqEqual
<1> QED
  BY <1>4 DEF u, q

\* A block of the same length in the place of another.
LEMMA Replaced ==
    ASSUME NEW s \in Seq(Letters), NEW t \in Seq(Letters), Len(t) = Len(s),
           NEW p \in 0..Len(s), NEW q \in p..Len(s),
           \A i \in 1..Len(s) : i <= p \/ i > q => t[i] = s[i]
    PROVE  Around(t, p, q) = Around(s, p, q)
<1> DEFINE u == Around(s, p, q)
           v == Around(t, p, q)
           N == Len(s)
<1>1. /\ u \in Seq(Letters) /\ Len(u) = N - (q - p)
      /\ \A i \in 1..(N - (q - p)) : u[i] = IF i <= p THEN s[i] ELSE s[i + (q - p)]
  BY AroundFacts, Zenon
<1>2. /\ v \in Seq(Letters) /\ Len(v) = N - (q - p)
      /\ \A i \in 1..(N - (q - p)) : v[i] = IF i <= p THEN t[i] ELSE t[i + (q - p)]
  <2>1. p \in 0..Len(t) /\ q \in p..Len(t)
    OBVIOUS
  <2> QED
    BY <2>1, AroundFacts, Zenon
<1>3. N \in Nat /\ p \in Nat /\ q \in Nat /\ p <= q /\ q <= N
  OBVIOUS
<1>4. \A i \in 1..N : i <= p \/ i > q => t[i] = s[i]
  OBVIOUS
<1> HIDE DEF u, v, N
<1>5. ASSUME NEW i \in 1..(N - (q - p)) PROVE v[i] = u[i]
  <2>1. CASE i <= p
    BY <1>1, <1>2, <1>3, <1>4, <2>1
  <2>2. CASE ~(i <= p)
    <3>1. i + (q - p) \in 1..N /\ i + (q - p) > q
      BY <1>3, <2>2
    <3>2. t[i + (q - p)] = s[i + (q - p)]
      BY <1>4, <3>1
    <3> QED
      BY <1>1, <1>2, <2>2, <3>2
  <2> QED
    BY <2>1, <2>2
<1>6. v = u
  BY <1>1, <1>2, <1>5, SeqEqual
<1> QED
  BY <1>6 DEF u, v

LEMMA Removes ==
    ASSUME NEW s \in Seq(Letters), NEW cap, NEW mem, Holds(mem, cap, s),
           NEW pos \in 0..(Len(s) - 1), NEW n \in 1..(Len(s) - pos)
    PROVE  Inserts(Read(Copy(mem, pos, pos + n, Len(s) - pos - n), Len(s) - n), s,
                   LAMBDA block : TRUE)
<1> DEFINE N == Len(s)
           c == Copy(mem, pos, pos + n, N - pos - n)
           t == Read(c, N - n)
<1>1. /\ N \in Nat /\ cap \in Nat /\ N <= cap /\ DOMAIN mem = 0..(cap - 1)
      /\ \A i \in 1..N : mem[i - 1] = s[i] /\ s[i] \in Letters
      /\ pos \in Nat /\ n \in Nat \ {0} /\ pos + n <= N
  BY ElementOfSeq DEF Holds
<1>2. \A i \in 0..(cap - 1) :
         c[i] = IF pos <= i /\ i < pos + (N - pos - n) THEN mem[pos + n + i - pos] ELSE mem[i]
  <2> HIDE DEF N
  <2>1. pos + n \in Int /\ N - pos - n \in Int
    BY <1>1
  <2> QED
    BY <1>1, <2>1 DEF Copy
<1> HIDE DEF N, c
<1>3. ASSUME NEW i \in 1..(N - n)
      PROVE  c[i - 1] = (IF i <= pos THEN s[i] ELSE s[i + n]) /\ c[i - 1] \in Letters
  <2>1. i - 1 \in 0..(cap - 1) /\ i \in 1..N /\ i + n \in 1..N
    BY <1>1
  <2>2. CASE i <= pos
    <3>1. c[i - 1] = mem[i - 1]
      BY <1>1, <1>2, <2>1, <2>2
    <3> QED
      BY <1>1, <2>1, <2>2, <3>1
  <2>3. CASE ~(i <= pos)
    <3>1. c[i - 1] = mem[pos + n + (i - 1) - pos]
      <4>1. pos <= i - 1 /\ i - 1 < pos + (N - pos - n)
        BY <1>1, <2>3
      <4> QED
        BY <1>2, <2>1, <4>1
    <3>2. pos + n + (i - 1) - pos = (i + n) - 1
      BY <1>1
    <3> QED
      BY <1>1, <2>1, <2>3, <3>1, <3>2
  <2> QED
    BY <2>2, <2>3
<1>4. /\ t \in Seq(Letters) /\ Len(t) = N - n
      /\ \A i \in 1..(N - n) : t[i] = IF i <= pos THEN s[i] ELSE s[i + n]
  <2>1. N - n \in Nat
    BY <1>1
  <2> QED
    BY <1>3, <2>1, ReadSeq
<1> HIDE DEF t
<1> DEFINE q == pos + n
<1>5. q \in pos..N /\ q - pos = n /\ q = pos + N - Len(t) /\ q > pos /\ pos \in 0..Len(t)
  BY <1>1, <1>4
<1>6. Around(s, pos, q) = t
  <2>1. pos \in 0..N /\ n \in 0..(N - pos) /\ Len(t) = N - n
    BY <1>1, <1>4
  <2>2. \A i \in 1..Len(t) : t[i] = IF i <= pos THEN s[i] ELSE s[i + n]
    BY <1>4, <2>1
  <2> QED
    BY <1>4, <2>1, <2>2, LeftOut DEF N
<1>7. Inserts(t, s, LAMBDA block : TRUE)
  BY <1>5, <1>6 DEF Inserts, N
<1> QED
  BY <1>7 DEF t, c, N

\* A stretch of invented bytes, and one that stands in s.
LEMMA FreshStretch ==
    ASSUME NEW t, NEW p \in Nat, NEW n \in Nat \ {0}, NEW longest \in Nat, n <= longest,
           \A i \in (p + 1)..(p + n) : t[i] = Fresh
    PROVE  Invented(SubSeq(t, p + 1, p + n), longest)
<1> DEFINE u == SubSeq(t, p + 1, p + n)
<1>1. u = [m \in 1..n |-> t[m + (p + 1) - 1]]
  OBVIOUS
<1>2. Len(u) = n /\ DOMAIN u = 1..n
  BY <1>1
<1>3. ASSUME NEW m \in 1..n PROVE u[m] = Fresh
  <2>1. m + (p + 1) - 1 \in (p + 1)..(p + n)
    OBVIOUS
  <2> QED
    BY <1>1, <2>1
<1> HIDE DEF u
<1> QED
  BY <1>2, <1>3 DEF Invented, u

LEMMA KnownStretch ==
    ASSUME NEW s \in Seq(Letters), NEW t, NEW p \in Nat, NEW src \in Nat, NEW n \in Nat \ {0},
           src + n <= Len(s), \A m \in 1..n : t[p + m] = s[src + m]
    PROVE  SubSeq(t, p + 1, p + n) \in Blocks(s)
<1>1. SubSeq(t, p + 1, p + n) = SubSeq(s, src + 1, src + n)
  <2> DEFINE i == p + 1
             j == p + n
             k == src + 1
             l == src + n
  <2>1. i \in Int /\ j \in Int /\ k \in Int /\ l \in Int /\ j - i = l - k
    OBVIOUS
  <2>2. ASSUME NEW m \in i..j PROVE t[m] = s[m + (k - i)]
    <3>1. m - p \in 1..n /\ p + (m - p) = m /\ src + (m - p) = m + (k - i)
      OBVIOUS
    <3> QED
      BY <3>1
  <2> HIDE DEF i, j, k, l
  <2>3. SubSeq(t, i, j) = SubSeq(s, k, l)
    BY <2>1, <2>2, SameStretch
  <2> QED
    BY <2>3 DEF i, j, k, l
<1>2. src + 1 \in 1..Len(s) /\ src + n \in 1..Len(s)
  OBVIOUS
<1> QED
  BY <1>1, <1>2 DEF Blocks

\* Writing over a stretch leaves what is around it.
LEMMA WrittenOver ==
    ASSUME NEW s \in Seq(Letters), NEW t \in Seq(Letters), Len(t) = Len(s),
           NEW p \in 0..(Len(s) - 1), NEW n \in 1..(Len(s) - p),
           \A i \in 1..Len(s) : i <= p \/ i > p + n => t[i] = s[i]
    PROVE  /\ p \in 0..Len(s) /\ p + n \in 0..Len(s) /\ p < p + n
           /\ Around(t, p, p + n) = Around(s, p, p + n)
<1> DEFINE q == p + n
<1>1. Len(s) \in Nat /\ p \in 0..Len(s) /\ q \in p..Len(s) /\ q \in 0..Len(s) /\ p < q
  OBVIOUS
<1>2. \A i \in 1..Len(s) : i <= p \/ i > q => t[i] = s[i]
  OBVIOUS
<1> HIDE DEF q
<1>3. Around(t, p, q) = Around(s, p, q)
  BY <1>1, <1>2, Replaced
<1> QED
  BY <1>1, <1>3 DEF q

LEMMA PutOverwrites ==
    ASSUME NEW s \in Seq(Letters), NEW cap, NEW mem, Holds(mem, cap, s),
           NEW p \in 0..(Len(s) - 1), NEW n \in 1..(Len(s) - p),
           NEW longest \in Nat, n <= longest
    PROVE  Overwrites(s, Read(Put(mem, p, n, Fresh), Len(s)),
                      LAMBDA block : Invented(block, longest))
<1> DEFINE N == Len(s)
           d == Put(mem, p, n, Fresh)
           t == Read(d, N)
           q == p + n
<1>1. /\ N \in Nat /\ cap \in Nat /\ N <= cap /\ DOMAIN mem = 0..(cap - 1)
      /\ \A i \in 1..N : mem[i - 1] = s[i] /\ s[i] \in Letters
      /\ p \in Nat /\ n \in Nat \ {0} /\ p + n <= N
  BY ElementOfSeq DEF Holds
<1>2. \A i \in 0..(cap - 1) :
         Put(mem, p, n, Fresh)[i] = IF p <= i /\ i < p + n THEN Fresh ELSE mem[i]
  <2> p \in Int /\ n \in Int
    BY <1>1
  <2> QED
    BY <1>1 DEF Put
<1> HIDE DEF N, d
<1>3. ASSUME NEW i \in 1..N
      PROVE  /\ d[i - 1] = IF i <= p \/ i > p + n THEN s[i] ELSE Fresh
             /\ d[i - 1] \in Letters
  <2>1. i - 1 \in 0..(cap - 1)
    BY <1>1
  <2>2. d[i - 1] = IF p <= i - 1 /\ i - 1 < p + n THEN Fresh ELSE mem[i - 1]
    BY <1>2, <2>1 DEF d
  <2>3. CASE i <= p \/ i > p + n
    <3>1. d[i - 1] = mem[i - 1]
      BY <1>1, <2>2, <2>3
    <3> QED
      BY <1>1, <2>3, <3>1
  <2>4. CASE ~(i <= p \/ i > p + n)
    <3>1. d[i - 1] = Fresh
      BY <1>1, <2>2, <2>4
    <3> QED
      BY <2>4, <3>1 DEF Letters
  <2> QED
    BY <2>3, <2>4
<1>4. /\ t \in Seq(Letters) /\ Len(t) = N
      /\ \A i \in 1..N : t[i] = IF i <= p \/ i > p + n THEN s[i] ELSE Fresh
  BY <1>1, <1>3, ReadSeq
<1> HIDE DEF t
<1>5. /\ p \in 0..N /\ q \in 0..N /\ p < q
      /\ Around(t, p, q) = Around(s, p, q)
  BY <1>4, WrittenOver DEF N
<1>6. Invented(SubSeq(t, p + 1, q), longest)
  <2>1. \A i \in (p + 1)..(p + n) : t[i] = Fresh
    BY <1>1, <1>4
  <2> QED
    BY <1>1, <2>1, FreshStretch
<1>7. Overwrites(s, t, LAMBDA block : Invented(block, longest))
  <2> HIDE DEF q
  <2> QED
    BY <1>4, <1>5, <1>6 DEF Overwrites, N
<1> QED
  BY <1>7 DEF t, d, N

LEMMA CopyOverwrites ==
    ASSUME NEW s \in Seq(Letters), NEW cap, NEW mem, Holds(mem, cap, s),
           NEW src \in 0..(Len(s) - 1), NEW p \in 0..(Len(s) - 1),
           NEW n \in 1..(Len(s) - p), n <= Len(s) - src
    PROVE  Overwrites(s, Read(Copy(mem, p, src, n), Len(s)), LAMBDA block : block \in Blocks(s))
<1> DEFINE N == Len(s)
           d == Copy(mem, p, src, n)
           t == Read(d, N)
           q == p + n
<1>1. /\ N \in Nat /\ cap \in Nat /\ N <= cap /\ DOMAIN mem = 0..(cap - 1)
      /\ \A i \in 1..N : mem[i - 1] = s[i] /\ s[i] \in Letters
      /\ p \in Nat /\ src \in Nat /\ n \in Nat \ {0} /\ p + n <= N /\ src + n <= N
  BY ElementOfSeq DEF Holds
<1>2. \A i \in 0..(cap - 1) :
         Copy(mem, p, src, n)[i] = IF p <= i /\ i < p + n THEN mem[src + i - p] ELSE mem[i]
  <2> HIDE DEF N
  <2>1. p \in Int /\ src \in Int /\ n \in Int /\ cap \in Nat /\ DOMAIN mem = 0..(cap - 1)
    BY <1>1
  <2> QED
    BY <2>1 DEF Copy
<1> HIDE DEF N, d
<1>3. ASSUME NEW i \in 1..N
      PROVE  /\ d[i - 1] = IF i <= p \/ i > p + n THEN s[i] ELSE s[i - p + src]
             /\ d[i - 1] \in Letters
  <2>1. i - 1 \in 0..(cap - 1)
    BY <1>1
  <2>2. d[i - 1] = IF p <= i - 1 /\ i - 1 < p + n THEN mem[src + (i - 1) - p] ELSE mem[i - 1]
    BY <1>2, <2>1 DEF d
  <2>3. CASE i <= p \/ i > p + n
    <3>1. d[i - 1] = mem[i - 1]
      BY <1>1, <2>2, <2>3
    <3> QED
      BY <1>1, <2>3, <3>1
  <2>4. CASE ~(i <= p \/ i > p + n)
    <3>1. i - p + src \in 1..N /\ src + (i - 1) - p = (i - p + src) - 1
      BY <1>1, <2>4
    <3>2. mem[src + (i - 1) - p] = s[i - p + src] /\ s[i - p + src] \in Letters
      BY <1>1, <3>1
    <3>3. d[i - 1] = mem[src + (i - 1) - p]
      BY <1>1, <2>2, <2>4
    <3> QED
      BY <2>4, <3>2, <3>3
  <2> QED
    BY <2>3, <2>4
<1>4. /\ t \in Seq(Letters) /\ Len(t) = N
      /\ \A i \in 1..N : t[i] = IF i <= p \/ i > p + n THEN s[i] ELSE s[i - p + src]
  BY <1>1, <1>3, ReadSeq
<1> HIDE DEF t
<1>5. /\ p \in 0..N /\ q \in 0..N /\ p < q
      /\ Around(t, p, q) = Around(s, p, q)
  BY <1>4, WrittenOver DEF N
<1>6. SubSeq(t, p + 1, q) \in Blocks(s)
  <2>1. ASSUME NEW m \in 1..n PROVE t[p + m] = s[src + m]
    <3>1. p + m \in 1..N /\ ~(p + m <= p \/ p + m > p + n) /\ (p + m) - p + src = src + m
      BY <1>1
    <3> QED
      BY <1>4, <3>1
  <2>2. src + n <= Len(s)
    BY <1>1 DEF N
  <2> QED
    BY <1>1, <2>1, <2>2, KnownStretch
<1>7. Overwrites(s, t, LAMBDA block : block \in Blocks(s))
  <2> HIDE DEF q
  <2> QED
    BY <1>4, <1>5, <1>6 DEF Overwrites, N
<1> QED
  BY <1>7 DEF t, d, N

\* A block put in: what is around it is what was there.
LEMMA PutIn ==
    ASSUME NEW s \in Seq(Letters), NEW t \in Seq(Letters),
           NEW p \in 0..Len(s), NEW n \in Nat \ {0}, Len(t) = Len(s) + n,
           \A i \in 1..Len(t) : i <= p \/ i > p + n => t[i] = IF i <= p THEN s[i] ELSE s[i - n]
    PROVE  /\ p + n = p + Len(t) - Len(s) /\ p + n > p
           /\ Around(t, p, p + n) = s
<1>1. Len(s) \in Nat /\ p \in 0..Len(t) /\ n \in 0..(Len(t) - p) /\ Len(s) = Len(t) - n
  OBVIOUS
<1>2. ASSUME NEW i \in 1..Len(s) PROVE s[i] = IF i <= p THEN t[i] ELSE t[i + n]
  <2>1. CASE i <= p
    <3>1. i \in 1..Len(t)
      BY <1>1
    <3> QED
      BY <2>1, <3>1
  <2>2. CASE ~(i <= p)
    <3>1. i + n \in 1..Len(t) /\ i + n > p + n /\ ~(i + n <= p) /\ (i + n) - n = i
      BY <1>1, <2>2
    <3>2. t[i + n] = s[(i + n) - n]
      BY <3>1
    <3> QED
      BY <2>2, <3>1, <3>2
  <2> QED
    BY <2>1, <2>2
<1>3. Around(t, p, p + n) = s
  BY <1>1, <1>2, LeftOut
<1> QED
  BY <1>1, <1>3

LEMMA InsertsFresh ==
    ASSUME NEW s \in Seq(Letters), NEW cap, NEW mem, Holds(mem, cap, s),
           NEW pos \in 0..Len(s), NEW n \in 1..ConstantLimit, Len(s) + n < cap
    PROVE  Inserts(s, Read(Put(Copy(mem, pos + n, pos, Len(s) - pos), pos, n, Fresh), Len(s) + n),
                   LAMBDA block : Invented(block, ConstantLimit))
<1> DEFINE N == Len(s)
           c == Copy(mem, pos + n, pos, N - pos)
           d == Put(c, pos, n, Fresh)
           t == Read(d, N + n)
           q == pos + n
<1>1. /\ N \in Nat /\ cap \in Nat /\ N + n < cap /\ DOMAIN mem = 0..(cap - 1)
      /\ \A i \in 1..N : mem[i - 1] = s[i] /\ s[i] \in Letters
      /\ pos \in Nat /\ n \in Nat \ {0} /\ pos <= N /\ n <= ConstantLimit
  BY ElementOfSeq DEF Holds, ConstantLimit
<1>2. /\ DOMAIN c = 0..(cap - 1)
      /\ \A i \in 0..(cap - 1) :
            c[i] = IF pos + n <= i /\ i < pos + n + (N - pos) THEN mem[pos + i - (pos + n)] ELSE mem[i]
  <2> HIDE DEF N
  <2>1. pos + n \in Int /\ N - pos \in Int
    BY <1>1
  <2> QED
    BY <1>1, <2>1 DEF Copy
<1> HIDE DEF N, c
<1>3. \A i \in 0..(cap - 1) : d[i] = IF pos <= i /\ i < pos + n THEN Fresh ELSE c[i]
  <2>1. pos \in Int /\ n \in Int /\ cap \in Nat
    BY <1>1
  <2>2. DOMAIN c = 0..(cap - 1)
    BY <1>2
  <2>3. \A i \in 0..(cap - 1) :
           Put(c, pos, n, Fresh)[i] = IF pos <= i /\ i < pos + n THEN Fresh ELSE c[i]
    BY <2>1, <2>2 DEF Put
  <2> QED
    BY <2>3
<1> HIDE DEF d
<1>4. ASSUME NEW i \in 1..(N + n)
      PROVE  /\ d[i - 1] = IF i <= pos THEN s[i] ELSE IF i <= pos + n THEN Fresh ELSE s[i - n]
             /\ d[i - 1] \in Letters
  <2>1. i - 1 \in 0..(cap - 1)
    BY <1>1
  <2>2. CASE i <= pos
    <3>1. d[i - 1] = mem[i - 1]
      BY <1>1, <1>2, <1>3, <2>1, <2>2
    <3> QED
      BY <1>1, <2>2, <3>1
  <2>3. CASE ~(i <= pos) /\ i <= pos + n
    BY <1>1, <1>3, <2>1, <2>3 DEF Letters
  <2>4. CASE ~(i <= pos + n)
    <3>1. c[i - 1] = mem[pos + (i - 1) - (pos + n)] /\ d[i - 1] = c[i - 1]
      BY <1>1, <1>2, <1>3, <2>1, <2>4
    <3>2. pos + (i - 1) - (pos + n) = (i - n) - 1 /\ i - n \in 1..N
      BY <1>1, <2>4
    <3> QED
      BY <1>1, <2>4, <3>1, <3>2
  <2> QED
    BY <1>1, <2>2, <2>3, <2>4
<1>5. /\ t \in Seq(Letters) /\ Len(t) = N + n
      /\ \A i \in 1..(N + n) :
            t[i] = IF i <= pos THEN s[i] ELSE IF i <= pos + n THEN Fresh ELSE s[i - n]
  <2>1. N + n \in Nat
    BY <1>1
  <2> QED
    BY <1>4, <2>1, ReadSeq
<1> HIDE DEF t
<1>6. q = pos + Len(t) - N /\ q > pos /\ Around(t, pos, q) = s
  <2>1. pos \in 0..N /\ n \in Nat \ {0} /\ Len(t) = N + n
    BY <1>1, <1>5
  <2>2. ASSUME NEW i \in 1..Len(t), i <= pos \/ i > pos + n
        PROVE  t[i] = IF i <= pos THEN s[i] ELSE s[i - n]
    <3>1. i \in 1..(N + n)
      BY <2>1, Zenon
    <3>2. CASE i <= pos
      BY <1>5, <3>1, <3>2
    <3>3. CASE i > pos + n
      <4>1. ~(i <= pos) /\ ~(i <= pos + n)
        BY <1>1, <3>1, <3>3
      <4> QED
        BY <1>5, <3>1, <4>1
    <3> QED
      BY <2>2, <3>2, <3>3
  <2> QED
    BY <1>5, <2>1, <2>2, PutIn DEF N
<1>7. Invented(SubSeq(t, pos + 1, q), ConstantLimit)
  <2>1. ASSUME NEW i \in (pos + 1)..(pos + n) PROVE t[i] = Fresh
    <3>1. i \in 1..(N + n) /\ ~(i <= pos) /\ i <= pos + n
      BY <1>1
    <3> QED
      BY <1>5, <3>1
  <2>2. ConstantLimit \in Nat
    BY DEF ConstantLimit
  <2> QED
    BY <1>1, <2>1, <2>2, FreshStretch
<1>8. Inserts(s, t, LAMBDA block : Invented(block, ConstantLimit))
  <2> HIDE DEF q
  <2>1. pos \in 0..Len(s)
    BY <1>1 DEF N
  <2> QED
    BY <1>6, <1>7, <2>1 DEF Inserts, N
<1> QED
  BY <1>8 DEF t, d, c, N

LEMMA InsertsCopy ==
    ASSUME NEW s \in Seq(Letters), NEW cap, NEW mem, Holds(mem, cap, s),
           NEW src \in 0..(Len(s) - 1), NEW dst \in 0..(Len(s) - 1),
           NEW n \in 1..(Len(s) - src), Len(s) + 2 * n < cap
    PROVE  Inserts(s, Read(Copy(Copy(Copy(mem, Len(s) + n, src, n), dst + n, dst, Len(s) - dst),
                                dst, Len(s) + n, n), Len(s) + n),
                   LAMBDA block : block \in Blocks(s))
<1> DEFINE N == Len(s)
           c == Copy(mem, N + n, src, n)
           d == Copy(c, dst + n, dst, N - dst)
           e == Copy(d, dst, N + n, n)
           t == Read(e, N + n)
           q == dst + n
<1>1. /\ N \in Nat /\ cap \in Nat /\ N + 2 * n < cap /\ DOMAIN mem = 0..(cap - 1)
      /\ \A i \in 1..N : mem[i - 1] = s[i] /\ s[i] \in Letters
      /\ dst \in Nat /\ src \in Nat /\ n \in Nat \ {0} /\ dst < N /\ src + n <= N
  BY ElementOfSeq DEF Holds
<1> HIDE DEF N
<1>2. /\ DOMAIN c = 0..(cap - 1)
      /\ \A i \in 0..(cap - 1) :
            c[i] = IF N + n <= i /\ i < N + n + n THEN mem[src + i - (N + n)] ELSE mem[i]
  <2> DEFINE far == N + n
  <2>1. far \in Int /\ src \in Int /\ n \in Int /\ cap \in Nat
    BY <1>1
  <2>3. DOMAIN mem = 0..(cap - 1)
    BY <1>1
  <2> HIDE DEF far, c
  <2>2. /\ DOMAIN Copy(mem, far, src, n) = 0..(cap - 1)
        /\ \A i \in 0..(cap - 1) :
              Copy(mem, far, src, n)[i] = IF far <= i /\ i < far + n THEN mem[src + i - far] ELSE mem[i]
    BY <2>1, <2>3 DEF Copy
  <2> QED
    BY <2>2 DEF far, c
<1> HIDE DEF c
<1>3. /\ DOMAIN d = 0..(cap - 1)
      /\ \A i \in 0..(cap - 1) :
            d[i] = IF dst + n <= i /\ i < dst + n + (N - dst) THEN c[dst + i - (dst + n)] ELSE c[i]
  <2> DEFINE to == dst + n
             rest == N - dst
  <2>1. to \in Int /\ dst \in Int /\ rest \in Int /\ cap \in Nat
    BY <1>1
  <2>2. DOMAIN c = 0..(cap - 1)
    BY <1>2
  <2> HIDE DEF to, rest
  <2>3. /\ DOMAIN Copy(c, to, dst, rest) = 0..(cap - 1)
        /\ \A i \in 0..(cap - 1) :
              Copy(c, to, dst, rest)[i] = IF to <= i /\ i < to + rest THEN c[dst + i - to] ELSE c[i]
    BY <2>1, <2>2 DEF Copy
  <2> QED
    BY <2>3 DEF to, rest
<1> HIDE DEF d
<1>4. \A i \in 0..(cap - 1) :
         e[i] = IF dst <= i /\ i < dst + n THEN d[N + n + i - dst] ELSE d[i]
  <2>1. N + n \in Int /\ dst \in Int /\ n \in Int /\ cap \in Nat
    BY <1>1
  <2>2. DOMAIN d = 0..(cap - 1)
    BY <1>3
  <2> QED
    BY <2>1, <2>2 DEF Copy
<1> HIDE DEF e
<1>5. ASSUME NEW i \in 1..(N + n)
      PROVE  /\ e[i - 1] = IF i <= dst THEN s[i]
                           ELSE IF i <= dst + n THEN s[src + (i - dst)] ELSE s[i - n]
             /\ e[i - 1] \in Letters
  <2>1. i - 1 \in 0..(cap - 1)
    BY <1>1
  <2>2. CASE i <= dst
    <3>1. e[i - 1] = d[i - 1]
      BY <1>1, <1>4, <2>1, <2>2
    <3>2. d[i - 1] = c[i - 1]
      BY <1>1, <1>3, <2>1, <2>2
    <3>3. c[i - 1] = mem[i - 1] /\ i \in 1..N
      BY <1>1, <1>2, <2>1, <2>2
    <3> QED
      BY <1>1, <2>2, <3>1, <3>2, <3>3
  <2>3. CASE ~(i <= dst) /\ i <= dst + n
    <3> DEFINE k == N + n + (i - 1) - dst
               m == src + (i - dst)
    <3>1. k \in 0..(cap - 1) /\ N + n <= k /\ k < N + n + n /\ ~(k < dst + n + (N - dst))
      BY <1>1, <2>3
    <3>2. src + k - (N + n) = m - 1 /\ m \in 1..N
      BY <1>1, <2>3
    <3>3. e[i - 1] = d[k]
      BY <1>1, <1>4, <2>1, <2>3
    <3> HIDE DEF k, m
    <3>4. d[k] = c[k]
      BY <1>3, <3>1
    <3>5. c[k] = mem[m - 1]
      BY <1>2, <3>1, <3>2
    <3>6. e[i - 1] = s[m] /\ s[m] \in Letters
      BY <1>1, <3>2, <3>3, <3>4, <3>5
    <3> QED
      BY <2>3, <3>6 DEF m
  <2>4. CASE ~(i <= dst + n)
    <3> DEFINE k == (i - n) - 1
    <3>0. ~(i - 1 < dst + n)
      BY <1>1, <2>4
    <3>1. /\ k \in 0..(cap - 1) /\ dst + (i - 1) - (dst + n) = k /\ ~(N + n <= k) /\ i - n \in 1..N
          /\ dst + n <= i - 1 /\ i - 1 < dst + n + (N - dst) /\ ~(i <= dst)
      BY <1>1, <2>4
    <3>2. e[i - 1] = d[i - 1]
      BY <1>4, <2>1, <3>0
    <3>3. d[i - 1] = c[dst + (i - 1) - (dst + n)]
      BY <1>3, <2>1, <3>1
    <3>4. mem[k] = s[i - n] /\ s[i - n] \in Letters
      BY <1>1, <3>1
    <3>5. d[i - 1] = c[k]
      BY <3>1, <3>3
    <3> HIDE DEF k
    <3>6. c[k] = mem[k]
      BY <1>2, <3>1
    <3> QED
      BY <2>4, <3>1, <3>2, <3>4, <3>5, <3>6
  <2> QED
    BY <1>1, <2>2, <2>3, <2>4
<1>6. /\ t \in Seq(Letters) /\ Len(t) = N + n
      /\ \A i \in 1..(N + n) :
            t[i] = IF i <= dst THEN s[i]
                   ELSE IF i <= dst + n THEN s[src + (i - dst)] ELSE s[i - n]
  <2>1. N + n \in Nat
    BY <1>1
  <2> QED
    BY <1>5, <2>1, ReadSeq
<1> HIDE DEF t
<1>7. q = dst + Len(t) - N /\ q > dst /\ Around(t, dst, q) = s
  <2>1. dst \in 0..N /\ n \in Nat \ {0} /\ Len(t) = N + n
    BY <1>1, <1>6
  <2>2. ASSUME NEW i \in 1..Len(t), i <= dst \/ i > dst + n
        PROVE  t[i] = IF i <= dst THEN s[i] ELSE s[i - n]
    <3>1. i \in 1..(N + n)
      BY <2>1, Zenon
    <3>2. CASE i <= dst
      BY <1>6, <3>1, <3>2
    <3>3. CASE i > dst + n
      <4>1. ~(i <= dst) /\ ~(i <= dst + n)
        BY <1>1, <3>1, <3>3
      <4> QED
        BY <1>6, <3>1, <4>1
    <3> QED
      BY <2>2, <3>2, <3>3
  <2> QED
    BY <1>6, <2>1, <2>2, PutIn DEF N
<1>8. SubSeq(t, dst + 1, q) \in Blocks(s)
  <2>1. ASSUME NEW m \in 1..n PROVE t[dst + m] = s[src + m]
    <3>1. dst + m \in 1..(N + n) /\ ~(dst + m <= dst) /\ dst + m <= dst + n /\ (dst + m) - dst = m
      BY <1>1
    <3> QED
      BY <1>6, <3>1
  <2>2. src + n <= Len(s)
    BY <1>1 DEF N
  <2> QED
    BY <1>1, <2>1, <2>2, KnownStretch
<1>9. Inserts(s, t, LAMBDA block : block \in Blocks(s))
  <2> HIDE DEF q
  <2>1. dst \in 0..Len(s)
    BY <1>1 DEF N
  <2> QED
    BY <1>7, <1>8, <2>1 DEF Inserts, N
<1> QED
  BY <1>9 DEF t, e, d, c, N

\* Two stretches of s changed places: the five pieces of t are pieces of s.
LEMMA PiecesSwapped ==
    ASSUME NEW s \in Seq(Letters), NEW t \in Seq(Letters), Len(t) = Len(s),
           NEW i \in Nat \ {0}, NEW j \in Nat, NEW n \in Nat \ {0}, i + n <= j, j + n - 1 <= Len(s),
           \A k \in 1..Len(s) : k < i \/ (i + n <= k /\ k < j) \/ j + n <= k => t[k] = s[k],
           \A k \in i..(i + n - 1) : t[k] = s[k + (j - i)],
           \A k \in j..(j + n - 1) : t[k] = s[k + (i - j)]
    PROVE  SwapsBlocks(s, t)
<1> DEFINE N == Len(s)
           a == i - 1
           c == i + n - 1
           d == j - 1
           e == j + n - 1
<1>1. /\ N \in Nat /\ a \in Nat /\ c \in Nat /\ d \in Nat /\ e \in Nat
      /\ a <= c /\ c <= d /\ d <= e /\ e <= N
  OBVIOUS
<1>2. a + 1 = i /\ c + 1 = i + n /\ d + 1 = j /\ e + 1 = j + n
  OBVIOUS
<1>3. Len(t) = N
  OBVIOUS
<1>4. t = SubSeq(t, 1, a) \o SubSeq(t, a + 1, c) \o SubSeq(t, c + 1, d)
          \o SubSeq(t, d + 1, e) \o SubSeq(t, e + 1, N)
  <2> HIDE DEF N, a, c, d, e
  <2>1. /\ 1 \in 1..(Len(t) + 1)
        /\ a \in (1 - 1)..Len(t) /\ c \in a..Len(t)
        /\ c \in (1 - 1)..Len(t) /\ d \in c..Len(t)
        /\ d \in (1 - 1)..Len(t) /\ e \in d..Len(t)
        /\ e \in (1 - 1)..Len(t) /\ N \in e..Len(t)
    BY <1>1, <1>3
  <2>2. SubSeq(t, 1, a) \o SubSeq(t, a + 1, c) = SubSeq(t, 1, c)
    BY <2>1, ConcatAdjacentSubSeq
  <2>3. SubSeq(t, 1, c) \o SubSeq(t, c + 1, d) = SubSeq(t, 1, d)
    BY <2>1, ConcatAdjacentSubSeq
  <2>4. SubSeq(t, 1, d) \o SubSeq(t, d + 1, e) = SubSeq(t, 1, e)
    BY <2>1, ConcatAdjacentSubSeq
  <2>5. SubSeq(t, 1, e) \o SubSeq(t, e + 1, N) = SubSeq(t, 1, N)
    BY <2>1, ConcatAdjacentSubSeq
  <2>6. SubSeq(t, 1, N) = t
    BY <1>3, SubSeqFull
  <2> QED
    BY <2>2, <2>3, <2>4, <2>5, <2>6, Zenon
<1>5. SubSeq(t, 1, a) = SubSeq(s, 1, a)
  <2>1. ASSUME NEW k \in 1..a PROVE t[k] = s[k]
    <3>1. k \in 1..Len(s) /\ k < i
      BY <1>1, <1>2
    <3> QED
      BY <3>1
  <2>2. 1 \in Int /\ a \in Int
    BY <1>1
  <2> HIDE DEF a
  <2> QED
    BY <2>1, <2>2, KeptStretch
<1>6. SubSeq(t, a + 1, c) = SubSeq(s, j, e)
  <2>1. c - i = e - j /\ i \in Int /\ j \in Int
    OBVIOUS
  <2>2. ASSUME NEW k \in i..c PROVE t[k] = s[k + (j - i)]
    <3>1. t[k] = s[k + j - i] /\ k + j - i = k + (j - i)
      OBVIOUS
    <3> QED
      BY <3>1
  <2> HIDE DEF c, e
  <2>3. SubSeq(t, i, c) = SubSeq(s, j, e)
    BY <1>1, <2>1, <2>2, SameStretch
  <2> QED
    BY <1>2, <2>3
<1>7. SubSeq(t, c + 1, d) = SubSeq(s, i + n, d)
  <2> DEFINE f == i + n
  <2>1. f \in Int /\ d \in Int
    OBVIOUS
  <2>3. ASSUME NEW k \in f..d PROVE t[k] = s[k]
    <3>1. k \in 1..Len(s) /\ i + n <= k /\ k < j
      BY <1>1, <1>2
    <3> QED
      BY <3>1
  <2> HIDE DEF c, d, f
  <2>2. SubSeq(t, f, d) = SubSeq(s, f, d)
    BY <2>1, <2>3, KeptStretch
  <2> QED
    BY <1>2, <2>2 DEF f
<1>8. SubSeq(t, d + 1, e) = SubSeq(s, i, c)
  <2>1. e - j = c - i /\ i \in Int /\ j \in Int
    OBVIOUS
  <2>3. ASSUME NEW k \in j..e PROVE t[k] = s[k + (i - j)]
    <3>1. t[k] = s[k + i - j] /\ k + i - j = k + (i - j)
      OBVIOUS
    <3> QED
      BY <3>1
  <2> HIDE DEF c, e
  <2>2. SubSeq(t, j, e) = SubSeq(s, i, c)
    BY <1>1, <2>1, <2>3, SameStretch
  <2> QED
    BY <1>2, <2>2
<1>9. SubSeq(t, e + 1, N) = SubSeq(s, j + n, N)
  <2> DEFINE f == j + n
  <2>1. f \in Int /\ N \in Int
    OBVIOUS
  <2>3. ASSUME NEW k \in f..N PROVE t[k] = s[k]
    <3>1. k \in 1..Len(s) /\ j + n <= k
      BY <1>1, <1>2
    <3> QED
      BY <3>1
  <2> HIDE DEF e, f, N
  <2>2. SubSeq(t, f, N) = SubSeq(s, f, N)
    BY <2>1, <2>3, KeptStretch
  <2> QED
    BY <1>2, <2>2 DEF f
<1>10. t = SubSeq(s, 1, i - 1) \o SubSeq(s, j, j + n - 1) \o SubSeq(s, i + n, j - 1)
           \o SubSeq(s, i, i + n - 1) \o SubSeq(s, j + n, Len(s))
  <2> HIDE DEF N, a, c, d, e
  <2>1. t = SubSeq(s, 1, a) \o SubSeq(s, j, e) \o SubSeq(s, i + n, d)
            \o SubSeq(s, i, c) \o SubSeq(s, j + n, N)
    BY <1>4, <1>5, <1>6, <1>7, <1>8, <1>9, Zenon
  <2> QED
    BY <2>1 DEF N, a, c, d, e
<1>11. i \in DOMAIN s /\ j \in DOMAIN s /\ n \in 1..Len(s)
  OBVIOUS
<1> HIDE DEF N, a, c, d, e
<1>12. \E x, y \in DOMAIN s, m \in 1..Len(s) :
        /\ x + m <= y /\ y + m - 1 <= Len(s)
        /\ t = SubSeq(s, 1, x - 1) \o SubSeq(s, y, y + m - 1)
               \o SubSeq(s, x + m, y - 1) \o SubSeq(s, x, x + m - 1)
               \o SubSeq(s, y + m, Len(s))
  BY <1>10, <1>11, Zenon
<1> QED
  BY <1>12, Zenon DEF SwapsBlocks

\* The same of the offsets the code uses, in whichever order.
LEMMA StretchesSwapped ==
    ASSUME NEW s \in Seq(Letters), NEW t \in Seq(Letters), Len(t) = Len(s),
           NEW src \in Nat, NEW dst \in Nat, NEW n \in Nat \ {0},
           src + n <= Len(s), dst + n <= Len(s), src + n <= dst \/ dst + n <= src,
           \A k \in 1..Len(s) :
              t[k] = IF src < k /\ k <= src + n THEN s[k - src + dst]
                     ELSE IF dst < k /\ k <= dst + n THEN s[k - dst + src] ELSE s[k]
    PROVE  SwapsBlocks(s, t)
<1> DEFINE N == Len(s)
<1>1. N \in Nat
  OBVIOUS
<1> DEFINE lo == Smaller(src, dst)
           hi == Larger(src, dst)
<1>2. /\ lo \in Nat /\ hi \in Nat /\ lo + n <= hi /\ hi + n <= N
      /\ (lo = src /\ hi = dst) \/ (lo = dst /\ hi = src)
  BY DEF Smaller, Larger
<1> HIDE DEF lo, hi
<1> DEFINE i == lo + 1
           j == hi + 1
<1>3. i \in Nat \ {0} /\ j \in Nat /\ i + n <= j /\ j + n - 1 <= N
  BY <1>2
<1>4. ASSUME NEW k \in 1..N, k < i \/ (i + n <= k /\ k < j) \/ j + n <= k PROVE t[k] = s[k]
  <2>1. ~(src < k /\ k <= src + n) /\ ~(dst < k /\ k <= dst + n)
    BY <1>2, <1>4
  <2> QED
    BY <2>1
<1>5. ASSUME NEW k \in i..(i + n - 1) PROVE t[k] = s[k + (j - i)]
  <2>1. k \in 1..N /\ lo < k /\ k <= lo + n /\ ~(hi < k) /\ k - lo + hi = k + (j - i)
    BY <1>2
  <2> QED
    BY <1>2, <2>1
<1>6. ASSUME NEW k \in j..(j + n - 1) PROVE t[k] = s[k + (i - j)]
  <2>1. k \in 1..N /\ hi < k /\ k <= hi + n /\ ~(k <= lo + n) /\ k - hi + lo = k + (i - j)
    BY <1>2
  <2> QED
    BY <1>2, <2>1
<1> HIDE DEF i, j
<1>7. \A k \in 1..Len(s) : k < i \/ (i + n <= k /\ k < j) \/ j + n <= k => t[k] = s[k]
  BY <1>4
<1>8. /\ \A k \in i..(i + n - 1) : t[k] = s[k + (j - i)]
      /\ \A k \in j..(j + n - 1) : t[k] = s[k + (i - j)]
  BY <1>5, <1>6
<1>9. i \in Nat \ {0} /\ j \in Nat /\ i + n <= j /\ j + n - 1 <= Len(s)
  BY <1>3
<1>10. Len(t) = Len(s)
  OBVIOUS
<1> QED
  BY <1>7, <1>8, <1>9, <1>10, PiecesSwapped

LEMMA BytesSwapped ==
    ASSUME NEW s \in Seq(Letters), NEW cap, NEW mem, Holds(mem, cap, s),
           NEW x \in 0..(Len(s) - 1), NEW y \in 0..(Len(s) - 1), x # y
    PROVE  SwapsBlocks(s, Read([mem EXCEPT ![x] = mem[y], ![y] = mem[x]], Len(s)))
<1> DEFINE N == Len(s)
           d == [mem EXCEPT ![x] = mem[y], ![y] = mem[x]]
           t == Read(d, N)
<1>1. /\ N \in Nat /\ cap \in Nat /\ N <= cap /\ DOMAIN mem = 0..(cap - 1)
      /\ \A i \in 1..N : mem[i - 1] = s[i] /\ s[i] \in Letters
      /\ x \in 0..(N - 1) /\ y \in 0..(N - 1) /\ x \in Nat /\ y \in Nat
  BY ElementOfSeq DEF Holds
<1>2. \A i \in 0..(cap - 1) : d[i] = IF i = x THEN mem[y] ELSE IF i = y THEN mem[x] ELSE mem[i]
  BY <1>1
<1> HIDE DEF N, d
<1>3. ASSUME NEW i \in 1..N
      PROVE  /\ d[i - 1] = IF x < i /\ i <= x + 1 THEN s[i - x + y]
                           ELSE IF y < i /\ i <= y + 1 THEN s[i - y + x] ELSE s[i]
             /\ d[i - 1] \in Letters
  <2>1. i - 1 \in 0..(cap - 1)
    BY <1>1
  <2>2. CASE i - 1 = x
    <3>1. i - x + y = y + 1 /\ y + 1 \in 1..N /\ (y + 1) - 1 = y /\ x < i /\ i <= x + 1
      BY <1>1, <2>2
    <3>2. d[i - 1] = mem[(y + 1) - 1]
      BY <1>2, <2>1, <2>2, <3>1
    <3> QED
      BY <1>1, <3>1, <3>2
  <2>3. CASE i - 1 = y
    <3>0. i = y + 1 /\ x # y /\ x \in Nat /\ y \in Nat /\ x \in 0..(N - 1) /\ N \in Nat
      BY <1>1, <2>3
    <3>1. /\ i - y + x = x + 1 /\ x + 1 \in 1..N /\ (x + 1) - 1 = x /\ y < i /\ i <= y + 1
          /\ ~(x < i /\ i <= x + 1)
      BY <3>0
    <3>2. d[i - 1] = mem[(x + 1) - 1]
      BY <1>2, <2>1, <2>3, <3>1
    <3>3. d[i - 1] = s[i - y + x] /\ d[i - 1] \in Letters
      BY <1>1, <3>1, <3>2
    <3> QED
      BY <3>1, <3>3
  <2>4. CASE i - 1 # x /\ i - 1 # y
    <3>1. ~(x < i /\ i <= x + 1) /\ ~(y < i /\ i <= y + 1)
      BY <1>1, <2>4
    <3>2. d[i - 1] = mem[i - 1]
      BY <1>2, <2>1, <2>4
    <3> QED
      BY <1>1, <3>1, <3>2
  <2> QED
    BY <2>2, <2>3, <2>4
<1>4. /\ t \in Seq(Letters) /\ Len(t) = N
      /\ \A i \in 1..N : t[i] = IF x < i /\ i <= x + 1 THEN s[i - x + y]
                                ELSE IF y < i /\ i <= y + 1 THEN s[i - y + x] ELSE s[i]
  BY <1>1, <1>3, ReadSeq
<1> HIDE DEF t
<1>5. x + 1 <= N /\ y + 1 <= N /\ (x + 1 <= y \/ y + 1 <= x)
  BY <1>1
<1>6. SwapsBlocks(s, t)
  <2> DEFINE n == 1
  <2>1. n \in Nat \ {0} /\ x + n <= N /\ y + n <= N /\ (x + n <= y \/ y + n <= x)
    BY <1>5
  <2>2. \A i \in 1..N : t[i] = IF x < i /\ i <= x + n THEN s[i - x + y]
                              ELSE IF y < i /\ i <= y + n THEN s[i - y + x] ELSE s[i]
    BY <1>4
  <2> HIDE DEF n
  <2>3. x \in Nat /\ y \in Nat /\ Len(t) = N /\ t \in Seq(Letters)
    BY <1>1, <1>4
  <2> QED
    BY <2>1, <2>2, <2>3, StretchesSwapped DEF N
<1> QED
  BY <1>6 DEF t, d, N

LEMMA BlocksSwapped ==
    ASSUME NEW s \in Seq(Letters), NEW cap, NEW mem, Holds(mem, cap, s),
           NEW src \in Nat, NEW dst \in Nat, NEW n \in Nat \ {0},
           src + n <= Len(s), dst + n <= Len(s), src + n <= dst \/ dst + n <= src,
           Len(s) + n < cap
    PROVE  SwapsBlocks(s, Read(Copy(Copy(Copy(mem, Len(s), dst, n), dst, src, n), src, Len(s), n),
                               Len(s)))
<1> DEFINE N == Len(s)
           c == Copy(mem, N, dst, n)
           d == Copy(c, dst, src, n)
           e == Copy(d, src, N, n)
           t == Read(e, N)
<1>1. /\ N \in Nat /\ cap \in Nat /\ N + n < cap /\ DOMAIN mem = 0..(cap - 1)
      /\ \A i \in 1..N : mem[i - 1] = s[i] /\ s[i] \in Letters
      /\ src + n <= N /\ dst + n <= N
  BY ElementOfSeq DEF Holds
<1>0. src \in Int /\ dst \in Int /\ n \in Int /\ N \in Int /\ cap \in Nat /\ DOMAIN mem = 0..(cap - 1)
  BY <1>1
<1> HIDE DEF N
<1>2. /\ DOMAIN c = 0..(cap - 1)
      /\ \A i \in 0..(cap - 1) : c[i] = IF N <= i /\ i < N + n THEN mem[dst + i - N] ELSE mem[i]
  BY <1>0 DEF Copy
<1> HIDE DEF c
<1>3. /\ DOMAIN d = 0..(cap - 1)
      /\ \A i \in 0..(cap - 1) : d[i] = IF dst <= i /\ i < dst + n THEN c[src + i - dst] ELSE c[i]
  <2> DOMAIN c = 0..(cap - 1)
    BY <1>2
  <2> QED
    BY <1>0 DEF Copy
<1> HIDE DEF d
<1>4. \A i \in 0..(cap - 1) : e[i] = IF src <= i /\ i < src + n THEN d[N + i - src] ELSE d[i]
  <2> DOMAIN d = 0..(cap - 1)
    BY <1>3
  <2> QED
    BY <1>0 DEF Copy
<1> HIDE DEF e
<1>5. ASSUME NEW i \in 1..N
      PROVE  /\ e[i - 1] = IF src < i /\ i <= src + n THEN s[i - src + dst]
                           ELSE IF dst < i /\ i <= dst + n THEN s[i - dst + src] ELSE s[i]
             /\ e[i - 1] \in Letters
  <2>1. i - 1 \in 0..(cap - 1) /\ ~(N <= i - 1)
    BY <1>1
  <2>2. CASE src < i /\ i <= src + n
    <3> DEFINE k == N + (i - 1) - src
               m == i - src + dst
    <3>1. k \in 0..(cap - 1) /\ N <= k /\ k < N + n /\ ~(k < dst + n) /\ src <= i - 1 /\ i - 1 < src + n
      BY <1>1, <2>2
    <3>2. dst + k - N = m - 1 /\ m \in 1..N
      BY <1>1, <2>2
    <3>3. e[i - 1] = d[k]
      BY <1>4, <2>1, <3>1
    <3> HIDE DEF k, m
    <3>4. d[k] = c[k]
      BY <1>3, <3>1
    <3>5. c[k] = mem[m - 1]
      BY <1>2, <3>1, <3>2
    <3>6. e[i - 1] = s[m] /\ s[m] \in Letters
      BY <1>1, <3>2, <3>3, <3>4, <3>5
    <3> QED
      BY <2>2, <3>6 DEF m
  <2>3. CASE ~(src < i /\ i <= src + n) /\ dst < i /\ i <= dst + n
    <3> DEFINE k == src + (i - 1) - dst
               m == i - dst + src
    <3>1. /\ k \in 0..(cap - 1) /\ ~(N <= k) /\ k = m - 1 /\ m \in 1..N
          /\ dst <= i - 1 /\ i - 1 < dst + n /\ ~(src <= i - 1 /\ i - 1 < src + n)
      BY <1>1, <2>3
    <3>2. e[i - 1] = d[i - 1]
      BY <1>4, <2>1, <3>1
    <3>3. d[i - 1] = c[k]
      BY <1>3, <2>1, <3>1
    <3> HIDE DEF k, m
    <3>4. c[k] = mem[m - 1]
      BY <1>2, <3>1
    <3>5. e[i - 1] = s[m] /\ s[m] \in Letters
      BY <1>1, <3>1, <3>2, <3>3, <3>4
    <3> QED
      BY <2>3, <3>5 DEF m
  <2>4. CASE ~(src < i /\ i <= src + n) /\ ~(dst < i /\ i <= dst + n)
    <3>1. ~(src <= i - 1 /\ i - 1 < src + n) /\ ~(dst <= i - 1 /\ i - 1 < dst + n)
      BY <1>1, <2>4
    <3>2. e[i - 1] = d[i - 1] /\ d[i - 1] = c[i - 1] /\ c[i - 1] = mem[i - 1]
      BY <1>2, <1>3, <1>4, <2>1, <3>1
    <3> QED
      BY <1>1, <2>4, <3>2
  <2> QED
    BY <2>2, <2>3, <2>4
<1>6. /\ t \in Seq(Letters) /\ Len(t) = N
      /\ \A i \in 1..N : t[i] = IF src < i /\ i <= src + n THEN s[i - src + dst]
                                ELSE IF dst < i /\ i <= dst + n THEN s[i - dst + src] ELSE s[i]
  BY <1>1, <1>5, ReadSeq
<1> HIDE DEF t
<1>7. SwapsBlocks(s, t)
  BY <1>1, <1>6, StretchesSwapped DEF N
<1> QED
  BY <1>7 DEF t, e, d, c, N

\* Bytes in another order: each occurs as often as before.
LEMMA OrderChanged ==
    ASSUME NEW s \in Seq(Letters), NEW t \in Seq(Letters), Len(t) = Len(s),
           NEW f \in [1..Len(s) -> 1..Len(s)],
           \A i, j \in 1..Len(s) : f[i] = f[j] => i = j,
           \A j \in 1..Len(s) : \E i \in 1..Len(s) : f[i] = j,
           \A i \in 1..Len(s) : t[i] = s[f[i]]
    PROVE  Reorders(s, t)
<1>1. DOMAIN s = 1..Len(s) /\ DOMAIN t = 1..Len(s) /\ Len(s) \in Nat
  OBVIOUS
<1>2. ASSUME NEW x PROVE Occurrences(s, x) = Occurrences(t, x)
  <2> DEFINE S == {i \in 1..Len(s) : t[i] = x}
             T == {i \in 1..Len(s) : s[i] = x}
             g == [i \in S |-> f[i]]
  <2>1. g \in [S -> T]
    OBVIOUS
  <2>2. \A i, j \in S : g[i] = g[j] => i = j
    OBVIOUS
  <2>3. ASSUME NEW j \in T PROVE \E i \in S : g[i] = j
    <3>1. PICK i \in 1..Len(s) : f[i] = j
      OBVIOUS
    <3>2. i \in S
      BY <3>1
    <3> QED
      BY <3>1, <3>2
  <2>4. IsFiniteSet(S)
    <3>1. IsFiniteSet(1..Len(s))
      BY FS_Interval
    <3> HIDE DEF g
    <3>2. S \subseteq 1..Len(s)
      OBVIOUS
    <3> QED
      BY <3>1, <3>2, FS_Subset
  <2>5. Occurrences(s, x) = Cardinality(T) /\ Occurrences(t, x) = Cardinality(S)
    BY <1>1 DEF Occurrences
  <2> HIDE DEF S, T, g
  <2>6. g \in Bijection(S, T)
    BY <2>1, <2>2, <2>3 DEF Bijection, Injection, Surjection, IsInjective
  <2>7. ExistsBijection(S, T)
    BY <2>6, Fun_ExistsBij
  <2>8. Cardinality(T) = Cardinality(S)
    BY <2>4, <2>7, FS_Bijection
  <2> QED
    BY <2>5, <2>8
<1> QED
  BY <1>1, <1>2 DEF Reorders

LEMMA Shuffled ==
    ASSUME NEW s \in Seq(Letters), NEW cap, NEW mem, Holds(mem, cap, s),
           NEW p \in Nat, NEW n \in Nat, p + n <= Len(s),
           NEW order \in Bijection(p..(p + n - 1), p..(p + n - 1))
    PROVE  Reorders(s, Read([i \in DOMAIN mem |->
                                IF i \in DOMAIN order THEN mem[order[i]] ELSE mem[i]], Len(s)))
<1> DEFINE N == Len(s)
           R == p..(p + n - 1)
           d == [i \in DOMAIN mem |-> IF i \in DOMAIN order THEN mem[order[i]] ELSE mem[i]]
           t == Read(d, N)
           f == [i \in 1..N |-> IF i - 1 \in R THEN order[i - 1] + 1 ELSE i]
<1>1. /\ N \in Nat /\ cap \in Nat /\ N <= cap /\ DOMAIN mem = 0..(cap - 1)
      /\ \A i \in 1..N : mem[i - 1] = s[i] /\ s[i] \in Letters
      /\ p + n <= N
  BY ElementOfSeq DEF Holds
<1>2. /\ DOMAIN order = R
      /\ \A i \in R : order[i] \in R
      /\ \A i, j \in R : order[i] = order[j] => i = j
      /\ \A j \in R : \E i \in R : order[i] = j
  BY DEF Bijection, Injection, Surjection, IsInjective
<1>3. \A i \in R : i \in 0..(N - 1) /\ i + 1 \in 1..N /\ (i + 1) - 1 = i
  BY <1>1
<1> HIDE DEF N, R
<1>4. f \in [1..N -> 1..N]
  BY <1>2, <1>3
<1>5. ASSUME NEW i \in 1..N, NEW j \in 1..N, f[i] = f[j] PROVE i = j
  <2>1. CASE i - 1 \in R /\ j - 1 \in R
    <3>1. order[i - 1] + 1 = order[j - 1] + 1
      BY <1>5, <2>1
    <3>2. order[i - 1] = order[j - 1]
      BY <1>2, <1>3, <2>1, <3>1
    <3>3. i - 1 = j - 1
      BY <1>2, <2>1, <3>2
    <3> QED
      BY <3>3
  <2>2. CASE i - 1 \in R /\ j - 1 \notin R
    <3>1. order[i - 1] + 1 = j /\ order[i - 1] \in R
      BY <1>2, <1>5, <2>2
    <3>2. j - 1 = order[i - 1]
      BY <1>3, <3>1
    <3> QED
      BY <2>2, <3>1, <3>2
  <2>3. CASE i - 1 \notin R /\ j - 1 \in R
    <3>1. order[j - 1] + 1 = i /\ order[j - 1] \in R
      BY <1>2, <1>5, <2>3
    <3>2. i - 1 = order[j - 1]
      BY <1>3, <3>1
    <3> QED
      BY <2>3, <3>1, <3>2
  <2>4. CASE i - 1 \notin R /\ j - 1 \notin R
    BY <1>5, <2>4
  <2> QED
    BY <2>1, <2>2, <2>3, <2>4
<1>6. ASSUME NEW j \in 1..N PROVE \E i \in 1..N : f[i] = j
  <2>1. CASE j - 1 \in R
    <3>1. PICK k \in R : order[k] = j - 1
      BY <1>2, <2>1
    <3>2. k + 1 \in 1..N /\ (k + 1) - 1 = k
      BY <1>3
    <3>3. f[k + 1] = j
      BY <3>1, <3>2
    <3> HIDE DEF f
    <3> QED
      BY <3>2, <3>3
  <2>2. CASE j - 1 \notin R
    <3>1. f[j] = j
      BY <2>2
    <3> HIDE DEF f
    <3> QED
      BY <3>1
  <2> QED
    BY <2>1, <2>2
<1>7. ASSUME NEW i \in 1..N PROVE d[i - 1] = s[f[i]] /\ d[i - 1] \in Letters
  <2>1. i - 1 \in DOMAIN mem
    BY <1>1
  <2>2. CASE i - 1 \in R
    <3>1. order[i - 1] \in R
      BY <1>2, <2>2
    <3>2. f[i] = order[i - 1] + 1 /\ order[i - 1] + 1 \in 1..N /\ (order[i - 1] + 1) - 1 = order[i - 1]
      BY <1>3, <2>2, <3>1
    <3>3. d[i - 1] = mem[order[i - 1]]
      BY <1>2, <2>1, <2>2
    <3> HIDE DEF d, f
    <3>4. mem[(order[i - 1] + 1) - 1] = s[order[i - 1] + 1] /\ s[order[i - 1] + 1] \in Letters
      BY <1>1, <3>2
    <3> QED
      BY <3>2, <3>3, <3>4
  <2>3. CASE i - 1 \notin R
    BY <1>1, <1>2, <2>1, <2>3
  <2> QED
    BY <2>2, <2>3
<1> HIDE DEF d, f
<1>8. t \in Seq(Letters) /\ Len(t) = N /\ \A i \in 1..N : t[i] = s[f[i]]
  BY <1>1, <1>7, ReadSeq
<1> HIDE DEF t
<1>9. Reorders(s, t)
  BY <1>4, <1>5, <1>6, <1>8, OrderChanged DEF N
<1> QED
  BY <1>9 DEF t, d, N

LEMMA EditKinds ==
    ASSUME NEW old, NEW new
    PROVE  /\ Inserts(new, old, LAMBDA block : TRUE) => IsEdit("remove", old, new)
           /\ Inserts(old, new, LAMBDA block : Invented(block, ConstantLimit))
                 => IsEdit("insert", old, new)
           /\ Inserts(old, new, LAMBDA block : block \in Blocks(old))
                 => IsEdit("duplicate", old, new)
           /\ Overwrites(old, new, LAMBDA block : block \in Blocks(old))
                 => IsEdit("overwrite", old, new)
           /\ Overwrites(old, new, LAMBDA block : Invented(block, 1)) => IsEdit("byte", old, new)
           /\ Overwrites(old, new, LAMBDA block : Invented(block, 8)) => IsEdit("word", old, new)
           /\ Overwrites(old, new, LAMBDA block : Invented(block, Len(old)))
                 => IsEdit("constant", old, new)
           /\ Reorders(old, new) => IsEdit("shuffle", old, new)
           /\ SwapsBlocks(old, new) => IsEdit("swap", old, new)
<1>1. Inserts(new, old, LAMBDA block : TRUE) => IsEdit("remove", old, new)
  BY Zenon DEF IsEdit, Inserts
<1>2. Inserts(old, new, LAMBDA block : Invented(block, ConstantLimit)) => IsEdit("insert", old, new)
  BY Zenon DEF IsEdit, Inserts
<1>3. Inserts(old, new, LAMBDA block : block \in Blocks(old)) => IsEdit("duplicate", old, new)
  BY Zenon DEF IsEdit, Inserts
<1>4. Overwrites(old, new, LAMBDA block : block \in Blocks(old)) => IsEdit("overwrite", old, new)
  BY Zenon DEF IsEdit, Overwrites
<1>5. Overwrites(old, new, LAMBDA block : Invented(block, 1)) => IsEdit("byte", old, new)
  BY Zenon DEF IsEdit, Overwrites
<1>6. Overwrites(old, new, LAMBDA block : Invented(block, 8)) => IsEdit("word", old, new)
  BY Zenon DEF IsEdit, Overwrites
<1>7. Overwrites(old, new, LAMBDA block : Invented(block, Len(old))) => IsEdit("constant", old, new)
  BY Zenon DEF IsEdit, Overwrites
<1>8. Reorders(old, new) => IsEdit("shuffle", old, new)
  BY Zenon DEF IsEdit
<1>9. SwapsBlocks(old, new) => IsEdit("swap", old, new)
  BY Zenon DEF IsEdit
<1> QED
  BY <1>1, <1>2, <1>3, <1>4, <1>5, <1>6, <1>7, <1>8, <1>9 DEF Inserts, Overwrites

Edited(s) == \E name, mem, len : Becomes(name, mem, len) /\ len \in Nat /\ IsEdit(name, s, Read(mem, len))

\* Every mutation of the bytes of s, in their array with its capacity, is an edit.
LEMMA EveryMutationEdits ==
    ASSUME NEW s \in Seq(Letters), Holds(Mem, b.cap, s), b.len = Len(s), MutateBytes
    PROVE  Edited(s)
<1> DEFINE N == Len(s)
<1>0. N \in Nat /\ b.len = N /\ b.cap \in Nat /\ Indices = 0..(N - 1) /\ \A n \in Int : HasRoom(n) <=> N + n < b.cap
  BY DEF Holds, Indices, HasRoom
<1>a. ASSUME NEW n \in Nat \ {0} PROVE ChooseLen(n) = 1..n
  BY <1>a DEF ChooseLen, Larger
<1>b. ASSUME NEW n \in Int, NEW k \in ChooseLen(n) PROVE k \in Nat \ {0} /\ (k = 1 \/ k <= n)
  <2>1. CASE 1 < n
    BY <1>b, <2>1 DEF ChooseLen, Larger
  <2>2. CASE ~(1 < n)
    BY <1>b, <2>2 DEF ChooseLen, Larger
  <2> QED
    BY <2>1, <2>2
<1>d. \A p \in Indices : p \in 0..(Len(s) - 1) /\ Len(s) - p \in Nat \ {0}
  <2> HIDE DEF N
  <2>1. \A p \in Indices : p \in 0..(N - 1) /\ N - p \in Nat \ {0}
    BY <1>0
  <2> QED
    BY <2>1 DEF N
<1>e. \A p \in PairsOfIndices : p[1] \in Indices /\ p[2] \in Indices /\ p[1] # p[2]
  BY DEF PairsOfIndices
<1>c. ASSUME NEW name, NEW mem, NEW len \in Nat,
             Becomes(name, mem, len), IsEdit(name, s, Read(mem, len))
      PROVE  Edited(s)
  BY <1>c, Zenon DEF Edited
<1>1. CASE RemoveBytes
  <2>1. PICK pos \in Indices : \E n \in ChooseLen(b.len - pos) :
           Becomes("remove", Copy(Mem, pos, pos + n, b.len - pos - n), b.len - n)
    BY <1>1 DEF RemoveBytes
  <2>2. PICK n \in ChooseLen(b.len - pos) :
           Becomes("remove", Copy(Mem, pos, pos + n, b.len - pos - n), b.len - n)
    BY <2>1
  <2>3. pos \in 0..(Len(s) - 1) /\ n \in 1..(Len(s) - pos) /\ Len(s) - n \in Nat
    <3>1. pos \in 0..(N - 1) /\ N - pos \in Nat \ {0}
      BY <1>d
    <3>2. n \in 1..(N - pos)
      BY <1>a, <2>2, <3>1
    <3> QED
      BY <1>0, <3>1, <3>2
  <2>4. Inserts(Read(Copy(Mem, pos, pos + n, Len(s) - pos - n), Len(s) - n), s,
                LAMBDA block : TRUE)
    BY <2>3, Removes, Zenon
  <2>5. IsEdit("remove", s, Read(Copy(Mem, pos, pos + n, b.len - pos - n), b.len - n))
    BY <2>4, EditKinds DEF Inserts
  <2> QED
    BY <1>c, <2>2, <2>3, <2>5
<1>2. CASE InsertRandomBytes \/ InsertConstantBytes
  <2>1. \E pos \in 0..N : \E n \in 1..ConstantLimit :
           N + n < b.cap /\ Becomes("insert", Put(Opened(pos, n), pos, n, Fresh), b.len + n)
    <3>1. CASE InsertRandomBytes
      <4>1. PICK pos \in 0..b.len : \E n \in {k \in ChooseLen(InsertLimit) : HasRoom(k)} :
               Becomes("insert", Put(Opened(pos, n), pos, n, Fresh), b.len + n)
        BY <3>1 DEF InsertRandomBytes
      <4>2. PICK n \in {k \in ChooseLen(InsertLimit) : HasRoom(k)} :
               Becomes("insert", Put(Opened(pos, n), pos, n, Fresh), b.len + n)
        BY <4>1
      <4>3. n \in 1..ConstantLimit /\ N + n < b.cap
        BY <1>0, <4>2 DEF ChooseLen, Larger, InsertLimit, ConstantLimit
      <4> QED
        BY <4>2, <4>3
    <3>2. CASE InsertConstantBytes
      <4>1. PICK pos \in Indices : \E n \in {k \in ChooseLen(ConstantLimit) : HasRoom(k)} :
               Becomes("insert", Put(Opened(pos, n), pos, n, Fresh), b.len + n)
        BY <3>2 DEF InsertConstantBytes
      <4>2. PICK n \in {k \in ChooseLen(ConstantLimit) : HasRoom(k)} :
               Becomes("insert", Put(Opened(pos, n), pos, n, Fresh), b.len + n)
        BY <4>1
      <4>3. n \in 1..ConstantLimit /\ N + n < b.cap
        BY <1>0, <4>2 DEF ChooseLen, Larger, ConstantLimit
      <4>4. pos \in 0..N
        BY <1>0
      <4> QED
        BY <4>2, <4>3, <4>4
    <3> QED
      BY <1>2, <3>1, <3>2
  <2>2. PICK pos \in 0..Len(s) : \E n \in 1..ConstantLimit :
           Len(s) + n < b.cap /\ Becomes("insert", Put(Opened(pos, n), pos, n, Fresh), b.len + n)
    BY <2>1
  <2>3. PICK n \in 1..ConstantLimit :
           Len(s) + n < b.cap /\ Becomes("insert", Put(Opened(pos, n), pos, n, Fresh), b.len + n)
    BY <2>2
  <2>4. Inserts(s, Read(Put(Copy(Mem, pos + n, pos, Len(s) - pos), pos, n, Fresh), Len(s) + n),
                LAMBDA block : Invented(block, ConstantLimit))
    BY <2>3, InsertsFresh, Zenon
  <2>5. IsEdit("insert", s, Read(Put(Opened(pos, n), pos, n, Fresh), b.len + n))
    BY <2>4, EditKinds DEF Inserts, Opened
  <2>6. b.len + n \in Nat
    BY <1>0, <2>3
  <2> QED
    BY <1>c, <2>3, <2>5, <2>6
<1>3. CASE DuplicateBytes
  <2> DEFINE After(p, n) ==
               LET src == p[1]
                   dst == p[2]
                   parked == Copy(Mem, b.len + n, src, n)
                   shifted == Copy(parked, dst + n, dst, b.len - dst)
               IN  Copy(shifted, dst, b.len + n, n)
  <2>1. PICK p \in PairsOfIndices : \E n \in {k \in ChooseLen(b.len - p[1]) : HasRoom(2 * k)} :
           Becomes("duplicate", After(p, n), b.len + n)
    BY <1>3 DEF DuplicateBytes
  <2>2. PICK n \in {k \in ChooseLen(b.len - p[1]) : HasRoom(2 * k)} :
           Becomes("duplicate", After(p, n), b.len + n)
    BY <2>1
  <2> DEFINE src == p[1]
             dst == p[2]
  <2>3. /\ src \in 0..(Len(s) - 1) /\ dst \in 0..(Len(s) - 1) /\ n \in 1..(Len(s) - src)
        /\ Len(s) + 2 * n < b.cap /\ b.len + n \in Nat
    <3>1. src \in 0..(N - 1) /\ dst \in 0..(N - 1) /\ N - src \in Nat \ {0}
      BY <1>d, <1>e
    <3>2. n \in 1..(N - src)
      BY <1>a, <2>2, <3>1
    <3> QED
      BY <1>0, <2>2, <3>1, <3>2
  <2> HIDE DEF src, dst
  <2>4. Inserts(s, Read(Copy(Copy(Copy(Mem, Len(s) + n, src, n), dst + n, dst, Len(s) - dst),
                             dst, Len(s) + n, n), Len(s) + n),
                LAMBDA block : block \in Blocks(s))
    BY <2>3, InsertsCopy, Zenon
  <2>5. IsEdit("duplicate", s, Read(After(p, n), b.len + n))
    <3>1. IsEdit("duplicate", s,
                 Read(Copy(Copy(Copy(Mem, Len(s) + n, src, n), dst + n, dst, Len(s) - dst),
                           dst, Len(s) + n, n), Len(s) + n))
      BY <2>4, EditKinds DEF Inserts
    <3> QED
      BY <3>1 DEF src, dst
  <2> HIDE DEF After
  <2> QED
    BY <1>c, <2>2, <2>3, <2>5
<1>4. CASE OverwriteBytes
  <2>1. PICK p \in PairsOfIndices : \E n \in ChooseLen(b.len - p[1] - 1) :
           Becomes("overwrite", Copy(Mem, p[2], p[1], Smaller(n, b.len - p[2])), b.len)
    BY <1>4 DEF OverwriteBytes
  <2>2. PICK m \in ChooseLen(b.len - p[1] - 1) :
           Becomes("overwrite", Copy(Mem, p[2], p[1], Smaller(m, b.len - p[2])), b.len)
    BY <2>1
  <2> DEFINE src == p[1]
             dst == p[2]
             n == Smaller(m, b.len - dst)
  <2>3. /\ src \in 0..(Len(s) - 1) /\ dst \in 0..(Len(s) - 1)
        /\ n \in 1..(Len(s) - dst) /\ n <= Len(s) - src
    <3>1. src \in 0..(N - 1) /\ dst \in 0..(N - 1)
      BY <1>d, <1>e
    <3>4. b.len = N /\ m \in ChooseLen(b.len - src - 1)
      BY <2>2
    <3> HIDE DEF src, dst, n, N
    <3>2. m \in Nat \ {0} /\ m <= N - src
      <4>1. N - src - 1 \in Int /\ m \in ChooseLen(N - src - 1)
        BY <1>0, <3>1, <3>4
      <4>2. m \in Nat \ {0} /\ (m = 1 \/ m <= N - src - 1)
        BY <1>b, <4>1
      <4> QED
        BY <1>0, <3>1, <4>2
    <3>3. n \in 1..(N - dst) /\ n <= m
      BY <1>0, <3>1, <3>2, <3>4 DEF n, Smaller
    <3> USE DEF N
    <3> QED
      BY <1>0, <3>1, <3>2, <3>3
  <2>4. Becomes("overwrite", Copy(Mem, dst, src, n), b.len)
    BY <2>2
  <2> HIDE DEF src, dst, n
  <2>5. Overwrites(s, Read(Copy(Mem, dst, src, n), Len(s)), LAMBDA block : block \in Blocks(s))
    BY <2>3, CopyOverwrites, Zenon
  <2>6. IsEdit("overwrite", s, Read(Copy(Mem, dst, src, n), b.len))
    BY <2>5, EditKinds DEF Overwrites
  <2> QED
    BY <1>0, <1>c, <2>4, <2>6
\* The mutations that write invented bytes over some.
<1>5. ASSUME NEW p \in 0..(Len(s) - 1), NEW n \in 1..(Len(s) - p), NEW longest \in Nat, n <= longest
      PROVE  /\ Overwrites(s, Read(Put(Mem, p, n, Fresh), b.len),
                           LAMBDA block : Invented(block, longest))
             /\ b.len \in Nat
  <2>1. Overwrites(s, Read(Put(Mem, p, n, Fresh), Len(s)), LAMBDA block : Invented(block, longest))
    BY <1>5, PutOverwrites, Zenon
  <2> QED
    BY <1>0, <2>1 DEF Overwrites
<1>6. CASE BitFlip \/ XORByte \/ ArithmeticUint8
  <2>1. PICK p \in Indices : Becomes("byte", Put(Mem, p, 1, Fresh), b.len)
    BY <1>6 DEF BitFlip, XORByte, ArithmeticUint8
  <2>2. p \in 0..(Len(s) - 1) /\ 1 \in 1..(Len(s) - p) /\ 1 \in Nat /\ 1 <= 1
    BY <1>0
  <2>3. Overwrites(s, Read(Put(Mem, p, 1, Fresh), b.len), LAMBDA block : Invented(block, 1))
    BY <1>5, <2>2, Zenon DEF Overwrites
  <2>4. IsEdit("byte", s, Read(Put(Mem, p, 1, Fresh), b.len))
    BY <2>3, EditKinds DEF Overwrites
  <2> QED
    BY <1>0, <1>c, <2>1, <2>4
<1>7. ASSUME NEW p \in 0..(Len(s) - 1), NEW n \in 1..(Len(s) - p), n <= 8,
             Becomes("word", Put(Mem, p, n, Fresh), b.len)
      PROVE  Edited(s)
  <2>1. Overwrites(s, Read(Put(Mem, p, n, Fresh), b.len), LAMBDA block : Invented(block, 8))
    BY <1>5, <1>7, 8 \in Nat, Zenon DEF Overwrites
  <2>2. IsEdit("word", s, Read(Put(Mem, p, n, Fresh), b.len))
    BY <2>1, EditKinds DEF Overwrites
  <2> QED
    BY <1>0, <1>c, <1>7, <2>2
<1>8. ASSUME NEW width \in {2, 4, 8}, ArithmeticUint(width) PROVE Edited(s)
  <2>1. PICK pos \in 0..(b.len - width), carried \in 1..width :
           \E first \in {pos, pos + width - carried} :
              Becomes("word", Put(Mem, first, carried, Fresh), b.len)
    BY <1>8 DEF ArithmeticUint
  <2>2. PICK first \in {pos, pos + width - carried} :
           Becomes("word", Put(Mem, first, carried, Fresh), b.len)
    BY <2>1
  <2>3. first \in 0..(Len(s) - 1) /\ carried \in 1..(Len(s) - first) /\ carried <= 8
    <3>1. width \in Nat \ {0} /\ width <= 8 /\ width <= N /\ pos \in 0..(N - width)
      <4> HIDE DEF N
      <4>1. width \in Nat \ {0} /\ width <= 8
        BY <1>8
      <4>2. width <= b.len
        BY <1>8 DEF ArithmeticUint
      <4> QED
        BY <1>0, <4>1, <4>2
    <3> HIDE DEF N
    <3>2. first \in 0..(N - 1) /\ carried \in 1..(N - first) /\ carried <= 8
      <4>0. carried \in Nat \ {0} /\ carried <= width
        BY <3>1
      <4>1. CASE first = pos
        BY <1>0, <3>1, <4>0, <4>1
      <4>2. CASE first = pos + width - carried
        BY <1>0, <3>1, <4>0, <4>2
      <4> QED
        BY <2>2, <4>1, <4>2
    <3> QED
      BY <3>2 DEF N
  <2> QED
    BY <1>7, <2>2, <2>3
<1>9. ASSUME NEW width \in {1, 2, 4}, OverwriteInteresting(width) PROVE Edited(s)
  <2>1. PICK pos \in 0..(b.len - width) : Becomes("word", Put(Mem, pos, width, Fresh), b.len)
    BY <1>9 DEF OverwriteInteresting
  <2>2. pos \in 0..(Len(s) - 1) /\ width \in 1..(Len(s) - pos) /\ width <= 8
    <3>1. width \in Nat \ {0} /\ width <= 8 /\ width <= N /\ pos \in 0..(N - width)
      <4> HIDE DEF N
      <4>1. width \in Nat \ {0} /\ width <= 8
        BY <1>9
      <4>2. width <= b.len
        BY <1>9 DEF OverwriteInteresting
      <4> QED
        BY <1>0, <4>1, <4>2
    <3> HIDE DEF N
    <3>2. pos \in 0..(N - 1) /\ width \in 1..(N - pos)
      BY <1>0, <3>1
    <3> QED
      BY <3>1, <3>2 DEF N
  <2> QED
    BY <1>7, <2>1, <2>2
<1>10. CASE OverwriteConstantBytes
  <2>1. PICK p \in Indices : \E n \in ChooseLen(b.len - p) :
           Becomes("constant", Put(Mem, p, n, Fresh), b.len)
    BY <1>10 DEF OverwriteConstantBytes
  <2>2. PICK n \in ChooseLen(b.len - p) : Becomes("constant", Put(Mem, p, n, Fresh), b.len)
    BY <2>1
  <2>3. p \in 0..(Len(s) - 1) /\ n \in 1..(Len(s) - p) /\ Len(s) \in Nat /\ n <= Len(s)
    <3>1. p \in 0..(N - 1) /\ N - p \in Nat \ {0}
      BY <1>d
    <3>2. n \in 1..(N - p)
      BY <1>a, <2>2, <3>1
    <3> QED
      BY <1>0, <3>1, <3>2
  <2>4. Overwrites(s, Read(Put(Mem, p, n, Fresh), b.len), LAMBDA block : Invented(block, Len(s)))
    BY <1>5, <2>3, Zenon DEF Overwrites
  <2>5. IsEdit("constant", s, Read(Put(Mem, p, n, Fresh), b.len))
    BY <2>4, EditKinds DEF Overwrites
  <2> QED
    BY <1>0, <1>c, <2>2, <2>5
<1>11. CASE ShuffleBytes
  <2> DEFINE After(order) ==
               [i \in DOMAIN Mem |-> IF i \in DOMAIN order THEN Mem[order[i]] ELSE Mem[i]]
  <2>1. PICK p \in Indices :
           \E n \in {k \in ChooseLen(b.len - p) : k > 2 /\ k <= MaxShuffle} :
           \E order \in Bijection(p..(p + n - 1), p..(p + n - 1)) :
              Becomes("shuffle", After(order), b.len)
    BY <1>11 DEF ShuffleBytes
  <2>2. PICK n \in {k \in ChooseLen(b.len - p) : k > 2 /\ k <= MaxShuffle} :
           \E order \in Bijection(p..(p + n - 1), p..(p + n - 1)) :
              Becomes("shuffle", After(order), b.len)
    BY <2>1
  <2>3. PICK order \in Bijection(p..(p + n - 1), p..(p + n - 1)) :
           Becomes("shuffle", After(order), b.len)
    BY <2>2
  <2>4. p \in Nat /\ n \in Nat /\ p + n <= Len(s)
    <3>1. p \in 0..(N - 1) /\ N - p \in Nat \ {0}
      BY <1>d
    <3>2. n \in 1..(N - p)
      BY <1>a, <2>2, <3>1
    <3> QED
      BY <1>0, <3>1, <3>2
  <2>5. Reorders(s, Read(After(order), Len(s)))
    BY <2>4, Shuffled, Zenon
  <2> HIDE DEF After
  <2>6. IsEdit("shuffle", s, Read(After(order), b.len))
    BY <2>5, EditKinds
  <2> QED
    BY <1>0, <1>c, <2>3, <2>6
<1>12. CASE SwapByte
  <2>1. PICK p \in PairsOfIndices :
           Becomes("swap", [Mem EXCEPT ![p[1]] = Mem[p[2]], ![p[2]] = Mem[p[1]]], b.len)
    BY <1>12 DEF SwapByte
  <2> DEFINE x == p[1]
             y == p[2]
             mem == [Mem EXCEPT ![x] = Mem[y], ![y] = Mem[x]]
  <2>2. x \in 0..(Len(s) - 1) /\ y \in 0..(Len(s) - 1) /\ x # y
    BY <1>0 DEF PairsOfIndices
  <2>3. Becomes("swap", mem, b.len)
    BY <2>1
  <2> HIDE DEF x, y
  <2>4. SwapsBlocks(s, Read(mem, Len(s)))
    BY <2>2, BytesSwapped, Zenon
  <2> HIDE DEF mem
  <2>5. IsEdit("swap", s, Read(mem, b.len))
    BY <2>4, EditKinds
  <2> QED
    BY <1>0, <1>c, <2>3, <2>5
<1>13. CASE SwapBytes
  <2>1. PICK p \in PairsOfIndices : \E n \in ChooseLen(b.len - Larger(p[1], p[2]) - 1) :
           /\ Smaller(p[1], p[2]) + n < Larger(p[1], p[2])
           /\ HasRoom(n)
           /\ Becomes("swap", Swapped(p[1], p[2], n), b.len)
    BY <1>13 DEF SwapBytes
  <2>2. PICK n \in ChooseLen(b.len - Larger(p[1], p[2]) - 1) :
           /\ Smaller(p[1], p[2]) + n < Larger(p[1], p[2])
           /\ HasRoom(n)
           /\ Becomes("swap", Swapped(p[1], p[2], n), b.len)
    BY <2>1
  <2> DEFINE src == p[1]
             dst == p[2]
  <2>3. src \in 0..(N - 1) /\ dst \in 0..(N - 1)
    BY <1>d, <1>e
  <2>4. /\ n \in ChooseLen(b.len - Larger(src, dst) - 1)
        /\ Smaller(src, dst) + n < Larger(src, dst) /\ HasRoom(n)
        /\ Becomes("swap", Swapped(src, dst, n), b.len)
    BY <2>2
  <2> HIDE DEF src, dst
  <2>5. /\ src \in Nat /\ dst \in Nat /\ n \in Nat \ {0}
        /\ src + n <= Len(s) /\ dst + n <= Len(s) /\ (src + n <= dst \/ dst + n <= src)
        /\ Len(s) + n < b.cap
    <3> HIDE DEF N
    <3> DEFINE top == Larger(src, dst)
               low == Smaller(src, dst)
    <3>1. N - top - 1 \in Int /\ top \in Nat /\ low \in Nat /\ top < N
      BY <1>0, <2>3 DEF Larger, Smaller
    <3>2. n \in ChooseLen(N - top - 1)
      BY <1>0, <2>4
    <3>3. low + n < top /\ ((src = low /\ dst = top) \/ (src = top /\ dst = low))
      BY <2>4 DEF Larger, Smaller
    <3> HIDE DEF top, low
    <3>4. n \in Nat \ {0} /\ (n = 1 \/ n <= N - top - 1)
      BY <1>b, <3>1, <3>2
    <3>5. top + n <= N
      BY <1>0, <3>1, <3>4
    <3>6. N + n < b.cap
      BY <1>0, <2>4, <3>4
    <3>7. src + n <= N /\ dst + n <= N /\ (src + n <= dst \/ dst + n <= src)
      <4>1. low + n <= N /\ low + n <= top
        BY <1>0, <3>1, <3>3, <3>4
      <4>2. CASE src = low /\ dst = top
        BY <3>5, <4>1, <4>2
      <4>3. CASE src = top /\ dst = low
        BY <3>5, <4>1, <4>3
      <4> QED
        BY <3>3, <4>2, <4>3
    <3> QED
      BY <2>3, <3>4, <3>6, <3>7 DEF N
  <2>6. SwapsBlocks(s, Read(Copy(Copy(Copy(Mem, Len(s), dst, n), dst, src, n), src, Len(s), n),
                            Len(s)))
    BY <2>5, BlocksSwapped, Zenon
  <2>7. IsEdit("swap", s, Read(Swapped(src, dst, n), b.len))
    BY <2>6, EditKinds DEF Swapped
  <2> QED
    BY <1>0, <1>c, <2>4, <2>7
<1> QED
  BY <1>1, <1>2, <1>3, <1>4, <1>6, <1>8, <1>9, <1>10, <1>11, <1>12, <1>13 DEF MutateBytes

LEMMA SourceIsHeld ==
    ASSUME NEW s \in Seq(Nat), Len(s) \in BaseLengths
    PROVE  s \in Seq(Letters) /\ Holds(CopyOf(s), CapacityFor(Len(s)), s)
<1>1. s \in Seq(Letters)
  BY DEF Letters
<1>2. Len(s) \in Nat /\ CapacityFor(Len(s)) \in Nat /\ Len(s) <= CapacityFor(Len(s))
  BY CapacitySuffices
<1> DEFINE cap == CapacityFor(Len(s))
<1> HIDE DEF cap
<1>3. cap \in Nat /\ Len(s) <= cap
  BY <1>2 DEF cap
<1>4. Holds(ArrayOf(s, cap), cap, s)
  BY <1>3 DEF Holds, ArrayOf
<1> QED
  BY <1>1, <1>4 DEF CopyOf, cap

\* The mutation a case is given, said of the contents of the two slices.
LEMMA MutateEdits ==
    ASSUME CorpusInv, Mutate
    PROVE  IsEdit(mut', Content(base)', Content(b)')
<1> DEFINE s == Source(ref)
<1>1. /\ pc = "mutate" /\ MutateBytes /\ base' = base
      /\ heap = [a \in Arrays |-> heap[a]] /\ ref \in Files \cup {Unset}
      /\ heap["base"] = CopyOf(s) /\ base = SliceOf("base", s)
      /\ heap["mutated"] = CopyOf(s) /\ b = SliceOf("mutated", s)
  BY DEF Mutate, caseVars, CorpusInv, BaseInv
<1>2. s \in Seq(Nat) /\ Len(s) \in BaseLengths
  BY <1>1, SourceType, SourceLength
<1> HIDE DEF s
<1>3. s \in Seq(Letters) /\ Holds(CopyOf(s), CapacityFor(Len(s)), s)
  BY <1>2, SourceIsHeld
<1>4. b.arr = "mutated" /\ b.cap = CapacityFor(Len(s)) /\ b.len = Len(s) /\ Mem = CopyOf(s)
  BY <1>1 DEF SliceOf, Mem
<1>5. Edited(s)
  BY <1>1, <1>3, <1>4, EveryMutationEdits
<1>6. PICK name, mem, len : Becomes(name, mem, len) /\ len \in Nat /\ IsEdit(name, s, Read(mem, len))
  BY <1>5, Zenon DEF Edited
<1>7. /\ heap' = [heap EXCEPT !["mutated"] = mem] /\ b' = [b EXCEPT !.len = len] /\ mut' = name
  BY <1>4, <1>6 DEF Becomes
<1>8. Content(b)' = Read(mem, len)
  <2>1. b'.arr = "mutated" /\ b'.len = len
    BY <1>1, <1>7 DEF SliceOf
  <2>2. heap'["mutated"] = mem
    BY <1>1, <1>7 DEF Arrays
  <2> QED
    BY <2>1, <2>2 DEF Content, Read
<1>9. Content(base)' = s
  <2>1. base'.arr = "base" /\ base'.len = Len(s)
    BY <1>1 DEF SliceOf
  <2>2. heap'["base"] = CopyOf(s)
    BY <1>1, <1>7 DEF Arrays
  <2>3. Content(base)' = [i \in 1..Len(s) |-> CopyOf(s)[i - 1]]
    BY <2>1, <2>2 DEF Content
  <2>4. CapacityFor(Len(s)) \in Int /\ CapacityFor(Len(s)) >= Len(s)
    BY <1>2, CapacitySuffices
  <2> QED
    BY <1>2, <2>3, <2>4, ReadBack DEF CopyOf
<1> QED
  BY <1>6, <1>7, <1>8, <1>9, Zenon

-----------------------------------------------------------------------------
(* The theorems *)

BuildInv == ConfigInv /\ CorpusInv /\ RecordInv /\ TxInv

LEMMA BuildInvInit == Init => BuildInv
<1> SUFFICES ASSUME Init PROVE BuildInv
  OBVIOUS
<1>1. ConfigInv
  BY DEF Init, ConfigInv, Early, Steps
<1>2. CorpusInv
  <2>1. pc = "start" /\ ref = Unset
    BY DEF Init
  <2>2. heap = [a \in Arrays |-> IF a \in Files THEN ArrayOf(Contents[a], Len(Contents[a])) ELSE <<>>]
    BY DEF Init, Arrays
  <2>3. /\ heap = [a \in Arrays |-> heap[a]]
        /\ \A f \in Files : heap[f] = ArrayOf(Contents[f], Len(Contents[f]))
    BY <2>2 DEF Arrays
  <2> QED
    BY <2>1, <2>3 DEF CorpusInv
<1>3. RecordInv /\ TxInv
  BY DEF Init, RecordInv, TxInv, Early, Steps
<1> QED
  BY <1>1, <1>2, <1>3 DEF BuildInv

THEOREM BuildInvariance == Spec => []BuildInv
<1>1. BuildInv /\ [Next]_vars => BuildInv'
  BY ConfigStep, CorpusStep, RecordStep, TxStep DEF BuildInv
<1> QED
  BY <1>1, BuildInvInit, PTL DEF Spec

\* What is recorded as the base of a case is its element of the corpus as it was
\* read, however many cases were mutated before.
THEOREM BasesAreTheCorpus == Spec => []BaseIsTheCorpus
<1>1. BuildInv => BaseIsTheCorpus
  <2> SUFFICES ASSUME BuildInv PROVE BaseIsTheCorpus
    OBVIOUS
  <2>1. ASSUME record # Unset
        PROVE  record.base = IF record.ref = Unset THEN RandomBytes ELSE Contents[record.ref]
    <3>1. GoodRecord(record)
      BY <2>1 DEF BuildInv, RecordInv
    <3> QED
      BY <3>1 DEF GoodRecord, Source
  <2> QED
    BY <2>1 DEF BuildInv, CorpusInv, BaseIsTheCorpus
<1> QED
  BY <1>1, BuildInvariance, PTL

\* A basic case covers its cost with the access list it carries, every case is
\* signed for the chain of the campaign, and its blobs hold its data in as many
\* blobs as it takes and as are recorded.
THEOREM EveryCaseWellFormed == Spec => []CasesAreWellFormed
<1>1. BuildInv => CasesAreWellFormed
  <2> SUFFICES ASSUME BuildInv PROVE CasesAreWellFormed
    OBVIOUS
  <2>1. ASSUME pc = "built", options.family = "basic" PROVE tx.gas >= IntrinsicGas(tx)
    BY <2>1 DEF BuildInv, TxInv, GoodTx, Covered
  <2>2. ASSUME pc = "next", tx # Unset PROVE GoodCase
    BY <2>2 DEF BuildInv, TxInv
  <2>3. ASSUME pc = "next", tx # Unset, options.family = "blob"
        PROVE  LET decoded == Decode(tx.blobs)
                   perBlob == FieldsPerBlob * BytesPerField
               IN  /\ SubSeq(decoded, 1, Len(blobData)) = blobData
                   /\ \A i \in (Len(blobData) + 1)..Len(decoded) : decoded[i] = 0
                   /\ record.blobCount = Len(tx.blobs)
                   /\ record.blobCount = Larger(1, (Len(blobData) + perBlob - 1) \div perBlob)
    <3>1. /\ blobData \in Seq(Nat) /\ tx.blobs = EncodeBlobs(blobData)
          /\ record.blobCount = Len(tx.blobs)
      BY <2>2, <2>3, BuildAssumption DEF GoodCase
    <3> QED
      BY <3>1, BlobsHoldData
  <2> QED
    BY <2>1, <2>2, <2>3 DEF CasesAreWellFormed, GoodCase
<1> QED
  BY <1>1, BuildInvariance, PTL

\* Shifting bytes in place, with scratch space behind the length, does to the base
\* what the mutator says: for any element of the corpus and every mutation.
THEOREM EveryMutationIsAnEdit == Spec => []MutationsAreEdits
<1>1. Init => MutationsAreEdits
  BY DEF Init, MutationsAreEdits
<1>2. BuildInv /\ MutationsAreEdits /\ [Next]_vars => MutationsAreEdits'
  <2> SUFFICES ASSUME BuildInv, MutationsAreEdits, [Next]_vars PROVE MutationsAreEdits'
    OBVIOUS
  <2>1. CASE Mutate
    <3>1. IsEdit(mut', Content(base)', Content(b)')
      BY <2>1, MutateEdits DEF BuildInv
    <3> QED
      BY <3>1, Zenon DEF MutationsAreEdits
  <2>2. CASE pc' # "filled"
    BY <2>2 DEF MutationsAreEdits
  <2>3. CASE UNCHANGED vars
    <3>1. pc' = pc /\ mut' = mut /\ Content(base)' = Content(base) /\ Content(b)' = Content(b)
      BY <2>3 DEF vars, caseVars, mutatorVars, Content
    <3> QED
      BY <3>1, Zenon DEF MutationsAreEdits
  <2>4. ASSUME Next, ~Mutate PROVE pc' # "filled"
    BY <2>4 DEF Next, Ends, Configure, StartCampaign, NextCase, BuildFiller, HashBase,
                BuildCampaignTx, BuildCampaignTxFails, FinishCampaignTx, SignTx, SignTxFails,
                EndCampaign
  <2> QED
    BY <2>1, <2>2, <2>3, <2>4
<1> QED
  BY <1>1, <1>2, BuildInvariance, PTL DEF Spec
=============================================================================
