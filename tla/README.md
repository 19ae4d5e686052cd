# Tx-Fuzz-Plus: specifications, model checking and proofs

TLA+ modules of the campaign engine of Tx-Fuzz-Plus (`runner/`, and the parts of
`spammer/`, `corpus/`, `replay/` and `interestingness/` it calls) and of its spam
loop, the TLC configurations that check them, and theorems that TLAPS proves. Paths below are
relative to the repository.

## 1. Inventory

Tx-Fuzz-Plus sends fuzzed transactions to an Ethereum node. It has two ways of
working: the endless **spam loop** of the original tool, and **campaigns**, which
run a bounded number of test cases, record what became of each, and keep
interesting ones for replay.

| Component | State it keeps | Operations | Talks to |
|---|---|---|---|
| nonce allocation (`runner/nonce.go`, `lane.go`, `orchestrator.go`) | mutex, `next`, `loaded` per address; `leases` per lane | `NewLane`, `Lane.Lease`, `AddressNonceManager.Lease` | the node (`PendingNonceAt`), called by the builder |
| v2 runner (`runner/campaign_v2.go`, `finalize_v2.go`, `report_v2.go`) | FIFO of pending cases, statistics, report | `RunCampaignV2`, `drainOneFinalizedCase` | builder, asynchronous submitter, receipt awaiter, limiter, event log, sink |
| legacy runner (`runner/types.go`) | statistics | `RunCampaign`, `acceptOutcome`, artifact and report writers | builder, blocking submitter, sink |
| in-flight limiter (`runner/inflight.go`) | counts per lane and overall, high-water marks, under one mutex | `TryAcquire`, `Release`, `Snapshot` | v2 runner |
| confirmation tracker (`runner/confirm.go`) | order of hashes, one entry per hash | `TrackSent`, `PendingHashes`, `MarkSLABreaches`, `ApplyReceiptResults`, `FinalizeShutdown` | nobody yet: exported and tested |
| event log (`runner/eventlog.go`) | a JSON-lines file | `Append`, `ReadEventLog` | v2 runner |
| submitter, builder, sink (`spammer/campaign.go`) | the submitter's lane channel, the sink's store | `Build`, `Submit`, `SubmitAsync`, `Await`, `AwaitReceipt`, `Accept`, `ReplayBundle` | node, store, bundles |
| corpus store (`corpus/store.go`) | cases retained per signature, in memory and on disk | `Decide`, `Save` | sink |
| signatures (`interestingness/`), records (`feedback/`) | none | `SignatureForFeedback`, `ScoreFeedback` | `acceptOutcome` |
| replay bundles (`replay/`) | `bundle.json` and `tx.rlp` per case | `ExportBundle`, `LoadBundle` | sink, replay command |
| spam loop (`spammer/spam.go`, `basic.go`, `blob.go`, `eip7702.go`) | one goroutine per key, error channel | `SpamTransactions`, `Send*Transactions` | node |
| airdrop, unstuck (`spammer/helper.go`, `addresslist.go`) | none | `Airdrop`, `Unstuck` | node |
| configuration (`spammer/config.go`, `accounts.go`, `endpoints.go`) | none after start | `NewConfigFromContext`, `ResolveEndpointSelection`, `resolveConfiguredAccounts`, `setupN` | files, flags, node; builder, replay command |
| mutator (`mutator/`) | random source | `MutateBytes` and its eighteen mutations, `FillBytes` | builder, spam loop |
| transaction construction (`transactions.go`, `accesslist.go`) | none | `RandomValidTx`, `RandomBlobTx`, `RandomAuthTx`, the intrinsic gas floor, `EncodeBlobs`, `CreateAccessList` | node; builder, spam loop |
| fork scripts, `helper/`, `report/json.go`, command line | none | one-shot | node |

The campaign engine is where state meets time and failure:

- **Concurrency**: callers of `Lease` on several lanes, with the manager's mutex
  held across an RPC; the limiter's methods. The runners themselves are one
  goroutine, but the node and the clock move between any two of their steps.
- **Time**: a v2 case is subject to a receipt timeout, an SLA and a drain budget,
  each counted from a different instant, and the drain phase has a deadline of its
  own, a context that both `Await` and the receipt wait inherit.
- **Ordering**: cases are finalised in the order of submission from two places
  (window full, drain); the tracker may get late, repeated and contradictory answers.
- **Failure**: the builder, the submission, the receipt lookup and every file write
  of the sink may fail, each leaving different things done, and so may the report that is
  written after the last case; the reply of a send may be lost although the node took the
  transaction; a process may die between two writes.

A campaign never gives a nonce back. A case the node refuses leaves a gap, above which
the later cases of its sender wait (`RejectionStrands`); a case whose answer was lost is
counted as refused and may be mined all the same, and giving its nonce back would make
two cases compete. The authorisation of a pectra case is signed by the sender itself
with the nonce of the transaction. The protocol uses that nonce up before it looks at
the authorisation, so the authorisation is passed over; the test
`TestBuildCampaignTxPectraSharesNonceDomainForSameAddress` asks for exactly this nonce.

In the spam loop one goroutine per key sends without any shared counter: each asks
the node for the pending nonce of its account before each transaction. The loop
ignores what `Unstuck` and `SpamTransactions` return, so that it goes on whatever
fails there, but it ends with the first error of `Airdrop`. The goroutines are joined by a wait
group and report into a channel that has room for all of them. The accounts may be
the faucet too (an accounts file), and a pectra transaction carries an authorisation
of any key, which uses up a nonce of that key when the node executes it. `Airdrop` waits for its last
transaction without a timeout: if the node has lost that one or an earlier one, the
program waits for ever (`AirdropStranded` in `SpamLoop`).

A campaign's builder copies an element of the corpus (or draws random bytes), mutates
a second copy in place, hashes the first one, and asks the node up to five more times to
construct a transaction around the code generated from the mutated bytes: chain, gas price, estimate,
access list, fee caps. Each call may fail or answer differently from the last; some
failures end the campaign, others are replaced by defaults (chain 1, 100000 gas). The
mutations shift overlapping ranges and use the unused end of the capacity as scratch
space: `append` rounds the capacity of a copy up to the next size the allocator has
(10,240 for 10,000 bytes). The command `replay` may run beside a campaign, or after one that died.

What makes each component correct: unique and contiguous nonces, and no caller
blocked for ever (nonces); no slot lost, caps held, justified refusals, and one slot of one lane at
most for each release too many (limiter); every
case finalised once, in order, with artifacts, events and report counters that
agree, and an end to the campaign whatever the node does (runners); a corpus that
represents every signature by its best case and can be replayed (store, bundles);
final states that stay final and transitions that tell everything (tracker); every
phase ends, stuck accounts are noticed, and nothing but `Unstuck` replaces
transactions (spam loop); a configuration without zero divisors and missing keys,
mutations that are edits of a copy, transactions for the right chain, with enough gas, and
blobs that hold their data (builder).

## 2. Modules

| Module | Models | Correspondence |
|---|---|---|
| `NonceTickets` | abstract | a dispenser of consecutive numbers per address |
| `NonceLease` | nonce allocation | one process per lane; `pc` marks the steps of `Lease` others can fall between: mutex, RPC, load, grant, store into the lane's cache. `mu`, `next`, `loaded`, `leases` are the Go fields |
| `CampaignPipeline` | abstract | cases submitted and finalised in order, a window, one verdict each, complete only with all verdicts |
| `FeedbackRecords` | `feedback.Record`, `IsCanonicalFeedbackTerminal`, `isTerminalConfirmState`, `SignatureForFeedback` | pure operators shared by the two runners |
| `CampaignV2` | the v2 runner with submitter, sink, limiter | one action per stretch of `RunCampaignV2` / `drainOneFinalizedCase` between two calls that leave the runner; `Tick`, `Mine`, `Drop` are the environment |
| `CampaignLegacy` | the legacy runner | the same for `RunCampaign` with the blocking `Submit` |
| `CampaignNonces` | the builder's senders, leases and authorisations, the submission, and a node with account nonces | `INSTANCE NonceLease` with one lane per case; `nonce`, `auth` are the fields the builder signs with; `Mine`, `Drop`, `OtherSends` are the environment |
| `Retention` | `campaignSink.Accept`, `Store`, `ExportBundle`, `LoadBundle`, `ReplayBundle`, `runReplay` | every file write is two steps, truncation and contents; `Restart` is a crash or a new campaign on the same directories; `ReplayLoad` and `ReplaySend` are the two reads of another process, the second with the dial and the call that follow it |
| `ConfirmTracker` | `ConfirmTracker` | one action per method; the caller is arbitrary, and what it tracks comes with any receipt and age. `receipt` is the receipt of an entry, `given` what it was tracked with |
| `InFlightLimiter` | `InFlightLimiter` | one action per method (each holds the mutex throughout), several workers and lanes. `StrayRelease` is a `Release` by someone who holds no slot on the lane; `strays` counts those that met a holder |
| `SpamLoop` | `spam` of the command line, `Unstuck`, `Airdrop`, `SpamTransactions`, the three senders | a step ends where the code calls the node; `mpc` and `gpc[k]` mark the next call of the main goroutine and of the goroutine of key `k`; `Mine`, `Drop` are the environment |
| `Configuration` | `NewConfigFromContext` and what it calls, `normalizeCampaignOptions`, `validateCampaignExecutionMode` | pure operators from a command line (a record of flags and the files they name) to the set of configurations, empty for an error |
| `Mutator` | `MutateBytes` and its mutations | one action per mutation on `heap` (arrays), `b` (a slice: array, length, capacity); each early return is a guard, each random draw an existential |
| `Transactions` | `transactions.go`, `CreateAccessList` | pure operators from the node's answers to a transaction or `Failed`; blobs as functions of fields |
| `CampaignBuild` | `RunCampaignFamilyFromContext`, `campaignBuilder.Build` over the three above | one action per call of `Build`; the arrays of the corpus live as long as the campaign |
| `*Proofs` | | the theorems; see section 4 |

How data is abstracted. A case is its number. A feedback record keeps the send
status, the status of the receipt, the set of anomaly flags and the confirm state;
the code never branches on anything else. Signatures are the triples that
`SignatureForFeedback` hashes (one text of an RPC error is distinguished; the
execution bucket is a function of the receipt status). Time is kept as ages (since
`RunStartedAt`, since the start of the receipt wait, since the start of the drain)
saturated at the largest budget each is compared with, so no clock needs a bound. In
`CampaignV2` the limiter is its count for the one lane, of which `globalCap` and
`laneCap` are equal. `InFlightLimiter` checks the general limiter by itself.

At an instant where a deadline and an answer coincide both outcomes are allowed:
`ReceiptSeen` is enabled up to and at the deadline, `ReceiptTimesOut` from it on.
`internal_error` (a case without a transaction) is left out: the campaign's builder
always makes one. Both runners are modelled to the end of the command: the report is
written or not (`WriteReportV2`; `Finish` of `CampaignLegacy`). In `CampaignV2`,
`AcceptFails` covers the sink's writes one by one; how they may be torn is `Retention`'s matter. In `Retention` a failed write is
the same as a crash, since the campaign returns after it; `Accept` is run to its end
for one case before the next begins, as both runners do. `Release` knows only a lane and
no holder, so that one too many on a lane with a holder frees that slot. No caller in the
repository makes one and the unit test makes it on empty lanes; `InFlightLimiter` allows
both, and its properties say how far it reaches.

In `Mutator` a byte is a token: a byte that is computed or drawn is `Fresh`, the others
are tokens of the base, so that a byte in the wrong place shows. `IsEdit` says of the
contents before and after what each mutation is meant to do, without arrays, positions
of scratch space or capacities. A mutation that does not apply returns before it writes
and `MutateBytes` tries another one: such an iteration is a stutter, and an endless
series of them a state in which `Mutate` is not enabled. In `Transactions` prices, recipients and
code are left out; of code it matters what it costs to carry, of prices whether the node
gave them.

The `Mutant of ...` operators beside the definitions are plausible errors of the
code. Each property is broken by at least one of them, which shows that it depends
on the code it is about.

## 3. Runs

| Run | Instance | What it shows |
|---|---|---|
| `nonce_lease` | 3 lanes, 2 addresses, node nonce 0..1 at any time | `UniqueLease`, `NoGapInLeases`, `RequestReturns`, and `ImplementsTickets`: the refinement of `NonceTickets` |
| `campaign_v2` | 3 cases, window 2, SLA 1, receipt timeout 1, drain 2, one case per signature | limiter, queue, artifacts, report and retention fit together; a wait cut off by the drain ends terminal; the campaign ends; it implements `CampaignPipeline` with the window |
| `campaign_legacy` | 3 cases, timeout 1, 2 per signature | it ends, its report adds up, and it implements `CampaignPipeline` with window one |
| `retention` | 3 cases, 2 signatures, 2 scores, cap 2, 2 campaigns, replays at any time | `ReplayNeedsOnlyNode`, `BestIsKept`, `OneOriginal` with a crash anywhere |
| `confirm_tracker` | 2 hashes, 3 calls of `TrackSent` with no receipt or a reverted one, batches of 2, SLA 1 | transitions tell all, an included entry has the receipt that fits and no other one's is touched, batches are what is open in the order of tracking, terminal is final |
| `inflight_limiter` | 4 workers, 2 lanes, caps 3 and 2 (those of the unit test), any number of releases too many on empty lanes, two on occupied ones | counts are holders, caps hold and marks are maxima, all but for one holder of the lane for each release too many; refusals are justified |
| `campaign_nonces` | 4 pectra cases of 2 keys, 1 foreign transaction per key | `TxNoncesConsecutive`, `OnlyOthersDisplace`, `RejectionStrands`, and without a mishap `AllGetIncluded` |
| `spam_loop` | 2 keys, key 1 is the faucet, 1 pectra transaction each, 2 tries, up to 2 transactions held per account at the start | `PhasesEnd`, `PassedOverIsClear`, `OnlyUnstuckReplaces` |
| `campaign_build` | five groups of command lines (endpoints, accounts, block and counts, options, corpus), corpus files of 0, 1, 5 and 9 bytes, random bases of 2, 2 cases | `ConfigIsUsable`, `MutationsAreEdits`, `BaseIsTheCorpus`, `CasesAreWellFormed`, `BuildEnds` |
| `drain_deadline` | 2 cases, window 2 | violated: see below |
| `in_flight_window` | 2 cases, window 1 | violated: see below |
| `retain_directory` | 2 cases, 1 signature, cap 1, 2 campaigns | violated: see below |

**Why the bounds are enough.** Three lanes let one hold the mutex in the RPC, one
wait, and one return with an error; a node nonce that can move by one reveals a
second load. Three cases through a window of two reach a full window, a case behind
the head while the head is finalised, and a drain with two cases left; with SLA and
receipt timeout below the drain budget every budget can run out before and after
every other. Two scores and a cap of two let a better case evict a worse one. The
tracker's third `TrackSent` repeats a hash, before or after it was over, and the
batch size of two meets both full and partial batches. An entry that comes with the reverted
receipt of an earlier inclusion, and is older than the SLA, is what a caller passes that
tracks again what `Tracked` gave it. Releases too many meet one and several holders, on a full
lane and on another one. Four cases of two keys let each
key have an earlier and a later case with another key's between them. Named bounds: `MaxChain`
(node nonce), `MaxTracked` (calls of `TrackSent`), `Passed` (what they pass), `MaxStray`
(releases too many on an occupied lane), `MaxRuns` (campaigns),
`MaxOther` (transactions of somebody else per account), `MaxRounds` (rounds of the
spam loop), `MaxStuck` (nonces held when it starts).

In `spam_loop`, `Tries` and `BatchSize` are constants because the code's 100 and 50 are
out of reach: two tries and batches of one meet the last try, an earlier one, and a
difference larger than a batch. The initial pool is any subset of two nonces per account, hence
empty, contiguous, or with a gap. One round with one transaction per key is what
fits the run; the theorems about `SpamLoop` hold for any number of each. The error
channel is full exactly when all goroutines have reported, so its bound is met.

In `campaign_build` the flags of one group vary at a time, since the groups are read
one after the other and meet only in the counts and clamps of the block group. A base of
nine bytes has room for every mutation: the eight-byte arithmetic, two
blocks apart for `SwapBytes`, a block before and after a duplicated one, and seven unused bytes of its
capacity of sixteen as scratch space. One byte, two bytes and none meet the early returns.
`SizeClasses` are the sizes of Go's allocator up to the largest base here, and any sizes
that have room for the bases in the theorems. `Sockets` are the endpoints that `rpc.Dial`
connects to at once, here one of two. `MaxShuffle` bounds
the range whose permutations are enumerated, `WordSize` the unsigned word a negative
`txcount` wraps in. A blob has two fields of two bytes here, and data of up to
nine bytes ends in the middle and at the end of fields and blobs, and takes up to three blobs. Two
random bytes stand for ten thousand: what matters of them is that there are some.

**Symmetry** is used only in `MCRetention`, over case ids: they are unique and never
compared, the initial value of `cur` ranges over all of them, and the run has no
liveness property.

**Fairness.** `NonceLease`: each goroutine's next statement is weakly fair, an RPC
returns with an answer or an error (go-ethereum's client gives up when the
connection fails), and acquiring the mutex is strongly fair (Go's `sync.Mutex`
hands over to a waiter it has starved for a millisecond). Nobody is obliged to ask
and no RPC is obliged to succeed. `CampaignV2` and `CampaignLegacy`: the runner's
goroutine is scheduled and its calls return (`WF(RunnerStep)`), and time passes
(`WF(Tick)`). The node owes no receipt, and no error either: `ReceiptLookupFails` is
outside the fairness, so that the end of a wait rests on the timeout alone. In
`CampaignNonces`: the same for the runner, and the node includes what is next for an
account (`WF(Mine)`), which only `AllGetIncluded` uses. `SpamLoop`: the main
goroutine (`WF(MainStep)`) and each other one (`WF(KeyStep(k))`) are scheduled, their calls
return and their waits with a timeout end, and the node includes what is next
(`WF(Mine)`); the node may still drop anything first, and no failure of the airdrop
is owed, so that `PhasesEnd` does not hold because errors end the program. In
particular `SendTransaction` is assumed to return: the code passes it a context
without a deadline. `CampaignBuild`: one goroutine whose calls return, with an answer or
an error (`WF(Next)`); a mutation that applies is drawn sooner or later, since every
iteration of `MutateBytes` is an independent draw.

**Deadlock** is checked where the system never stops (`inflight_limiter`,
`confirm_tracker`). The others end: a campaign returns, all leases are taken, the
pool is empty, all cases are stored, the spam loop has exited or reached `MaxRounds`,
a program has ended or mutates an empty file for ever.

**Disagreements between the code and its documentation**

1. `drain_deadline`: `flags/flags.go:151` describes the drain timeout as the time
   "before unresolved_shutdown classification". When it has expired, the `select` in
   `Await` (`spammer/campaign.go:465`) may take `ctx.Done()` although the record of
   the case is ready: `RunCampaignV2` fails, no report is written and the rest of the
   queue stays unclassified. Otherwise each remaining case is classified with a receipt
   wait that ends at once, which is what `DrainDeadlineTerminal` is about.
2. `in_flight_window`: `flags/flags.go:139` promises a maximum of in-flight
   transactions; a case whose receipt wait times out gives its slot back
   (`finalize_v2.go:67`) with its transaction still in the pool. What does hold is
   `LimiterAgrees`: the window bounds cases that are not finalised.
3. `retain_directory`: `flags/flags.go:127` limits the retained cases per signature.
   `NewStore` forgets earlier campaigns and evicted entries are never deleted. What does
   hold is `BestIsKept`, for the store of one campaign.

Others no run is about, because they hang on one condition or on a choice of the
environment:

- `flags/flags.go` gives the flag `sk` a default value, so that `NewConfigFromContext`
  (`spammer/config.go:98`) always replaces the faucet of the accounts file, of which the
  flag `accounts-file` says that it is "used for sender/faucet selection"
  (`Faucet` in `Configuration`).
- The flag `receipt-timeout` "defaults to that value when unset", the drain timeout, by its own
  text; its default is two seconds.
- An accounts file that is named and does not exist counts as an empty one: the keys compiled into
  the program are used without a word (`LoadAccountEntries`).
- Campaigns label their records with the flag `rpc-label` and not with the
  label resolved from the endpoint inventory.
- `RandomValidTx` promises a transaction that is "well-formed" (`transactions.go:104`). The
  gas of basic cases is raised to what they cost (`CasesAreWellFormed`), but the tip and
  the fee cap are two answers of the node (`getCaps`) and nobody compares them; and the gas of
  blob and pectra cases is the estimate for a plain call, whatever their access list and
  authorisations cost.
- An empty file in the corpus directory hangs a campaign (`BuildEnds`): the copy of no
  bytes has no capacity and no mutation applies. In the spam loop the same file does no
  harm, as the slice `os.ReadFile` returns has room.
- A bundle that cannot be read, a URL that is not given and a node that cannot be dialled make
  the command `replay` crash instead of reporting an error, as `runReplay` prints fields of
  the bundle that is nil (`cmd/livefuzzer/main.go:211`). `ReplayNeedsOnlyNode` shows that
  the files of a case listed in the corpus are never the reason.
- A negative `txcount` is converted to an unsigned word (`spammer/config.go:119`) and asks for
  a huge number of transactions. `ConfigIsUsable` only asks for a positive one.

## 4. Proofs

TLAPS checks these for every value of the constants that satisfies the named assumptions.
They say only what the code ensures or what the encoding needs:

- `CampaignAssumption`, `TrackerAssumption`, `RetentionAssumption`, `SpamAssumption`: the options
  are positive where the code replaces the others by defaults, and may be 0 where that means "none".
- `LegacyAssumption`: the same for the legacy runner.
- `LeaseAssumption`, `NoncesAssumption`, `LimiterAssumption`: there is an address and there are
  finitely many workers, and "no lane", "no nonce" differ from lanes and nonces.
- `ConfigurationAssumption`: the keys compiled into the program are a list that is not empty, the
  defaults are positive, "unset" and "invalid" are different values.
- `CommandLineAssumption`: numeric flags are integers (`flag` parses them), a file that can be read
  is a list of entries, a corpus directory a set of files. Files may be missing or unreadable,
  and numbers zero or negative.
- `SizeAssumption`: the allocator has a size for the bytes of every base.
- `BuildAssumption`: contents are sequences of bytes, the arrays the builder makes differ from those of
  the corpus, and the node's numbers are numbers. `TransactionsAssumption`,
  `MutatorAssumption`: the sizes of blobs and fields are positive, the bound on shuffles is a number.

The modules and their arguments:

- `NonceLeaseProofs`: `TypeCorrect`, `LeasesUnique`, `LeasesContiguous`,
  `Refinement`. The properties speak of lanes; what makes them inductive is the
  mutex: exactly the lane between `Lock` and `Grant` holds `mu`, a lane about to
  load finds the address not loaded, and the numbers held for a loaded address are
  those from `base` up to `next - 1`, each by one lane. The refinement maps a load to
  opening an address, a grant to handing out its next ticket, everything else to
  a stutter.
- `CampaignNoncesProofs`: `NoncesAreConsecutive`, `CasesKeepTheirNonces`,
  `GapsStrandLaterCases`. `AllocInv`
  says that the counter of a loaded account is its first value plus the number of
  earlier cases of that account, which needs that the account is loaded before its first
  grant and never again; `NetInv` ties what the node holds to the nonces of the
  cases, and that a case is not in the pool before it is signed. Two cases of one
  sender have had a different number of turns, hence different nonces. For the last theorem
  `SignedInv` adds that every case before the current one is signed. The node includes
  one nonce of an account after the other, so that a later case can only be included when the
  nonce of the earlier one has been used up, by that case or by somebody else.
- `CampaignV2Proofs`, the runner: `TypeCorrect`, `LimiterNeverRefuses`, `FifoHolds`,
  `DrainDeadlineIsTerminal`, `PipelineRefinement`. The invariant `Inv` has four parts.
  `RunnerInv`: the limiter's count equals the queue's length plus one while a submission is under
  way; the queue is not empty where its head is taken, not full where a case is
  built, and holds only cases already begun. Without the last parts the error returns
  break it. `DataInv`: the types of everything else. `FifoInv`: with `Subs` the cases
  submitted, `Gone` those that have left the queue and `Done` those with a record, the queue is
  exactly `Gone + 1, ..., Subs`, and exactly the first `Done` cases have records; the error
  returns decide which of the three numbers the last case counts for. `DrainPhase`: the drain
  begins only when all cases have been submitted. From these `FifoOnce` follows, and
  the refinement maps each step to submitting, finalising, completing, aborting, or a
  stutter of `CampaignPipeline` (`StepMaps`).
  The drain theorem needs one fact more, `OlderThanDrain`. The budget of a case starts
  when it is built, the deadline when the drain starts: the clock of a waiting case is never
  behind that of the drain, or has passed the drain budget.
- `CampaignV2Proofs`, the sink: `ArtifactsHold`, `SignaturesKept`, `ReportAlwaysAddsUp`. Every
  step is first classified by what it does to records, log, files and counters (`StepKinds`:
  a case begins, is sent, gets its record, is accepted, fails, the campaign finishes, or
  nothing of these). Over these kinds `SinkInv` is kept, part by part. `LogInv`: each record is one the
  code can write, and the log has its events once, in order, and a closing one exactly if the
  record is final. `FilesInv`: which cases have metadata, feedback and bundles. `StoreInv`: a
  signature met is in the store, no more often than the cap. `CountInv`, `DuplicateInv`:
  each counter is the number of cases it stands for, and duplicates are the accepted cases whose
  signature was known, that is, all but one per signature. `PublishedInv`: a published report
  has the totals of the statistics.
- `CampaignLegacyProofs`: `ReportAlwaysAddsUp`, `PipelineRefinement`. The legacy runner has two
  numbers, `Subs` cases submitted and `Taken` cases accepted, at most one apart (`TurnInv`);
  every step is again of one of a few kinds (`StepKinds`). `RecordInv`: an accepted
  case has the record its submission returned; `StoreInv`, `CountInv`: artifacts and counters
  are functions of the first `Taken` records, except that the sink's failure leaves the case it
  failed on counted as sent (then no report is written).
- `RunnerPartsProofs`, the tracker: `ReceiptsAgree`, `TerminalIsFinal`, `TransitionsSuffice`,
  `PollsAreComplete`. For the first,
  state and receipt are written at different places of `ApplyReceiptResults`, and `TrackSent`
  sets the state but leaves the receipt to its caller: an entry of an included transaction
  that is tracked again waits for a receipt with one observed. What holds is said relative to
  what was passed (`given`): an entry that ended reverted has a reverted receipt, one that
  ended in success an observed one, and an entry that is not included the one it came with.
  `TransitionsSuffice`: a caller that applies the transitions returned
  to it knows every state. `ApplyReceiptResults` sorts the hashes it visits, and that ascending
  order meets each of them once is shown by the least number for which it would not
  (`AscendingFacts`); the loops over `order` act on a hash at the first place it has there.
  `PollsAreComplete`: every place of an open hash in `order` is at one position of one
  batch, computed from the number of open places before it (`BatchOf`, `BatchUnique`); so the
  batches are in the order of tracking, and all but the last are full.
- `RunnerPartsProofs`, the limiter: `NoSlotLost`, `CapsHold`, `RefusalsJustified`, by
  counting: the counts are those of a set of holders, of whom a release too many takes one of the
  lane it is made on, or nobody from a lane without counted holders. A worker that releases a
  slot after that takes another's place in the set or finds its count at zero. `MarksAreMaxima`: as
  the marks are never below the counts (`Marked`), a release cannot make them stale.
- `RetentionProofs`: `ListedIsReplayable`, `EntryHasBundle`, `StoreKeepsBest`,
  `OneOriginalEach`. `DiskInv` says that a case the corpus knows, by its entry file
  or in memory, has a complete bundle; what keeps it is that Accept writes bundles only of a
  case that is new to the corpus (`CurrentIsNew`), so that no rewriting can reach a
  bundle a replay relies on. What the replay does with the whole transaction (no connection, an
  error, delivery) is the node's matter. `MemoryInv` says that the store has, for each signature, a case
  no decision of the campaign beats: `Save` keeps a best of what it sorts (`KeepsBest`),
  and what `Decide` turns away beats none of the best. With it, the store is
  empty exactly for the signatures not met, which is what makes originals unique. That
  no case is accepted twice is needed for both halves.
- `SpamLoopProofs`: `PassedOverAreClear`, `SendersNeverReplace`. The pending
  nonce is the account's nonce plus the number of transactions the node can include
  one after the other, so it is one the node holds no transaction of, whether or not
  others wait above a gap (`RunLength`, `PendingFresh`). It stays unheld until its
  reader sends (`Fresh`): inclusion, eviction and authorisations only take away, the goroutine
  of a key is the only sender of its account, and the faucet sends when no goroutine
  does. For the other theorem, the nonce `isStuck` reads first is never ahead of the
  account (`Behind`), so that equality with the second means that nothing is waiting; this is
  said of every account `Unstuck` goes on from, the last one, after which the airdrop begins, too.
- `CampaignBuildProofs`: `EveryConfigIsUsable`, `BasesAreTheCorpus`, `EveryCaseWellFormed`,
  `EveryMutationIsAnEdit`. `BuildInv` has four parts. `ConfigInv`: the program gets past the
  configuration only with one that has keys, a positive count of transactions and positive
  options; the case of a negative `txcount` is the one with arithmetic. `CorpusInv`: the arrays of
  the corpus are as the files were, whatever is mutated. `RecordInv`: the recorded base is
  the element (or the random bytes) it was taken from. `TxInv`: a transaction is for the right
  chain and, for a basic case, carries at least what it costs, with blobs that hold their data.
  `EncodeBlobs` is a recursive function of the field: that it exists (`EncodingExists`) and its loop
  invariant (`Encoded`: after `k` fields the blobs hold the first `k` stretches of the
  data and zeros) are shown by the least field that would violate them (`LeastNumber`).
  For the mutations, `Holds` says that the array the slice is in starts with a sequence. Each copy and
  each store of a mutation is followed index by index, through overlapping shifts and
  the scratch space beyond the length, to what `IsEdit` asks for, by a lemma per kind of edit: `LeftOut`,
  `PutIn`, `Replaced`, `WrittenOver`, `PiecesSwapped`, and `OrderChanged` for shuffles, where a
  bijection of the positions keeps the occurrences of every byte.

Every invariant, every action property and every refinement of a passing run is proved. Only
model-checked are the liveness properties (`RequestReturns`, `Termination` of both runners,
`AllGetIncluded`, `PhasesEnd`, `BuildEnds`), since the prover does not reason about fairness,
and of course the three properties that are violated. The library's induction theorems take an operator as a
parameter, which the provers cannot instantiate: where a proof goes over the data, it
takes the least counterexample instead.

## 5. Not modelled

See `PROJECT.json`, `components`, for every part with its reason. Left out on
purpose: wording of errors, JSON layout, latencies and throughput, random
generation, trimming and prefixing of flags.

- The fork scripts (`cmd/cancun`, `cmd/prague`, ...) and `helper/`: each sends fixed
  transactions one after the other, panics on any error of the node and keeps no
  state. There is nothing in them for several actors or steps to get wrong that is not
  a property of the node they try out.
- `RandomTx`, and the branches of `transactions.go` for a missing client: no program of
  the repository uses them. `MutateAccessList` has no caller either.
- Lost events: the errors of `EventLog.Append` are ignored at every call, and no part of
  the program reads the log back (`ReadEventLog` is for tests), so that a failed append
  changes the log and nothing else. `CampaignV2` has appends that succeed.
- Of the spam loop, the random bytes and the data race on the elements of the corpus
  (`spam.go:28`): what is sent is abstract. `SendTx` has no caller in it. Nobody else sends
  from the accounts while it runs, and no key is in the accounts file twice: then the pending
  nonce may be used up between its read and the send by someone the program knows nothing of, and
  `OnlyUnstuckReplaces` says nothing of that. (For campaigns, `CampaignNonces` has the other sender.)
- `Store.write` rewrites all entry files of a signature in place, so a crash may leave cut
  an entry that was complete before. `Retention` has that step; no document promises
  otherwise, and `ReplayNeedsOnlyNode` says that its bundle can still be replayed.

## 6. Plan

1. The gas of blob and pectra cases, which is the estimate for a plain call: a property of
   `Transactions` that says by how much it may fall short of what the case costs.
2. `EventLog` with failing appends, if a part of the program comes to read the log.
