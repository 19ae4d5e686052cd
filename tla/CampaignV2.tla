----------------------------- MODULE CampaignV2 -----------------------------
(***************************************************************************)
(* The v2 single-lane campaign: RunCampaignV2 (runner/campaign_v2.go), the *)
(* finalisation of one case (runner/finalize_v2.go), the in-flight limiter *)
(* as this runner uses it (runner/inflight.go), the asynchronous submitter *)
(* and the sink of spammer/campaign.go, and the counters of acceptOutcome  *)
(* and ReportV2.                                                           *)
(*                                                                         *)
(* The runner is one goroutine; between its steps the clock advances and   *)
(* the node mines or drops transactions.  Time is kept as the ages that    *)
(* the code compares with its budgets, each saturated at the largest       *)
(* budget it is compared with, so no clock has to be bounded.              *)
(***************************************************************************)
EXTENDS FeedbackRecords, Sequences

CONSTANTS Cases,           \* Config.Cases
          MaxInFlight,     \* V2Options.MaxInFlight
          ConfirmSLA,      \* V2Options.ConfirmSLA
          ConfirmDrain,    \* V2Options.ConfirmDrain
          ReceiptTimeout,  \* V2Options.ReceiptTimeout, 0 when unset
          RetainPerSig     \* cap of the corpus store

\* RunCampaignV2 returns at once when Cases <= 0, and replaces every other
\* option that is not positive by a positive default.
ASSUME CampaignAssumption ==
    /\ Cases \in Nat \ {0}
    /\ MaxInFlight \in Nat \ {0}
    /\ ConfirmSLA \in Nat \ {0}
    /\ ConfirmDrain \in Nat \ {0}
    /\ ReceiptTimeout \in Nat
    /\ RetainPerSig \in Nat \ {0}

VARIABLES
    pc,        \* where the runner stands
    err,       \* what made RunCampaignV2 return an error, "none" for nothing
    seq,       \* the loop variable i: cases begun so far (stats.TotalCases)
    pending,   \* the FIFO of submitted, unfinalised cases
    inFlight,  \* InFlightLimiter.global, which equals perLane[LaneID]
    maxSeen,   \* InFlightLimiter.maxLaneObserved[LaneID]
    send,      \* send[i]: the SendStatus the submission of i completed with
    result,    \* result[i]: the finalised feedback record of case i
    draining,  \* the drain context exists
    age,       \* age[i]: time since RunStartedAt of case i
    waited,    \* time since the current receipt wait began
    drainAge,  \* time since the drain began
    node,      \* node[i]: the transaction of case i as the node sees it
    log,       \* the event log
    files,     \* case metadata, canonical feedback and bundles on disk
    retained,  \* the cases in the corpus store
    stats,     \* runner.Stats, without TotalCases
    report,    \* the counters of ReportV2
    published  \* the report was handed to the caller and written

runner  == <<pc, err, seq, pending, inFlight, maxSeen, draining, published>>
records == <<send, result, log>>
clocks  == <<age, waited, drainAge>>
sink    == <<files, retained, stats, report>>
vars    == <<runner, records, clocks, node, sink>>

Case == 1..Cases

-----------------------------------------------------------------------------
(* Budgets, records and their classification *)

\* The receipt wait of one case; unset or too long, it becomes ConfirmDrain.
ReceiptBudget ==
    IF ReceiptTimeout = 0 \/ ReceiptTimeout > ConfirmDrain
    THEN ConfirmDrain ELSE ReceiptTimeout

AgeCap == IF ConfirmSLA > ConfirmDrain THEN ConfirmSLA ELSE ConfirmDrain

Later(t, cap) == IF t < cap THEN t + 1 ELSE t

IncludedRecord(status) ==
    [send |-> "sent", receipt |-> status, flags |-> {},
     confirm |-> IF status = "reverted" THEN "included_reverted"
                                        ELSE "included_success"]

\* Mutant of UnconfirmedRecord: the drain budget is measured from the start of
\* the receipt wait.
UnconfirmedSinceWait(i, flag) ==
    LET breached == age[i] >= ConfirmSLA
        shutdown == flag = "receipt_timeout" /\ waited >= ConfirmDrain
    IN [send |-> "sent", receipt |-> "none",
        flags |-> {flag}
                    \cup (IF breached THEN {"sla_breached_pending"} ELSE {})
                    \cup (IF shutdown THEN {"unresolved_shutdown"} ELSE {}),
        confirm |-> IF shutdown THEN "unresolved_shutdown"
                    ELSE IF breached THEN "sla_breached_pending"
                    ELSE "awaiting_receipt"]

\* applyConfirmBudgetState and finalizeConfirmState for a wait that ended
\* without a receipt, flag saying why.  slaStart is RunStartedAt: the builder
\* stamps it before SubmitAsync stamps SubmitStartedAt, and the code takes the
\* earlier of the two.
UnconfirmedRecord(i, flag) ==
    LET breached == age[i] >= ConfirmSLA
        shutdown == flag = "receipt_timeout" /\ age[i] >= ConfirmDrain
    IN [send |-> "sent", receipt |-> "none",
        flags |-> {flag}
                    \cup (IF breached THEN {"sla_breached_pending"} ELSE {})
                    \cup (IF shutdown THEN {"unresolved_shutdown"} ELSE {}),
        confirm |-> IF shutdown THEN "unresolved_shutdown"
                    ELSE IF breached THEN "sla_breached_pending"
                    ELSE "awaiting_receipt"]

\* appendFinalizeEvent: at most one event, none for awaiting_receipt.
FinalEvents(i, r) ==
    LET type == IF r.send # "sent" THEN "send_rejected"
                ELSE IF r.receipt # "none" THEN "receipt_seen"
                ELSE IF r.confirm = "unresolved_shutdown" THEN "unresolved_shutdown"
                ELSE IF r.confirm = "sla_breached_pending" THEN "sla_breach"
                ELSE "none"
    IN IF type = "none" THEN <<>> ELSE <<[type |-> type, case |-> i]>>

\* The entries the store holds under the signature of r.
Entries(r) == {j \in retained : Signature(result[j]) = Signature(r)}

\* Mutant of Retains: the cap is exceeded by one.
RetainsOneMore(r) == Cardinality(Entries(r)) <= RetainPerSig

\* Store.Decide.  All records of one signature score the same, so a candidate
\* never scores above the best entry.
Retains(r) == Cardinality(Entries(r)) < RetainPerSig
IsDuplicate(r) == Entries(r) # {}

-----------------------------------------------------------------------------
(* The runner *)

Zero(S) == [x \in S |-> 0]

NewReport ==
    [total |-> 0, maxInFlight |-> 0, sendCounts |-> Zero(SendStates),
     confirmCounts |-> Zero(ConfirmStates), anomalies |-> Zero(Flags),
     terminal |-> 0, unresolved |-> 0, sent |-> 0, retained |-> 0,
     duplicate |-> 0]

Init ==
    /\ pc = "loop" /\ err = "none" /\ seq = 0 /\ pending = <<>>
    /\ inFlight = 0 /\ maxSeen = 0
    /\ draining = FALSE /\ published = FALSE
    /\ send = [i \in Case |-> "none"]
    /\ result = [i \in Case |-> NoResult]
    /\ log = <<>>
    /\ age = Zero(Case) /\ waited = 0 /\ drainAge = 0
    /\ node = [i \in Case |-> "absent"]
    /\ files = [cases |-> {}, feedback |-> {}, bundles |-> {}]
    /\ retained = {}
    /\ stats = [sent |-> 0, retained |-> 0, duplicate |-> 0]
    /\ report = NewReport

Fail(why) == pc' = "failed" /\ err' = why

\* The next case may be built: the loop is not over and a slot is free.
CanBuild == pc = "loop" /\ seq < Cases /\ Len(pending) < MaxInFlight

\* The runner must finalise the oldest case: the window is full, or the loop
\* is over and cases remain.
MustFinalize ==
    \/ pc = "loop" /\ seq < Cases /\ Len(pending) >= MaxInFlight
    \/ pc = "drain" /\ pending # <<>>

\* TotalCases++, Build, the build events, and TryAcquire, whose refusal would
\* be ErrV2LimiterRejected.
Build ==
    /\ CanBuild
    /\ seq' = seq + 1
    /\ log' = log \o <<[type |-> "nonce_reserved", case |-> seq'],
                       [type |-> "built", case |-> seq']>>
    /\ IF inFlight < MaxInFlight
       THEN /\ inFlight' = inFlight + 1
            /\ maxSeen' = IF inFlight' > maxSeen THEN inFlight' ELSE maxSeen
            /\ pc' = "submit"
            /\ UNCHANGED err
       ELSE Fail("limiter") /\ UNCHANGED <<inFlight, maxSeen>>
    /\ UNCHANGED <<pending, draining, published, send, result, clocks, node, sink>>

\* The builder fails: the case is counted but leaves no trace.
BuildFails ==
    /\ CanBuild
    /\ seq' = seq + 1
    /\ Fail("build")
    /\ UNCHANGED <<pending, inFlight, maxSeen, draining, published>>
    /\ UNCHANGED <<records, clocks, node, sink>>

\* SubmitAsync completed with status s; the transaction is in the node's pool
\* (`pooled`) when it was sent, and may be there although the reply was lost.
Submit(s, pooled) ==
    /\ pc = "submit"
    /\ s = "sent" => pooled
    /\ send' = [send EXCEPT ![seq] = s]
    /\ node' = IF pooled THEN [node EXCEPT ![seq] = "pool"] ELSE node
    /\ pending' = Append(pending, seq)
    /\ report' = [report EXCEPT !.total = @ + 1, !.maxInFlight = maxSeen]
    /\ pc' = "loop"
    /\ UNCHANGED <<err, seq, inFlight, maxSeen, draining, published, result,
                   log, clocks, files, retained, stats>>

\* Mutant of SubmitFails: the slot stays taken.
SubmitFailsKeepingSlot ==
    /\ pc = "submit"
    /\ Fail("submit")
    /\ UNCHANGED <<seq, pending, inFlight, maxSeen, draining, published>>
    /\ UNCHANGED <<records, clocks, node, sink>>

\* Mutant of SubmitFails: the error path releases a second time.
SubmitFailsReleasingTwice ==
    /\ pc = "submit"
    /\ inFlight' = inFlight - 2
    /\ Fail("submit")
    /\ UNCHANGED <<seq, pending, maxSeen, draining, published>>
    /\ UNCHANGED <<records, clocks, node, sink>>

\* SubmitAsync itself fails: the slot is given back and the campaign ends.
SubmitFails ==
    /\ pc = "submit"
    /\ inFlight' = inFlight - 1
    /\ Fail("submit")
    /\ UNCHANGED <<seq, pending, maxSeen, draining, published>>
    /\ UNCHANGED <<records, clocks, node, sink>>

\* All cases are submitted: the drain context starts.
StartDrain ==
    /\ pc = "loop" /\ seq = Cases
    /\ pc' = "drain"
    /\ draining' = TRUE
    /\ UNCHANGED <<err, seq, pending, inFlight, maxSeen, published>>
    /\ UNCHANGED <<records, clocks, node, sink>>

DrainExpired == draining /\ drainAge >= ConfirmDrain

\* Await delivers the record of the oldest case, and it was sent: the sent
\* event is logged now and the receipt wait begins.
AwaitSent ==
    /\ MustFinalize
    /\ send[Head(pending)] = "sent"
    /\ log' = Append(log, [type |-> "sent", case |-> Head(pending)])
    /\ pc' = "receipt"
    /\ UNCHANGED <<err, seq, pending, inFlight, maxSeen, draining, published,
                   send, result, clocks, node, sink>>

\* The rest of the finalisation up to the sink, with record r.  Nothing reads
\* the ages of the case or of its wait after this.
Finalize(r) ==
    LET i == Head(pending) IN
    /\ result' = [result EXCEPT ![i] = r]
    /\ log' = log \o FinalEvents(i, r)
    /\ age' = [age EXCEPT ![i] = 0]
    /\ waited' = 0
    /\ pc' = "accept"
    /\ UNCHANGED <<err, seq, pending, inFlight, maxSeen, draining, published,
                   send, drainAge, node, sink>>

\* Await delivers the record of the oldest case, and it was rejected.
AwaitRejected ==
    /\ MustFinalize
    /\ send[Head(pending)] = "rpc_error"
    /\ Finalize(RejectedRecord)

\* Once the drain context has expired, the select in Await may pick it
\* although the record is there; the error ends the campaign.
AwaitExpires ==
    /\ MustFinalize /\ DrainExpired
    /\ Fail("await")
    /\ UNCHANGED <<seq, pending, inFlight, maxSeen, draining, published>>
    /\ UNCHANGED <<records, clocks, node, sink>>

\* Mutant of WaitExpired: the receipt wait has no timeout of its own.
WaitExpiredByDrainOnly == DrainExpired

WaitExpired == waited >= ReceiptBudget \/ DrainExpired

\* WaitMined obtains the receipt.  Past the deadline its calls fail.
ReceiptSeen ==
    /\ pc = "receipt"
    /\ waited <= ReceiptBudget
    /\ draining => drainAge <= ConfirmDrain
    /\ node[Head(pending)] \in Receipts
    /\ Finalize(IncludedRecord(node[Head(pending)]))

\* WaitMined returns because the receipt context expired.
ReceiptTimesOut ==
    /\ pc = "receipt"
    /\ WaitExpired
    /\ Finalize(UnconfirmedRecord(Head(pending), "receipt_timeout"))

\* WaitMined returns some other error before the deadline.
ReceiptLookupFails ==
    /\ pc = "receipt"
    /\ ~WaitExpired
    /\ Finalize(UnconfirmedRecord(Head(pending), "receipt_lookup_failed"))

-----------------------------------------------------------------------------
(* The sink, and what follows it *)

CountSent(r) == stats.sent + (IF r.send = "sent" THEN 1 ELSE 0)

WithFeedback(r, i) ==
    IF IsCanonicalFeedbackTerminal(r) THEN files.feedback \cup {i}
                                      ELSE files.feedback

\* Mutant of Counted: an unresolved shutdown is not counted as terminal.
CountedIncludedOnly(r) ==
    [report EXCEPT
        !.sendCounts[r.send] = @ + 1,
        !.confirmCounts = [c \in ConfirmStates |->
            @[c] + (IF c = r.confirm THEN 1 ELSE 0)],
        !.anomalies = [f \in Flags |-> @[f] + (IF f \in r.flags THEN 1 ELSE 0)],
        !.terminal = @ + (IF r.receipt # "none" THEN 1 ELSE 0),
        !.unresolved = @ + (IF r.confirm = "unresolved_shutdown" THEN 1 ELSE 0)]

\* updateV2Report for a record r.
Counted(r) ==
    [report EXCEPT
        !.sendCounts[r.send] = @ + 1,
        !.confirmCounts = [c \in ConfirmStates |->
            @[c] + (IF c = r.confirm THEN 1 ELSE 0)],
        !.anomalies = [f \in Flags |-> @[f] + (IF f \in r.flags THEN 1 ELSE 0)],
        !.terminal = @ + (IF IsTerminalConfirmState(r.confirm) THEN 1 ELSE 0),
        !.unresolved = @ + (IF r.confirm = "unresolved_shutdown" THEN 1 ELSE 0)]

\* Mutant of Leave: the newest case leaves instead of the oldest.
LeaveNewest == pending' = SubSeq(pending, 1, Len(pending) - 1)

\* The finalised case leaves the queue.
Leave == pending' = Tail(pending)

\* acceptOutcome succeeds: the case is stored, its slot is released, the report
\* counts it and it leaves the queue.
Accept ==
    LET i == Head(pending)
        r == result[i]
    IN
    /\ pc = "accept"
    /\ files' = [cases |-> files.cases \cup {i},
                 feedback |-> WithFeedback(r, i),
                 bundles |-> IF Retains(r) THEN files.bundles \cup {i}
                                           ELSE files.bundles]
    /\ retained' = IF Retains(r) THEN retained \cup {i} ELSE retained
    /\ stats' = [sent |-> CountSent(r),
                 retained |-> stats.retained + (IF Retains(r) THEN 1 ELSE 0),
                 duplicate |-> stats.duplicate + (IF IsDuplicate(r) THEN 1 ELSE 0)]
    /\ inFlight' = inFlight - 1
    /\ report' = Counted(r)
    /\ Leave
    /\ pc' = IF draining THEN "drain" ELSE "loop"
    /\ UNCHANGED <<err, seq, maxSeen, draining, published, records, clocks, node>>

\* The sink fails at one of its writes, after the ones before it; SentCases has
\* been counted already, and neither the slot nor the queue changes.
AcceptFails(stage) ==
    LET i == Head(pending)
        r == result[i]
    IN
    /\ pc = "accept"
    /\ stage = "feedback" => IsCanonicalFeedbackTerminal(r)
    /\ stage \in {"bundle", "save"} => Retains(r)
    /\ files' =
         [cases |-> IF stage = "case" THEN files.cases ELSE files.cases \cup {i},
          feedback |-> IF stage \in {"case", "feedback"} THEN files.feedback
                                                         ELSE WithFeedback(r, i),
          bundles |-> IF stage = "save" THEN files.bundles \cup {i}
                                        ELSE files.bundles]
    \* Save changes the store before it writes the entry.
    /\ retained' = IF stage = "save" THEN retained \cup {i} ELSE retained
    /\ stats' = [stats EXCEPT !.sent = CountSent(r)]
    /\ Fail("sink")
    /\ UNCHANGED <<seq, pending, inFlight, maxSeen, draining, published,
                   records, clocks, node, report>>

\* How the campaign ends after its last case: WriteReportV2 writes the report, or
\* fails, although RunCampaignV2 has returned no error.
WriteReportV2 ==
    \/ published' = TRUE /\ pc' = "done" /\ UNCHANGED err
    \/ Fail("report") /\ UNCHANGED published

\* Mutant of Finish: the report is published with cases still in the queue.
FinishWithoutDrain ==
    /\ pc = "drain"
    /\ report' = [report EXCEPT !.total = seq, !.sent = stats.sent,
                                !.retained = stats.retained,
                                !.duplicate = stats.duplicate]
    /\ WriteReportV2
    /\ UNCHANGED <<seq, pending, inFlight, maxSeen, draining, records,
                   clocks, node, files, retained, stats>>

\* The report takes its totals from the statistics and is written.
Finish ==
    /\ pc = "drain" /\ pending = <<>>
    /\ report' = [report EXCEPT !.total = seq, !.sent = stats.sent,
                                !.retained = stats.retained,
                                !.duplicate = stats.duplicate]
    /\ WriteReportV2
    /\ UNCHANGED <<seq, pending, inFlight, maxSeen, draining, records,
                   clocks, node, files, retained, stats>>

\* The steps the runner takes by itself or on an answer it is owed.
RunnerStep ==
    \/ Build \/ BuildFails
    \/ \E s \in SendStates, pooled \in BOOLEAN : Submit(s, pooled)
    \/ SubmitFails
    \/ StartDrain
    \/ AwaitSent \/ AwaitRejected \/ AwaitExpires
    \/ ReceiptSeen \/ ReceiptTimesOut
    \/ Accept
    \/ \E stage \in {"case", "feedback", "bundle", "save"} : AcceptFails(stage)
    \/ Finish

-----------------------------------------------------------------------------
(* The environment *)

Running == pc \notin {"done", "failed"}

\* Cases whose age may still be compared with a budget.
Ageing == {i \in 1..seq : result[i] = NoResult}

Tick ==
    /\ Running
    /\ age' = [i \in Case |-> IF i \in Ageing THEN Later(age[i], AgeCap) ELSE age[i]]
    /\ waited' = IF pc = "receipt" THEN Later(waited, ReceiptBudget + 1) ELSE waited
    /\ drainAge' = IF draining THEN Later(drainAge, ConfirmDrain + 1) ELSE drainAge
    /\ UNCHANGED <<runner, records, node, sink>>

\* Transactions of cases that are not finalised.  The campaign never looks at
\* the others again, so their fate is left open.
Watched(i) == Running /\ result[i] = NoResult

\* The node includes a transaction in a block, successfully or not.
Mine(i, status) ==
    /\ Watched(i)
    /\ node[i] = "pool"
    /\ node' = [node EXCEPT ![i] = status]
    /\ UNCHANGED <<runner, records, clocks, sink>>

\* The node evicts or replaces a transaction.
Drop(i) ==
    /\ Watched(i)
    /\ node[i] = "pool"
    /\ node' = [node EXCEPT ![i] = "absent"]
    /\ UNCHANGED <<runner, records, clocks, sink>>

Next ==
    \/ RunnerStep
    \/ ReceiptLookupFails
    \/ Tick
    \/ \E i \in Case : Drop(i) \/ \E status \in Receipts : Mine(i, status)

\* The runner's goroutine is scheduled, Build and SubmitAsync return (with a
\* result or an error) and time passes.  The node owes neither a receipt nor an
\* error for a receipt it does not have.
Fairness == WF_vars(RunnerStep) /\ WF_vars(Tick)

Spec == Init /\ [][Next]_vars
FairSpec == Spec /\ Fairness

-----------------------------------------------------------------------------
(* Properties *)

Events == [type : {"nonce_reserved", "built", "sent", "send_rejected",
                   "receipt_seen", "sla_breach", "unresolved_shutdown"},
           case : Case]
Reports == [total : Nat, maxInFlight : Nat, sendCounts : [SendStates -> Nat],
            confirmCounts : [ConfirmStates -> Nat], anomalies : [Flags -> Nat],
            terminal : Nat, unresolved : Nat, sent : Nat, retained : Nat,
            duplicate : Nat]

RunnerType ==
    /\ pc \in {"loop", "submit", "drain", "receipt", "accept", "done", "failed"}
    /\ err \in {"none", "build", "limiter", "submit", "await", "sink", "report"}
    /\ seq \in 0..Cases
    /\ pending \in Seq(Case)
    /\ inFlight \in 0..MaxInFlight /\ maxSeen \in 0..MaxInFlight
    /\ draining \in BOOLEAN /\ published \in BOOLEAN

RecordsType ==
    /\ send \in [Case -> SendStates \cup {"none"}]
    /\ result \in [Case -> Results]
    /\ log \in Seq(Events)

ClocksType == age \in [Case -> Nat] /\ waited \in Nat /\ drainAge \in Nat

NodeType == node \in [Case -> Receipts \cup {"absent", "pool"}]

FilesType ==
    /\ files \in [cases : SUBSET Case, feedback : SUBSET Case, bundles : SUBSET Case]
    /\ retained \in SUBSET Case

CountersType ==
    /\ stats \in [sent : Nat, retained : Nat, duplicate : Nat]
    /\ report \in Reports

\* Every variable has its type.
TypeOK == RunnerType /\ RecordsType /\ ClocksType /\ NodeType /\ FilesType /\ CountersType

\* The limiter's count is the number of cases the runner still owes a
\* finalisation, through submission errors and sink errors, so TryAcquire never
\* refuses: "v2 in-flight limiter rejected submission unexpectedly" (ErrV2LimiterRejected).
LimiterAgrees ==
    /\ inFlight = Len(pending) + (IF pc = "submit" THEN 1 ELSE 0)
    /\ err # "limiter"

\* Cases that SubmitAsync completed for.
Submitted == {i \in Case : send[i] # "none"}
Finalized == {i \in Case : result[i] # NoResult}

\* Submitted cases leave the queue in the order of their submission, each is
\* finalised exactly once, and none is lost or finalised while it still waits
\* behind another (drainOneFinalizedCase).
FifoOnce ==
    LET gone == Cardinality(Submitted) - Len(pending) IN
    /\ Submitted = 1..Cardinality(Submitted)
    /\ pending = [n \in 1..Len(pending) |-> gone + n]
    /\ Finalized = 1..(IF pc = "accept" \/ err = "sink" THEN gone + 1 ELSE gone)

Accepted == {i \in Finalized : \A n \in DOMAIN pending : pending[n] # i}

Closing == {"send_rejected", "receipt_seen", "unresolved_shutdown"}
Has(i, types) == \E n \in DOMAIN log : log[n].case = i /\ log[n].type \in types

\* For every case that went through the sink, three independent pieces of code
\* agree whether it is over: the event log has a closing event
\* (appendFinalizeEvent), the canonical feedback artifact exists
\* (IsCanonicalFeedbackTerminal), and it was rejected or is terminal
\* for the report (isTerminalConfirmState).  The log orders its events.
ArtifactsAgree ==
    /\ \A i \in Accepted :
        LET over == result[i].send = "rpc_error" \/ IsTerminalConfirmState(result[i].confirm)
        IN /\ i \in files.cases
           /\ i \in files.feedback <=> over
           /\ Has(i, Closing) <=> over
    /\ \A m, n \in DOMAIN log :
        log[m].case = log[n].case =>
            /\ log[m].type = log[n].type => m = n
            /\ log[m].type = "built" /\ log[n].type \in Closing \cup {"sent"} => m < n
            /\ log[m].type = "sent" /\ log[n].type \in Closing => m < n

Sum3(f) == f["awaiting_receipt"] + f["sla_breached_pending"] + f["unresolved_shutdown"]

\* The counters that are updated at three places of the runner fit together: a
\* published report accounts for every case once, by send state, by confirm
\* state, by terminality and by retention.
ReportAddsUp ==
    LET included == report.confirmCounts["included_success"]
                        + report.confirmCounts["included_reverted"]
        signatures == {Signature(result[i]) : i \in Accepted}
    IN
    /\ report.sendCounts["sent"] + report.sendCounts["rpc_error"] = Cardinality(Accepted)
    /\ report.sendCounts["sent"] = included + Sum3(report.confirmCounts)
    /\ report.terminal = included + report.unresolved
    /\ report.terminal + report.sendCounts["rpc_error"] = Cardinality(files.feedback \cap Accepted)
    /\ stats.duplicate + Cardinality(signatures) = Cardinality(Accepted)
    /\ published => /\ report.total = Cases
                    /\ Accepted = Case
                    /\ report.sent = report.sendCounts["sent"]
                    /\ report.retained = Cardinality(retained)
                    /\ report.maxInFlight <= MaxInFlight

\* Every signature that was ever accepted stays represented by a retained case
\* with a replay bundle, and by at most RetainPerSig of them (Store.Decide).
EverySignatureKept ==
    \A i \in Accepted :
        Cardinality(Entries(result[i]) \cap files.bundles) \in 1..RetainPerSig

\* A case whose receipt wait runs into the deadline of the drain phase ends
\* terminal: its own budget began before the drain did
\* (applyConfirmBudgetState against the drain context).
DrainDeadlineTerminal ==
    [][ReceiptTimesOut /\ DrainExpired =>
          IsTerminalConfirmState(result'[Head(pending)].confirm)]_vars

\* The campaign returns, however long the node withholds receipts.
Termination == <>(pc \in {"done", "failed"})

\* What the option confirm-drain-timeout says ("Maximum time to wait for
\* confirmation drain before unresolved_shutdown classification",
\* flags/flags.go:151): running out of drain time classifies the cases that are
\* left, it does not fail the campaign.  Does not hold: see AwaitExpires.
DrainClassifies == err # "await"

\* What the option max-inflight says ("Maximum in-flight transactions allowed in
\* v2 single-lane campaign mode", flags/flags.go:139): no more transactions than
\* that wait in the node's pool, leaving aside lost replies and failed lookups.
\* Does not hold: a case whose receipt wait times out gives its slot back while
\* its transaction stays in flight.
PoolWithinWindow ==
    LET inPool == {i \in Case : /\ send[i] = "sent" /\ node[i] = "pool"
                                /\ "receipt_lookup_failed" \notin result[i].flags}
    IN Cardinality(inPool) <= MaxInFlight

\* The v2 runner is a pipeline with a window of MaxInFlight.
Pipeline == INSTANCE CampaignPipeline
    WITH Window <- MaxInFlight,
         submitted <- Cardinality(Submitted),
         finalized <- Cardinality(Submitted) - Len(pending),
         verdict <- [i \in Case |-> IF i \in Accepted THEN Verdict(result[i])
                                                      ELSE "none"],
         status <- IF pc = "done" THEN "complete"
                   ELSE IF pc = "failed" THEN "aborted" ELSE "running"

ImplementsPipeline == Pipeline!Spec

=============================================================================
