--------------------------- MODULE CampaignLegacy ---------------------------
(***************************************************************************)
(* The legacy campaign: RunCampaign of runner/types.go with the blocking   *)
(* campaignSubmitter.Submit of spammer/campaign.go.  One case is built,    *)
(* sent, awaited and stored before the next begins.  Its records have no   *)
(* ConfirmState, and no budget but the receipt timeout.                    *)
(***************************************************************************)
EXTENDS FeedbackRecords

CONSTANTS Cases,           \* Config.Cases
          ReceiptTimeout,  \* campaignSubmitter.receiptTimeout
          RetainPerSig     \* cap of the corpus store

ASSUME LegacyAssumption ==
    /\ Cases \in Nat \ {0}
    /\ ReceiptTimeout \in Nat \ {0}
    /\ RetainPerSig \in Nat \ {0}

VARIABLES
    pc,        \* where the runner stands
    seq,       \* the loop variable i (stats.TotalCases)
    send,      \* the SendStatus of every case
    result,    \* the feedback record Submit returned for every case
    waited,    \* time since the current receipt wait began
    node,      \* the transaction of every case as the node sees it
    feedback,  \* cases with a canonical feedback artifact
    retained,  \* the cases in the corpus store
    stats,     \* runner.Stats, without TotalCases
    written    \* WriteReport has written the report

vars == <<pc, seq, send, result, waited, node, feedback, retained, stats, written>>
artifacts == <<feedback, retained, stats, written>>

Case == 1..Cases

Init ==
    /\ pc = "loop" /\ seq = 0 /\ waited = 0 /\ written = FALSE
    /\ send = [i \in Case |-> "none"]
    /\ result = [i \in Case |-> NoResult]
    /\ node = [i \in Case |-> "absent"]
    /\ feedback = {} /\ retained = {}
    /\ stats = [sent |-> 0, retained |-> 0, duplicate |-> 0]

Build ==
    /\ pc = "loop" /\ seq < Cases
    /\ seq' = seq + 1
    /\ pc' = "submit"
    /\ UNCHANGED <<send, result, waited, node, artifacts>>

BuildFails ==
    /\ pc = "loop" /\ seq < Cases
    /\ seq' = seq + 1
    /\ pc' = "failed"
    /\ UNCHANGED <<send, result, waited, node, artifacts>>

\* Mutant of Submit: the next case is begun without awaiting this one.
SubmitAndGoOn(s, pooled) ==
    /\ pc = "submit"
    /\ s = "sent" => pooled
    /\ send' = [send EXCEPT ![seq] = s]
    /\ node' = IF pooled THEN [node EXCEPT ![seq] = "pool"] ELSE node
    /\ pc' = "loop"
    /\ UNCHANGED <<seq, result, waited, artifacts>>

\* Submit: SubmitAsync and Await, which share a context that never expires.  A
\* case that was not sent is returned at once; the other one is awaited.
Submit(s, pooled) ==
    /\ pc = "submit"
    /\ s = "sent" => pooled
    /\ send' = [send EXCEPT ![seq] = s]
    /\ node' = IF pooled THEN [node EXCEPT ![seq] = "pool"] ELSE node
    /\ pc' = IF s = "sent" THEN "receipt" ELSE "accept"
    /\ result' = IF s = "sent" THEN result
                               ELSE [result EXCEPT ![seq] = RejectedRecord]
    /\ UNCHANGED <<seq, waited, artifacts>>

\* Submit returns the merged record: the receipt or the reason there is none.
Return(receipt, flags) ==
    /\ pc = "receipt"
    /\ result' = [result EXCEPT ![seq] =
           [send |-> "sent", receipt |-> receipt, flags |-> flags, confirm |-> "none"]]
    /\ waited' = 0
    /\ pc' = "accept"
    /\ UNCHANGED <<seq, send, node, artifacts>>

ReceiptSeen ==
    /\ pc = "receipt" /\ waited <= ReceiptTimeout
    /\ node[seq] \in Receipts
    /\ Return(node[seq], {})

\* Mutant of ReceiptTimesOut: an expired wait starts over.
ReceiptWaitsAgain ==
    /\ pc = "receipt" /\ waited >= ReceiptTimeout
    /\ waited' = 0
    /\ UNCHANGED <<pc, seq, send, result, node, artifacts>>

ReceiptTimesOut ==
    /\ waited >= ReceiptTimeout
    /\ Return("none", {"receipt_timeout"})

ReceiptLookupFails ==
    /\ waited < ReceiptTimeout
    /\ Return("none", {"receipt_lookup_failed"})

Entries(r) == {j \in retained : Signature(result[j]) = Signature(r)}

\* Mutant of Accept: SentCases is counted for every case.
AcceptCountingAll ==
    LET r == result[seq]
        retain == Cardinality(Entries(r)) < RetainPerSig
    IN
    /\ pc = "accept"
    /\ feedback' = IF IsCanonicalFeedbackTerminal(r) THEN feedback \cup {seq}
                                                     ELSE feedback
    /\ retained' = IF retain THEN retained \cup {seq} ELSE retained
    /\ stats' = [sent |-> stats.sent + 1,
                 retained |-> stats.retained + (IF retain THEN 1 ELSE 0),
                 duplicate |-> stats.duplicate + (IF Entries(r) # {} THEN 1 ELSE 0)]
    /\ pc' = "loop"
    /\ UNCHANGED <<seq, send, result, waited, node, written>>

\* acceptOutcome and the sink, then the next turn of the loop.
Accept ==
    LET r == result[seq]
        retain == Cardinality(Entries(r)) < RetainPerSig
    IN
    /\ pc = "accept"
    /\ feedback' = IF IsCanonicalFeedbackTerminal(r) THEN feedback \cup {seq}
                                                     ELSE feedback
    /\ retained' = IF retain THEN retained \cup {seq} ELSE retained
    /\ stats' = [sent |-> stats.sent + (IF r.send = "sent" THEN 1 ELSE 0),
                 retained |-> stats.retained + (IF retain THEN 1 ELSE 0),
                 duplicate |-> stats.duplicate + (IF Entries(r) # {} THEN 1 ELSE 0)]
    /\ pc' = "loop"
    /\ UNCHANGED <<seq, send, result, waited, node, written>>

\* The sink fails; SentCases has been counted.  What it wrote before it failed
\* is the matter of the module Retention.
AcceptFails ==
    /\ pc = "accept"
    /\ stats' = [stats EXCEPT !.sent = @ + (IF send[seq] = "sent" THEN 1 ELSE 0)]
    /\ pc' = "failed"
    /\ UNCHANGED <<seq, send, result, waited, node, feedback, retained, written>>

\* After the last case the report is written, or WriteReport fails.
Finish ==
    /\ pc = "loop" /\ seq = Cases
    /\ \/ written' = TRUE /\ pc' = "done"
       \/ UNCHANGED written /\ pc' = "unwritten"
    /\ UNCHANGED <<seq, send, result, waited, node, feedback, retained, stats>>

Tick ==
    /\ pc = "receipt" /\ waited <= ReceiptTimeout
    /\ waited' = waited + 1
    /\ UNCHANGED <<pc, seq, send, result, node, artifacts>>

\* The node includes the transaction in a block, or evicts it.
NodeStep(i, to) ==
    /\ pc \notin {"done", "failed", "unwritten"} /\ result[i] = NoResult
    /\ node[i] = "pool"
    /\ node' = [node EXCEPT ![i] = to]
    /\ UNCHANGED <<pc, seq, send, result, waited, artifacts>>

RunnerStep ==
    \/ Build \/ BuildFails
    \/ \E s \in SendStates, pooled \in BOOLEAN : Submit(s, pooled)
    \/ ReceiptSeen \/ ReceiptTimesOut
    \/ Accept \/ AcceptFails
    \/ Finish

Next ==
    \/ RunnerStep
    \/ ReceiptLookupFails
    \/ Tick
    \/ \E i \in Case, to \in Receipts \cup {"absent"} : NodeStep(i, to)

\* As in CampaignV2: the runner's calls return and time passes.
Fairness == WF_vars(RunnerStep) /\ WF_vars(Tick)

Spec == Init /\ [][Next]_vars
FairSpec == Spec /\ Fairness

-----------------------------------------------------------------------------
(* Properties *)

\* Every variable has its type.
TypeOK ==
    /\ pc \in {"loop", "submit", "receipt", "accept", "done", "failed", "unwritten"}
    /\ seq \in 0..Cases
    /\ send \in [Case -> SendStates \cup {"none"}]
    /\ result \in [Case -> Results]
    /\ waited \in Nat
    /\ node \in [Case -> Receipts \cup {"absent", "pool"}]
    /\ feedback \in SUBSET Case /\ retained \in SUBSET Case
    /\ stats \in [sent : Nat, retained : Nat, duplicate : Nat]
    /\ written \in BOOLEAN

\* Cases that acceptOutcome is done with.
Accepted == {i \in 1..seq : i < seq \/ pc \in {"loop", "done", "unwritten"}}

Submitted == {i \in Case : send[i] # "none"}

\* A report that is written accounts for every case: the cases sent, one
\* retained case more than duplicates for every signature seen first, and a
\* canonical feedback artifact for exactly the cases whose fate is known.
ReportAddsUp ==
    written =>
        /\ seq = Cases
        /\ stats.sent = Cardinality({i \in Case : send[i] = "sent"})
        /\ stats.retained = Cardinality(retained)
        /\ stats.duplicate + Cardinality({Signature(result[i]) : i \in Case}) = Cases
        /\ feedback = {i \in Case : Verdict(result[i]) \in {"rejected", "included"}}

\* The campaign returns, however long the node withholds receipts.
Termination == <>(pc \in {"done", "failed", "unwritten"})

\* The legacy runner is a pipeline with a window of one: a case is submitted
\* only after the sink has accepted the case before it
\* (TestRunCampaignKeepsLegacySequentialSubmitContractEvenWhenSubmitterSupportsAsync).
Pipeline == INSTANCE CampaignPipeline
    WITH Window <- 1,
         submitted <- Cardinality(Submitted),
         finalized <- Cardinality(Submitted \cap Accepted),
         verdict <- [i \in Case |-> IF i \in Submitted \cap Accepted
                                    THEN Verdict(result[i]) ELSE "none"],
         status <- IF pc = "done" THEN "complete"
                   ELSE IF pc \in {"failed", "unwritten"} THEN "aborted" ELSE "running"

ImplementsPipeline == Pipeline!Spec

=============================================================================
