-------------------------- MODULE CampaignV2Proofs --------------------------
(***************************************************************************)
(* Proofs about CampaignV2 for every number of cases, every window and     *)
(* every setting of the budgets.  The inductive invariant Inv has four     *)
(* parts, each inductive relative to the ones before it.  RunnerInv adds   *)
(* to the types of the runner's variables how the limiter's count, the     *)
(* queue and the program counter hang together; DataInv types the rest;    *)
(* FifoInv says with numbers which cases are submitted, queued and         *)
(* finalised; DrainPhase places the drain after the submissions.  From Inv *)
(* follow the FIFO discipline, the deadline of the drain and the           *)
(* refinement of CampaignPipeline.  The second half of the module adds     *)
(* what the finalisation and the sink leave behind, for all caps of the    *)
(* corpus store too.                                                       *)
(***************************************************************************)
EXTENDS CampaignV2, SequenceTheorems, FiniteSetTheorems, TLAPS

\* The queue never exceeds the window, a case is being submitted only into a
\* free place of it, and a case is being finalised only if there is one.
QueueInv ==
    /\ Len(pending) <= MaxInFlight
    /\ pc = "submit" => Len(pending) < MaxInFlight /\ seq \in Case
    /\ pc \in {"receipt", "accept"} => pending # <<>>

RunnerInv == RunnerType /\ LimiterAgrees /\ QueueInv

\* The case that goes into the sink has a record.
SinkReady == pc = "accept" => result[Head(pending)].send \in SendStates

-----------------------------------------------------------------------------
(* Facts about the constants, the records and the operators on them *)

\* The records that finalisation produces are records.
LEMMA RecordTypes ==
    /\ NoResult \in Results
    /\ RejectedRecord \in Results /\ RejectedRecord.send \in SendStates
    /\ \A s \in Receipts : IncludedRecord(s) \in Results
                              /\ IncludedRecord(s).send \in SendStates
    /\ \A i \in Case, f \in {"receipt_timeout", "receipt_lookup_failed"} :
          /\ UnconfirmedRecord(i, f) \in Results
          /\ UnconfirmedRecord(i, f).send \in SendStates
<1> USE DEF Results, SendStates, ConfirmStates, Receipts
<1>1. NoResult \in Results
  BY DEF NoResult
<1>2. RejectedRecord \in Results /\ RejectedRecord.send \in SendStates
  BY DEF RejectedRecord
<1>3. ASSUME NEW s \in Receipts
      PROVE  IncludedRecord(s) \in Results /\ IncludedRecord(s).send \in SendStates
  BY DEF IncludedRecord
<1>4. ASSUME NEW i \in Case, NEW f \in {"receipt_timeout", "receipt_lookup_failed"}
      PROVE  /\ UnconfirmedRecord(i, f) \in Results
             /\ UnconfirmedRecord(i, f).send \in SendStates
  BY DEF UnconfirmedRecord, Flags
<1> QED
  BY <1>1, <1>2, <1>3, <1>4

\* A record is closed by at most one event, which belongs to its case.
LEMMA FinalEventsType ==
    ASSUME NEW i \in Case, NEW r \in Results
    PROVE  FinalEvents(i, r) \in Seq(Events)
<1>1. \A t \in {"send_rejected", "receipt_seen", "unresolved_shutdown", "sla_breach"} :
          [type |-> t, case |-> i] \in Events
  BY DEF Events
<1>2. \A e \in Events : <<e>> \in Seq(Events)
  OBVIOUS
<1>3. <<>> \in Seq(Events)
  OBVIOUS
<1> QED
  BY <1>1, <1>2, <1>3 DEF FinalEvents

\* Ages stay natural numbers.
LEMMA LaterType ==
    ASSUME NEW t \in Nat, NEW cap PROVE Later(t, cap) \in Nat
BY DEF Later

\* Counting a record gives a report again.
LEMMA CountedType ==
    ASSUME report \in Reports, NEW r \in Results, r.send \in SendStates
    PROVE  Counted(r) \in Reports
<1>1. [c \in ConfirmStates |->
          report.confirmCounts[c] + (IF c = r.confirm THEN 1 ELSE 0)]
        \in [ConfirmStates -> Nat]
  BY DEF Reports
<1>2. [f \in Flags |-> report.anomalies[f] + (IF f \in r.flags THEN 1 ELSE 0)]
        \in [Flags -> Nat]
  BY DEF Reports
<1>3. [report.sendCounts EXCEPT ![r.send] = @ + 1] \in [SendStates -> Nat]
  BY DEF Reports
<1>4. /\ report.terminal + (IF IsTerminalConfirmState(r.confirm) THEN 1 ELSE 0) \in Nat
      /\ report.unresolved + (IF r.confirm = "unresolved_shutdown" THEN 1 ELSE 0) \in Nat
  BY DEF Reports
<1> QED
  BY <1>1, <1>2, <1>3, <1>4 DEF Counted, Reports

\* Setting its totals gives a report again.
LEMMA TotalsType ==
    ASSUME report \in Reports, NEW a \in Nat, NEW b \in Nat, NEW c \in Nat, NEW d \in Nat
    PROVE  /\ [report EXCEPT !.total = a, !.maxInFlight = b] \in Reports
           /\ [report EXCEPT !.total = a, !.sent = b, !.retained = c,
                             !.duplicate = d] \in Reports
<1>1. [report EXCEPT !.total = a] \in Reports
  BY DEF Reports
<1>2. \A p \in Reports : [p EXCEPT !.maxInFlight = b] \in Reports
  BY DEF Reports
<1>3. \A p \in Reports : [p EXCEPT !.sent = b] \in Reports
  BY DEF Reports
<1>4. \A p \in Reports : [p EXCEPT !.retained = c] \in Reports
  BY DEF Reports
<1>5. \A p \in Reports : [p EXCEPT !.duplicate = d] \in Reports
  BY DEF Reports
<1> QED
  BY <1>1, <1>2, <1>3, <1>4, <1>5

\* The head of the queue is a case, the tail a shorter queue.
LEMMA QueueFacts ==
    ASSUME pending \in Seq(Case), pending # <<>>
    PROVE  /\ Head(pending) \in Case
           /\ Tail(pending) \in Seq(Case)
           /\ Len(pending) \in Nat \ {0}
           /\ Len(Tail(pending)) = Len(pending) - 1
OBVIOUS

-----------------------------------------------------------------------------

\* The runner's own variables: its counter, the limiter and the queue.  They
\* need nothing of the records, the clocks, the node or the sink.
LEMMA InitRunner == Init => RunnerInv
<1> SUFFICES ASSUME Init PROVE RunnerInv
  OBVIOUS
<1>1. /\ pc = "loop" /\ err = "none" /\ seq = 0 /\ pending = <<>>
      /\ inFlight = 0 /\ maxSeen = 0
  BY DEF Init
<1>2. draining \in BOOLEAN /\ published \in BOOLEAN
  BY Zenon DEF Init
<1>3. RunnerType
  BY <1>1, <1>2, CampaignAssumption DEF RunnerType
<1>4. LimiterAgrees /\ QueueInv
  BY <1>1, CampaignAssumption DEF LimiterAgrees, QueueInv
<1> QED
  BY <1>3, <1>4 DEF RunnerInv

\* A step that at most moves the program counter within the finalisation, with
\* its queue and its limiter as they were.
LEMMA SameQueue ==
    ASSUME RunnerInv, pc # "submit",
           UNCHANGED <<seq, pending, inFlight, maxSeen, published>>,
           draining' \in BOOLEAN,
           \/ pc' \in {"drain", "done"} /\ UNCHANGED err
           \/ pc' \in {"receipt", "accept"} /\ pending # <<>> /\ UNCHANGED err
           \/ pc' = "failed" /\ err' \in {"await", "sink"}
    PROVE  RunnerInv'
<1> USE DEF RunnerInv
<1>1. RunnerType'
  BY DEF RunnerType
<1>2. LimiterAgrees'
  BY DEF LimiterAgrees
<1>3. QueueInv'
  BY DEF QueueInv, RunnerType
<1> QED
  BY <1>1, <1>2, <1>3

\* Every step of the campaign keeps the limiter, the queue and the program
\* counter consistent.
LEMMA RunnerStepInv == RunnerInv /\ [Next]_vars => RunnerInv'
<1> SUFFICES ASSUME RunnerInv, [Next]_vars PROVE RunnerInv'
  OBVIOUS
<1> USE CampaignAssumption DEF RunnerInv
<1>0. /\ Len(pending) \in Nat /\ pending \in Seq(Case) /\ seq \in 0..Cases
      /\ inFlight \in 0..MaxInFlight /\ maxSeen \in 0..MaxInFlight
      /\ MaxInFlight \in Nat /\ Cases \in Nat
      /\ err # "limiter"
      /\ inFlight = Len(pending) + (IF pc = "submit" THEN 1 ELSE 0)
      /\ Len(pending) <= MaxInFlight
  BY DEF RunnerType, LimiterAgrees, QueueInv
<1>1. CASE Build
  <2>1. /\ pc = "loop" /\ seq < Cases /\ Len(pending) < MaxInFlight
        /\ seq' = seq + 1 /\ pending' = pending
        /\ UNCHANGED <<draining, published>>
    BY <1>1 DEF Build, CanBuild
  <2>2. /\ pc' = "submit" /\ inFlight' = inFlight + 1 /\ err' = err
        /\ maxSeen' = IF inFlight' > maxSeen THEN inFlight' ELSE maxSeen
    BY <1>0, <1>1, <2>1 DEF Build
  <2>3. seq' \in Case /\ seq' \in 0..Cases
    BY <1>0, <2>1 DEF Case
  <2>4. inFlight' \in 0..MaxInFlight /\ maxSeen' \in 0..MaxInFlight
    BY <1>0, <2>1, <2>2
  <2>5. RunnerType'
    BY <2>1, <2>2, <2>3, <2>4 DEF RunnerType
  <2>6. LimiterAgrees'
    BY <1>0, <2>1, <2>2 DEF LimiterAgrees
  <2>7. QueueInv'
    BY <1>0, <2>1, <2>2, <2>3 DEF QueueInv
  <2> QED
    BY <2>5, <2>6, <2>7
<1>2. CASE BuildFails
  <2>1. /\ pc = "loop" /\ pc' = "failed" /\ err' = "build" /\ seq' \in 0..Cases
        /\ UNCHANGED <<pending, inFlight, maxSeen, draining, published>>
    BY <1>0, <1>2 DEF BuildFails, CanBuild, Fail
  <2> QED
    BY <1>0, <2>1 DEF RunnerType, LimiterAgrees, QueueInv
<1>3. ASSUME NEW s \in SendStates, NEW pooled \in BOOLEAN, Submit(s, pooled)
      PROVE  RunnerInv'
  <2>1. /\ pc = "submit" /\ pc' = "loop" /\ pending' = Append(pending, seq)
        /\ UNCHANGED <<err, seq, inFlight, maxSeen, draining, published>>
    BY <1>3 DEF Submit
  <2>2. seq \in Case /\ Len(pending) < MaxInFlight
    BY <2>1 DEF QueueInv
  <2>3. pending' \in Seq(Case) /\ Len(pending') = Len(pending) + 1
    BY <1>0, <2>1, <2>2
  <2> QED
    BY <1>0, <2>1, <2>2, <2>3 DEF RunnerType, LimiterAgrees, QueueInv
<1>4. CASE SubmitFails
  <2>1. /\ pc = "submit" /\ pc' = "failed" /\ err' = "submit"
        /\ inFlight' = inFlight - 1
        /\ UNCHANGED <<seq, pending, maxSeen, draining, published>>
    BY <1>4 DEF SubmitFails, Fail
  <2>2. inFlight' \in 0..MaxInFlight
    BY <1>0, <2>1
  <2> QED
    BY <1>0, <2>1, <2>2 DEF RunnerType, LimiterAgrees, QueueInv
<1>5. CASE StartDrain
  BY <1>5, SameQueue DEF StartDrain
<1>6. CASE AwaitSent
  <2>1. pending # <<>>
    BY <1>0, <1>6 DEF AwaitSent, MustFinalize
  <2> QED
    BY <1>6, <2>1, SameQueue DEF AwaitSent, MustFinalize, RunnerType
<1>7. ASSUME NEW r, Finalize(r), pending # <<>>, pc # "submit" PROVE RunnerInv'
  BY <1>7, SameQueue DEF Finalize, RunnerType
<1>8. CASE AwaitRejected
  BY <1>0, <1>7, <1>8 DEF AwaitRejected, MustFinalize
<1>9. CASE AwaitExpires
  BY <1>9, SameQueue DEF AwaitExpires, MustFinalize, Fail, RunnerType
<1>10. CASE ReceiptSeen
  BY <1>7, <1>10 DEF ReceiptSeen, QueueInv
<1>11. CASE ReceiptTimesOut
  BY <1>7, <1>11 DEF ReceiptTimesOut, QueueInv
<1>12. CASE ReceiptLookupFails
  BY <1>7, <1>12 DEF ReceiptLookupFails, QueueInv
<1>13. CASE Accept
  <2>1. /\ pc = "accept" /\ pc' \in {"drain", "loop"} /\ pending' = Tail(pending)
        /\ inFlight' = inFlight - 1
        /\ UNCHANGED <<err, seq, maxSeen, draining, published>>
    BY <1>13 DEF Accept, Leave
  <2>2. /\ Tail(pending) \in Seq(Case) /\ Len(pending) \in Nat \ {0}
        /\ Len(Tail(pending)) = Len(pending) - 1
    BY <1>0, <2>1, QueueFacts DEF QueueInv
  <2> QED
    BY <1>0, <2>1, <2>2 DEF RunnerType, LimiterAgrees, QueueInv
<1>14. ASSUME NEW stage, AcceptFails(stage) PROVE RunnerInv'
  BY <1>14, SameQueue DEF AcceptFails, Fail, RunnerType
<1>15. CASE Finish
  <2>1. /\ pc = "drain" /\ UNCHANGED <<seq, pending, inFlight, maxSeen, draining>>
        /\ \/ pc' = "done" /\ published' = TRUE /\ UNCHANGED err
           \/ pc' = "failed" /\ err' = "report" /\ UNCHANGED published
    BY <1>15 DEF Finish, WriteReportV2, Fail
  <2> QED
    BY <1>0, <2>1 DEF RunnerType, LimiterAgrees, QueueInv
<1>16. ASSUME UNCHANGED runner PROVE RunnerInv'
  BY <1>16 DEF runner, RunnerType, LimiterAgrees, QueueInv
<1>17. CASE Tick
  BY <1>16, <1>17 DEF Tick
<1>18. ASSUME NEW i \in Case, Drop(i) PROVE RunnerInv'
  BY <1>16, <1>18 DEF Drop
<1>19. ASSUME NEW i \in Case, NEW status \in Receipts, Mine(i, status) PROVE RunnerInv'
  BY <1>16, <1>19 DEF Mine
<1>20. CASE UNCHANGED vars
  BY <1>16, <1>20 DEF vars
<1> QED
  BY <1>1, <1>2, <1>3, <1>4, <1>5, <1>6, <1>8, <1>9, <1>10, <1>11, <1>12,
     <1>13, <1>14, <1>15, <1>17, <1>18, <1>19, <1>20 DEF Next, RunnerStep

\* The limiter's count is the number of cases that the runner owes a
\* finalisation, so TryAcquire never refuses a case: the error
\* ErrV2LimiterRejected (runner/campaign_v2.go) cannot happen, whatever the
\* number of cases and the window.
THEOREM LimiterNeverRefuses == Spec => []LimiterAgrees
<1>1. RunnerInv => LimiterAgrees
  BY DEF RunnerInv
<1> QED
  BY InitRunner, RunnerStepInv, <1>1, PTL DEF Spec

-----------------------------------------------------------------------------
(* The other variables.  Their types need RunnerInv, for the head of the   *)
(* queue to be a case, and a finalised case to have a record.              *)

LEMMA InitData ==
    Init => /\ RecordsType /\ ClocksType /\ NodeType
            /\ FilesType /\ CountersType /\ SinkReady
<1> SUFFICES ASSUME Init
             PROVE  /\ RecordsType /\ ClocksType /\ NodeType
                    /\ FilesType /\ CountersType /\ SinkReady
  OBVIOUS
<1>1. /\ pc = "loop" /\ send = [i \in Case |-> "none"]
      /\ result = [i \in Case |-> NoResult] /\ log = <<>>
      /\ age = Zero(Case) /\ waited = 0 /\ drainAge = 0
      /\ node = [i \in Case |-> "absent"]
      /\ files = [cases |-> {}, feedback |-> {}, bundles |-> {}] /\ retained = {}
      /\ stats = [sent |-> 0, retained |-> 0, duplicate |-> 0]
      /\ report = NewReport
  BY DEF Init
<1>2. RecordsType
  BY <1>1, RecordTypes DEF RecordsType
<1>3. ClocksType
  BY <1>1 DEF ClocksType, Zero
<1>4. NodeType
  BY <1>1 DEF NodeType
<1>5. FilesType
  BY <1>1 DEF FilesType
<1>6. CountersType
  <2>1. /\ Zero(SendStates) \in [SendStates -> Nat]
        /\ Zero(ConfirmStates) \in [ConfirmStates -> Nat]
        /\ Zero(Flags) \in [Flags -> Nat]
    BY DEF Zero
  <2> QED
    BY <1>1, <2>1 DEF CountersType, Reports, NewReport
<1>7. SinkReady
  BY <1>1 DEF SinkReady
<1> QED
  BY <1>2, <1>3, <1>4, <1>5, <1>6, <1>7

\* What a finalisation does, whoever calls it.
LEMMA FinalizeData ==
    ASSUME RecordsType, ClocksType, pending \in Seq(Case), pending # <<>>,
           NEW r \in Results, r.send \in SendStates, Finalize(r)
    PROVE  RecordsType' /\ ClocksType' /\ SinkReady' /\ UNCHANGED <<node, sink>>
<1> DEFINE i == Head(pending)
<1>1. i \in Case
  BY QueueFacts
<1>2. /\ result' = [result EXCEPT ![i] = r] /\ log' = log \o FinalEvents(i, r)
      /\ age' = [age EXCEPT ![i] = 0] /\ waited' = 0
      /\ UNCHANGED <<pending, send, drainAge, node, sink>>
  BY DEF Finalize
<1>3. log' \in Seq(Events)
  BY <1>1, <1>2, FinalEventsType DEF RecordsType
<1>4. RecordsType'
  BY <1>1, <1>2, <1>3 DEF RecordsType
<1>5. ClocksType'
  BY <1>1, <1>2 DEF ClocksType
<1>6. result'[Head(pending')] = r
  BY <1>1, <1>2 DEF RecordsType
<1>7. SinkReady'
  BY <1>6 DEF SinkReady
<1> QED
  BY <1>2, <1>4, <1>5, <1>7

DataInv ==
    /\ RecordsType /\ ClocksType /\ NodeType /\ FilesType /\ CountersType
    /\ SinkReady

\* A step of the runner that leaves the records and the sink alone.
LEMMA SameData ==
    ASSUME DataInv, UNCHANGED <<records, clocks, node, sink>>,
           pc' # "accept"
    PROVE  DataInv'
<1>1. UNCHANGED <<send, result, log, age, waited, drainAge, node, files,
                  retained, stats, report>>
  BY DEF records, clocks, sink
<1>2. RecordsType'
  BY <1>1 DEF DataInv, RecordsType
<1>3. ClocksType' /\ NodeType'
  BY <1>1 DEF DataInv, ClocksType, NodeType
<1>4. FilesType' /\ CountersType'
  BY <1>1 DEF DataInv, FilesType, CountersType
<1>5. SinkReady'
  BY DEF SinkReady
<1> QED
  BY <1>2, <1>3, <1>4, <1>5 DEF DataInv

\* A step of the finalisation that ends with record r.
LEMMA FinalizeDataInv ==
    ASSUME DataInv, RunnerInv, pending # <<>>,
           NEW r \in Results, r.send \in SendStates, Finalize(r)
    PROVE  DataInv'
<1>1. RecordsType' /\ ClocksType' /\ SinkReady' /\ UNCHANGED <<node, sink>>
  BY FinalizeData DEF DataInv, RunnerInv, RunnerType
<1>2. UNCHANGED <<node, files, retained, stats, report>>
  BY <1>1 DEF sink
<1>3. NodeType' /\ FilesType' /\ CountersType'
  BY <1>2 DEF DataInv, NodeType, FilesType, CountersType
<1> QED
  BY <1>1, <1>3 DEF DataInv

\* What the sink writes and counts, completely or up to a failing write.
LEMMA SinkTypes ==
    ASSUME DataInv, RunnerInv, pc = "accept"
    PROVE  LET i == Head(pending)
               r == result[i]
           IN  /\ i \in Case /\ r \in Results /\ r.send \in SendStates
               /\ WithFeedback(r, i) \in SUBSET Case
               /\ CountSent(r) \in Nat
               /\ Counted(r) \in Reports
<1> DEFINE i == Head(pending)
           r == result[i]
<1>1. i \in Case
  BY QueueFacts DEF RunnerInv, RunnerType, QueueInv
<1>2. r \in Results
  BY <1>1 DEF DataInv, RecordsType
<1>3. r.send \in SendStates
  BY DEF DataInv, SinkReady
<1>4. WithFeedback(r, i) \in SUBSET Case
  BY <1>1 DEF DataInv, FilesType, WithFeedback
<1>5. CountSent(r) \in Nat
  BY DEF DataInv, CountersType, CountSent
<1>6. Counted(r) \in Reports
  BY <1>2, <1>3, CountedType DEF DataInv, CountersType
<1> QED
  BY <1>1, <1>2, <1>3, <1>4, <1>5, <1>6

\* Every step keeps the types of the records, the clocks, the node's view, the
\* artifacts and the counters.
LEMMA DataStepInv == RunnerInv /\ DataInv /\ [Next]_vars => DataInv'
<1> SUFFICES ASSUME RunnerInv, DataInv, [Next]_vars PROVE DataInv'
  OBVIOUS
<1>0. /\ RecordsType /\ ClocksType /\ NodeType /\ FilesType /\ CountersType
      /\ pending \in Seq(Case) /\ seq \in 0..Cases /\ Cases \in Nat
      /\ maxSeen \in Nat
  BY CampaignAssumption DEF DataInv, RunnerInv, RunnerType
<1>1. CASE Build
  <2>1. /\ seq' \in Case /\ pc' # "accept"
        /\ UNCHANGED <<send, result, clocks, node, sink>>
    BY <1>0, <1>1 DEF Build, CanBuild, Fail, Case
  <2>2. UNCHANGED <<age, waited, drainAge, files, retained, stats, report>>
    BY <2>1 DEF clocks, sink
  <2>3. /\ [type |-> "nonce_reserved", case |-> seq'] \in Events
        /\ [type |-> "built", case |-> seq'] \in Events
    BY <2>1 DEF Events
  <2>4. log' \in Seq(Events)
    BY <1>0, <1>1, <2>3 DEF Build, RecordsType
  <2>5. RecordsType'
    BY <1>0, <2>1, <2>4 DEF RecordsType
  <2>6. ClocksType' /\ NodeType' /\ FilesType' /\ CountersType'
    BY <1>0, <2>1, <2>2 DEF ClocksType, NodeType, FilesType, CountersType
  <2>7. SinkReady'
    BY <2>1 DEF SinkReady
  <2> QED
    BY <2>5, <2>6, <2>7 DEF DataInv
<1>2. CASE BuildFails
  BY <1>2, SameData DEF BuildFails, Fail
<1>3. ASSUME NEW s \in SendStates, NEW pooled \in BOOLEAN, Submit(s, pooled)
      PROVE  DataInv'
  <2>1. /\ pc = "submit" /\ pc' = "loop" /\ send' = [send EXCEPT ![seq] = s]
        /\ node' = IF pooled THEN [node EXCEPT ![seq] = "pool"] ELSE node
        /\ report' = [report EXCEPT !.total = @ + 1, !.maxInFlight = maxSeen]
        /\ UNCHANGED <<result, log, clocks, files, retained, stats>>
    BY <1>3 DEF Submit
  <2>2. seq \in Case
    BY <2>1 DEF RunnerInv, QueueInv
  <2>3. RecordsType'
    BY <1>0, <2>1, <2>2 DEF RecordsType
  <2>4. ClocksType' /\ FilesType'
    BY <1>0, <2>1 DEF ClocksType, FilesType, clocks
  <2>5. NodeType'
    BY <1>0, <2>1, <2>2 DEF NodeType
  <2>6. CountersType'
    <3>1. report.total + 1 \in Nat
      BY <1>0 DEF CountersType, Reports
    <3>2. report' \in Reports
      BY <1>0, <2>1, <3>1, TotalsType DEF CountersType
    <3> QED
      BY <1>0, <2>1, <3>2 DEF CountersType
  <2>7. SinkReady'
    BY <2>1 DEF SinkReady
  <2> QED
    BY <2>3, <2>4, <2>5, <2>6, <2>7 DEF DataInv
<1>4. CASE SubmitFails
  BY <1>4, SameData DEF SubmitFails, Fail
<1>5. CASE StartDrain
  BY <1>5, SameData DEF StartDrain
<1>6. CASE AwaitSent
  <2>1. /\ pending # <<>> /\ pc' = "receipt"
        /\ log' = Append(log, [type |-> "sent", case |-> Head(pending)])
        /\ UNCHANGED <<send, result, clocks, node, sink>>
    BY <1>0, <1>6, CampaignAssumption DEF AwaitSent, MustFinalize
  <2>2. UNCHANGED <<age, waited, drainAge, files, retained, stats, report>>
    BY <2>1 DEF clocks, sink
  <2>3. [type |-> "sent", case |-> Head(pending)] \in Events
    BY <1>0, <2>1, QueueFacts DEF Events
  <2>4. RecordsType'
    BY <1>0, <2>1, <2>3 DEF RecordsType
  <2>5. ClocksType' /\ NodeType' /\ FilesType' /\ CountersType'
    BY <1>0, <2>1, <2>2 DEF ClocksType, NodeType, FilesType, CountersType
  <2>6. SinkReady'
    BY <2>1 DEF SinkReady
  <2> QED
    BY <2>4, <2>5, <2>6 DEF DataInv
<1>7. CASE AwaitRejected
  <2>1. pending # <<>>
    BY <1>0, <1>7, CampaignAssumption DEF AwaitRejected, MustFinalize
  <2> QED
    BY <1>7, <2>1, RecordTypes, FinalizeDataInv DEF AwaitRejected
<1>8. CASE AwaitExpires
  BY <1>8, SameData DEF AwaitExpires, Fail
<1>9. pc = "receipt" => pending # <<>> /\ Head(pending) \in Case
  BY <1>0, QueueFacts DEF RunnerInv, QueueInv
<1>10. CASE ReceiptSeen
  BY <1>9, <1>10, RecordTypes, FinalizeDataInv DEF ReceiptSeen
<1>11. CASE ReceiptTimesOut
  BY <1>9, <1>11, RecordTypes, FinalizeDataInv DEF ReceiptTimesOut
<1>12. CASE ReceiptLookupFails
  BY <1>9, <1>12, RecordTypes, FinalizeDataInv DEF ReceiptLookupFails
<1>13. CASE Accept
  <2> DEFINE i == Head(pending)
             r == result[i]
  <2>1. /\ i \in Case /\ r \in Results /\ WithFeedback(r, i) \in SUBSET Case
        /\ CountSent(r) \in Nat /\ Counted(r) \in Reports
    BY <1>13, SinkTypes DEF Accept
  <2>2. /\ pc' # "accept" /\ UNCHANGED <<records, clocks, node>>
        /\ report' = Counted(r)
        /\ retained' = IF Retains(r) THEN retained \cup {i} ELSE retained
    BY <1>13 DEF Accept
  <2>3. stats' \in [sent : Nat, retained : Nat, duplicate : Nat]
    BY <1>0, <1>13, <2>1 DEF Accept, CountersType
  <2>4. files' \in [cases : SUBSET Case, feedback : SUBSET Case, bundles : SUBSET Case]
    BY <1>0, <1>13, <2>1 DEF Accept, FilesType
  <2>5. FilesType' /\ CountersType'
    BY <1>0, <2>1, <2>2, <2>3, <2>4 DEF FilesType, CountersType
  <2>6. RecordsType' /\ ClocksType' /\ NodeType'
    BY <1>0, <2>2 DEF RecordsType, ClocksType, NodeType, records, clocks
  <2>7. SinkReady'
    BY <2>2 DEF SinkReady
  <2> QED
    BY <2>5, <2>6, <2>7 DEF DataInv
<1>14. ASSUME NEW stage, AcceptFails(stage) PROVE DataInv'
  <2> DEFINE i == Head(pending)
             r == result[i]
  <2>1. /\ i \in Case /\ WithFeedback(r, i) \in SUBSET Case /\ CountSent(r) \in Nat
    BY <1>14, SinkTypes DEF AcceptFails
  <2>2. /\ pc' # "accept" /\ UNCHANGED <<records, clocks, node, report>>
        /\ stats' = [stats EXCEPT !.sent = CountSent(r)]
        /\ retained' = IF stage = "save" THEN retained \cup {i} ELSE retained
    BY <1>14 DEF AcceptFails, Fail
  <2>3. files' \in [cases : SUBSET Case, feedback : SUBSET Case, bundles : SUBSET Case]
    BY <1>0, <1>14, <2>1 DEF AcceptFails, FilesType
  <2>4. FilesType' /\ CountersType'
    BY <1>0, <2>1, <2>2, <2>3 DEF FilesType, CountersType
  <2>5. RecordsType' /\ ClocksType' /\ NodeType'
    BY <1>0, <2>2 DEF RecordsType, ClocksType, NodeType, records, clocks
  <2>6. SinkReady'
    BY <2>2 DEF SinkReady
  <2> QED
    BY <2>4, <2>5, <2>6 DEF DataInv
<1>15. CASE Finish
  <2>1. /\ pc' \in {"done", "failed"}
        /\ report' = [report EXCEPT !.total = seq, !.sent = stats.sent,
                                    !.retained = stats.retained,
                                    !.duplicate = stats.duplicate]
        /\ UNCHANGED <<records, clocks, node, files, retained, stats>>
    BY <1>15 DEF Finish, WriteReportV2, Fail
  <2>2. CountersType'
    <3>1. seq \in Nat /\ stats.sent \in Nat /\ stats.retained \in Nat
          /\ stats.duplicate \in Nat
      BY <1>0 DEF CountersType
    <3>2. report' \in Reports
      BY <1>0, <2>1, <3>1, TotalsType DEF CountersType
    <3> QED
      BY <1>0, <2>1, <3>2 DEF CountersType
  <2>3. RecordsType' /\ ClocksType' /\ NodeType' /\ FilesType'
    BY <1>0, <2>1 DEF RecordsType, ClocksType, NodeType, FilesType, records, clocks
  <2>4. SinkReady'
    BY <2>1 DEF SinkReady
  <2> QED
    BY <2>2, <2>3, <2>4 DEF DataInv
<1>16. ASSUME UNCHANGED <<runner, records, sink>>, ClocksType', NodeType'
       PROVE  DataInv'
  <2>1. UNCHANGED <<pc, pending, send, result, log, files, retained, stats, report>>
    BY <1>16 DEF runner, records, sink
  <2>2. RecordsType' /\ FilesType' /\ CountersType'
    BY <1>0, <2>1 DEF RecordsType, FilesType, CountersType
  <2>3. SinkReady'
    BY <2>1 DEF DataInv, SinkReady
  <2> QED
    BY <1>16, <2>2, <2>3 DEF DataInv
<1>17. CASE Tick
  <2>1. AgeCap \in Nat /\ ReceiptBudget + 1 \in Nat /\ ConfirmDrain + 1 \in Nat
    BY CampaignAssumption DEF AgeCap, ReceiptBudget
  <2>2. ClocksType'
    BY <1>0, <1>17, <2>1, LaterType DEF Tick, ClocksType
  <2>3. NodeType'
    BY <1>0, <1>17 DEF Tick, NodeType
  <2> QED
    BY <1>16, <1>17, <2>2, <2>3 DEF Tick
<1>18. ASSUME NEW i \in Case, Drop(i) PROVE DataInv'
  BY <1>0, <1>16, <1>18 DEF Drop, NodeType, ClocksType, clocks
<1>19. ASSUME NEW i \in Case, NEW status \in Receipts, Mine(i, status) PROVE DataInv'
  BY <1>0, <1>16, <1>19 DEF Mine, NodeType, ClocksType, clocks
<1>20. CASE UNCHANGED vars
  BY <1>0, <1>16, <1>20 DEF vars, NodeType, ClocksType, clocks
<1> QED
  BY <1>1, <1>2, <1>3, <1>4, <1>5, <1>6, <1>7, <1>8, <1>10, <1>11, <1>12,
     <1>13, <1>14, <1>15, <1>17, <1>18, <1>19, <1>20 DEF Next, RunnerStep

\* Every variable of the v2 campaign keeps its type, whatever the node does and
\* wherever the campaign fails: in particular the case being finalised always
\* exists, and no counter of the limiter leaves its range.
THEOREM TypeCorrect == Spec => []TypeOK
<1>1. Init => RunnerInv /\ DataInv
  BY InitRunner, InitData DEF DataInv
<1>2. RunnerInv /\ DataInv /\ [Next]_vars => (RunnerInv /\ DataInv)'
  BY RunnerStepInv, DataStepInv
<1>3. RunnerInv /\ DataInv => TypeOK
  BY DEF RunnerInv, DataInv, TypeOK
<1> QED
  BY <1>1, <1>2, <1>3, PTL DEF Spec

-----------------------------------------------------------------------------
(* The queue.  Cases are numbered in the order they are begun, so the      *)
(* submitted ones are an initial segment, the finalised ones a shorter     *)
(* one, and the queue lists what lies between.  Stated with numbers        *)
(* instead of cardinalities this is inductive.                             *)

\* The last case SubmitAsync completed for: a case that is being submitted, and
\* one that ended the campaign before, have been counted by the loop already.
Subs == IF pc = "submit" \/ err \in {"build", "submit"} THEN seq - 1 ELSE seq

\* The last case that left the queue, and the last one with a record.
Gone == Subs - Len(pending)
Done == IF pc = "accept" \/ err = "sink" THEN Gone + 1 ELSE Gone

FifoInv ==
    /\ pc = "failed" <=> err # "none"
    /\ Subs \in Nat /\ Len(pending) <= Subs /\ Done <= Subs
    /\ \A n \in DOMAIN pending : pending[n] = Gone + n
    /\ \A i \in Case : send[i] # "none" <=> i <= Subs
    /\ \A i \in Case : result[i] # NoResult <=> i <= Done

\* The drain begins after all cases are submitted, and ends with an empty queue.
DrainPhase ==
    /\ draining => seq = Cases /\ pc \notin {"loop", "submit"}
    /\ pc \in {"drain", "done"} => draining
    /\ ~draining => drainAge = 0
    /\ pc = "done" => pending = <<>>
    /\ published => pc = "done"

\* What the steps below know of the state.
LEMMA Basics ==
    ASSUME RunnerInv, DataInv
    PROVE  /\ pending \in Seq(Case) /\ seq \in Nat /\ drainAge \in Nat
           /\ DOMAIN pending = 1..Len(pending) /\ Len(pending) \in Nat
           /\ \A n \in DOMAIN pending : pending[n] \in Case /\ age[pending[n]] \in Nat
           /\ Case \subseteq Nat /\ Case = 1..Cases /\ Cases \in Nat /\ seq <= Cases
           /\ ConfirmDrain \in Nat
           /\ result \in [Case -> Results] /\ age \in [Case -> Nat]
           /\ send \in [Case -> SendStates \cup {"none"}]
<1>1. /\ pending \in Seq(Case) /\ seq \in 0..Cases /\ Cases \in Nat
      /\ age \in [Case -> Nat] /\ drainAge \in Nat /\ result \in [Case -> Results]
      /\ send \in [Case -> SendStates \cup {"none"}]
      /\ ConfirmDrain \in Nat
  BY CampaignAssumption
     DEF RunnerInv, RunnerType, DataInv, ClocksType, RecordsType
<1>2. Case \subseteq Nat /\ Case = 1..Cases
  BY <1>1 DEF Case
<1> QED
  BY <1>1, <1>2

\* At the start nothing is submitted and there is no drain.
LEMMA InitFifo == Init => FifoInv /\ DrainPhase
<1> SUFFICES ASSUME Init PROVE FifoInv /\ DrainPhase
  OBVIOUS
<1>1. /\ pc = "loop" /\ err = "none" /\ seq = 0 /\ pending = <<>> /\ drainAge = 0
      /\ send = [i \in Case |-> "none"] /\ result = [i \in Case |-> NoResult]
  BY DEF Init
<1>2. ~draining /\ ~published
  BY Zenon DEF Init
<1>3. Subs = 0 /\ Gone = 0 /\ Done = 0
  BY <1>1 DEF Subs, Gone, Done
<1>4. \A i \in Case : ~(i <= 0)
  BY CampaignAssumption DEF Case
<1>5. FifoInv
  BY <1>1, <1>3, <1>4 DEF FifoInv
<1>6. DrainPhase
  BY <1>1, <1>2 DEF DrainPhase
<1> QED
  BY <1>5, <1>6

\* Nothing moves in the queue.
LEMMA FifoStill ==
    ASSUME FifoInv, UNCHANGED <<pending, send, result>>, Subs' = Subs, Done' = Done,
           pc' = "failed" <=> err' # "none"
    PROVE  FifoInv'
<1>1. Gone' = Gone
  BY DEF Gone
<1> QED
  BY <1>1 DEF FifoInv

\* The head of the queue is the first case that has not left it.
LEMMA HeadIsNext ==
    ASSUME RunnerInv, DataInv, FifoInv, pending # <<>>
    PROVE  /\ Head(pending) = Gone + 1 /\ Gone + 1 \in Case /\ Gone \in Nat
           /\ 1 \in DOMAIN pending /\ Head(pending) = pending[1]
<1>1. 1 \in DOMAIN pending /\ Head(pending) = pending[1]
  BY Basics
<1>2. pending[1] = Gone + 1 /\ pending[1] \in Case
  BY <1>1, Basics DEF FifoInv
<1>3. Gone \in Nat
  BY Basics DEF FifoInv, Gone
<1> QED
  BY <1>1, <1>2, <1>3

\* The record that finalisation gives to the head of the queue.
LEMMA FinalizeFifo ==
    ASSUME RunnerInv, DataInv, FifoInv, pending # <<>>, pc \notin {"submit", "accept", "failed"},
           NEW r, r.send \in SendStates, Finalize(r)
    PROVE  FifoInv'
<1> DEFINE i == Head(pending)
<1>1. /\ pc' = "accept" /\ result' = [result EXCEPT ![i] = r]
      /\ UNCHANGED <<err, seq, pending, send>>
  BY DEF Finalize
<1>2. err = "none"
  BY DEF FifoInv
<1>3. Subs' = Subs /\ Gone' = Gone /\ Done' = Gone + 1 /\ Done = Gone
  BY <1>1, <1>2 DEF Subs, Gone, Done
<1>4. i = Gone + 1 /\ i \in Case /\ Gone \in Nat
  BY HeadIsNext
<1>5. r # NoResult
  BY DEF NoResult, SendStates
<1>6. \A j \in Case : result'[j] # NoResult <=> j <= Gone + 1
  <2>1. \A j \in Case : j \in Nat /\ (result[j] # NoResult <=> j <= Gone)
    BY <1>3, Basics DEF FifoInv
  <2>2. \A j \in Case : result'[j] = IF j = i THEN r ELSE result[j]
    BY <1>1, Basics
  <2> HIDE DEF i
  <2> QED
    BY <1>4, <1>5, <2>1, <2>2
<1>7. Done' <= Subs'
  <2>1. Len(pending) \in Nat /\ Len(pending) # 0 /\ Subs \in Nat
    BY Basics DEF FifoInv
  <2> QED
    BY <1>3, <2>1 DEF Gone
<1> QED
  BY <1>1, <1>2, <1>3, <1>6, <1>7 DEF FifoInv

\* Every step of the campaign keeps the numbering.
LEMMA NextFifo ==
    RunnerInv /\ DataInv /\ FifoInv /\ DrainPhase /\ [Next]_vars => FifoInv'
<1> SUFFICES ASSUME RunnerInv, DataInv, FifoInv, DrainPhase, [Next]_vars PROVE FifoInv'
  OBVIOUS
<1>0. /\ err # "limiter" /\ inFlight = Len(pending) + (IF pc = "submit" THEN 1 ELSE 0)
      /\ Len(pending) \in Nat /\ seq \in Nat /\ MaxInFlight \in Nat
      /\ pc = "failed" <=> err # "none"
      /\ pc \in {"receipt", "accept"} => pending # <<>>
      /\ MustFinalize => pending # <<>> /\ pc \in {"loop", "drain"}
  BY Basics, CampaignAssumption DEF FifoInv, RunnerInv, QueueInv, MustFinalize, LimiterAgrees
<1>1. CASE Build
  <2>1. /\ pc = "loop" /\ pc' = "submit" /\ seq' = seq + 1
        /\ UNCHANGED <<err, pending, send, result>>
    BY <1>0, <1>1 DEF Build, CanBuild
  <2>2. Subs' = Subs /\ Done' = Done
    BY <1>0, <2>1 DEF Subs, Gone, Done
  <2> QED
    BY <1>0, <2>1, <2>2, FifoStill
<1>2. CASE BuildFails
  <2>1. /\ pc = "loop" /\ pc' = "failed" /\ seq' = seq + 1 /\ err' = "build"
        /\ UNCHANGED <<pending, send, result>>
    BY <1>2 DEF BuildFails, CanBuild, Fail, records
  <2>2. Subs' = Subs /\ Done' = Done
    BY <1>0, <2>1 DEF Subs, Gone, Done
  <2> QED
    BY <1>0, <2>1, <2>2, FifoStill
<1>3. ASSUME NEW s \in SendStates, NEW pooled \in BOOLEAN, Submit(s, pooled)
      PROVE  FifoInv'
  <2>1. /\ pc = "submit" /\ pc' = "loop" /\ pending' = Append(pending, seq)
        /\ send' = [send EXCEPT ![seq] = s]
        /\ UNCHANGED <<err, seq, result>>
    BY <1>3 DEF Submit
  <2>2. seq \in Case /\ s # "none"
    BY <2>1 DEF RunnerInv, QueueInv, SendStates
  <2>3. /\ DOMAIN pending' = 1..(Len(pending) + 1) /\ Len(pending') = Len(pending) + 1
        /\ pending'[Len(pending) + 1] = seq
        /\ \A n \in DOMAIN pending : pending'[n] = pending[n]
    BY <2>1, <2>2, Basics, AppendProperties
  <2>4. Subs = seq - 1 /\ Subs' = seq /\ Gone' = Gone /\ Done' = Done
    BY <1>0, <2>1, <2>3 DEF Subs, Gone, Done
  <2>5. \A n \in DOMAIN pending' : pending'[n] = Gone + n
    <3>1. \A n \in DOMAIN pending' : n \in DOMAIN pending \/ n = Len(pending) + 1
      BY <2>3, Basics
    <3>2. seq = Gone + (Len(pending) + 1)
      BY <1>0, <2>4 DEF Gone
    <3> QED
      BY <2>3, <3>1, <3>2 DEF FifoInv
  <2>6. \A i \in Case : send'[i] # "none" <=> i <= seq
    <3>1. \A i \in Case : i \in Nat /\ (send[i] # "none" <=> i <= seq - 1)
      BY <2>4, Basics DEF FifoInv
    <3>2. \A i \in Case : send'[i] = IF i = seq THEN s ELSE send[i]
      BY <2>1, Basics
    <3> QED
      BY <1>0, <2>2, <3>1, <3>2
  <2>7. \A i \in Case : result'[i] # NoResult <=> i <= Done'
    BY <2>1, <2>4 DEF FifoInv
  <2>8. Subs' \in Nat /\ Len(pending') <= Subs' /\ Done' <= Subs'
    <3>1. Done = Gone
      BY <1>0, <2>1 DEF Done
    <3> QED
      BY <1>0, <2>3, <2>4, <3>1 DEF FifoInv, Gone
  <2> QED
    BY <1>0, <2>1, <2>4, <2>5, <2>6, <2>7, <2>8 DEF FifoInv
<1>4. CASE SubmitFails
  <2>1. /\ pc = "submit" /\ pc' = "failed" /\ err' = "submit"
        /\ UNCHANGED <<seq, pending, send, result>>
    BY <1>4 DEF SubmitFails, Fail, records
  <2>2. Subs' = Subs /\ Done' = Done
    BY <1>0, <2>1 DEF Subs, Gone, Done
  <2> QED
    BY <2>1, <2>2, FifoStill
<1>5. ASSUME pc \notin {"submit", "accept", "failed"}, UNCHANGED <<seq, pending, send, result>>,
             \/ pc' \in {"drain", "receipt", "done"} /\ UNCHANGED err
             \/ pc' = "failed" /\ err' \in {"await", "report"}
      PROVE  FifoInv'
  <2>1. Subs' = Subs /\ Done' = Done
    BY <1>0, <1>5 DEF Subs, Gone, Done
  <2> QED
    BY <1>0, <1>5, <2>1, FifoStill
<1>6. CASE StartDrain
  BY <1>5, <1>6 DEF StartDrain, records
<1>7. CASE AwaitSent
  BY <1>0, <1>5, <1>7 DEF AwaitSent
<1>8. CASE AwaitRejected
  BY <1>0, <1>8, FinalizeFifo, RecordTypes DEF AwaitRejected
<1>9. CASE AwaitExpires
  BY <1>0, <1>5, <1>9 DEF AwaitExpires, Fail, records
<1>10. pc = "receipt" => Head(pending) \in Case
  BY <1>0, QueueFacts, Basics
<1>11. CASE ReceiptSeen
  BY <1>0, <1>11, FinalizeFifo, RecordTypes DEF ReceiptSeen
<1>12. CASE ReceiptTimesOut
  BY <1>0, <1>10, <1>12, FinalizeFifo, RecordTypes DEF ReceiptTimesOut
<1>13. CASE ReceiptLookupFails
  BY <1>0, <1>10, <1>13, FinalizeFifo, RecordTypes DEF ReceiptLookupFails
<1>14. CASE Accept
  <2>1. /\ pc = "accept" /\ pc' \in {"drain", "loop"} /\ pending' = Tail(pending)
        /\ pending # <<>> /\ UNCHANGED <<err, seq, send, result>>
    BY <1>0, <1>14 DEF Accept, Leave, records
  <2>2. /\ Len(pending') = Len(pending) - 1
        /\ \A n \in DOMAIN pending' : n \in Nat /\ n + 1 \in DOMAIN pending
                                      /\ pending'[n] = pending[n + 1]
    BY <2>1, Basics
  <2>3. Subs' = Subs /\ Gone' = Gone + 1 /\ Done' = Done /\ Gone \in Nat
    BY <1>0, <2>1, <2>2 DEF Subs, Gone, Done, FifoInv
  <2>4. \A n \in DOMAIN pending' : pending'[n] = Gone' + n
    BY <2>2, <2>3 DEF FifoInv
  <2> QED
    BY <1>0, <2>1, <2>2, <2>3, <2>4 DEF FifoInv
<1>15. ASSUME NEW stage, AcceptFails(stage) PROVE FifoInv'
  <2>1. /\ pc = "accept" /\ pc' = "failed" /\ err' = "sink"
        /\ UNCHANGED <<seq, pending, send, result>>
    BY <1>15 DEF AcceptFails, Fail, records
  <2>2. Subs' = Subs /\ Done' = Done
    BY <1>0, <2>1 DEF Subs, Gone, Done
  <2> QED
    BY <2>1, <2>2, FifoStill
<1>16. CASE Finish
  BY <1>5, <1>16 DEF Finish, WriteReportV2, Fail, records
<1>17. ASSUME UNCHANGED <<runner, records>> PROVE FifoInv'
  <2>1. UNCHANGED <<pc, err, seq, pending, send, result>>
    BY <1>17 DEF runner, records
  <2>2. Subs' = Subs /\ Done' = Done
    BY <2>1 DEF Subs, Gone, Done
  <2> QED
    BY <1>0, <2>1, <2>2, FifoStill
<1>18. CASE Tick
  BY <1>17, <1>18 DEF Tick
<1>19. ASSUME NEW i \in Case, Drop(i) PROVE FifoInv'
  BY <1>17, <1>19 DEF Drop
<1>20. ASSUME NEW i \in Case, NEW status \in Receipts, Mine(i, status) PROVE FifoInv'
  BY <1>17, <1>20 DEF Mine
<1>21. CASE UNCHANGED vars
  BY <1>17, <1>21 DEF vars
<1> QED
  BY <1>1, <1>2, <1>3, <1>4, <1>6, <1>7, <1>8, <1>9, <1>11, <1>12, <1>13, <1>14,
     <1>15, <1>16, <1>18, <1>19, <1>20, <1>21 DEF Next, RunnerStep

\* A step that neither starts nor ends the drain, and leaves its clock alone.
LEMMA SamePhase ==
    ASSUME DrainPhase, pc # "done", pc' \notin {"drain", "done"},
           UNCHANGED <<draining, published, drainAge>>,
           draining => pc' \notin {"loop", "submit"} /\ seq' = seq
    PROVE  DrainPhase'
BY DEF DrainPhase

\* Every step of the campaign respects the phases.
LEMMA NextPhase == RunnerInv /\ DrainPhase /\ [Next]_vars => DrainPhase'
<1> SUFFICES ASSUME RunnerInv, DrainPhase, [Next]_vars PROVE DrainPhase'
  OBVIOUS
<1>0. pc \in {"loop", "submit"} => ~draining
  BY DEF DrainPhase
<1>1. CASE Build
  BY <1>0, <1>1, SamePhase DEF Build, CanBuild, Fail, clocks
<1>2. CASE BuildFails
  BY <1>0, <1>2, SamePhase DEF BuildFails, CanBuild, Fail, clocks
<1>3. ASSUME NEW s \in SendStates, NEW pooled \in BOOLEAN, Submit(s, pooled)
      PROVE  DrainPhase'
  BY <1>0, <1>3, SamePhase DEF Submit, clocks
<1>4. CASE SubmitFails
  BY <1>0, <1>4, SamePhase DEF SubmitFails, Fail, clocks
<1>5. CASE StartDrain
  BY <1>5 DEF StartDrain, DrainPhase
<1>6. CASE AwaitSent
  BY <1>6, SamePhase DEF AwaitSent, MustFinalize, clocks
<1>7. ASSUME NEW r, Finalize(r), pc # "done" PROVE DrainPhase'
  BY <1>7, SamePhase DEF Finalize
<1>8. CASE AwaitRejected
  BY <1>7, <1>8 DEF AwaitRejected, MustFinalize
<1>9. CASE AwaitExpires
  BY <1>9, SamePhase DEF AwaitExpires, MustFinalize, Fail, clocks
<1>10. CASE ReceiptSeen
  BY <1>7, <1>10 DEF ReceiptSeen
<1>11. CASE ReceiptTimesOut
  BY <1>7, <1>11 DEF ReceiptTimesOut
<1>12. CASE ReceiptLookupFails
  BY <1>7, <1>12 DEF ReceiptLookupFails
<1>13. CASE Accept
  <2>1. /\ pc = "accept" /\ pc' = IF draining THEN "drain" ELSE "loop"
        /\ UNCHANGED <<seq, draining, published, drainAge>>
    BY <1>13 DEF Accept, clocks
  <2> QED
    BY <2>1 DEF DrainPhase
<1>14. ASSUME NEW stage, AcceptFails(stage) PROVE DrainPhase'
  BY <1>14, SamePhase DEF AcceptFails, Fail, clocks
<1>15. CASE Finish
  <2>1. /\ pc = "drain" /\ pc' \in {"done", "failed"} /\ pending = <<>>
        /\ UNCHANGED <<seq, draining, pending, drainAge>>
        /\ published' => pc' = "done" \/ published
    BY <1>15 DEF Finish, WriteReportV2, Fail, clocks
  <2> QED
    BY <2>1 DEF DrainPhase
<1>16. ASSUME UNCHANGED runner, ~draining => drainAge' = drainAge PROVE DrainPhase'
  BY <1>16 DEF runner, DrainPhase
<1>17. CASE Tick
  BY <1>16, <1>17 DEF Tick
<1>18. ASSUME NEW i \in Case, Drop(i) PROVE DrainPhase'
  BY <1>16, <1>18 DEF Drop, clocks
<1>19. ASSUME NEW i \in Case, NEW status \in Receipts, Mine(i, status) PROVE DrainPhase'
  BY <1>16, <1>19 DEF Mine, clocks
<1>20. CASE UNCHANGED vars
  BY <1>16, <1>20 DEF vars, clocks
<1> QED
  BY <1>1, <1>2, <1>3, <1>4, <1>5, <1>6, <1>8, <1>9, <1>10, <1>11, <1>12,
     <1>13, <1>14, <1>15, <1>17, <1>18, <1>19, <1>20 DEF Next, RunnerStep

-----------------------------------------------------------------------------

\* The inductive invariant of the campaign.
Inv == RunnerInv /\ DataInv /\ FifoInv /\ DrainPhase

\* The runner's queue, its program counter and its records fit together in every
\* state (RunCampaignV2 and drainOneFinalizedCase).
THEOREM Invariance == Spec => []Inv
<1>1. Init => Inv
  BY InitRunner, InitData, InitFifo DEF Inv, DataInv
<1>2. Inv /\ [Next]_vars => Inv'
  BY RunnerStepInv, DataStepInv, NextFifo, NextPhase DEF Inv
<1> QED
  BY <1>1, <1>2, PTL DEF Spec

\* The cardinality of an initial segment.
LEMMA SegmentSize ==
    ASSUME NEW n \in Nat PROVE Cardinality(1..n) = n /\ IsFiniteSet(1..n)
<1>1. 1 \in Int /\ n \in Int
  OBVIOUS
<1>2. Cardinality(1..n) = (IF 1 > n THEN 0 ELSE n - 1 + 1) /\ IsFiniteSet(1..n)
  BY <1>1, FS_Interval
<1> QED
  BY <1>2

\* The sets that the properties speak of are initial segments.
LEMMA Segments ==
    ASSUME RunnerInv, DataInv, FifoInv
    PROVE  /\ Subs \in Nat /\ Gone \in Nat /\ Done \in Nat
           /\ Gone <= Done /\ Done <= Subs /\ Subs <= Cases
           /\ Done # Gone => pending # <<>>
           /\ Submitted = 1..Subs /\ Finalized = 1..Done /\ Accepted = 1..Gone
           /\ Cardinality(Submitted) = Subs
<1>1. /\ seq \in Nat /\ Cases \in Nat /\ seq <= Cases /\ Len(pending) \in Nat
      /\ Case = 1..Cases /\ DOMAIN pending = 1..Len(pending)
      /\ \A n \in DOMAIN pending : pending[n] = Gone + n
  BY Basics DEF FifoInv
<1>2. Subs \in Nat /\ Gone \in Nat /\ Subs <= Cases /\ Subs = Gone + Len(pending)
  BY <1>1 DEF FifoInv, Gone, Subs
<1>3. Done \in Nat /\ Gone <= Done /\ Done <= Subs /\ (Done # Gone => pending # <<>>)
  <2>1. Done = Gone \/ Done = Gone + 1
    BY DEF Done
  <2>2. Done <= Subs
    BY DEF FifoInv
  <2>3. pending = <<>> => Len(pending) = 0
    OBVIOUS
  <2> QED
    BY <1>1, <1>2, <2>1, <2>2, <2>3
<1>4. Submitted = 1..Subs
  BY <1>1, <1>2 DEF FifoInv, Submitted
<1>5. Finalized = 1..Done
  BY <1>1, <1>2, <1>3 DEF FifoInv, Finalized
<1>6. Accepted = 1..Gone
  <2>1. \A i \in 1..Done : i <= Gone <=> \A n \in DOMAIN pending : pending[n] # i
    <3>1. ASSUME NEW i \in 1..Done, i > Gone
          PROVE  \E n \in DOMAIN pending : pending[n] = i
      <4>1. i - Gone \in DOMAIN pending
        BY <1>1, <1>2, <1>3, <3>1
      <4>2. pending[i - Gone] = i
        BY <1>1, <1>2, <1>3, <4>1
      <4> QED
        BY <4>1, <4>2
    <3>2. ASSUME NEW i \in 1..Done, i <= Gone, NEW n \in DOMAIN pending
          PROVE  pending[n] # i
      BY <1>1, <1>2, <1>3, <3>2
    <3> QED
      BY <1>2, <1>3, <3>1, <3>2
  <2> QED
    BY <1>2, <1>3, <1>5, <2>1 DEF Accepted
<1> QED
  BY <1>2, <1>3, <1>4, <1>5, <1>6, SegmentSize

\* Submitted cases leave the queue in the order of their submission, each is
\* finalised exactly once and none is lost (drainOneFinalizedCase and the FIFO
\* pending of RunCampaignV2), for every number of cases and every window.
THEOREM FifoHolds == Spec => []FifoOnce
<1>1. Inv => FifoOnce
  <2> SUFFICES ASSUME Inv PROVE FifoOnce
    OBVIOUS
  <2>1. /\ Submitted = 1..Subs /\ Finalized = 1..Done
        /\ Cardinality(Submitted) = Subs
    BY Segments DEF Inv
  <2>2. pending = [n \in 1..Len(pending) |-> Gone + n]
    BY Basics DEF Inv, FifoInv
  <2> QED
    BY <2>1, <2>2 DEF FifoOnce, Gone, Done
<1> QED
  BY <1>1, Invariance, PTL

-----------------------------------------------------------------------------
(* The deadline of the drain phase.  The budget of a case and the drain    *)
(* are measured by different clocks; the clock of a case that waits for    *)
(* its record is never behind that of the drain.                           *)

\* A waiting case is at least as old as the drain, or beyond its budget.
OlderThanDrain ==
    pc # "failed" =>
        \A i \in Case : Done < i /\ i <= Subs =>
            age[i] >= drainAge \/ age[i] >= ConfirmDrain

\* Before the drain there is nothing to show.
LEMMA YoungDrain ==
    ASSUME DataInv, drainAge = 0 PROVE OlderThanDrain
BY DEF DataInv, ClocksType, OlderThanDrain

\* The clocks stand still, except that of a case which gets its record.
LEMMA SameClocks ==
    ASSUME RunnerInv, DataInv, FifoInv, OlderThanDrain, pc # "failed",
           Subs' = Subs, Done' \in Nat, Done <= Done', drainAge' = drainAge,
           \A i \in Case : Done' < i => age'[i] = age[i]
    PROVE  OlderThanDrain'
<1>1. Done \in Nat /\ Case \subseteq Nat
  BY Segments, Basics
<1>2. ASSUME NEW i \in Case, Done' < i, i <= Subs
      PROVE  age'[i] >= drainAge \/ age'[i] >= ConfirmDrain
  BY <1>1, <1>2 DEF OlderThanDrain
<1> QED
  BY <1>2 DEF OlderThanDrain

\* While a case waits, its clock advances whenever that of the drain does.
LEMMA TickOlder ==
    ASSUME RunnerInv, DataInv, FifoInv, OlderThanDrain, Tick
    PROVE  OlderThanDrain'
<1>1. /\ age' = [i \in Case |-> IF i \in Ageing THEN Later(age[i], AgeCap) ELSE age[i]]
      /\ drainAge' = IF draining THEN Later(drainAge, ConfirmDrain + 1) ELSE drainAge
      /\ UNCHANGED <<pc, err, seq, pending>> /\ pc # "failed"
  BY DEF Tick, runner, Running
<1>2. Subs' = Subs /\ Done' = Done
  BY <1>1 DEF Subs, Gone, Done
<1>3. drainAge \in Nat /\ ConfirmDrain \in Nat /\ AgeCap \in Nat /\ AgeCap >= ConfirmDrain
  BY Basics, CampaignAssumption DEF AgeCap
<1>4. drainAge' <= drainAge + 1 /\ drainAge' \in Nat
  BY <1>1, <1>3 DEF Later
<1>5. ASSUME NEW i \in Case, Done < i, i <= Subs
      PROVE  age'[i] >= drainAge' \/ age'[i] >= ConfirmDrain
  <2>1. /\ i \in Nat /\ Done \in Nat /\ seq \in Nat /\ Case = 1..Cases
        /\ age[i] \in Nat /\ (result[i] # NoResult <=> i <= Done)
    BY Basics, Segments DEF FifoInv
  <2>2. i <= seq
    BY <1>5, <2>1 DEF Subs
  <2>3. i \in Ageing
    BY <1>5, <2>1, <2>2 DEF Ageing
  <2>4. age'[i] = Later(age[i], AgeCap)
    BY <1>1, <2>3
  <2>5. age[i] >= drainAge \/ age[i] >= ConfirmDrain
    BY <1>1, <1>5 DEF OlderThanDrain
  <2> QED
    BY <1>3, <1>4, <2>1, <2>4, <2>5 DEF Later
<1> QED
  BY <1>1, <1>2, <1>5 DEF OlderThanDrain

\* Every step keeps the clocks in this order.
LEMMA NextOlder == Inv /\ Inv' /\ OlderThanDrain /\ [Next]_vars => OlderThanDrain'
<1> SUFFICES ASSUME Inv, Inv', OlderThanDrain, [Next]_vars, drainAge' # 0, pc' # "failed"
             PROVE  OlderThanDrain'
  <2>1. ASSUME Inv', drainAge' = 0 PROVE OlderThanDrain'
    <3>1. age' \in [Case -> Nat]
      BY <2>1 DEF Inv, DataInv, ClocksType
    <3> QED
      BY <2>1, <3>1 DEF OlderThanDrain
  <2>2. pc' = "failed" => OlderThanDrain'
    BY DEF OlderThanDrain
  <2> QED
    BY <2>1, <2>2
<1> USE DEF Inv
<1>0. draining' /\ (draining \/ drainAge = 0)
  BY DEF DrainPhase
<1>1. pc \in {"loop", "submit"} => ~draining
  BY DEF DrainPhase
<1>2. ASSUME UNCHANGED <<pc, err, seq, pending, age, drainAge>>
      PROVE  OlderThanDrain'
  BY <1>2 DEF OlderThanDrain, Subs, Gone, Done
<1>3. ASSUME pc \notin {"submit", "accept", "failed"}, pc' \in {"receipt", "done"},
             UNCHANGED <<err, seq, pending, age, drainAge>>
      PROVE  OlderThanDrain'
  BY <1>3 DEF OlderThanDrain, Subs, Gone, Done
<1>4. ASSUME NEW r, Finalize(r), pc \notin {"loop", "submit", "accept", "failed"}, pending # <<>>
      PROVE  OlderThanDrain'
  <2>1. /\ pc' = "accept" /\ age' = [age EXCEPT ![Head(pending)] = 0]
        /\ UNCHANGED <<err, seq, pending, drainAge>>
    BY <1>4 DEF Finalize
  <2>2. Subs' = Subs /\ Done = Gone /\ Done' = Gone + 1 /\ Gone \in Nat
    BY <1>4, <2>1, Segments DEF Subs, Gone, Done, FifoInv
  <2>3. Head(pending) = Gone + 1
    BY <1>4, HeadIsNext
  <2>4. \A i \in Case : i # Gone + 1 => age'[i] = age[i]
    BY <2>1, <2>3, Basics
  <2>5. \A i \in Case : Done' < i => i # Gone + 1
    BY <2>2, Basics
  <2> QED
    BY <1>4, <2>1, <2>2, <2>4, <2>5, SameClocks
<1>5. pc = "receipt" => pending # <<>>
  BY DEF RunnerInv, QueueInv
<1>6. MustFinalize /\ draining => pending # <<>> /\ pc = "drain"
  BY <1>1 DEF MustFinalize
<1>7. drainAge' = drainAge => draining /\ pc \notin {"loop", "submit"}
  BY <1>0, <1>1
<1>8. CASE Build \/ BuildFails \/ SubmitFails \/ StartDrain
  BY <1>7, <1>8 DEF Build, BuildFails, CanBuild, SubmitFails, StartDrain, clocks
<1>9. ASSUME NEW s \in SendStates, NEW pooled \in BOOLEAN, Submit(s, pooled)
      PROVE  OlderThanDrain'
  BY <1>7, <1>9 DEF Submit, clocks
<1>10. CASE AwaitSent
  BY <1>3, <1>6, <1>7, <1>10 DEF AwaitSent, clocks
<1>11. CASE AwaitRejected
  BY <1>4, <1>6, <1>7, <1>11 DEF AwaitRejected, Finalize
<1>12. CASE AwaitExpires
  BY <1>12 DEF AwaitExpires, Fail
<1>13. CASE ReceiptSeen
  BY <1>4, <1>5, <1>13 DEF ReceiptSeen
<1>14. CASE ReceiptTimesOut
  BY <1>4, <1>5, <1>14 DEF ReceiptTimesOut
<1>15. CASE ReceiptLookupFails
  BY <1>4, <1>5, <1>15 DEF ReceiptLookupFails
<1>16. CASE Accept
  <2>1. /\ pc = "accept" /\ pc' \in {"drain", "loop"} /\ pending' = Tail(pending)
        /\ pending # <<>> /\ UNCHANGED <<err, seq, age, drainAge>>
    BY <1>16 DEF Accept, Leave, clocks, RunnerInv, QueueInv
  <2>2. Len(pending') = Len(pending) - 1 /\ Len(pending) \in Nat /\ err = "none"
    BY <2>1, Basics DEF FifoInv
  <2>3. Subs' = Subs /\ Done' = Done
    BY <2>1, <2>2, Segments DEF Subs, Gone, Done
  <2> QED
    BY <2>1, <2>3, SameClocks, Segments
<1>17. ASSUME NEW stage, AcceptFails(stage) PROVE OlderThanDrain'
  BY <1>17 DEF AcceptFails, Fail
<1>18. CASE Finish
  BY <1>3, <1>18 DEF Finish, WriteReportV2, Fail, clocks
<1>19. CASE Tick
  BY <1>19, TickOlder
<1>20. ASSUME NEW i \in Case, Drop(i) PROVE OlderThanDrain'
  BY <1>2, <1>20 DEF Drop, runner, clocks
<1>21. ASSUME NEW i \in Case, NEW status \in Receipts, Mine(i, status) PROVE OlderThanDrain'
  BY <1>2, <1>21 DEF Mine, runner, clocks
<1>22. CASE UNCHANGED vars
  BY <1>2, <1>22 DEF vars, runner, clocks
<1> QED
  BY <1>8, <1>9, <1>10, <1>11, <1>12, <1>13, <1>14, <1>15, <1>16, <1>17, <1>18,
     <1>19, <1>20, <1>21, <1>22 DEF Next, RunnerStep

\* A receipt wait that ends because the drain is over ends the case: its own
\* budget has run out, too.
LEMMA DeadlineStep ==
    ASSUME Inv, OlderThanDrain, ReceiptTimesOut, DrainExpired
    PROVE  IsTerminalConfirmState(result'[Head(pending)].confirm)
<1> DEFINE i == Head(pending)
           r == UnconfirmedRecord(i, "receipt_timeout")
<1>1. pc = "receipt" /\ pending # <<>> /\ result' = [result EXCEPT ![i] = r]
  BY DEF ReceiptTimesOut, Finalize, Inv, RunnerInv, QueueInv
<1>2. i = Gone + 1 /\ i \in Case
  BY <1>1, HeadIsNext DEF Inv
<1>3. Done < i /\ i <= Subs
  <2>1. Done = Gone
    BY <1>1 DEF Inv, FifoInv, Done
  <2>2. Len(pending) \in Nat /\ Len(pending) # 0
    BY <1>1, Basics DEF Inv
  <2> QED
    BY <1>2, <2>1, <2>2, Segments DEF Inv, Gone
<1>4. age[i] >= drainAge \/ age[i] >= ConfirmDrain
  BY <1>1, <1>2, <1>3 DEF OlderThanDrain
<1>5. age[i] \in Nat /\ drainAge \in Nat /\ ConfirmDrain \in Nat /\ drainAge >= ConfirmDrain
  BY <1>2, Basics DEF Inv, DrainExpired
<1>6. age[i] >= ConfirmDrain
  BY <1>4, <1>5
<1>7. r.confirm = "unresolved_shutdown"
  BY <1>6 DEF UnconfirmedRecord
<1>8. result'[i] = r
  BY <1>1, <1>2, Basics DEF Inv
<1> QED
  BY <1>7, <1>8 DEF IsTerminalConfirmState

\* A case whose receipt wait runs into the deadline of the drain phase ends
\* terminal (applyConfirmBudgetState against the drain context), so it is
\* counted as terminal and its canonical feedback is written.
THEOREM DrainDeadlineIsTerminal == Spec => DrainDeadlineTerminal
<1>1. Init => OlderThanDrain
  BY InitData, YoungDrain DEF DataInv, Init
<1>2. Inv /\ OlderThanDrain /\ [Next]_vars =>
          [ReceiptTimesOut /\ DrainExpired =>
              IsTerminalConfirmState(result'[Head(pending)].confirm)]_vars
  BY DeadlineStep
<1> QED
  BY <1>1, <1>2, NextOlder, Invariance, PTL DEF Spec, DrainDeadlineTerminal

-----------------------------------------------------------------------------
(* The runner implements the abstract pipeline.  The mapping of            *)
(* ImplementsPipeline, in terms of the queue's numbers:                    *)

Fate == [i \in Case |-> IF i <= Gone THEN Verdict(result[i]) ELSE "none"]

Status == IF pc = "done" THEN "complete"
          ELSE IF pc = "failed" THEN "aborted" ELSE "running"

\* The pipeline's variables are these numbers and fates.
LEMMA Mapping ==
    Inv => /\ Cardinality(Submitted) = Subs
           /\ Cardinality(Submitted) - Len(pending) = Gone
           /\ [i \in Case |-> IF i \in Accepted THEN Verdict(result[i]) ELSE "none"] = Fate
<1> SUFFICES ASSUME Inv
             PROVE  /\ Cardinality(Submitted) = Subs
                    /\ Cardinality(Submitted) - Len(pending) = Gone
                    /\ \A i \in Case : i \in Accepted <=> i <= Gone
  BY DEF Fate
<1>1. Cardinality(Submitted) = Subs /\ Accepted = 1..Gone /\ Gone \in Nat /\ Case = 1..Cases
      /\ Cases \in Nat
  BY Segments, Basics DEF Inv
<1>2. \A i \in Case : i \in Accepted <=> i <= Gone
  BY <1>1
<1> QED
  BY <1>1, <1>2 DEF Gone

\* A step is one of the pipeline when the numbers say so.
LEMMA StepMaps ==
    ASSUME Inv, Inv'
    PROVE  /\ /\ Status = "running" /\ Subs < Cases /\ Subs - Gone < MaxInFlight
              /\ Subs' = Subs + 1 /\ Gone' = Gone /\ Fate' = Fate /\ Status' = Status
              => Pipeline!Submit
           /\ \A v \in Pipeline!Verdicts :
                 /\ Status = "running" /\ Gone < Subs
                 /\ Gone' = Gone + 1 /\ Fate' = [Fate EXCEPT ![Gone + 1] = v]
                 /\ Subs' = Subs /\ Status' = Status
                 => Pipeline!Finalize
           /\ /\ Status = "running" /\ Gone = Cases /\ Status' = "complete"
              /\ Subs' = Subs /\ Gone' = Gone /\ Fate' = Fate
              => Pipeline!Complete
           /\ /\ Status = "running" /\ Status' = "aborted"
              /\ Subs' = Subs /\ Gone' = Gone /\ Fate' = Fate
              => Pipeline!Abort
           /\ /\ Subs' = Subs /\ Gone' = Gone /\ Fate' = Fate /\ Status' = Status
              => UNCHANGED Pipeline!vars
<1>1. /\ Cardinality(Submitted) = Subs
      /\ Cardinality(Submitted) - Len(pending) = Gone
      /\ [i \in Case |-> IF i \in Accepted THEN Verdict(result[i]) ELSE "none"] = Fate
  BY Mapping
<1>2. (/\ Cardinality(Submitted) = Subs
       /\ Cardinality(Submitted) - Len(pending) = Gone
       /\ [i \in Case |-> IF i \in Accepted THEN Verdict(result[i]) ELSE "none"] = Fate)'
  BY Mapping, PTL
<1> USE <1>1, <1>2 DEF Status
<1>3. /\ Status = "running" /\ Subs < Cases /\ Subs - Gone < MaxInFlight
      /\ Subs' = Subs + 1 /\ Gone' = Gone /\ Fate' = Fate /\ Status' = Status
      => Pipeline!Submit
  BY DEF Pipeline!Submit
<1>4. ASSUME NEW v \in Pipeline!Verdicts,
             /\ Status = "running" /\ Gone < Subs
             /\ Gone' = Gone + 1 /\ Fate' = [Fate EXCEPT ![Gone + 1] = v]
             /\ Subs' = Subs /\ Status' = Status
      PROVE  Pipeline!Finalize
  BY <1>4 DEF Pipeline!Finalize
<1>5. /\ Status = "running" /\ Gone = Cases /\ Status' = "complete"
      /\ Subs' = Subs /\ Gone' = Gone /\ Fate' = Fate
      => Pipeline!Complete
  BY DEF Pipeline!Complete
<1>6. /\ Status = "running" /\ Status' = "aborted"
      /\ Subs' = Subs /\ Gone' = Gone /\ Fate' = Fate
      => Pipeline!Abort
  BY DEF Pipeline!Abort
<1>7. /\ Subs' = Subs /\ Gone' = Gone /\ Fate' = Fate /\ Status' = Status
      => UNCHANGED Pipeline!vars
  BY DEF Pipeline!vars
<1> QED
  BY <1>3, <1>4, <1>5, <1>6, <1>7

\* Nothing leaves the queue: the fates stay what they are.
LEMMA SameFate ==
    ASSUME Inv, Gone' = Gone, \A i \in Case : i <= Gone => result'[i] = result[i]
    PROVE  Fate' = Fate
BY DEF Fate

\* Every step of the runner is a step of the pipeline or leaves it alone.
LEMMA StepRefines == Inv /\ Inv' /\ [Next]_vars => [Pipeline!Next]_Pipeline!vars
<1> SUFFICES ASSUME Inv, Inv', [Next]_vars
             PROVE  Pipeline!Next \/ UNCHANGED Pipeline!vars
  OBVIOUS
<1>0. /\ RunnerInv /\ DataInv /\ FifoInv /\ DrainPhase
      /\ err # "limiter" /\ inFlight = Len(pending) + (IF pc = "submit" THEN 1 ELSE 0)
      /\ Len(pending) \in Nat /\ seq \in Nat /\ MaxInFlight \in Nat
      /\ pc = "failed" <=> err # "none"
      /\ pc \in {"receipt", "accept"} => pending # <<>>
      /\ MustFinalize => pending # <<>> /\ pc \in {"loop", "drain"}
  BY Basics, CampaignAssumption DEF Inv, FifoInv, RunnerInv, QueueInv, MustFinalize, LimiterAgrees
<1>1. Subs \in Nat /\ Gone \in Nat /\ Done \in Nat /\ Gone <= Done
  BY <1>0, Segments
<1>2. ASSUME Subs' = Subs, UNCHANGED <<pending, result>>,
             \/ Status' = Status
             \/ Status = "running" /\ Status' = "aborted"
      PROVE  Pipeline!Next \/ UNCHANGED Pipeline!vars
  <2>1. Gone' = Gone
    BY <1>2 DEF Gone
  <2>2. Fate' = Fate
    BY <1>2, <2>1, SameFate
  <2> QED
    BY <1>2, <2>1, <2>2, StepMaps DEF Pipeline!Next
<1>3. CASE Build
  <2>1. /\ pc = "loop" /\ pc' = "submit" /\ seq' = seq + 1
        /\ UNCHANGED <<err, pending, send, result>>
    BY <1>0, <1>3 DEF Build, CanBuild
  <2> QED
    BY <1>0, <1>2, <2>1 DEF Subs, Status
<1>4. CASE BuildFails
  <2>1. /\ pc = "loop" /\ pc' = "failed" /\ seq' = seq + 1 /\ err' = "build"
        /\ UNCHANGED <<pending, result>>
    BY <1>4 DEF BuildFails, CanBuild, Fail, records
  <2> QED
    BY <1>0, <1>2, <2>1 DEF Subs, Status
<1>5. ASSUME NEW s \in SendStates, NEW pooled \in BOOLEAN, Submit(s, pooled)
      PROVE  Pipeline!Next
  <2>1. /\ pc = "submit" /\ pc' = "loop" /\ pending' = Append(pending, seq)
        /\ UNCHANGED <<err, seq, result>>
    BY <1>5 DEF Submit
  <2>2. seq \in Case /\ Len(pending) < MaxInFlight /\ Len(pending') = Len(pending) + 1
    BY <1>0, <2>1, Basics DEF RunnerInv, QueueInv
  <2>3. Subs = seq - 1 /\ Subs' = seq /\ seq <= Cases /\ Cases \in Nat
    BY <1>0, <2>1, Basics DEF Subs
  <2>4. Gone' = Gone /\ Subs - Gone = Len(pending)
    BY <1>0, <2>2, <2>3 DEF Gone
  <2>5. Fate' = Fate
    BY <2>1, <2>4, SameFate
  <2>6. Pipeline!Submit
    BY <1>0, <2>1, <2>2, <2>3, <2>4, <2>5, StepMaps DEF Status
  <2> QED
    BY <2>6 DEF Pipeline!Next
<1>6. CASE SubmitFails
  <2>1. /\ pc = "submit" /\ pc' = "failed" /\ err' = "submit"
        /\ UNCHANGED <<seq, pending, result>>
    BY <1>6 DEF SubmitFails, Fail, records
  <2> QED
    BY <1>0, <1>2, <2>1 DEF Subs, Status
<1>7. CASE StartDrain
  BY <1>2, <1>7 DEF StartDrain, records, Subs, Status
<1>8. CASE AwaitSent
  BY <1>0, <1>2, <1>8 DEF AwaitSent, Subs, Status
<1>9. ASSUME NEW r, Finalize(r), pc \notin {"submit", "accept", "failed", "done"}, pending # <<>>
      PROVE  UNCHANGED Pipeline!vars
  <2>1. /\ pc' = "accept" /\ result' = [result EXCEPT ![Head(pending)] = r]
        /\ UNCHANGED <<err, seq, pending>>
    BY <1>9 DEF Finalize
  <2>2. Subs' = Subs /\ Gone' = Gone /\ Status' = Status
    BY <1>9, <2>1 DEF Subs, Gone, Status
  <2>3. Head(pending) = Gone + 1
    BY <1>0, <1>9, HeadIsNext
  <2>4. \A i \in Case : i <= Gone => i # Gone + 1
    <3>1. \A i \in Case : i \in Nat
      BY <1>0, Basics
    <3> QED
      BY <1>1, <3>1
  <2>5. Fate' = Fate
    BY <1>0, <2>1, <2>2, <2>3, <2>4, SameFate, Basics
  <2> QED
    BY <2>2, <2>5, StepMaps
<1>10. CASE AwaitRejected
  BY <1>0, <1>9, <1>10 DEF AwaitRejected
<1>11. CASE AwaitExpires
  BY <1>0, <1>2, <1>11 DEF AwaitExpires, Fail, records, Subs, Status
<1>12. CASE ReceiptSeen
  BY <1>0, <1>9, <1>12 DEF ReceiptSeen
<1>13. CASE ReceiptTimesOut
  BY <1>0, <1>9, <1>13 DEF ReceiptTimesOut
<1>14. CASE ReceiptLookupFails
  BY <1>0, <1>9, <1>14 DEF ReceiptLookupFails
<1>15. CASE Accept
  <2>1. /\ pc = "accept" /\ pc' \in {"drain", "loop"} /\ pending' = Tail(pending)
        /\ pending # <<>> /\ UNCHANGED <<err, seq, result>>
    BY <1>0, <1>15 DEF Accept, Leave, records
  <2>2. Len(pending') = Len(pending) - 1 /\ Len(pending) \in Nat \ {0}
    BY <1>0, <2>1, Basics
  <2>3. Subs' = Subs /\ Gone' = Gone + 1 /\ Gone < Subs /\ Gone + 1 \in Case
        /\ Status = "running" /\ Status' = Status
    BY <1>0, <1>1, <2>1, <2>2, HeadIsNext DEF Subs, Gone, Status
  <2> DEFINE v == Verdict(result[Gone + 1])
  <2>4. v \in Pipeline!Verdicts
    BY DEF Verdict, Pipeline!Verdicts
  <2>5. Fate' = [Fate EXCEPT ![Gone + 1] = v]
    <3>1. \A i \in Case : i \in Nat
      BY <1>0, Basics
    <3>2. \A i \in Case : i <= Gone + 1 <=> (i <= Gone \/ i = Gone + 1)
      BY <1>1, <3>1
    <3> QED
      BY <2>1, <2>3, <3>2 DEF Fate
  <2>6. Pipeline!Finalize
    BY <2>3, <2>4, <2>5, StepMaps
  <2> QED
    BY <2>6 DEF Pipeline!Next
<1>16. ASSUME NEW stage, AcceptFails(stage) PROVE Pipeline!Next \/ UNCHANGED Pipeline!vars
  <2>1. /\ pc = "accept" /\ pc' = "failed" /\ err' = "sink"
        /\ UNCHANGED <<seq, pending, result>>
    BY <1>16 DEF AcceptFails, Fail, records
  <2> QED
    BY <1>0, <1>2, <2>1 DEF Subs, Status
<1>17. CASE Finish
  <2>1. /\ pc = "drain" /\ pending = <<>> /\ seq = Cases
        /\ UNCHANGED <<seq, pending, result>>
        /\ \/ pc' = "done" /\ UNCHANGED err
           \/ pc' = "failed" /\ err' = "report"
    BY <1>0, <1>17 DEF Finish, WriteReportV2, Fail, records, DrainPhase
  <2>2. Subs' = Subs /\ Gone' = Gone /\ Gone = Cases
    BY <1>0, <2>1, Basics DEF Subs, Gone
  <2>3. Fate' = Fate
    BY <2>1, <2>2, SameFate
  <2>4. CASE pc' = "done"
    BY <2>1, <2>2, <2>3, <2>4, StepMaps DEF Status, Pipeline!Next
  <2>5. CASE pc' = "failed"
    BY <1>2, <2>1, <2>2, <2>5 DEF Status
  <2> QED
    BY <2>1, <2>4, <2>5
<1>18. ASSUME UNCHANGED <<runner, records>> PROVE UNCHANGED Pipeline!vars
  <2>1. UNCHANGED <<pc, err, seq, pending, result>>
    BY <1>18 DEF runner, records
  <2>2. Subs' = Subs /\ Gone' = Gone /\ Status' = Status
    BY <2>1 DEF Subs, Gone, Status
  <2>3. Fate' = Fate
    BY <2>1, <2>2, SameFate
  <2> QED
    BY <2>2, <2>3, StepMaps
<1>19. CASE Tick
  BY <1>18, <1>19 DEF Tick
<1>20. ASSUME NEW i \in Case, Drop(i) PROVE UNCHANGED Pipeline!vars
  BY <1>18, <1>20 DEF Drop
<1>21. ASSUME NEW i \in Case, NEW status \in Receipts, Mine(i, status)
       PROVE  UNCHANGED Pipeline!vars
  BY <1>18, <1>21 DEF Mine
<1>22. CASE UNCHANGED vars
  BY <1>18, <1>22 DEF vars
<1> QED
  BY <1>3, <1>4, <1>5, <1>6, <1>7, <1>8, <1>10, <1>11, <1>12, <1>13, <1>14,
     <1>15, <1>16, <1>17, <1>19, <1>20, <1>21, <1>22 DEF Next, RunnerStep

\* The v2 runner is a pipeline with a window of MaxInFlight: whatever happens,
\* it behaves like CampaignPipeline, in which cases are submitted and finalised
\* in order, every finalised case keeps its verdict, and the campaign is
\* complete only with all of them.
THEOREM PipelineRefinement == Spec => ImplementsPipeline
<1>1. Init => Pipeline!Init
  <2> SUFFICES ASSUME Init PROVE Pipeline!Init
    OBVIOUS
  <2>1. Inv
    BY InitRunner, InitData, InitFifo DEF Inv, DataInv
  <2>2. pc = "loop" /\ err = "none" /\ seq = 0 /\ pending = <<>>
    BY DEF Init
  <2>3. Subs = 0 /\ Gone = 0 /\ Status = "running"
    BY <2>2 DEF Subs, Gone, Status
  <2>4. Fate = [i \in 1..Cases |-> "none"]
    <3>1. \A i \in Case : ~(i <= 0)
      BY CampaignAssumption DEF Case
    <3> QED
      BY <2>3, <3>1 DEF Fate, Case
  <2> QED
    BY <2>1, <2>2, <2>3, <2>4, Mapping DEF Pipeline!Init
<1> QED
  BY <1>1, StepRefines, Invariance, PTL DEF Spec, ImplementsPipeline, Pipeline!Spec

-----------------------------------------------------------------------------
(* What the finalisation and the sink leave behind: the event log, the        *)
(* artifacts, the store and the counters of the report agree with the records *)
(* of the cases and with each other.                                          *)
(*                                                                            *)
(* The steps of the campaign fall into a few kinds; StepKinds says what each  *)
(* kind does to the numbers above (Gone cases have left the queue, Done cases *)
(* have a record) and to the data, and the invariants below are carried over  *)
(* the kinds instead of the actions.                                          *)

\* The three forms a finalised record can have.
Included(r) == \E s \in Receipts : r = IncludedRecord(s)

Unconfirmed(r) ==
    /\ r.send = "sent" /\ r.receipt = "none"
    /\ r.confirm \in {"awaiting_receipt", "sla_breached_pending", "unresolved_shutdown"}
    /\ "unresolved_shutdown" \in r.flags <=> r.confirm = "unresolved_shutdown"

GoodRecord(r) ==
    r \in Results /\ (r = RejectedRecord \/ Included(r) \/ Unconfirmed(r))

\* The case is over, for the report.
Over(r) == r.send = "rpc_error" \/ IsTerminalConfirmState(r.confirm)

RecordsGood == \A i \in Case : i <= Done => GoodRecord(result[i])

\* The log says nothing of cases that are not begun, and nothing too early of
\* the others; a case with a record is closed in the log exactly if it is over.
FinalTypes == Closing \cup {"sla_breach"}

LogTimely ==
    \A n \in DOMAIN log :
        /\ log[n].case <= seq
        /\ log[n].type = "sent" =>
              log[n].case <= Done \/ (pc = "receipt" /\ log[n].case = Gone + 1)
        /\ log[n].type \in FinalTypes => log[n].case <= Done

LogCloses == \A i \in Case : i <= Done => (Has(i, Closing) <=> Over(result[i]))

\* The second part of ArtifactsAgree, for any log.
Ordered(l) ==
    \A m, n \in DOMAIN l :
        l[m].case = l[n].case =>
            /\ l[m].type = l[n].type => m = n
            /\ l[m].type = "built" /\ l[n].type \in Closing \cup {"sent"} => m < n
            /\ l[m].type = "sent" /\ l[n].type \in Closing => m < n

LogInv == RecordsGood /\ LogTimely /\ LogCloses /\ Ordered(log)

\* The artifacts of the cases that left the queue.  Only a failing sink leaves
\* something of the case after them.
FilesInv ==
    /\ \A i \in Case : i <= Gone =>
          i \in files.cases /\ (i \in files.feedback <=> Over(result[i]))
    /\ \A i \in files.feedback \cup retained : i <= Gone \/ (err = "sink" /\ i <= Done)

\* The store is capped, and keeps every signature it ever accepted.
StoreInv ==
    /\ retained \subseteq files.bundles
    /\ \A r \in Results : Cardinality(Entries(r)) <= RetainPerSig
    /\ \A i \in Case : i <= Gone => Entries(result[i]) # {}

Signatures == {Signature(result[i]) : i \in 1..Gone}

Inclusions(p) == p.confirmCounts["included_success"] + p.confirmCounts["included_reverted"]

\* The counters.
CountInv ==
    /\ report.sendCounts["sent"] + report.sendCounts["rpc_error"] = Gone
    /\ report.sendCounts["sent"] = Inclusions(report) + Sum3(report.confirmCounts)
    /\ report.terminal = Inclusions(report) + report.unresolved
    /\ report.terminal + report.sendCounts["rpc_error"]
          = Cardinality(files.feedback \cap (1..Gone))
    /\ report.maxInFlight <= MaxInFlight
    /\ err # "sink" => /\ stats.sent = report.sendCounts["sent"]
                       /\ stats.retained = Cardinality(retained)

DuplicateInv ==
    IsFiniteSet(Signatures) /\ stats.duplicate + Cardinality(Signatures) = Gone

PublishedInv ==
    published => /\ report.total = Cases
                 /\ report.sent = stats.sent
                 /\ report.retained = stats.retained

SinkInv == LogInv /\ FilesInv /\ StoreInv /\ CountInv /\ DuplicateInv /\ PublishedInv

-----------------------------------------------------------------------------
(* The kinds of steps *)

\* Neither the numbers nor the sink move.
Steady ==
    /\ Gone' = Gone /\ Done' = Done
    /\ UNCHANGED <<files, retained, stats, published>>

\* A case is begun.
BeginKind ==
    /\ Steady /\ pc = "loop" /\ err # "sink" /\ err' # "sink" /\ seq' = seq + 1
    /\ log' = log \o <<[type |-> "nonce_reserved", case |-> seq'],
                       [type |-> "built", case |-> seq']>>
    /\ UNCHANGED <<result, report>>

\* The sent event of the head of the queue is logged.
SentKind ==
    /\ Steady /\ pc \in {"loop", "drain"} /\ pc' = "receipt" /\ Done = Gone
    /\ Gone + 1 \in Case /\ Gone + 1 <= seq
    /\ log' = Append(log, [type |-> "sent", case |-> Gone + 1])
    /\ UNCHANGED <<err, seq, result, report>>

\* The head of the queue gets its record.
RecordKind(r) ==
    /\ pc \in {"loop", "drain", "receipt"} /\ pc' = "accept" /\ err # "sink"
    /\ GoodRecord(r) /\ Gone + 1 \in Case /\ Gone + 1 <= seq
    /\ Done = Gone /\ Done' = Gone + 1 /\ Gone' = Gone
    /\ result' = [result EXCEPT ![Gone + 1] = r]
    /\ log' = log \o FinalEvents(Gone + 1, r)
    /\ UNCHANGED <<err, seq, files, retained, stats, report, published>>

\* Nothing that the invariants speak of happens; Submit counts its case.
QuietKind ==
    /\ Steady /\ seq <= seq' /\ (err = "sink" <=> err' = "sink")
    /\ pc = "receipt" => pc' = "receipt"
    /\ \/ report' = report
       \/ pc = "submit" /\ report' = [report EXCEPT !.total = @ + 1, !.maxInFlight = maxSeen]
    /\ UNCHANGED <<result, log>>

\* Accept, AcceptFails and Finish are kinds of their own.
AcceptKind ==
    /\ Accept /\ Gone' = Gone + 1 /\ Done = Gone + 1 /\ Done' = Done
    /\ Head(pending) = Gone + 1 /\ Gone + 1 \in Case

FailKind(stage) ==
    /\ AcceptFails(stage) /\ Gone' = Gone /\ Done = Gone + 1 /\ Done' = Done
    /\ Head(pending) = Gone + 1 /\ Gone + 1 \in Case
    /\ err # "sink" /\ err' = "sink"

FinishKind ==
    /\ Finish /\ Gone' = Gone /\ Done' = Done
    /\ err # "sink" /\ err' # "sink" /\ UNCHANGED <<files, retained, stats>>

\* The records that finalisation produces have the three forms.
LEMMA RecordsAreGood ==
    /\ GoodRecord(RejectedRecord)
    /\ \A s \in Receipts : GoodRecord(IncludedRecord(s))
    /\ \A i \in Case, f \in {"receipt_timeout", "receipt_lookup_failed"} :
          GoodRecord(UnconfirmedRecord(i, f))
<1>1. GoodRecord(RejectedRecord)
  BY RecordTypes DEF GoodRecord
<1>2. \A s \in Receipts : GoodRecord(IncludedRecord(s))
  BY RecordTypes DEF GoodRecord, Included
<1>3. ASSUME NEW i \in Case, NEW f \in {"receipt_timeout", "receipt_lookup_failed"}
      PROVE  GoodRecord(UnconfirmedRecord(i, f))
  <2> DEFINE r == UnconfirmedRecord(i, f)
  <2>1. r.send = "sent" /\ r.receipt = "none"
    BY DEF UnconfirmedRecord
  <2>2. r.confirm \in {"awaiting_receipt", "sla_breached_pending", "unresolved_shutdown"}
    BY DEF UnconfirmedRecord
  <2>3. "unresolved_shutdown" \in r.flags <=> r.confirm = "unresolved_shutdown"
    BY DEF UnconfirmedRecord
  <2> QED
    BY <2>1, <2>2, <2>3, RecordTypes DEF GoodRecord, Unconfirmed
<1> QED
  BY <1>1, <1>2, <1>3

\* Every step is of one of the kinds.
LEMMA StepKinds ==
    ASSUME Inv, [Next]_vars
    PROVE  \/ BeginKind \/ SentKind \/ QuietKind \/ AcceptKind \/ FinishKind
           \/ \E r : RecordKind(r)
           \/ \E stage \in {"case", "feedback", "bundle", "save"} : FailKind(stage)
<1>0. /\ RunnerInv /\ DataInv /\ FifoInv /\ DrainPhase
      /\ err # "limiter" /\ inFlight = Len(pending) + (IF pc = "submit" THEN 1 ELSE 0)
      /\ Len(pending) \in Nat /\ seq \in Nat /\ MaxInFlight \in Nat
      /\ pc = "failed" <=> err # "none"
      /\ pc \in {"receipt", "accept"} => pending # <<>>
      /\ MustFinalize => pending # <<>> /\ pc \in {"loop", "drain"}
  BY Basics, CampaignAssumption DEF Inv, FifoInv, RunnerInv, QueueInv, MustFinalize, LimiterAgrees
<1>1. pending # <<>> => /\ Head(pending) = Gone + 1 /\ Gone + 1 \in Case
                        /\ Gone + 1 <= seq
  <2>1. ASSUME pending # <<>> PROVE Gone + 1 <= seq
    <3>1. Len(pending) \in Nat \ {0}
      BY <2>1, QueueFacts DEF Inv, RunnerInv, RunnerType
    <3>2. Subs \in Nat /\ Subs <= seq
      BY <1>0, Segments DEF Subs
    <3> QED
      BY <1>0, <3>1, <3>2 DEF Gone
  <2> QED
    BY <1>0, <2>1, HeadIsNext
<1>2. CASE Build
  <2>1. /\ pc = "loop" /\ pc' = "submit" /\ seq' = seq + 1 /\ err = "none" /\ err' = err
        /\ UNCHANGED <<pending, result, published, files, retained, stats, report>>
    BY <1>0, <1>2 DEF Build, CanBuild, sink
  <2>2. Gone' = Gone /\ Done' = Done
    BY <1>0, <2>1 DEF Subs, Gone, Done
  <2> QED
    BY <1>2, <2>1, <2>2 DEF BeginKind, Steady, Build
<1>3. CASE BuildFails
  <2>1. /\ pc = "loop" /\ pc' = "failed" /\ seq' = seq + 1 /\ err' = "build"
        /\ UNCHANGED <<pending, result, log, published, files, retained, stats, report>>
    BY <1>3 DEF BuildFails, CanBuild, Fail, records, sink
  <2>2. Gone' = Gone /\ Done' = Done
    BY <1>0, <2>1 DEF Subs, Gone, Done
  <2> QED
    BY <1>0, <2>1, <2>2 DEF QuietKind, Steady
<1>4. ASSUME NEW s \in SendStates, NEW pooled \in BOOLEAN, Submit(s, pooled)
      PROVE  QuietKind
  <2>1. /\ pc = "submit" /\ pc' = "loop" /\ pending' = Append(pending, seq)
        /\ report' = [report EXCEPT !.total = @ + 1, !.maxInFlight = maxSeen]
        /\ UNCHANGED <<err, seq, result, log, published, files, retained, stats>>
    BY <1>4 DEF Submit
  <2>2. Len(pending') = Len(pending) + 1
    BY <1>0, <2>1, Basics DEF RunnerInv, QueueInv
  <2>3. Gone' = Gone /\ Done' = Done
    BY <1>0, <2>1, <2>2 DEF Subs, Gone, Done
  <2> QED
    BY <1>0, <2>1, <2>3 DEF QuietKind, Steady
<1>5. CASE SubmitFails
  <2>1. /\ pc = "submit" /\ pc' = "failed" /\ err' = "submit"
        /\ UNCHANGED <<seq, pending, result, log, published, files, retained, stats, report>>
    BY <1>5 DEF SubmitFails, Fail, records, sink
  <2>2. Gone' = Gone /\ Done' = Done
    BY <1>0, <2>1 DEF Subs, Gone, Done
  <2> QED
    BY <1>0, <2>1, <2>2 DEF QuietKind, Steady
<1>6. CASE StartDrain
  <2>1. /\ pc = "loop" /\ pc' = "drain"
        /\ UNCHANGED <<err, seq, pending, result, log, published, files, retained, stats, report>>
    BY <1>6 DEF StartDrain, records, sink
  <2>2. Gone' = Gone /\ Done' = Done
    BY <2>1 DEF Subs, Gone, Done
  <2> QED
    BY <1>0, <2>1, <2>2 DEF QuietKind, Steady
<1>7. CASE AwaitSent
  <2>1. /\ pc \in {"loop", "drain"} /\ pc' = "receipt" /\ pending # <<>>
        /\ log' = Append(log, [type |-> "sent", case |-> Head(pending)])
        /\ UNCHANGED <<err, seq, pending, result, published, files, retained, stats, report>>
    BY <1>0, <1>7 DEF AwaitSent, sink
  <2>2. Gone' = Gone /\ Done' = Done /\ Done = Gone
    BY <1>0, <2>1 DEF Subs, Gone, Done
  <2> QED
    BY <1>1, <2>1, <2>2 DEF SentKind, Steady
<1>8. ASSUME NEW r, Finalize(r), GoodRecord(r), pc \in {"loop", "drain", "receipt"}, pending # <<>>
      PROVE  RecordKind(r)
  <2>1. /\ pc' = "accept" /\ result' = [result EXCEPT ![Head(pending)] = r]
        /\ log' = log \o FinalEvents(Head(pending), r)
        /\ UNCHANGED <<err, seq, pending, published, files, retained, stats, report>>
    BY <1>8 DEF Finalize, sink
  <2>2. Gone' = Gone /\ Done = Gone /\ Done' = Gone + 1 /\ err # "sink"
    BY <1>0, <1>8, <2>1 DEF Subs, Gone, Done
  <2> QED
    BY <1>1, <1>8, <2>1, <2>2 DEF RecordKind
<1>9. CASE AwaitRejected
  BY <1>0, <1>8, <1>9, RecordsAreGood DEF AwaitRejected
<1>10. CASE AwaitExpires
  <2>1. /\ pc \in {"loop", "drain"} /\ pc' = "failed" /\ err' = "await"
        /\ UNCHANGED <<seq, pending, result, log, published, files, retained, stats, report>>
    BY <1>0, <1>10 DEF AwaitExpires, Fail, records, sink
  <2>2. Gone' = Gone /\ Done' = Done
    BY <1>0, <2>1 DEF Subs, Gone, Done
  <2> QED
    BY <1>0, <2>1, <2>2 DEF QuietKind, Steady
<1>11. CASE ReceiptSeen
  BY <1>0, <1>8, <1>11, RecordsAreGood DEF ReceiptSeen
<1>12. CASE ReceiptTimesOut
  BY <1>0, <1>1, <1>8, <1>12, RecordsAreGood DEF ReceiptTimesOut
<1>13. CASE ReceiptLookupFails
  BY <1>0, <1>1, <1>8, <1>13, RecordsAreGood DEF ReceiptLookupFails
<1>14. CASE Accept
  <2>1. /\ pc = "accept" /\ pc' \in {"drain", "loop"} /\ pending' = Tail(pending)
        /\ pending # <<>> /\ UNCHANGED <<err, seq>>
    BY <1>0, <1>14 DEF Accept, Leave
  <2>2. Len(pending') = Len(pending) - 1
    BY <1>0, <2>1, Basics
  <2>3. Gone' = Gone + 1 /\ Done = Gone + 1 /\ Done' = Gone + 1
    BY <1>0, <2>1, <2>2 DEF Subs, Gone, Done, FifoInv
  <2> QED
    BY <1>1, <1>14, <2>1, <2>3 DEF AcceptKind
<1>15. ASSUME NEW stage, AcceptFails(stage) PROVE FailKind(stage)
  <2>1. /\ pc = "accept" /\ pc' = "failed" /\ err' = "sink" /\ pending # <<>>
        /\ UNCHANGED <<seq, pending>>
    BY <1>0, <1>15 DEF AcceptFails, Fail
  <2>2. Gone' = Gone /\ Done = Gone + 1 /\ Done' = Gone + 1 /\ err # "sink"
    BY <1>0, <2>1 DEF Subs, Gone, Done
  <2> QED
    BY <1>1, <1>15, <2>1, <2>2 DEF FailKind
<1>16. CASE Finish
  <2>1. /\ pc = "drain" /\ pc' \in {"done", "failed"} /\ UNCHANGED <<seq, pending>>
        /\ err = "none" /\ err' \in {"none", "report"} /\ UNCHANGED <<files, retained, stats>>
    BY <1>0, <1>16 DEF Finish, WriteReportV2, Fail
  <2>2. Gone' = Gone /\ Done' = Done
    BY <1>0, <2>1 DEF Subs, Gone, Done
  <2> QED
    BY <1>16, <2>1, <2>2 DEF FinishKind
<1>17. ASSUME UNCHANGED <<runner, records, sink>> PROVE QuietKind
  <2>1. UNCHANGED <<pc, err, seq, pending, published, result, log, files, retained,
                    stats, report>>
    BY <1>17 DEF runner, records, sink
  <2>2. Gone' = Gone /\ Done' = Done
    BY <2>1 DEF Subs, Gone, Done
  <2> QED
    BY <1>0, <2>1, <2>2 DEF QuietKind, Steady
<1>18. CASE Tick
  BY <1>17, <1>18 DEF Tick
<1>19. ASSUME NEW i \in Case, Drop(i) PROVE QuietKind
  BY <1>17, <1>19 DEF Drop
<1>20. ASSUME NEW i \in Case, NEW status \in Receipts, Mine(i, status) PROVE QuietKind
  BY <1>17, <1>20 DEF Mine
<1>21. CASE UNCHANGED vars
  BY <1>17, <1>21 DEF vars
<1> QED
  BY <1>2, <1>3, <1>4, <1>5, <1>6, <1>7, <1>9, <1>10, <1>11, <1>12, <1>13, <1>14,
     <1>15, <1>16, <1>18, <1>19, <1>20, <1>21 DEF Next, RunnerStep

-----------------------------------------------------------------------------
(* The event log *)

\* An event is appended behind the others.
LEMMA AppendEvent ==
    ASSUME NEW l \in Seq(Events), NEW e \in Events
    PROVE  /\ Append(l, e) \in Seq(Events) /\ Len(l) \in Nat /\ DOMAIN l = 1..Len(l)
           /\ Len(l) + 1 \in DOMAIN Append(l, e) /\ Append(l, e)[Len(l) + 1] = e
           /\ \A n \in DOMAIN l : n \in DOMAIN Append(l, e) /\ Append(l, e)[n] = l[n]
           /\ \A n \in DOMAIN Append(l, e) : n \in DOMAIN l \/ n = Len(l) + 1
BY AppendProperties

\* An event that is new for its case and not late keeps the log in order.
LEMMA OrderedAppend ==
    ASSUME NEW l \in Seq(Events), NEW e \in Events, Ordered(l),
           \A n \in DOMAIN l : l[n].case = e.case =>
              /\ l[n].type # e.type
              /\ e.type = "built" => l[n].type \notin Closing \cup {"sent"}
              /\ e.type = "sent" => l[n].type \notin Closing
    PROVE  Ordered(Append(l, e))
<1> DEFINE k == Append(l, e)
<1>1. /\ k[Len(l) + 1] = e /\ Len(l) \in Nat /\ DOMAIN l = 1..Len(l)
      /\ \A n \in DOMAIN l : k[n] = l[n]
      /\ \A n \in DOMAIN k : n \in DOMAIN l \/ n = Len(l) + 1
  BY AppendEvent
<1>2. \A n \in DOMAIN l : n < Len(l) + 1
  BY <1>1
<1> HIDE DEF k
<1> SUFFICES ASSUME NEW m \in DOMAIN k, NEW n \in DOMAIN k, k[m].case = k[n].case
             PROVE  /\ k[m].type = k[n].type => m = n
                    /\ k[m].type = "built" /\ k[n].type \in Closing \cup {"sent"} => m < n
                    /\ k[m].type = "sent" /\ k[n].type \in Closing => m < n
  BY DEF Ordered, k
<1>3. CASE m \in DOMAIN l /\ n \in DOMAIN l
  BY <1>1, <1>3 DEF Ordered
<1>4. CASE m \in DOMAIN l /\ n = Len(l) + 1
  BY <1>1, <1>2, <1>4
<1>5. CASE m = Len(l) + 1 /\ n \in DOMAIN l
  BY <1>1, <1>5
<1>6. CASE m = Len(l) + 1 /\ n = Len(l) + 1
  BY <1>1, <1>6 DEF Closing
<1> QED
  BY <1>1, <1>3, <1>4, <1>5, <1>6

\* The event that a record is closed with, if any, tells whether the case is over.
LEMMA FinalEventTells ==
    ASSUME NEW i \in Case, NEW r, GoodRecord(r)
    PROVE  \/ FinalEvents(i, r) = <<>> /\ ~Over(r)
           \/ \E t \in FinalTypes :
                 /\ FinalEvents(i, r) = <<[type |-> t, case |-> i]>>
                 /\ t \in Closing <=> Over(r)
<1>1. CASE r = RejectedRecord
  <2>1. FinalEvents(i, r) = <<[type |-> "send_rejected", case |-> i]>> /\ Over(r)
    BY <1>1 DEF RejectedRecord, FinalEvents, Over
  <2> QED
    BY <2>1 DEF FinalTypes, Closing
<1>2. CASE Included(r)
  <2>1. r.send = "sent" /\ r.receipt # "none" /\ IsTerminalConfirmState(r.confirm)
    BY <1>2 DEF Included, IncludedRecord, Receipts, IsTerminalConfirmState
  <2>2. FinalEvents(i, r) = <<[type |-> "receipt_seen", case |-> i]>> /\ Over(r)
    BY <2>1 DEF FinalEvents, Over
  <2> QED
    BY <2>2 DEF FinalTypes, Closing
<1>3. CASE Unconfirmed(r)
  <2>1. r.send = "sent" /\ r.receipt = "none"
    BY <1>3 DEF Unconfirmed
  <2>2. CASE r.confirm = "unresolved_shutdown"
    <3>1. FinalEvents(i, r) = <<[type |-> "unresolved_shutdown", case |-> i]>> /\ Over(r)
      BY <2>1, <2>2 DEF FinalEvents, Over, IsTerminalConfirmState
    <3> QED
      BY <3>1 DEF FinalTypes, Closing
  <2>3. CASE r.confirm = "sla_breached_pending"
    <3>1. FinalEvents(i, r) = <<[type |-> "sla_breach", case |-> i]>> /\ ~Over(r)
      BY <2>1, <2>3 DEF FinalEvents, Over, IsTerminalConfirmState
    <3> QED
      BY <3>1 DEF FinalTypes, Closing
  <2>4. CASE r.confirm = "awaiting_receipt"
    BY <2>1, <2>4 DEF FinalEvents, Over, IsTerminalConfirmState
  <2> QED
    BY <1>3, <2>2, <2>3, <2>4 DEF Unconfirmed
<1> QED
  BY <1>1, <1>2, <1>3 DEF GoodRecord

\* What the steps below know of the state.
LEMMA SinkBasics ==
    ASSUME Inv
    PROVE  /\ log \in Seq(Events) /\ seq \in Nat /\ Case = 1..Cases /\ Cases \in Nat
           /\ Gone \in Nat /\ Done \in Nat /\ Gone <= Done /\ Done <= seq /\ Done <= Cases
           /\ result \in [Case -> Results] /\ \A i \in Case : i \in Nat
           /\ \A n \in DOMAIN log : log[n] \in Events /\ log[n].case \in Case
           /\ seq <= Cases
<1>1. Subs <= seq /\ Subs \in Nat /\ seq \in Nat
  BY Segments, Basics DEF Inv, Subs
<1>2. log \in Seq(Events)
  BY DEF Inv, DataInv, RecordsType
<1>3. \A n \in DOMAIN log : log[n] \in Events
  BY <1>2
<1>4. \A e \in Events : e.case \in Case
  BY DEF Events
<1> QED
  BY <1>1, <1>2, <1>3, <1>4, Segments, Basics DEF Inv

\* The log begins empty.
LEMMA InitLog == Init => LogInv
<1> SUFFICES ASSUME Init PROVE LogInv
  OBVIOUS
<1>1. pc = "loop" /\ err = "none" /\ seq = 0 /\ pending = <<>> /\ log = <<>>
  BY DEF Init
<1>2. Done = 0 /\ \A i \in Case : ~(i <= 0)
  BY <1>1, CampaignAssumption DEF Done, Gone, Subs, Case
<1> QED
  BY <1>1, <1>2 DEF LogInv, RecordsGood, LogTimely, LogCloses, Ordered

\* Beginning a case logs two events of a case that has none.
LEMMA BeginLog == ASSUME Inv, Inv', LogInv, BeginKind PROVE LogInv'
<1> DEFINE a == [type |-> "nonce_reserved", case |-> seq + 1]
           b == [type |-> "built", case |-> seq + 1]
           k == Append(log, a)
<1>1. /\ Gone' = Gone /\ Done' = Done /\ seq' = seq + 1 /\ pc = "loop"
      /\ result' = result /\ log' = log \o <<a, b>>
  BY DEF BeginKind, Steady
<1>2. seq + 1 \in Case
  BY <1>1, SinkBasics, CampaignAssumption DEF Inv, RunnerInv, RunnerType, Case
<1>3. a \in Events /\ b \in Events
  BY <1>2 DEF Events
<1>4. log \in Seq(Events) /\ k \in Seq(Events) /\ log' = Append(k, b)
  BY <1>1, <1>3, SinkBasics
<1>5. \A n \in DOMAIN log : log[n].case # seq + 1
  BY SinkBasics DEF LogInv, LogTimely
<1>6. /\ \A n \in DOMAIN k : k[n] = a \/ (n \in DOMAIN log /\ k[n] = log[n])
      /\ \A n \in DOMAIN log : n \in DOMAIN k /\ k[n] = log[n]
  BY <1>3, <1>4, AppendEvent
<1>7. /\ \A n \in DOMAIN log' : log'[n] = b \/ (n \in DOMAIN k /\ log'[n] = k[n])
      /\ \A n \in DOMAIN k : n \in DOMAIN log' /\ log'[n] = k[n]
  BY <1>3, <1>4, AppendEvent
<1>8. /\ a.case = seq + 1 /\ a.type = "nonce_reserved"
      /\ b.case = seq + 1 /\ b.type = "built"
  OBVIOUS
<1> HIDE DEF k, a, b
<1>9. Ordered(k)
  <2>1. \A n \in DOMAIN log : log[n].case # a.case
    BY <1>5, <1>8
  <2> QED
    BY <1>3, <2>1, SinkBasics, OrderedAppend DEF LogInv, k
<1>10. Ordered(log')
  <2>1. \A n \in DOMAIN k : k[n].case = b.case => k[n].type = "nonce_reserved"
    BY <1>5, <1>6, <1>8
  <2> QED
    BY <1>3, <1>4, <1>8, <1>9, <2>1, OrderedAppend DEF Closing
<1>11. LogTimely'
  <2>1. ASSUME NEW n \in DOMAIN log'
        PROVE  /\ log'[n].case <= seq'
               /\ log'[n].type = "sent" =>
                     log'[n].case <= Done' \/ (pc' = "receipt" /\ log'[n].case = Gone' + 1)
               /\ log'[n].type \in FinalTypes => log'[n].case <= Done'
    <3>1. CASE log'[n] \in {a, b}
      BY <1>1, <1>8, <3>1, SinkBasics DEF FinalTypes, Closing
    <3>2. CASE n \in DOMAIN log /\ log'[n] = log[n]
      <4>1. /\ log[n].case <= seq /\ log[n].case \in Nat /\ seq \in Nat
            /\ log[n].type = "sent" => log[n].case <= Done
            /\ log[n].type \in FinalTypes => log[n].case <= Done
        BY <1>1, <3>2, SinkBasics DEF LogInv, LogTimely
      <4>2. log[n].case <= seq + 1
        BY <4>1
      <4> QED
        BY <1>1, <3>2, <4>1, <4>2
    <3> QED
      BY <1>6, <1>7, <3>1, <3>2
  <2> QED
    BY <2>1 DEF LogTimely
<1>12. LogCloses'
  <2>1. \A i \in Case : Has(i, Closing)' <=> Has(i, Closing)
    BY <1>6, <1>7, <1>8 DEF Has, Closing
  <2> QED
    BY <1>1, <2>1 DEF LogInv, LogCloses
<1>13. RecordsGood'
  BY <1>1 DEF LogInv, RecordsGood
<1> QED
  BY <1>10, <1>11, <1>12, <1>13 DEF LogInv

\* The sent event of the head is its first, and no closing event precedes it.
LEMMA SentLog == ASSUME Inv, Inv', LogInv, SentKind PROVE LogInv'
<1> DEFINE e == [type |-> "sent", case |-> Gone + 1]
<1>1. /\ Gone' = Gone /\ Done' = Done /\ Done = Gone /\ seq' = seq
      /\ pc \in {"loop", "drain"} /\ pc' = "receipt"
      /\ result' = result /\ log' = Append(log, e)
  BY DEF SentKind, Steady
<1>2. Gone + 1 \in Case /\ Gone + 1 <= seq
  BY DEF SentKind
<1>3. e \in Events
  BY <1>2 DEF Events
<1>4. \A n \in DOMAIN log : log[n].case = Gone + 1 => log[n].type \notin FinalTypes \cup {"sent"}
  BY <1>1, SinkBasics DEF LogInv, LogTimely
<1>5. /\ \A n \in DOMAIN log' : log'[n] = e \/ (n \in DOMAIN log /\ log'[n] = log[n])
      /\ \A n \in DOMAIN log : n \in DOMAIN log' /\ log'[n] = log[n]
      /\ e.type = "sent" /\ e.case = Gone + 1
  BY <1>1, <1>3, SinkBasics, AppendEvent
<1> HIDE DEF e
<1>6. Ordered(log')
  BY <1>1, <1>3, <1>4, <1>5, SinkBasics, OrderedAppend DEF LogInv, FinalTypes
<1>7. LogTimely'
  BY <1>1, <1>2, <1>5 DEF LogInv, LogTimely, FinalTypes, Closing
<1>8. LogCloses'
  <2>1. \A i \in Case : Has(i, Closing)' <=> Has(i, Closing)
    BY <1>5 DEF Has, Closing
  <2> QED
    BY <1>1, <2>1 DEF LogInv, LogCloses
<1>9. RecordsGood'
  BY <1>1 DEF LogInv, RecordsGood
<1> QED
  BY <1>6, <1>7, <1>8, <1>9 DEF LogInv

\* The case that gets its record had no final event; now it has one if it is over.
LEMMA RecordLog == ASSUME Inv, LogInv, NEW r, RecordKind(r) PROVE LogInv'
<1> DEFINE i == Gone + 1
<1>1. /\ Gone' = Gone /\ Done' = i /\ Done = Gone /\ seq' = seq /\ Gone \in Nat
      /\ result' = [result EXCEPT ![i] = r] /\ log' = log \o FinalEvents(i, r)
      /\ GoodRecord(r) /\ i \in Case
  BY SinkBasics DEF RecordKind
<1>2. \A n \in DOMAIN log : log[n].case = i => log[n].type \notin FinalTypes
  BY <1>1, SinkBasics DEF LogInv, LogTimely
<1>3. /\ result'[i] = r
      /\ \A j \in Case : j # i => result'[j] = result[j]
      /\ \A j \in Case : j <= i <=> (j <= Gone \/ j = i)
  BY <1>1, SinkBasics
<1> HIDE DEF i
<1>4. RecordsGood'
  BY <1>1, <1>3 DEF LogInv, RecordsGood
<1>5. i <= seq
  BY DEF RecordKind, i
<1>6. ASSUME log' = log, ~Over(r) PROVE LogInv'
  <2>1. Ordered(log')
    BY <1>6 DEF LogInv
  <2>2. LogTimely'
    BY <1>1, <1>6, SinkBasics DEF LogInv, LogTimely, i
  <2>3. ~Has(i, Closing)
    BY <1>2 DEF Has, FinalTypes
  <2>4. \A j \in Case : Has(j, Closing)' <=> Has(j, Closing)
    BY <1>6 DEF Has
  <2>5. LogCloses'
    BY <1>1, <1>3, <1>6, <2>3, <2>4 DEF LogInv, LogCloses
  <2> QED
    BY <1>4, <2>1, <2>2, <2>5 DEF LogInv
<1>7. ASSUME NEW t \in FinalTypes, log' = log \o <<[type |-> t, case |-> i]>>,
             t \in Closing <=> Over(r)
      PROVE  LogInv'
  <2> DEFINE e == [type |-> t, case |-> i]
  <2>1. e \in Events /\ log' = Append(log, e)
    BY <1>1, <1>7, SinkBasics DEF Events, FinalTypes, Closing
  <2>2. /\ \A n \in DOMAIN log' : log'[n] = e \/ (n \in DOMAIN log /\ log'[n] = log[n])
        /\ \A n \in DOMAIN log : n \in DOMAIN log' /\ log'[n] = log[n]
        /\ Len(log) + 1 \in DOMAIN log' /\ log'[Len(log) + 1] = e
        /\ e.type = t /\ e.case = i
    BY <2>1, SinkBasics, AppendEvent
  <2> HIDE DEF e
  <2>3. Ordered(log')
    BY <1>2, <2>1, <2>2, SinkBasics, OrderedAppend DEF LogInv, FinalTypes, Closing
  <2>4. LogTimely'
    <3>1. i <= Done' /\ i \in Nat
      BY <1>1, SinkBasics
    <3>2. ASSUME NEW n \in DOMAIN log
          PROVE  /\ log[n].case <= seq'
                 /\ log[n].type = "sent" => log[n].case <= Done'
                 /\ log[n].type \in FinalTypes => log[n].case <= Done'
      BY <1>1, SinkBasics DEF LogInv, LogTimely, i
    <3> QED
      BY <1>1, <1>5, <2>2, <3>1, <3>2 DEF LogTimely
  <2>5. \A j \in Case : j # i => (Has(j, Closing)' <=> Has(j, Closing))
    BY <2>2 DEF Has
  <2>6. ASSUME NEW j \in Case, j = i PROVE Has(j, Closing)' <=> t \in Closing
    BY <1>2, <2>2, <2>6 DEF Has, FinalTypes
  <2>7. LogCloses'
    BY <1>1, <1>3, <1>7, <2>5, <2>6 DEF LogInv, LogCloses
  <2> QED
    BY <1>4, <2>3, <2>4, <2>7 DEF LogInv
<1>8. FinalEvents(i, r) = <<>> => log' = log
  BY <1>1, SinkBasics
<1> QED
  BY <1>1, <1>6, <1>7, <1>8, FinalEventTells

\* The other steps leave the log and the records alone.
LEMMA SameLog ==
    ASSUME Inv, LogInv, UNCHANGED <<result, log>>, Done' = Done, seq <= seq', seq' \in Nat,
           pc = "receipt" => pc' = "receipt" /\ Gone' = Gone
    PROVE  LogInv'
<1>1. \A n \in DOMAIN log : log[n].case \in Nat /\ seq \in Nat
  BY SinkBasics
<1>2. \A n \in DOMAIN log : log[n].case <= seq'
  BY <1>1 DEF LogInv, LogTimely
<1>3. LogTimely'
  BY <1>2 DEF LogInv, LogTimely
<1>4. RecordsGood' /\ LogCloses'
  BY DEF LogInv, RecordsGood, LogCloses, Has
<1> QED
  BY <1>3, <1>4 DEF LogInv

\* Every step keeps the log and the records consistent.
LEMMA NextLog == Inv /\ Inv' /\ LogInv /\ [Next]_vars => LogInv'
<1> SUFFICES ASSUME Inv, Inv', LogInv, [Next]_vars PROVE LogInv'
  OBVIOUS
<1>0. seq' \in Nat /\ seq \in Nat
  BY SinkBasics DEF Inv, RunnerInv, RunnerType
<1>1. CASE QuietKind
  BY <1>0, <1>1, SameLog DEF QuietKind, Steady
<1>2. CASE AcceptKind
  BY <1>0, <1>2, SameLog DEF AcceptKind, Accept, records
<1>3. ASSUME NEW stage, FailKind(stage) PROVE LogInv'
  BY <1>0, <1>3, SameLog DEF FailKind, AcceptFails, records
<1>4. CASE FinishKind
  BY <1>0, <1>4, SameLog DEF FinishKind, Finish, records
<1> QED
  BY <1>1, <1>2, <1>3, <1>4, StepKinds, BeginLog, SentLog, RecordLog

-----------------------------------------------------------------------------
(* The artifacts *)

\* The sink and the report agree when a case is over.
LEMMA OverIsCanonical ==
    ASSUME NEW r, GoodRecord(r) PROVE IsCanonicalFeedbackTerminal(r) <=> Over(r)
<1>1. CASE r = RejectedRecord
  BY <1>1 DEF RejectedRecord, IsCanonicalFeedbackTerminal, Over
<1>2. CASE Included(r)
  BY <1>2 DEF Included, IncludedRecord, Receipts, IsCanonicalFeedbackTerminal, Over,
              IsTerminalConfirmState
<1>3. CASE Unconfirmed(r)
  BY <1>3 DEF Unconfirmed, IsCanonicalFeedbackTerminal, Over, IsTerminalConfirmState
<1> QED
  BY <1>1, <1>2, <1>3 DEF GoodRecord

\* What the sink does with the head of the queue, which has left no trace yet.
LEMMA SinkStep ==
    ASSUME Inv, LogInv, FilesInv, pc = "accept", Done = Gone + 1, Gone + 1 \in Case
    PROVE  LET r == result[Gone + 1]
           IN  /\ GoodRecord(r) /\ r \in Results
               /\ Gone + 1 \notin files.feedback /\ Gone + 1 \notin retained
               /\ IsCanonicalFeedbackTerminal(r) <=> Over(r)
               /\ err = "none"
<1>1. err = "none" /\ Gone \in Nat
  BY SinkBasics DEF Inv, FifoInv
<1>2. GoodRecord(result[Gone + 1])
  BY SinkBasics DEF LogInv, RecordsGood
<1>3. Gone + 1 \notin files.feedback /\ Gone + 1 \notin retained
  BY <1>1 DEF FilesInv
<1> QED
  BY <1>1, <1>2, <1>3, OverIsCanonical DEF GoodRecord

\* Every step keeps the artifacts in agreement with the records.
LEMMA NextFiles == Inv /\ LogInv /\ FilesInv /\ [Next]_vars => FilesInv'
<1> SUFFICES ASSUME Inv, LogInv, FilesInv, [Next]_vars PROVE FilesInv'
  OBVIOUS
<1> DEFINE k == Gone + 1
<1>0. /\ Gone \in Nat /\ Done \in Nat /\ \A i \in Case : i \in Nat
      /\ files \in [cases : SUBSET Case, feedback : SUBSET Case, bundles : SUBSET Case]
      /\ retained \subseteq Case
  BY SinkBasics DEF Inv, DataInv, FilesType
<1>1. ASSUME Gone' = Gone, Done' = Done, UNCHANGED <<result, files, retained>>,
             err = "sink" <=> err' = "sink"
      PROVE  FilesInv'
  BY <1>1 DEF FilesInv
<1>2. CASE QuietKind \/ BeginKind \/ SentKind \/ FinishKind
  BY <1>1, <1>2 DEF QuietKind, BeginKind, SentKind, FinishKind, Finish, Steady, records
<1>3. ASSUME NEW r, RecordKind(r) PROVE FilesInv'
  <2>1. /\ Gone' = Gone /\ result' = [result EXCEPT ![k] = r] /\ err # "sink"
        /\ UNCHANGED <<err, files, retained>>
    BY <1>3 DEF RecordKind
  <2>2. \A i \in Case : i <= Gone => result'[i] = result[i]
    BY <1>0, <2>1, SinkBasics
  <2> QED
    BY <2>1, <2>2 DEF FilesInv
<1>4. CASE AcceptKind
  <2> DEFINE r == result[k]
  <2>1. /\ pc = "accept" /\ Gone' = k /\ Done = k /\ Done' = k /\ k \in Case
        /\ files'.cases = files.cases \cup {k} /\ files'.feedback = WithFeedback(r, k)
        /\ retained' \subseteq retained \cup {k} /\ UNCHANGED <<err, result>>
    BY <1>4 DEF AcceptKind, Accept, records
  <2>2. /\ k \notin files.feedback /\ (IsCanonicalFeedbackTerminal(r) <=> Over(r))
        /\ err = "none"
    BY <2>1, SinkStep
  <2>3. /\ k \in files'.cases /\ (k \in files'.feedback <=> Over(r))
        /\ \A i : i # k => /\ i \in files'.cases <=> i \in files.cases
                           /\ i \in files'.feedback <=> i \in files.feedback
    BY <2>1, <2>2 DEF WithFeedback
  <2>4. ASSUME NEW i \in Case, i <= Gone'
        PROVE  i \in files'.cases /\ (i \in files'.feedback <=> Over(result'[i]))
    <3>1. CASE i = k
      BY <2>1, <2>3, <3>1
    <3>2. CASE i <= Gone
      <4>1. i # k
        BY <1>0, <3>2
      <4> QED
        BY <2>1, <2>3, <3>2, <4>1 DEF FilesInv
    <3> QED
      BY <1>0, <2>1, <2>4, <3>1, <3>2
  <2>5. ASSUME NEW i \in files'.feedback \cup retained' PROVE i <= Gone'
    <3>1. CASE i = k
      BY <1>0, <2>1, <3>1
    <3>2. CASE i # k
      <4>1. i \in files.feedback \cup retained
        BY <2>1, <2>3, <3>2
      <4>2. i <= Gone /\ i \in Nat
        BY <1>0, <2>2, <4>1 DEF FilesInv
      <4> QED
        BY <1>0, <2>1, <4>2
    <3> QED
      BY <3>1, <3>2
  <2> QED
    BY <2>4, <2>5 DEF FilesInv
<1>5. ASSUME NEW stage \in {"case", "feedback", "bundle", "save"}, FailKind(stage)
      PROVE  FilesInv'
  <2> DEFINE r == result[k]
  <2>1. /\ pc = "accept" /\ Gone' = Gone /\ Done = k /\ Done' = k /\ k \in Case
        /\ files'.cases \in {files.cases, files.cases \cup {k}}
        /\ files'.feedback \in {files.feedback, WithFeedback(r, k)}
        /\ retained' \subseteq retained \cup {k} /\ err' = "sink" /\ UNCHANGED result
    BY <1>5 DEF FailKind, AcceptFails, records
  <2>2. /\ \A i : i # k => /\ i \in files'.feedback <=> i \in files.feedback
                           /\ i \in files.cases => i \in files'.cases
    BY <2>1 DEF WithFeedback
  <2>3. \A i \in Case : i <= Gone => i # k
    BY <1>0
  <2>4. \A i \in Case : i <= Gone' =>
            i \in files'.cases /\ (i \in files'.feedback <=> Over(result'[i]))
    BY <2>1, <2>2, <2>3 DEF FilesInv
  <2>5. ASSUME NEW i \in files'.feedback \cup retained'
        PROVE  i <= Gone' \/ (err' = "sink" /\ i <= Done')
    <3>1. i = k => i <= Done'
      BY <1>0, <2>1
    <3>2. i # k => i \in files.feedback \cup retained
      BY <2>1, <2>2
    <3> QED
      BY <2>1, <3>1, <3>2 DEF FilesInv
  <2> QED
    BY <2>4, <2>5 DEF FilesInv
<1> QED
  BY <1>2, <1>3, <1>4, <1>5, StepKinds

-----------------------------------------------------------------------------
(* The corpus store *)

\* The store holds finitely many entries under every signature.
LEMMA EntriesFinite ==
    ASSUME Inv, NEW x PROVE IsFiniteSet(retained) /\ IsFiniteSet(Entries(x))
                            /\ Cardinality(Entries(x)) \in Nat
<1>1. IsFiniteSet(Case)
  BY SegmentSize, Basics DEF Inv
<1>2. retained \subseteq Case /\ Entries(x) \subseteq Case
  BY DEF Inv, DataInv, FilesType, Entries
<1> QED
  BY <1>1, <1>2, FS_Subset, FS_CardinalityType

\* Entries of one signature.
LEMMA SameSignature ==
    ASSUME NEW x, NEW y, Signature(x) = Signature(y) PROVE Entries(x) = Entries(y)
BY DEF Entries

\* Retaining a case adds it under its signature and under no other.
LEMMA EntriesGrow ==
    ASSUME NEW i, retained' = retained \cup {i}, result' = result, NEW x
    PROVE  Entries(x)' = IF Signature(result[i]) = Signature(x)
                         THEN Entries(x) \cup {i} ELSE Entries(x)
BY DEF Entries

\* A case that the store takes leaves every signature within its cap.
LEMMA CapKept ==
    ASSUME Inv, StoreInv, NEW i \in Case, i \notin retained, Retains(result[i]),
           retained' = retained \cup {i}, result' = result, NEW x \in Results
    PROVE  Cardinality(Entries(x)') <= RetainPerSig
<1>1. /\ Cardinality(Entries(x)) \in Nat /\ IsFiniteSet(Entries(x))
      /\ Cardinality(Entries(x)) <= RetainPerSig /\ RetainPerSig \in Nat
  BY EntriesFinite, CampaignAssumption DEF StoreInv
<1>2. CASE Signature(result[i]) = Signature(x)
  <2>1. Entries(x)' = Entries(x) \cup {i}
    BY <1>2, EntriesGrow
  <2>2. Entries(x) = Entries(result[i])
    BY Zenon, <1>2, SameSignature
  <2>3. Cardinality(Entries(x)) < RetainPerSig
    BY <2>2 DEF Retains
  <2>4. Cardinality(Entries(x) \cup {i}) <= Cardinality(Entries(x)) + 1
    BY <1>1, FS_AddElement
  <2>5. Cardinality(Entries(x) \cup {i}) \in Nat
    BY <1>1, FS_AddElement, FS_CardinalityType
  <2> QED
    BY <1>1, <2>1, <2>3, <2>4, <2>5
<1>3. CASE Signature(result[i]) # Signature(x)
  BY <1>1, <1>3, EntriesGrow
<1> QED
  BY <1>2, <1>3

\* Every step keeps the store capped and its signatures represented.
LEMMA NextStore == Inv /\ LogInv /\ FilesInv /\ StoreInv /\ [Next]_vars => StoreInv'
<1> SUFFICES ASSUME Inv, LogInv, FilesInv, StoreInv, [Next]_vars PROVE StoreInv'
  OBVIOUS
<1> DEFINE k == Gone + 1
<1>0. /\ Gone \in Nat /\ \A i \in Case : i \in Nat
      /\ files \in [cases : SUBSET Case, feedback : SUBSET Case, bundles : SUBSET Case]
      /\ retained \subseteq Case /\ result \in [Case -> Results]
  BY SinkBasics DEF Inv, DataInv, FilesType
<1>1. ASSUME Gone' = Gone, UNCHANGED <<files, retained>>,
             \A i \in retained : result'[i] = result[i],
             \A i \in Case : i <= Gone => result'[i] = result[i]
      PROVE  StoreInv'
  <2>1. \A x : Entries(x)' = Entries(x)
    BY <1>1 DEF Entries
  <2>2. \A i \in Case : i <= Gone' => Entries(result[i])' # {}
    <3>1. ASSUME NEW i \in Case, i <= Gone PROVE Entries(result[i])' = Entries(result[i])
      BY <1>1, <3>1 DEF Entries
    <3> QED
      BY <1>1, <3>1 DEF StoreInv
  <2> QED
    BY <1>1, <2>1, <2>2 DEF StoreInv
<1>2. CASE QuietKind \/ BeginKind \/ SentKind \/ FinishKind
  BY <1>1, <1>2 DEF QuietKind, BeginKind, SentKind, FinishKind, Finish, Steady, records
<1>3. ASSUME NEW r, RecordKind(r) PROVE StoreInv'
  <2>1. /\ Gone' = Gone /\ result' = [result EXCEPT ![k] = r] /\ err # "sink"
        /\ UNCHANGED <<files, retained>>
    BY <1>3 DEF RecordKind
  <2>2. \A i \in retained : i <= Gone
    BY <2>1 DEF FilesInv
  <2>3. \A i \in Case : i <= Gone => i # k
    BY <1>0
  <2> QED
    BY <1>0, <1>1, <2>1, <2>2, <2>3
<1>4. CASE AcceptKind
  <2> DEFINE r == result[k]
  <2>1. /\ pc = "accept" /\ Gone' = k /\ Done = k /\ k \in Case
        /\ files'.bundles = IF Retains(r) THEN files.bundles \cup {k} ELSE files.bundles
        /\ retained' = IF Retains(r) THEN retained \cup {k} ELSE retained
        /\ UNCHANGED result
    BY <1>4 DEF AcceptKind, Accept, records
  <2>2. k \notin retained /\ r \in Results
    BY <2>1, SinkStep
  <2>3. retained' \subseteq files'.bundles
    BY <2>1 DEF StoreInv
  <2>4. \A i \in Case : i <= Gone' => i <= Gone \/ i = k
    BY <1>0, <2>1
  <2>5. CASE Retains(r)
    <3>1. retained' = retained \cup {k}
      BY <2>1, <2>5
    <3>2. \A x \in Results : Cardinality(Entries(x)') <= RetainPerSig
      BY <2>1, <2>2, <2>5, <3>1, CapKept
    <3>3. ASSUME NEW i \in Case, i <= Gone' PROVE Entries(result[i])' # {}
      <4>1. Entries(result[i]) \subseteq Entries(result[i])'
        BY <2>1, <3>1 DEF Entries
      <4>2. CASE i <= Gone
        BY <4>1, <4>2 DEF StoreInv
      <4>3. CASE i = k
        BY <2>1, <3>1, <4>3 DEF Entries
      <4> QED
        BY <2>4, <3>3, <4>2, <4>3
    <3> QED
      BY <2>3, <3>2, <3>3 DEF StoreInv
  <2>6. CASE ~Retains(r)
    <3>1. retained' = retained
      BY <2>1, <2>6
    <3>2. \A x : Entries(x)' = Entries(x)
      BY <2>1, <3>1 DEF Entries
    <3>3. Entries(r) # {}
      <4>1. Cardinality(Entries(r)) >= RetainPerSig /\ RetainPerSig > 0
        BY <2>6, EntriesFinite, CampaignAssumption DEF Retains
      <4>2. Cardinality({}) = 0
        BY FS_EmptySet
      <4> QED
        BY <4>1, <4>2, CampaignAssumption
    <3>4. ASSUME NEW i \in Case, i <= Gone' PROVE Entries(result[i])' # {}
      <4>1. Entries(result[i])' = Entries(result[i])
        BY <2>1, <3>1 DEF Entries
      <4> QED
        BY <2>4, <3>3, <3>4, <4>1 DEF StoreInv
    <3> QED
      BY <2>3, <3>2, <3>4 DEF StoreInv
  <2> QED
    BY <2>5, <2>6
<1>5. ASSUME NEW stage \in {"case", "feedback", "bundle", "save"}, FailKind(stage)
      PROVE  StoreInv'
  <2> DEFINE r == result[k]
  <2>1. /\ pc = "accept" /\ Gone' = Gone /\ Done = k /\ k \in Case
        /\ files'.bundles = IF stage = "save" THEN files.bundles \cup {k} ELSE files.bundles
        /\ retained' = IF stage = "save" THEN retained \cup {k} ELSE retained
        /\ stage = "save" => Retains(r)
        /\ UNCHANGED result
    BY <1>5 DEF FailKind, AcceptFails, records
  <2>2. k \notin retained /\ r \in Results
    BY <2>1, SinkStep
  <2>3. retained' \subseteq files'.bundles
    BY <2>1 DEF StoreInv
  <2>4. \A i \in Case : i <= Gone' => Entries(result[i])' # {}
    <3>1. ASSUME NEW i \in Case, i <= Gone
          PROVE  Entries(result[i]) \subseteq Entries(result[i])'
      BY <2>1 DEF Entries
    <3> QED
      BY <2>1, <3>1 DEF StoreInv
  <2>5. CASE stage = "save"
    <3>1. \A x \in Results : Cardinality(Entries(x)') <= RetainPerSig
      BY <2>1, <2>2, <2>5, CapKept
    <3> QED
      BY <2>3, <2>4, <3>1 DEF StoreInv
  <2>6. CASE stage # "save"
    <3>1. \A x : Entries(x)' = Entries(x)
      BY <2>1, <2>6 DEF Entries
    <3> QED
      BY <2>3, <2>4, <3>1 DEF StoreInv
  <2> QED
    BY <2>5, <2>6
<1> QED
  BY <1>2, <1>3, <1>4, <1>5, StepKinds

-----------------------------------------------------------------------------
(* The counters *)

\* The numbers in the report are natural numbers.
LEMMA ReportNumbers ==
    ASSUME NEW p \in Reports
    PROVE  /\ p.sendCounts["sent"] \in Nat /\ p.sendCounts["rpc_error"] \in Nat
           /\ p.confirmCounts["included_success"] \in Nat
           /\ p.confirmCounts["included_reverted"] \in Nat
           /\ p.confirmCounts["awaiting_receipt"] \in Nat
           /\ p.confirmCounts["sla_breached_pending"] \in Nat
           /\ p.confirmCounts["unresolved_shutdown"] \in Nat
           /\ p.terminal \in Nat /\ p.unresolved \in Nat
           /\ Inclusions(p) \in Nat /\ Sum3(p.confirmCounts) \in Nat
<1>1. /\ p.sendCounts \in [SendStates -> Nat] /\ p.confirmCounts \in [ConfirmStates -> Nat]
      /\ p.terminal \in Nat /\ p.unresolved \in Nat
  BY DEF Reports
<1>2. /\ p.sendCounts["sent"] \in Nat /\ p.sendCounts["rpc_error"] \in Nat
      /\ p.confirmCounts["included_success"] \in Nat
      /\ p.confirmCounts["included_reverted"] \in Nat
      /\ p.confirmCounts["awaiting_receipt"] \in Nat
      /\ p.confirmCounts["sla_breached_pending"] \in Nat
      /\ p.confirmCounts["unresolved_shutdown"] \in Nat
  BY <1>1 DEF SendStates, ConfirmStates
<1> QED
  BY <1>1, <1>2 DEF Inclusions, Sum3

One(b) == IF b THEN 1 ELSE 0

\* What counting a record adds to each number.
LEMMA CountedAdds ==
    ASSUME report \in Reports, NEW r, r.send \in SendStates
    PROVE  LET p == Counted(r)
           IN  /\ \A s \in SendStates :
                     p.sendCounts[s] = report.sendCounts[s] + One(s = r.send)
               /\ \A c \in ConfirmStates :
                     p.confirmCounts[c] = report.confirmCounts[c] + One(c = r.confirm)
               /\ p.terminal = report.terminal + One(IsTerminalConfirmState(r.confirm))
               /\ p.unresolved = report.unresolved + One(r.confirm = "unresolved_shutdown")
               /\ p.maxInFlight = report.maxInFlight
<1>1. report.sendCounts \in [SendStates -> Nat]
  BY DEF Reports
<1>2. \A s \in SendStates :
         [report.sendCounts EXCEPT ![r.send] = @ + 1][s]
            = report.sendCounts[s] + One(s = r.send)
  BY <1>1 DEF One
<1>3. \A c \in ConfirmStates :
         [d \in ConfirmStates |->
            report.confirmCounts[d] + (IF d = r.confirm THEN 1 ELSE 0)][c]
            = report.confirmCounts[c] + One(c = r.confirm)
  BY DEF One
<1> QED
  BY <1>2, <1>3 DEF Counted, Reports, One

\* A record adds the same to both sides of every balance.
LEMMA Balances ==
    ASSUME report \in Reports, NEW r, GoodRecord(r)
    PROVE  LET p == Counted(r)
           IN  /\ p.sendCounts["sent"] = report.sendCounts["sent"] + One(r.send = "sent")
               /\ p.sendCounts["sent"] + p.sendCounts["rpc_error"]
                     = report.sendCounts["sent"] + report.sendCounts["rpc_error"] + 1
               /\ p.sendCounts["sent"] - report.sendCounts["sent"]
                     = (Inclusions(p) + Sum3(p.confirmCounts))
                       - (Inclusions(report) + Sum3(report.confirmCounts))
               /\ p.terminal - report.terminal
                     = (Inclusions(p) + p.unresolved) - (Inclusions(report) + report.unresolved)
               /\ p.terminal + p.sendCounts["rpc_error"]
                     = report.terminal + report.sendCounts["rpc_error"] + One(Over(r))
               /\ p.maxInFlight = report.maxInFlight
<1> DEFINE p == Counted(r)
<1>0. r.send \in SendStates /\ r \in Results
  BY DEF GoodRecord, RejectedRecord, Included, IncludedRecord, Unconfirmed, SendStates
<1>1. /\ p.sendCounts["sent"] = report.sendCounts["sent"] + One("sent" = r.send)
      /\ p.sendCounts["rpc_error"] = report.sendCounts["rpc_error"] + One("rpc_error" = r.send)
      /\ p.confirmCounts["included_success"]
            = report.confirmCounts["included_success"] + One("included_success" = r.confirm)
      /\ p.confirmCounts["included_reverted"]
            = report.confirmCounts["included_reverted"] + One("included_reverted" = r.confirm)
      /\ p.confirmCounts["awaiting_receipt"]
            = report.confirmCounts["awaiting_receipt"] + One("awaiting_receipt" = r.confirm)
      /\ p.confirmCounts["sla_breached_pending"]
            = report.confirmCounts["sla_breached_pending"] + One("sla_breached_pending" = r.confirm)
      /\ p.confirmCounts["unresolved_shutdown"]
            = report.confirmCounts["unresolved_shutdown"] + One("unresolved_shutdown" = r.confirm)
      /\ p.terminal = report.terminal + One(IsTerminalConfirmState(r.confirm))
      /\ p.unresolved = report.unresolved + One(r.confirm = "unresolved_shutdown")
      /\ p.maxInFlight = report.maxInFlight
  BY <1>0, CountedAdds DEF SendStates, ConfirmStates
<1>2. /\ report.sendCounts["sent"] \in Nat /\ report.sendCounts["rpc_error"] \in Nat
      /\ report.confirmCounts["included_success"] \in Nat
      /\ report.confirmCounts["included_reverted"] \in Nat
      /\ report.confirmCounts["awaiting_receipt"] \in Nat
      /\ report.confirmCounts["sla_breached_pending"] \in Nat
      /\ report.confirmCounts["unresolved_shutdown"] \in Nat
      /\ report.terminal \in Nat /\ report.unresolved \in Nat
  BY ReportNumbers
<1> HIDE DEF p
<1>3. CASE r = RejectedRecord
  <2>1. r.send = "rpc_error" /\ r.confirm = "none" /\ Over(r)
    BY <1>3 DEF RejectedRecord, Over
  <2> QED
    BY <1>1, <1>2, <2>1 DEF One, Inclusions, Sum3, IsTerminalConfirmState, p
<1>4. CASE Included(r)
  <2>1. /\ r.send = "sent" /\ Over(r)
        /\ r.confirm \in {"included_success", "included_reverted"}
    BY <1>4 DEF Included, IncludedRecord, Over, IsTerminalConfirmState
  <2> QED
    BY <1>1, <1>2, <2>1 DEF One, Inclusions, Sum3, IsTerminalConfirmState, p
<1>5. CASE Unconfirmed(r)
  <2>1. /\ r.send = "sent"
        /\ Over(r) <=> r.confirm = "unresolved_shutdown"
        /\ r.confirm \in {"awaiting_receipt", "sla_breached_pending", "unresolved_shutdown"}
    BY <1>5 DEF Unconfirmed, Over, IsTerminalConfirmState
  <2> QED
    BY <1>1, <1>2, <2>1 DEF One, Inclusions, Sum3, IsTerminalConfirmState, p
<1> QED
  BY <1>3, <1>4, <1>5 DEF GoodRecord

\* The canonical feedback of the cases that left the queue can be counted.
LEMMA FeedbackFinite ==
    ASSUME Inv
    PROVE  /\ IsFiniteSet(files.feedback \cap (1..Gone))
           /\ Cardinality(files.feedback \cap (1..Gone)) \in Nat
<1>1. IsFiniteSet(1..Gone)
  BY SegmentSize, SinkBasics
<1> QED
  BY <1>1, FS_Subset, FS_CardinalityType

\* A step that counts nothing.
LEMMA SameCounts ==
    ASSUME CountInv, Gone' = Gone,
           UNCHANGED <<report.sendCounts, report.confirmCounts, report.terminal,
                       report.unresolved>>,
           report'.maxInFlight <= MaxInFlight,
           files'.feedback \cap (1..Gone) = files.feedback \cap (1..Gone),
           err' # "sink" => /\ err # "sink" /\ retained' = retained
                            /\ stats'.sent = stats.sent /\ stats'.retained = stats.retained
    PROVE  CountInv'
BY DEF CountInv, Inclusions

\* What the report takes over from elsewhere leaves its counts alone.
LEMMA TotalsKeepCounts ==
    ASSUME report \in Reports, NEW a, NEW b, NEW c, NEW d
    PROVE  LET p == [report EXCEPT !.total = a, !.maxInFlight = b]
               q == [report EXCEPT !.total = a, !.sent = b, !.retained = c, !.duplicate = d]
           IN  /\ p.sendCounts = report.sendCounts /\ p.confirmCounts = report.confirmCounts
               /\ p.terminal = report.terminal /\ p.unresolved = report.unresolved
               /\ p.maxInFlight = b
               /\ q.sendCounts = report.sendCounts /\ q.confirmCounts = report.confirmCounts
               /\ q.terminal = report.terminal /\ q.unresolved = report.unresolved
               /\ q.maxInFlight = report.maxInFlight
               /\ q.total = a /\ q.sent = b /\ q.retained = c
BY DEF Reports

\* Accepting a case adds it to every count once.
LEMMA AcceptCounts ==
    ASSUME Inv, LogInv, FilesInv, CountInv, AcceptKind PROVE CountInv'
<1> DEFINE k == Gone + 1
           r == result[k]
           F == files.feedback \cap (1..Gone)
<1>1. /\ pc = "accept" /\ Gone' = k /\ Done = k /\ k \in Case
      /\ files'.feedback = WithFeedback(r, k)
      /\ retained' = IF Retains(r) THEN retained \cup {k} ELSE retained
      /\ stats'.sent = CountSent(r)
      /\ stats'.retained = stats.retained + (IF Retains(r) THEN 1 ELSE 0)
      /\ report' = Counted(r)
  BY DEF AcceptKind, Accept
<1>2. /\ GoodRecord(r) /\ k \notin files.feedback /\ k \notin retained
      /\ IsCanonicalFeedbackTerminal(r) <=> Over(r)
      /\ err = "none"
  BY <1>1, SinkStep
<1>3. /\ Gone \in Nat /\ report \in Reports /\ stats.sent \in Nat /\ stats.retained \in Nat
  BY SinkBasics DEF Inv, DataInv, CountersType
<1>4. Cardinality(files'.feedback \cap (1..k)) = Cardinality(F) + One(Over(r))
  <2>1. 1..k = (1..Gone) \cup {k} /\ k \notin 1..Gone
    BY <1>3
  <2>2. CASE Over(r)
    <3>1. files'.feedback \cap (1..k) = F \cup {k} /\ k \notin F
      BY <1>1, <1>2, <2>1, <2>2 DEF WithFeedback
    <3> QED
      BY <2>2, <3>1, FeedbackFinite, FS_AddElement DEF One
  <2>3. CASE ~Over(r)
    <3>1. files'.feedback \cap (1..k) = F
      BY <1>1, <1>2, <2>1, <2>3 DEF WithFeedback
    <3> QED
      BY <2>3, <3>1, FeedbackFinite DEF One
  <2> QED
    BY <2>2, <2>3
<1>5. Cardinality(retained') = Cardinality(retained) + (IF Retains(r) THEN 1 ELSE 0)
  BY <1>1, <1>2, EntriesFinite, FS_AddElement, FS_CardinalityType
<1> DEFINE p == Counted(r)
<1>6. /\ p.sendCounts["sent"] = report.sendCounts["sent"] + One(r.send = "sent")
      /\ p.sendCounts["sent"] + p.sendCounts["rpc_error"]
            = report.sendCounts["sent"] + report.sendCounts["rpc_error"] + 1
      /\ p.sendCounts["sent"] - report.sendCounts["sent"]
            = (Inclusions(p) + Sum3(p.confirmCounts))
              - (Inclusions(report) + Sum3(report.confirmCounts))
      /\ p.terminal - report.terminal
            = (Inclusions(p) + p.unresolved) - (Inclusions(report) + report.unresolved)
      /\ p.terminal + p.sendCounts["rpc_error"]
            = report.terminal + report.sendCounts["rpc_error"] + One(Over(r))
      /\ p.maxInFlight = report.maxInFlight
  BY <1>2, <1>3, Balances
<1>7. p \in Reports
  BY <1>1, SinkTypes DEF Inv, AcceptKind
<1>8. /\ report.sendCounts["sent"] \in Nat /\ report.sendCounts["rpc_error"] \in Nat
      /\ report.terminal \in Nat /\ report.unresolved \in Nat
      /\ Inclusions(report) \in Nat /\ Sum3(report.confirmCounts) \in Nat
      /\ p.sendCounts["sent"] \in Nat /\ p.sendCounts["rpc_error"] \in Nat
      /\ p.terminal \in Nat /\ p.unresolved \in Nat
      /\ Inclusions(p) \in Nat /\ Sum3(p.confirmCounts) \in Nat
      /\ Cardinality(F) \in Nat
  BY <1>3, <1>7, ReportNumbers, FeedbackFinite
<1>9. stats'.sent = stats.sent + One(r.send = "sent")
  BY <1>1 DEF CountSent, One
<1>10. Inclusions(report)' = Inclusions(p)
  BY <1>1 DEF Inclusions
<1>11. /\ report.sendCounts["sent"] + report.sendCounts["rpc_error"] = Gone
       /\ report.sendCounts["sent"] = Inclusions(report) + Sum3(report.confirmCounts)
       /\ report.terminal = Inclusions(report) + report.unresolved
       /\ report.terminal + report.sendCounts["rpc_error"] = Cardinality(F)
       /\ report.maxInFlight <= MaxInFlight
       /\ stats.sent = report.sendCounts["sent"] /\ stats.retained = Cardinality(retained)
  BY <1>2 DEF CountInv
<1> HIDE DEF p, F
<1>12. /\ p.sendCounts["sent"] + p.sendCounts["rpc_error"] = Gone + 1
       /\ p.sendCounts["sent"] = Inclusions(p) + Sum3(p.confirmCounts)
       /\ p.terminal = Inclusions(p) + p.unresolved
       /\ p.terminal + p.sendCounts["rpc_error"] = Cardinality(F) + One(Over(r))
       /\ p.maxInFlight <= MaxInFlight
       /\ stats'.sent = p.sendCounts["sent"]
  BY <1>6, <1>8, <1>9, <1>11
<1>13. stats'.retained = Cardinality(retained')
  BY <1>1, <1>5, <1>11
<1>14. report' = p
  BY <1>1 DEF p
<1> HIDE DEF r
<1> QED
  BY <1>1, <1>4, <1>10, <1>12, <1>13, <1>14 DEF CountInv

\* Every step keeps the counters in balance.
LEMMA NextCounts == Inv /\ LogInv /\ FilesInv /\ CountInv /\ [Next]_vars => CountInv'
<1> SUFFICES ASSUME Inv, LogInv, FilesInv, CountInv, [Next]_vars PROVE CountInv'
  OBVIOUS
<1>0. /\ report \in Reports /\ maxSeen <= MaxInFlight /\ report.maxInFlight <= MaxInFlight
      /\ Gone \in Nat
  BY SinkBasics, CampaignAssumption DEF Inv, DataInv, CountersType, RunnerInv, RunnerType, CountInv
<1>1. CASE QuietKind
  <2>1. CASE report' = report
    BY <1>0, <1>1, <2>1, SameCounts DEF QuietKind, Steady
  <2>2. CASE report' = [report EXCEPT !.total = @ + 1, !.maxInFlight = maxSeen]
    <3>1. /\ report'.sendCounts = report.sendCounts
          /\ report'.confirmCounts = report.confirmCounts
          /\ report'.terminal = report.terminal /\ report'.unresolved = report.unresolved
          /\ report'.maxInFlight = maxSeen
      BY <1>0, <2>2, TotalsKeepCounts
    <3> QED
      BY <1>0, <1>1, <3>1, SameCounts DEF QuietKind, Steady
  <2> QED
    BY <1>1, <2>1, <2>2 DEF QuietKind
<1>2. CASE BeginKind \/ SentKind
  BY <1>0, <1>2, SameCounts DEF BeginKind, SentKind, Steady
<1>3. ASSUME NEW r, RecordKind(r) PROVE CountInv'
  BY <1>0, <1>3, SameCounts DEF RecordKind
<1>4. ASSUME NEW stage \in {"case", "feedback", "bundle", "save"}, FailKind(stage)
      PROVE  CountInv'
  <2>1. /\ Gone' = Gone /\ report' = report /\ err' = "sink"
        /\ files'.feedback \in {files.feedback, WithFeedback(result[Gone + 1], Gone + 1)}
    BY <1>4 DEF FailKind, AcceptFails
  <2>2. files'.feedback \cap (1..Gone) = files.feedback \cap (1..Gone)
    BY <1>0, <2>1 DEF WithFeedback
  <2> QED
    BY <1>0, <2>1, <2>2, SameCounts
<1>5. CASE FinishKind
  <2>1. /\ Gone' = Gone /\ UNCHANGED <<files, retained, stats>>
        /\ err # "sink" /\ err' # "sink"
        /\ report' = [report EXCEPT !.total = seq, !.sent = stats.sent,
                                    !.retained = stats.retained, !.duplicate = stats.duplicate]
    BY <1>5 DEF FinishKind, Finish
  <2>2. /\ report'.sendCounts = report.sendCounts
        /\ report'.confirmCounts = report.confirmCounts
        /\ report'.terminal = report.terminal /\ report'.unresolved = report.unresolved
        /\ report'.maxInFlight = report.maxInFlight
    BY <1>0, <2>1, TotalsKeepCounts
  <2> QED
    BY <1>0, <2>1, <2>2, SameCounts
<1> QED
  BY <1>1, <1>2, <1>3, <1>4, <1>5, AcceptCounts, StepKinds

\* A case is a duplicate exactly if its signature has left the queue before.
LEMMA DuplicateMeans ==
    ASSUME Inv, LogInv, FilesInv, StoreInv, pc = "accept", Done = Gone + 1, Gone + 1 \in Case
    PROVE  IsDuplicate(result[Gone + 1]) <=> Signature(result[Gone + 1]) \in Signatures
<1> DEFINE r == result[Gone + 1]
<1>0. err = "none" /\ Gone \in Nat /\ Case = 1..Cases /\ Cases \in Nat /\ Gone <= Cases
  BY SinkStep, SinkBasics
<1>1. ASSUME IsDuplicate(r) PROVE Signature(r) \in Signatures
  <2>1. PICK j \in retained : Signature(result[j]) = Signature(r)
    BY <1>1 DEF IsDuplicate, Entries
  <2>2. j <= Gone /\ j \in Case
    BY <1>0 DEF FilesInv, Inv, DataInv, FilesType
  <2>3. j \in 1..Gone
    BY <1>0, <2>2
  <2> QED
    BY <2>1, <2>3 DEF Signatures
<1>2. ASSUME Signature(r) \in Signatures PROVE IsDuplicate(r)
  <2>1. PICK i \in 1..Gone : Signature(result[i]) = Signature(r)
    BY <1>2 DEF Signatures
  <2>2. i \in Case /\ i <= Gone
    BY <1>0
  <2>3. Entries(result[i]) # {}
    BY <2>2 DEF StoreInv
  <2>4. Entries(result[i]) = Entries(r)
    BY Zenon, <2>1, SameSignature
  <2> QED
    BY <2>3, <2>4 DEF IsDuplicate
<1> QED
  BY <1>1, <1>2

\* Every step keeps the count of duplicates.
LEMMA NextDuplicates ==
    Inv /\ LogInv /\ FilesInv /\ StoreInv /\ DuplicateInv /\ [Next]_vars => DuplicateInv'
<1> SUFFICES ASSUME Inv, LogInv, FilesInv, StoreInv, DuplicateInv, [Next]_vars
             PROVE  DuplicateInv'
  OBVIOUS
<1> DEFINE k == Gone + 1
<1>0. Gone \in Nat /\ stats.duplicate \in Nat
  BY SinkBasics DEF Inv, DataInv, CountersType
<1>1. ASSUME Gone' = Gone, \A i \in 1..Gone : result'[i] = result[i],
             stats'.duplicate = stats.duplicate
      PROVE  DuplicateInv'
  <2>1. Signatures' = Signatures
    BY <1>1 DEF Signatures
  <2> QED
    BY <1>1, <2>1 DEF DuplicateInv
<1>2. CASE QuietKind \/ BeginKind \/ SentKind \/ FinishKind
  BY <1>1, <1>2 DEF QuietKind, BeginKind, SentKind, FinishKind, Finish, Steady, records
<1>3. ASSUME NEW r, RecordKind(r) PROVE DuplicateInv'
  <2>1. Gone' = Gone /\ result' = [result EXCEPT ![k] = r] /\ stats' = stats
    BY <1>3 DEF RecordKind
  <2>2. \A i \in 1..Gone : i # k /\ i \in Case
    BY <1>0, SinkBasics
  <2> QED
    BY <1>1, <2>1, <2>2, SinkBasics
<1>4. ASSUME NEW stage \in {"case", "feedback", "bundle", "save"}, FailKind(stage)
      PROVE  DuplicateInv'
  <2>1. Gone' = Gone /\ result' = result /\ stats' = [stats EXCEPT !.sent = CountSent(result[k])]
    BY <1>4 DEF FailKind, AcceptFails, records
  <2>2. stats'.duplicate = stats.duplicate
    BY <2>1 DEF Inv, DataInv, CountersType
  <2> QED
    BY <1>1, <2>1, <2>2
<1>5. CASE AcceptKind
  <2> DEFINE g == Signature(result[k])
  <2>1. /\ pc = "accept" /\ Gone' = k /\ Done = k /\ k \in Case /\ result' = result
        /\ stats'.duplicate = stats.duplicate + (IF IsDuplicate(result[k]) THEN 1 ELSE 0)
    BY <1>5 DEF AcceptKind, Accept, records
  <2>2. Signatures' = Signatures \cup {g}
    <3>1. 1..k = (1..Gone) \cup {k}
      BY <1>0
    <3> QED
      BY <2>1, <3>1 DEF Signatures
  <2>3. IsDuplicate(result[k]) <=> g \in Signatures
    BY <2>1, DuplicateMeans
  <2>4. /\ IsFiniteSet(Signatures) /\ Cardinality(Signatures) \in Nat
        /\ stats.duplicate + Cardinality(Signatures) = Gone
    BY FS_CardinalityType DEF DuplicateInv
  <2> HIDE DEF g
  <2>5. /\ IsFiniteSet(Signatures \cup {g})
        /\ Cardinality(Signatures \cup {g})
              = IF g \in Signatures THEN Cardinality(Signatures) ELSE Cardinality(Signatures) + 1
    BY <2>4, FS_AddElement
  <2>6. stats'.duplicate + Cardinality(Signatures \cup {g}) = k
    <3>1. stats.duplicate \in Nat /\ Gone \in Nat
      BY <1>0 DEF Inv, DataInv, CountersType
    <3>2. CASE g \in Signatures
      <4>1. /\ stats'.duplicate = stats.duplicate + 1
            /\ Cardinality(Signatures \cup {g}) = Cardinality(Signatures)
        BY <2>1, <2>3, <2>5, <3>2
      <4> QED
        BY <2>4, <3>1, <4>1
    <3>3. CASE g \notin Signatures
      <4>1. /\ stats'.duplicate = stats.duplicate + 0
            /\ Cardinality(Signatures \cup {g}) = Cardinality(Signatures) + 1
        BY <2>1, <2>3, <2>5, <3>3
      <4> QED
        BY <2>4, <3>1, <4>1
    <3> QED
      BY <3>2, <3>3
  <2> QED
    BY <2>1, <2>2, <2>5, <2>6 DEF DuplicateInv
<1> QED
  BY <1>2, <1>3, <1>4, <1>5, StepKinds

\* A published report is final.
LEMMA NextPublished == Inv /\ PublishedInv /\ [Next]_vars => PublishedInv'
<1> SUFFICES ASSUME Inv, PublishedInv, [Next]_vars PROVE PublishedInv'
  OBVIOUS
<1>0. report \in Reports /\ (published => pc = "done")
  BY DEF Inv, DataInv, CountersType, DrainPhase
<1>1. ASSUME UNCHANGED <<report, stats, published>> PROVE PublishedInv'
  BY <1>1 DEF PublishedInv
<1>2. ASSUME pc # "done", published' = published PROVE PublishedInv'
  BY <1>0, <1>2 DEF PublishedInv
<1>3. CASE QuietKind
  BY <1>1, <1>2, <1>3 DEF QuietKind, Steady
<1>4. CASE BeginKind \/ SentKind
  BY <1>1, <1>4 DEF BeginKind, SentKind, Steady
<1>5. ASSUME NEW r, RecordKind(r) PROVE PublishedInv'
  BY <1>1, <1>5 DEF RecordKind
<1>6. CASE AcceptKind
  BY <1>2, <1>6 DEF AcceptKind, Accept
<1>7. ASSUME NEW stage, FailKind(stage) PROVE PublishedInv'
  BY <1>2, <1>7 DEF FailKind, AcceptFails
<1>8. CASE FinishKind
  <2>1. /\ pc = "drain" /\ stats' = stats
        /\ report' = [report EXCEPT !.total = seq, !.sent = stats.sent,
                                    !.retained = stats.retained, !.duplicate = stats.duplicate]
    BY <1>8 DEF FinishKind, Finish
  <2>2. report'.total = seq /\ report'.sent = stats.sent /\ report'.retained = stats.retained
    BY <1>0, <2>1, TotalsKeepCounts
  <2>3. seq = Cases
    BY <2>1 DEF Inv, DrainPhase
  <2> QED
    BY <2>1, <2>2, <2>3 DEF PublishedInv
<1> QED
  BY <1>3, <1>4, <1>5, <1>6, <1>7, <1>8, StepKinds

-----------------------------------------------------------------------------
(* The theorems *)

\* Nothing is written or counted at the beginning.
LEMMA InitSink == Init => SinkInv
<1> SUFFICES ASSUME Init PROVE SinkInv
  OBVIOUS
<1>1. /\ pc = "loop" /\ err = "none" /\ seq = 0 /\ pending = <<>>
      /\ files = [cases |-> {}, feedback |-> {}, bundles |-> {}] /\ retained = {}
      /\ stats = [sent |-> 0, retained |-> 0, duplicate |-> 0] /\ report = NewReport
  BY DEF Init
<1>2. Gone = 0 /\ \A i \in Case : ~(i <= 0)
  BY <1>1, CampaignAssumption DEF Gone, Subs, Case
<1>3. Cardinality({}) = 0 /\ IsFiniteSet({})
  BY FS_EmptySet
<1>4. FilesInv
  BY <1>1, <1>2 DEF FilesInv
<1>5. StoreInv
  <2>1. \A r \in Results : Cardinality(Entries(r)) <= RetainPerSig
    <3>1. \A r : Entries(r) = {}
      BY <1>1 DEF Entries
    <3> QED
      BY <1>3, <3>1, CampaignAssumption
  <2>2. retained \subseteq files.bundles
    BY <1>1
  <2> QED
    BY <1>2, <2>1, <2>2 DEF StoreInv
<1>6. CountInv
  <2>1. /\ report.sendCounts["sent"] = 0 /\ report.sendCounts["rpc_error"] = 0
        /\ report.terminal = 0 /\ report.unresolved = 0 /\ report.maxInFlight = 0
        /\ \A c \in ConfirmStates : report.confirmCounts[c] = 0
    BY <1>1 DEF NewReport, Zero, SendStates
  <2>2. Inclusions(report) = 0 /\ Sum3(report.confirmCounts) = 0
    BY <2>1 DEF Inclusions, Sum3, ConfirmStates
  <2>3. files.feedback \cap (1..Gone) = {}
    BY <1>1
  <2> QED
    BY <1>1, <1>2, <1>3, <2>1, <2>2, <2>3, CampaignAssumption DEF CountInv
<1>7. DuplicateInv
  <2>1. Signatures = {}
    BY <1>2 DEF Signatures
  <2> QED
    BY <1>1, <1>2, <1>3, <2>1 DEF DuplicateInv
<1>8. PublishedInv
  <2>1. ~published
    BY Zenon DEF Init
  <2> QED
    BY <2>1 DEF PublishedInv
<1> QED
  BY <1>4, <1>5, <1>6, <1>7, <1>8, InitLog DEF SinkInv

\* Records, event log, artifacts, store and counters of the campaign fit
\* together in every state, also after the sink has failed (acceptOutcome,
\* campaignSink.Accept and updateV2Report).
THEOREM SinkInvariance == Spec => []SinkInv
<1>1. Inv /\ Inv' /\ SinkInv /\ [Next]_vars => SinkInv'
  BY NextLog, NextFiles, NextStore, NextCounts, NextDuplicates, NextPublished DEF SinkInv
<1> QED
  BY <1>1, InitSink, Invariance, PTL DEF Spec

\* For every case that went through the sink the event log, the canonical
\* feedback artifact and the report agree whether it is over, and the log
\* orders its events (appendFinalizeEvent, IsCanonicalFeedbackTerminal,
\* isTerminalConfirmState).
THEOREM ArtifactsHold == Spec => []ArtifactsAgree
<1>1. Inv /\ SinkInv => ArtifactsAgree
  <2> SUFFICES ASSUME Inv, SinkInv PROVE ArtifactsAgree
    OBVIOUS
  <2>1. Accepted = 1..Gone /\ Gone \in Nat /\ Gone <= Done /\ Done \in Nat
        /\ \A i \in 1..Gone : i \in Case /\ i <= Gone /\ i <= Done
    BY Segments, SinkBasics DEF Inv
  <2>2. \A i \in Accepted :
            /\ i \in files.cases
            /\ i \in files.feedback <=> Over(result[i])
            /\ Has(i, Closing) <=> Over(result[i])
    BY <2>1 DEF SinkInv, FilesInv, LogInv, LogCloses
  <2> QED
    BY <2>2 DEF ArtifactsAgree, Over, SinkInv, LogInv, Ordered
<1> QED
  BY <1>1, Invariance, SinkInvariance, PTL

\* Every signature that was ever accepted stays represented by a retained case
\* with a replay bundle, and by at most RetainPerSig of them (Store.Decide).
THEOREM SignaturesKept == Spec => []EverySignatureKept
<1>1. Inv /\ SinkInv => EverySignatureKept
  <2> SUFFICES ASSUME Inv, SinkInv, NEW i \in Accepted
               PROVE  Cardinality(Entries(result[i]) \cap files.bundles) \in 1..RetainPerSig
    BY DEF EverySignatureKept
  <2>1. i \in Case /\ i <= Gone /\ result[i] \in Results
    BY Segments, SinkBasics DEF Inv
  <2>2. Entries(result[i]) \cap files.bundles = Entries(result[i])
    BY DEF SinkInv, StoreInv, Entries
  <2>3. Entries(result[i]) # {} /\ Cardinality(Entries(result[i])) <= RetainPerSig
    BY <2>1 DEF SinkInv, StoreInv
  <2>4. Cardinality(Entries(result[i])) \in Nat /\ IsFiniteSet(Entries(result[i]))
    BY EntriesFinite
  <2>5. Cardinality(Entries(result[i])) # 0
    BY <2>3, <2>4, FS_EmptySet
  <2> QED
    BY <2>2, <2>3, <2>4, <2>5, CampaignAssumption
<1> QED
  BY <1>1, Invariance, SinkInvariance, PTL

\* The counters that are updated at three places of the runner fit together: a
\* published report accounts for every case once, by send state, by confirm
\* state, by terminality and by retention (updateV2Report, the sink's statistics
\* and the end of RunCampaignV2).
THEOREM ReportAlwaysAddsUp == Spec => []ReportAddsUp
<1>1. Inv /\ SinkInv => ReportAddsUp
  <2> SUFFICES ASSUME Inv, SinkInv PROVE ReportAddsUp
    OBVIOUS
  <2>1. Accepted = 1..Gone /\ Gone \in Nat /\ Cardinality(Accepted) = Gone
    BY Segments, SegmentSize DEF Inv
  <2>2. {Signature(result[i]) : i \in Accepted} = Signatures
    BY <2>1 DEF Signatures
  <2>3. ASSUME published
        PROVE  /\ report.total = Cases /\ Accepted = Case
               /\ report.sent = report.sendCounts["sent"]
               /\ report.retained = Cardinality(retained)
    <3>1. pc = "done" /\ pending = <<>> /\ seq = Cases
      BY <2>3 DEF Inv, DrainPhase
    <3>2. err = "none"
      BY <3>1 DEF Inv, FifoInv
    <3>3. Gone = Cases
      BY <3>1, <3>2, SinkBasics DEF Gone, Subs
    <3> QED
      BY <2>1, <2>3, <3>2, <3>3 DEF SinkInv, PublishedInv, CountInv, Case
  <2> QED
    BY <2>1, <2>2, <2>3 DEF ReportAddsUp, SinkInv, CountInv, DuplicateInv, Inclusions
<1> QED
  BY <1>1, Invariance, SinkInvariance, PTL

=============================================================================
