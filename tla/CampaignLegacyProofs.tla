------------------------ MODULE CampaignLegacyProofs ------------------------
(***************************************************************************)
(* Proofs about CampaignLegacy, for any number of cases, receipt timeout   *)
(* and cap of the store.                                                   *)
(*                                                                         *)
(* Two numbers tell where the campaign stands: Subs cases have been        *)
(* submitted and Taken cases accepted by the sink.  They differ by at most *)
(* one (TurnInv), the records of the accepted cases are final (RecordInv), *)
(* and the artifacts and counters are functions of those records           *)
(* (StoreInv, CountInv).                                                   *)
(***************************************************************************)
EXTENDS CampaignLegacy, FiniteSetTheorems, TLAPS

\* The last case submitted, and the last one accepted.
Subs == IF pc = "submit" \/ (pc = "failed" /\ send[seq] = "none") THEN seq - 1 ELSE seq
Taken == IF pc \in {"loop", "done", "unwritten"} THEN seq ELSE seq - 1

TurnInv ==
    /\ seq = 0 => pc = "loop"
    /\ pc \in {"done", "unwritten"} => seq = Cases
    /\ written <=> pc = "done"
    /\ \A i \in Case : send[i] # "none" <=> i <= Subs

\* A record Submit can return.
GoodRecord(i) ==
    /\ result[i].send = send[i] /\ send[i] \in SendStates
    /\ "unresolved_shutdown" \notin result[i].flags

RecordInv ==
    /\ pc = "receipt" => send[seq] = "sent"
    /\ \A i \in Case : i <= Taken \/ (i = seq /\ pc = "accept") => GoodRecord(i)

StoreInv ==
    /\ feedback = {i \in 1..Taken : IsCanonicalFeedbackTerminal(result[i])}
    /\ retained \subseteq 1..Taken
    /\ \A i \in 1..Taken : Entries(result[i]) # {}

SentCases == {i \in 1..Taken : send[i] = "sent"}
Signatures == {Signature(result[i]) : i \in 1..Taken}

CountInv ==
    /\ pc # "failed" => stats.sent = Cardinality(SentCases)
    /\ stats.retained = Cardinality(retained)
    /\ IsFiniteSet(Signatures) /\ stats.duplicate + Cardinality(Signatures) = Taken

Inv == TypeOK /\ TurnInv /\ RecordInv /\ StoreInv /\ CountInv

-----------------------------------------------------------------------------
(* Segments *)

\* The first n numbers.
LEMMA SegmentSize ==
    ASSUME NEW n \in Nat PROVE Cardinality(1..n) = n /\ IsFiniteSet(1..n)
<1>1. 1 \in Int /\ n \in Int
  OBVIOUS
<1>2. Cardinality(1..n) = (IF 1 > n THEN 0 ELSE n - 1 + 1) /\ IsFiniteSet(1..n)
  BY <1>1, FS_Interval
<1> QED
  BY <1>2

\* Where the numbers lie.
LEMMA Basics ==
    ASSUME TypeOK, TurnInv
    PROVE  /\ Cases \in Nat \ {0} /\ Case = 1..Cases
           /\ seq \in Nat /\ seq <= Cases /\ (pc # "loop" => seq \in Case)
           /\ Subs \in Nat /\ Taken \in Nat
           /\ Taken <= Subs /\ Subs <= Taken + 1 /\ Subs <= seq /\ Subs <= Cases
           /\ 1..Taken \subseteq Case
<1>1. /\ Cases \in Nat \ {0} /\ Case = 1..Cases /\ seq \in 0..Cases
      /\ seq = 0 => pc = "loop"
  BY LegacyAssumption DEF TypeOK, TurnInv, Case
<1>2. CASE pc = "loop"
  BY <1>1, <1>2 DEF Subs, Taken
<1>3. CASE pc \in {"done", "unwritten"}
  BY <1>1, <1>3 DEF Subs, Taken
<1>4. CASE pc = "submit"
  BY <1>1, <1>4 DEF Subs, Taken
<1>5. CASE pc \in {"receipt", "accept"}
  BY <1>1, <1>5 DEF Subs, Taken
<1>6. CASE pc = "failed"
  BY <1>1, <1>6 DEF Subs, Taken
<1> QED
  BY <1>2, <1>3, <1>4, <1>5, <1>6 DEF TypeOK

\* The sets that the properties speak of are initial segments.
LEMMA Segments ==
    ASSUME TypeOK, TurnInv
    PROVE  /\ Submitted = 1..Subs /\ Accepted = 1..Taken
           /\ Submitted \cap Accepted = 1..Taken
           /\ Cardinality(Submitted) = Subs
           /\ Cardinality(Submitted \cap Accepted) = Taken
<1>1. Submitted = 1..Subs
  BY Basics DEF Submitted, TurnInv
<1>2. Accepted = 1..Taken
  BY Basics DEF Accepted, Taken
<1>3. Submitted \cap Accepted = 1..Taken
  BY <1>1, <1>2, Basics
<1> QED
  BY <1>1, <1>2, <1>3, Basics, SegmentSize

-----------------------------------------------------------------------------
(* The steps, by what they do to the two numbers *)

\* Nothing is submitted, accepted or given up.
Still ==
    /\ Subs' = Subs /\ Taken' = Taken
    /\ pc \notin {"done", "failed", "unwritten"} <=> pc' \notin {"done", "failed", "unwritten"}
    /\ (pc = "done" <=> pc' = "done") /\ (pc = "unwritten" <=> pc' = "unwritten")
    /\ \A i \in Case : i <= Taken => result'[i] = result[i]
    /\ UNCHANGED <<send, feedback, retained, stats, written>>

SubmitKind ==
    /\ pc = "submit" /\ seq \in Case /\ pc' \in {"receipt", "accept"}
    /\ Subs = seq - 1 /\ Taken = seq - 1 /\ Subs' = seq /\ Taken' = seq - 1
    /\ \A i \in Case : i <= Taken => send'[i] = send[i] /\ result'[i] = result[i]
    /\ UNCHANGED <<seq, artifacts>>

AcceptKind ==
    /\ Accept /\ seq \in Case /\ pc' = "loop"
    /\ Subs = seq /\ Taken = seq - 1 /\ Subs' = seq /\ Taken' = seq

FailKind ==
    /\ pc \in {"loop", "accept"} /\ pc' = "failed"
    /\ Subs' = Subs /\ Taken' = Taken
    /\ \E n \in Nat : stats' = [stats EXCEPT !.sent = n]
    /\ UNCHANGED <<send, result, feedback, retained, written>>

FinishKind ==
    /\ Finish /\ seq = Cases
    /\ Taken = Cases /\ Subs' = Subs /\ Taken' = Taken

\* Every step is of one of these kinds, and keeps types, turns and records.
LEMMA StepKinds ==
    ASSUME TypeOK, TurnInv, RecordInv, [Next]_vars
    PROVE  /\ TypeOK' /\ TurnInv' /\ RecordInv'
           /\ Still \/ SubmitKind \/ AcceptKind \/ FailKind \/ FinishKind
<1> DEFINE Goal == /\ TypeOK' /\ TurnInv' /\ RecordInv'
                   /\ Still \/ SubmitKind \/ AcceptKind \/ FailKind \/ FinishKind
<1>0. /\ Cases \in Nat \ {0} /\ Case = 1..Cases /\ Cases' = Cases
      /\ seq \in Nat /\ seq <= Cases /\ (pc # "loop" => seq \in Case)
      /\ stats \in [sent : Nat, retained : Nat, duplicate : Nat]
      /\ send \in [Case -> SendStates \cup {"none"}] /\ result \in [Case -> Results]
      /\ node \in [Case -> Receipts \cup {"absent", "pool"}]
  BY Basics DEF TypeOK
<1>1. CASE Build
  <2>1. /\ pc = "loop" /\ seq < Cases /\ seq' = seq + 1 /\ pc' = "submit"
        /\ UNCHANGED <<send, result, waited, node, feedback, retained, stats, written>>
    BY <1>1 DEF Build, artifacts
  <2>2. Subs = seq /\ Taken = seq /\ Subs' = seq /\ Taken' = seq
    BY <1>0, <2>1 DEF Subs, Taken
  <2>3. TypeOK'
    BY <1>0, <2>1 DEF TypeOK, Case
  <2>4. TurnInv'
    BY <1>0, <2>1, <2>2 DEF TurnInv, Case
  <2>5. RecordInv'
    BY <1>0, <2>1, <2>2 DEF RecordInv, GoodRecord, Case
  <2>6. Still
    BY <2>1, <2>2 DEF Still
  <2> QED
    BY <2>3, <2>4, <2>5, <2>6
<1>2. CASE BuildFails
  <2>1. /\ pc = "loop" /\ seq < Cases /\ seq' = seq + 1 /\ pc' = "failed"
        /\ UNCHANGED <<send, result, waited, node, feedback, retained, stats, written>>
    BY <1>2 DEF BuildFails, artifacts
  <2>2. send[seq + 1] = "none"
    BY <1>0, <2>1 DEF TurnInv, Subs
  <2>3. Subs = seq /\ Taken = seq /\ Subs' = seq /\ Taken' = seq
    BY <1>0, <2>1, <2>2 DEF Subs, Taken
  <2>4. TypeOK'
    BY <1>0, <2>1 DEF TypeOK, Case
  <2>5. TurnInv'
    BY <1>0, <2>1, <2>3 DEF TurnInv, Case
  <2>6. RecordInv'
    BY <1>0, <2>1, <2>3 DEF RecordInv, GoodRecord, Case
  <2>7. stats' = [stats EXCEPT !.sent = stats.sent] /\ stats.sent \in Nat
    BY <1>0, <2>1
  <2>8. FailKind
    BY <2>1, <2>3, <2>7 DEF FailKind
  <2> QED
    BY <2>4, <2>5, <2>6, <2>8
<1>3. ASSUME NEW s \in SendStates, NEW pooled \in BOOLEAN, Submit(s, pooled)
      PROVE  Goal
  <2>1. /\ pc = "submit" /\ send' = [send EXCEPT ![seq] = s]
        /\ node' = (IF pooled THEN [node EXCEPT ![seq] = "pool"] ELSE node)
        /\ pc' = (IF s = "sent" THEN "receipt" ELSE "accept")
        /\ result' = (IF s = "sent" THEN result
                                   ELSE [result EXCEPT ![seq] = RejectedRecord])
        /\ UNCHANGED <<seq, waited, feedback, retained, stats, written>>
    BY <1>3 DEF Submit, artifacts
  <2>2. seq \in Case /\ seq >= 1 /\ send'[seq] = s /\ s # "none"
    BY <1>0, <2>1 DEF SendStates
  <2>3. Subs = seq - 1 /\ Taken = seq - 1 /\ Subs' = seq /\ Taken' = seq - 1
    BY <1>0, <2>1, <2>2 DEF Subs, Taken
  <2>4. RejectedRecord \in Results
    BY DEF RejectedRecord, Results, SendStates, Receipts, Flags, ConfirmStates
  <2>5. TypeOK'
    BY <1>0, <2>1, <2>2, <2>4 DEF TypeOK, Case, SendStates
  <2>6. TurnInv'
    BY <1>0, <2>1, <2>2, <2>3 DEF TurnInv, Case
  <2>7. \A i \in Case : i <= Taken => send'[i] = send[i] /\ result'[i] = result[i]
    BY <1>0, <2>1, <2>3
  <2>8. s # "sent" => GoodRecord(seq)'
    BY <1>0, <2>1, <2>2 DEF GoodRecord, RejectedRecord, SendStates
  <2>9. RecordInv'
    <3>1. pc' = "receipt" => send'[seq'] = "sent"
      BY <2>1, <2>2
    <3>2. ASSUME NEW i \in Case, i <= Taken' \/ (i = seq' /\ pc' = "accept")
          PROVE  GoodRecord(i)'
      <4>1. CASE i <= Taken
        BY <2>7, <4>1 DEF RecordInv, GoodRecord
      <4>2. CASE i = seq /\ pc' = "accept"
        BY <2>1, <2>8, <4>2
      <4> QED
        BY <2>1, <2>3, <3>2, <4>1, <4>2
    <3> QED
      BY <3>1, <3>2 DEF RecordInv, Case
  <2>10. SubmitKind
    BY <2>1, <2>2, <2>3, <2>7 DEF SubmitKind, artifacts
  <2> QED
    BY <2>5, <2>6, <2>9, <2>10
<1>4. ASSUME NEW receipt \in Receipts \cup {"none"},
             NEW flags \in SUBSET {"receipt_timeout", "receipt_lookup_failed"},
             Return(receipt, flags)
      PROVE  Goal
  <2> DEFINE r == [send |-> "sent", receipt |-> receipt, flags |-> flags, confirm |-> "none"]
  <2>1. /\ pc = "receipt" /\ result' = [result EXCEPT ![seq] = r] /\ waited' = 0
        /\ pc' = "accept"
        /\ UNCHANGED <<seq, send, node, feedback, retained, stats, written>>
    BY <1>4 DEF Return, artifacts
  <2>2. seq \in Case /\ seq >= 1 /\ send[seq] = "sent"
    BY <1>0, <2>1 DEF RecordInv
  <2>3. Subs = seq /\ Taken = seq - 1 /\ Subs' = seq /\ Taken' = seq - 1
    BY <1>0, <2>1, <2>2 DEF Subs, Taken
  <2>4. r \in Results /\ r.send = "sent" /\ "unresolved_shutdown" \notin r.flags
    BY DEF Results, SendStates, Flags, ConfirmStates
  <2> HIDE DEF r
  <2>5. TypeOK'
    BY <1>0, <2>1, <2>4 DEF TypeOK, Case
  <2>6. TurnInv'
    BY <1>0, <2>1, <2>3 DEF TurnInv, Case
  <2>7. \A i \in Case : i <= Taken => result'[i] = result[i]
    BY <1>0, <2>1, <2>3
  <2>8. GoodRecord(seq)'
    BY <1>0, <2>1, <2>2, <2>4 DEF GoodRecord, SendStates
  <2>9. RecordInv'
    <3>1. ASSUME NEW i \in Case, i <= Taken' \/ (i = seq' /\ pc' = "accept")
          PROVE  GoodRecord(i)'
      <4>1. CASE i <= Taken
        <5>1. GoodRecord(i) /\ result'[i] = result[i] /\ send'[i] = send[i]
          BY <1>0, <2>1, <2>7, <3>1, <4>1 DEF RecordInv
        <5> QED
          BY <5>1 DEF GoodRecord
      <4>2. CASE i = seq
        BY <2>1, <2>8, <4>2 DEF GoodRecord
      <4> QED
        BY <2>1, <2>3, <3>1, <4>1, <4>2
    <3> QED
      BY <2>1, <3>1 DEF RecordInv, Case
  <2>10. Still
    BY <2>1, <2>3, <2>7 DEF Still
  <2> QED
    BY <2>5, <2>6, <2>9, <2>10
<1>5. CASE ReceiptSeen
  <2>1. node[seq] \in Receipts \cup {"none"} /\ Return(node[seq], {})
    BY <1>5 DEF ReceiptSeen
  <2> QED
    BY <1>4, <2>1
<1>6. CASE ReceiptTimesOut
  BY <1>4, <1>6 DEF ReceiptTimesOut
<1>7. CASE ReceiptLookupFails
  BY <1>4, <1>7 DEF ReceiptLookupFails
<1>8. CASE Accept
  <2> DEFINE retain == Cardinality(Entries(result[seq])) < RetainPerSig
  <2>1. /\ pc = "accept" /\ pc' = "loop"
        /\ feedback' \in {feedback, feedback \cup {seq}}
        /\ retained' \in {retained, retained \cup {seq}}
        /\ UNCHANGED <<seq, send, result, waited, node, written>>
    BY <1>8 DEF Accept
  <2>2. stats' = [sent |-> stats.sent + (IF result[seq].send = "sent" THEN 1 ELSE 0),
                  retained |-> stats.retained + (IF retain THEN 1 ELSE 0),
                  duplicate |-> stats.duplicate
                                   + (IF Entries(result[seq]) # {} THEN 1 ELSE 0)]
    BY <1>8 DEF Accept
  <2>3. seq \in Case /\ seq >= 1
    BY <1>0, <2>1
  <2>4. Subs = seq /\ Taken = seq - 1 /\ Subs' = seq /\ Taken' = seq
    BY <1>0, <2>1, <2>3 DEF Subs, Taken
  <2>5. stats' \in [sent : Nat, retained : Nat, duplicate : Nat]
    <3>1. \A P \in BOOLEAN : (IF P THEN 1 ELSE 0) \in Nat
      OBVIOUS
    <3> HIDE DEF retain
    <3> QED
      BY <1>0, <2>2
  <2>6. TypeOK'
    BY <1>0, <2>1, <2>3, <2>5 DEF TypeOK, Case
  <2>7. TurnInv'
    BY <1>0, <2>1, <2>4 DEF TurnInv, Case
  <2>8. RecordInv'
    BY <1>0, <2>1, <2>4 DEF RecordInv, GoodRecord, Case
  <2>9. AcceptKind
    BY <1>8, <2>1, <2>3, <2>4 DEF AcceptKind
  <2> QED
    BY <2>6, <2>7, <2>8, <2>9
<1>9. CASE AcceptFails
  <2> DEFINE n == stats.sent + (IF send[seq] = "sent" THEN 1 ELSE 0)
  <2>1. /\ pc = "accept" /\ pc' = "failed" /\ stats' = [stats EXCEPT !.sent = n]
        /\ UNCHANGED <<seq, send, result, waited, node, feedback, retained, written>>
    BY <1>9 DEF AcceptFails
  <2>2. n \in Nat /\ seq \in Case /\ seq >= 1
    BY <1>0, <2>1
  <2> HIDE DEF n
  <2>3. send[seq] # "none"
    BY <1>0, <2>1, <2>2 DEF TurnInv, Subs
  <2>4. Subs = seq /\ Taken = seq - 1 /\ Subs' = seq /\ Taken' = seq - 1
    BY <1>0, <2>1, <2>2, <2>3 DEF Subs, Taken
  <2>5. TypeOK'
    BY <1>0, <2>1, <2>2 DEF TypeOK, Case
  <2>6. TurnInv'
    BY <1>0, <2>1, <2>4 DEF TurnInv, Case
  <2>7. RecordInv'
    BY <1>0, <2>1, <2>4 DEF RecordInv, GoodRecord, Case
  <2>8. FailKind
    BY <2>1, <2>2, <2>4 DEF FailKind
  <2> QED
    BY <2>5, <2>6, <2>7, <2>8
<1>10. CASE Finish
  <2>1. /\ pc = "loop" /\ seq = Cases /\ pc' \in {"done", "unwritten"}
        /\ \/ written' = TRUE /\ pc' = "done"
           \/ written' = written /\ pc' = "unwritten"
        /\ UNCHANGED <<seq, send, result, waited, node, feedback, retained, stats>>
    BY <1>10 DEF Finish
  <2>2. Subs = seq /\ Taken = seq /\ Subs' = seq /\ Taken' = seq
    BY <1>0, <2>1 DEF Subs, Taken
  <2>3. TypeOK'
    BY <1>0, <2>1 DEF TypeOK, Case
  <2>4. TurnInv'
    BY <1>0, <2>1, <2>2 DEF TurnInv, Case
  <2>5. RecordInv'
    BY <1>0, <2>1, <2>2 DEF RecordInv, GoodRecord, Case
  <2>6. FinishKind
    BY <1>10, <2>1, <2>2 DEF FinishKind
  <2> QED
    BY <2>3, <2>4, <2>5, <2>6
<1>11. ASSUME UNCHANGED <<pc, seq, send, result, feedback, retained, stats, written>>,
              waited' \in Nat, node' \in [Case -> Receipts \cup {"absent", "pool"}]
       PROVE  Goal
  <2>1. Subs' = Subs /\ Taken' = Taken
    BY <1>11 DEF Subs, Taken
  <2>2. TypeOK'
    BY <1>0, <1>11 DEF TypeOK, Case
  <2>3. TurnInv'
    BY <1>0, <1>11, <2>1 DEF TurnInv, Case
  <2>4. RecordInv'
    BY <1>0, <1>11, <2>1 DEF RecordInv, GoodRecord, Case
  <2>5. Still
    BY <1>11, <2>1 DEF Still
  <2> QED
    BY <2>2, <2>3, <2>4, <2>5
<1>12. CASE Tick
  BY <1>0, <1>11, <1>12 DEF Tick, artifacts, TypeOK
<1>13. ASSUME NEW i \in Case, NEW to \in Receipts \cup {"absent"}, NodeStep(i, to)
       PROVE  Goal
  <2>1. node' \in [Case -> Receipts \cup {"absent", "pool"}]
    BY <1>0, <1>13 DEF NodeStep
  <2> QED
    BY <1>11, <1>13, <2>1 DEF NodeStep, artifacts, TypeOK
<1>14. CASE UNCHANGED vars
  BY <1>0, <1>11, <1>14 DEF vars, TypeOK
<1> QED
  BY <1>1, <1>2, <1>3, <1>5, <1>6, <1>7, <1>8, <1>9, <1>10, <1>12, <1>13, <1>14
     DEF Next, RunnerStep

-----------------------------------------------------------------------------
(* The store and the counters *)

\* The sets that are counted are finite.
LEMMA CountedFinite ==
    ASSUME TypeOK, TurnInv
    PROVE  /\ IsFiniteSet(retained) /\ Cardinality(retained) \in Nat
           /\ IsFiniteSet(SentCases) /\ Cardinality(SentCases) \in Nat
           /\ \A x : IsFiniteSet(Entries(x)) /\ Cardinality(Entries(x)) \in Nat
<1>1. IsFiniteSet(Case)
  BY Basics, SegmentSize
<1>2. /\ retained \subseteq Case /\ SentCases \subseteq Case
      /\ \A x : Entries(x) \subseteq Case
  BY Basics DEF TypeOK, SentCases, Entries
<1> QED
  BY <1>1, <1>2, FS_Subset, FS_CardinalityType

\* The store has an entry of exactly the signatures met so far.
LEMMA EntriesMean ==
    ASSUME StoreInv, NEW r
    PROVE  Entries(r) # {} <=> Signature(r) \in Signatures
<1>1. ASSUME Entries(r) # {} PROVE Signature(r) \in Signatures
  <2>1. PICK j \in retained : Signature(result[j]) = Signature(r)
    BY <1>1 DEF Entries
  <2> QED
    BY <2>1 DEF StoreInv, Signatures
<1>2. ASSUME Signature(r) \in Signatures PROVE Entries(r) # {}
  <2>1. PICK i \in 1..Taken : Signature(r) = Signature(result[i])
    BY <1>2 DEF Signatures
  <2>2. Entries(result[i]) # {}
    BY DEF StoreInv
  <2>3. Entries(result[i]) = Entries(r)
    BY <2>1 DEF Entries
  <2> QED
    BY <2>2, <2>3
<1> QED
  BY <1>1, <1>2

\* Nothing the sink has keeps or counts changes as long as no case is accepted.
LEMMA SameStore ==
    ASSUME TypeOK, TurnInv, StoreInv, Taken' = Taken,
           \A i \in Case : i <= Taken => send'[i] = send[i] /\ result'[i] = result[i],
           UNCHANGED <<feedback, retained>>
    PROVE  StoreInv' /\ SentCases' = SentCases /\ Signatures' = Signatures
<1>1. \A i \in 1..Taken : i \in Case /\ send'[i] = send[i] /\ result'[i] = result[i]
  BY Basics
<1>2. SentCases' = SentCases
  BY <1>1 DEF SentCases
<1>3. Signatures' = Signatures
  BY <1>1 DEF Signatures
<1>4. \A i \in 1..Taken : Entries(result[i])' = Entries(result[i])
  BY <1>1 DEF Entries, StoreInv
<1>5. StoreInv'
  BY <1>1, <1>4 DEF StoreInv
<1> QED
  BY <1>2, <1>3, <1>5

\* What the sink takes is on record, kept if there is room, and counted.
LEMMA AcceptKeeps ==
    ASSUME TypeOK, TurnInv, RecordInv, StoreInv, CountInv, AcceptKind
    PROVE  StoreInv' /\ CountInv'
<1> DEFINE r == result[seq]
           retain == Cardinality(Entries(r)) < RetainPerSig
           g == Signature(r)
<1>1. /\ pc = "accept" /\ pc' = "loop" /\ seq \in Case
      /\ feedback' = (IF IsCanonicalFeedbackTerminal(r) THEN feedback \cup {seq} ELSE feedback)
      /\ retained' = (IF retain THEN retained \cup {seq} ELSE retained)
      /\ UNCHANGED <<seq, send, result>>
  BY DEF AcceptKind, Accept
<1>2. stats' = [sent |-> stats.sent + (IF r.send = "sent" THEN 1 ELSE 0),
                retained |-> stats.retained + (IF retain THEN 1 ELSE 0),
                duplicate |-> stats.duplicate + (IF Entries(r) # {} THEN 1 ELSE 0)]
  BY DEF AcceptKind, Accept
<1>3. /\ Taken = seq - 1 /\ Taken' = seq /\ seq \in Nat /\ seq >= 1
      /\ 1..Taken' = (1..Taken) \cup {seq} /\ seq \notin 1..Taken
  BY Basics DEF AcceptKind
<1>4. r.send = send[seq]
  BY <1>1 DEF RecordInv, GoodRecord
<1>5. /\ stats.sent \in Nat /\ stats.retained \in Nat /\ stats.duplicate \in Nat
      /\ RetainPerSig \in Nat \ {0}
  BY LegacyAssumption DEF TypeOK
<1>6. seq \notin retained
  BY <1>3 DEF StoreInv
<1>7. \A x \in 1..Taken : Entries(result[x]) \subseteq Entries(result[x])'
  BY <1>1 DEF Entries
<1>8. Entries(r)' # {}
  <2>1. CASE retain
    <3>1. seq \in retained' /\ Signature(result'[seq]) = Signature(r)'
      BY <1>1, <2>1
    <3> QED
      BY <3>1 DEF Entries
  <2>2. CASE ~retain
    <3>1. Entries(r) # {}
      BY <1>5, <2>2, FS_EmptySet
    <3>2. Entries(r)' = Entries(r)
      BY <1>1, <2>2 DEF Entries
    <3> QED
      BY <3>1, <3>2
  <2> QED
    BY <2>1, <2>2
<1>9. StoreInv'
  <2>1. feedback' = {i \in 1..Taken' : IsCanonicalFeedbackTerminal(result'[i])}
    BY <1>1, <1>3 DEF StoreInv
  <2>2. retained' \subseteq 1..Taken'
    BY <1>1, <1>3 DEF StoreInv
  <2>3. ASSUME NEW i \in 1..Taken' PROVE Entries(result[i])' # {}
    <3>1. CASE i = seq
      BY <1>1, <1>8, <3>1 DEF Entries
    <3>2. CASE i \in 1..Taken
      BY <1>7, <3>2 DEF StoreInv
    <3> QED
      BY <1>3, <2>3, <3>1, <3>2
  <2> QED
    BY <2>1, <2>2, <2>3 DEF StoreInv
<1>10. stats'.sent = Cardinality(SentCases')
  <2>1. stats.sent = Cardinality(SentCases) /\ IsFiniteSet(SentCases)
    BY <1>1, CountedFinite DEF CountInv
  <2>2. CASE send[seq] = "sent"
    <3>1. SentCases' = SentCases \cup {seq} /\ seq \notin SentCases
      BY <1>1, <1>3, <2>2 DEF SentCases
    <3>2. stats'.sent = stats.sent + 1
      BY <1>2, <1>4, <2>2
    <3> QED
      BY <2>1, <3>1, <3>2, FS_AddElement
  <2>3. CASE send[seq] # "sent"
    <3>1. SentCases' = SentCases
      BY <1>1, <1>3, <2>3 DEF SentCases
    <3>2. stats'.sent = stats.sent
      BY <1>2, <1>4, <1>5, <2>3
    <3> QED
      BY <2>1, <3>1, <3>2
  <2> QED
    BY <2>2, <2>3
<1>11. stats'.retained = Cardinality(retained')
  <2>1. stats.retained = Cardinality(retained) /\ IsFiniteSet(retained)
    BY CountedFinite DEF CountInv
  <2>2. CASE retain
    <3>1. retained' = retained \cup {seq} /\ stats'.retained = stats.retained + 1
      BY <1>1, <1>2, <2>2
    <3> QED
      BY <1>6, <2>1, <3>1, FS_AddElement
  <2>3. CASE ~retain
    <3>1. retained' = retained /\ stats'.retained = stats.retained
      BY <1>1, <1>2, <1>5, <2>3
    <3> QED
      BY <2>1, <3>1
  <2> QED
    BY <2>2, <2>3
<1>12. IsFiniteSet(Signatures') /\ stats'.duplicate + Cardinality(Signatures') = Taken'
  <2>1. Signatures' = Signatures \cup {g}
    BY <1>1, <1>3 DEF Signatures
  <2>2. /\ IsFiniteSet(Signatures) /\ Cardinality(Signatures) \in Nat
        /\ stats.duplicate + Cardinality(Signatures) = seq - 1
    BY <1>3, FS_CardinalityType DEF CountInv
  <2>3. Entries(r) # {} <=> g \in Signatures
    BY EntriesMean
  <2> HIDE DEF g
  <2>4. CASE g \in Signatures
    <3>1. stats'.duplicate = stats.duplicate + 1 /\ Signatures' = Signatures
      BY <1>2, <2>1, <2>3, <2>4
    <3> QED
      BY <1>3, <1>5, <2>2, <3>1
  <2>5. CASE g \notin Signatures
    <3>1. stats'.duplicate = stats.duplicate
      BY <1>2, <1>5, <2>3, <2>5
    <3>2. /\ IsFiniteSet(Signatures \cup {g})
          /\ Cardinality(Signatures \cup {g}) = Cardinality(Signatures) + 1
      BY <2>2, <2>5, FS_AddElement
    <3> QED
      BY <1>3, <1>5, <2>1, <2>2, <3>1, <3>2
  <2> QED
    BY <2>4, <2>5
<1> QED
  BY <1>9, <1>10, <1>11, <1>12 DEF CountInv

-----------------------------------------------------------------------------
(* The invariant *)

LEMMA InitInv == Init => Inv
<1> SUFFICES ASSUME Init PROVE Inv
  OBVIOUS
<1>1. /\ pc = "loop" /\ seq = 0 /\ waited = 0 /\ written = FALSE
      /\ send = [i \in Case |-> "none"] /\ result = [i \in Case |-> NoResult]
      /\ node = [i \in Case |-> "absent"] /\ feedback = {} /\ retained = {}
      /\ stats = [sent |-> 0, retained |-> 0, duplicate |-> 0]
      /\ Cases \in Nat \ {0} /\ Case = 1..Cases
  BY LegacyAssumption DEF Init, Case
<1>2. TypeOK
  <2>1. NoResult \in Results
    BY DEF NoResult, Results
  <2>2. feedback \in SUBSET Case /\ retained \in SUBSET Case /\ written \in BOOLEAN
    BY <1>1
  <2>3. /\ result \in [Case -> Results] /\ send \in [Case -> SendStates \cup {"none"}]
        /\ node \in [Case -> Receipts \cup {"absent", "pool"}]
    BY <1>1, <2>1
  <2>4. stats \in [sent : Nat, retained : Nat, duplicate : Nat]
    BY <1>1
  <2>5. pc = "loop" /\ seq \in 0..Cases /\ waited \in Nat
    BY <1>1
  <2> QED
    BY <2>2, <2>3, <2>4, <2>5 DEF TypeOK
<1>3. Taken = 0 /\ Subs = 0
  BY <1>1 DEF Taken, Subs
<1>4. TurnInv /\ RecordInv
  BY <1>1, <1>3 DEF TurnInv, RecordInv
<1>5. SentCases = {} /\ Signatures = {} /\ 1..Taken = {}
  BY <1>3 DEF SentCases, Signatures
<1>6. StoreInv
  BY <1>1, <1>5 DEF StoreInv
<1>7. CountInv
  BY <1>1, <1>3, <1>5, FS_EmptySet DEF CountInv
<1> QED
  BY <1>2, <1>4, <1>6, <1>7 DEF Inv

LEMMA NextInv == Inv /\ [Next]_vars => Inv'
<1> SUFFICES ASSUME Inv, [Next]_vars PROVE Inv'
  OBVIOUS
<1>1. TypeOK /\ TurnInv /\ RecordInv /\ StoreInv /\ CountInv
  BY DEF Inv
<1>2. /\ TypeOK' /\ TurnInv' /\ RecordInv'
      /\ Still \/ SubmitKind \/ AcceptKind \/ FailKind \/ FinishKind
  BY <1>1, StepKinds
<1>3. ASSUME Taken' = Taken, UNCHANGED <<feedback, retained>>,
             \A i \in Case : i <= Taken => send'[i] = send[i] /\ result'[i] = result[i],
             stats'.retained = stats.retained, stats'.duplicate = stats.duplicate,
             pc' # "failed" => pc # "failed" /\ stats'.sent = stats.sent
      PROVE  StoreInv' /\ CountInv'
  <2>1. StoreInv' /\ SentCases' = SentCases /\ Signatures' = Signatures
    BY <1>1, <1>3, SameStore
  <2>2. CountInv'
    BY <1>1, <1>3, <2>1 DEF CountInv
  <2> QED
    BY <2>1, <2>2
<1> SUFFICES StoreInv' /\ CountInv'
  BY <1>2 DEF Inv
<1>4. CASE Still
  BY <1>3, <1>4 DEF Still
<1>5. CASE SubmitKind
  BY <1>3, <1>5 DEF SubmitKind, artifacts
<1>6. CASE AcceptKind
  BY <1>1, <1>6, AcceptKeeps
<1>7. CASE FailKind
  <2>1. /\ Taken' = Taken /\ pc' = "failed"
        /\ UNCHANGED <<send, result, feedback, retained>>
    BY <1>7 DEF FailKind
  <2>2. PICK n \in Nat : stats' = [stats EXCEPT !.sent = n]
    BY <1>7 DEF FailKind
  <2>3. stats'.retained = stats.retained /\ stats'.duplicate = stats.duplicate
    BY <1>1, <2>2 DEF TypeOK
  <2> QED
    BY <1>3, <2>1, <2>3
<1>8. CASE FinishKind
  BY <1>3, <1>8 DEF FinishKind, Finish
<1> QED
  BY <1>2, <1>4, <1>5, <1>6, <1>7, <1>8

\* The program counter, the records, the store and the counters of RunCampaign
\* fit together in every state.
THEOREM Invariance == Spec => []Inv
BY InitInv, NextInv, PTL DEF Spec

-----------------------------------------------------------------------------

\* The sink writes canonical feedback of exactly the cases whose fate is known.
LEMMA CanonicalMeans ==
    ASSUME NEW r, r.send \in SendStates, "unresolved_shutdown" \notin r.flags
    PROVE  IsCanonicalFeedbackTerminal(r) <=> Verdict(r) \in {"rejected", "included"}
BY DEF IsCanonicalFeedbackTerminal, Verdict, SendStates

\* The report WriteReport writes accounts for every case: what it says was sent
\* was sent, what it says was retained is in the store, duplicates are all but
\* one case per signature, and feedback was written for the cases whose fate
\* is known.
THEOREM ReportAlwaysAddsUp == Spec => []ReportAddsUp
<1>1. Inv => ReportAddsUp
  <2> SUFFICES ASSUME Inv, written PROVE ReportAddsUp
    BY DEF ReportAddsUp
  <2>1. TypeOK /\ TurnInv /\ RecordInv /\ StoreInv /\ CountInv
    BY DEF Inv
  <2>2. pc = "done" /\ seq = Cases /\ Taken = Cases /\ Case = 1..Cases /\ 1..Taken = Case
    BY <2>1, Basics DEF TurnInv, Taken
  <2>3. \A i \in Case : IsCanonicalFeedbackTerminal(result[i])
                            <=> Verdict(result[i]) \in {"rejected", "included"}
    <3>1. \A i \in Case : GoodRecord(i)
      BY <2>1, <2>2 DEF RecordInv
    <3> QED
      BY <3>1, CanonicalMeans DEF GoodRecord
  <2>4. feedback = {i \in Case : Verdict(result[i]) \in {"rejected", "included"}}
    BY <2>1, <2>2, <2>3 DEF StoreInv
  <2> QED
    BY <2>1, <2>2, <2>4 DEF ReportAddsUp, CountInv, SentCases, Signatures
<1> QED
  BY <1>1, Invariance, PTL

-----------------------------------------------------------------------------
(* The pipeline *)

Fate == [i \in Case |-> IF i \in 1..Taken THEN Verdict(result[i]) ELSE "none"]

Status == IF pc = "done" THEN "complete"
          ELSE IF pc \in {"failed", "unwritten"} THEN "aborted" ELSE "running"

\* The pipeline's variables are these numbers and fates.
LEMMA Mapping ==
    Inv => /\ Cardinality(Submitted) = Subs
           /\ Cardinality(Submitted \cap Accepted) = Taken
           /\ [i \in Case |-> IF i \in Submitted \cap Accepted
                              THEN Verdict(result[i]) ELSE "none"] = Fate
BY Segments DEF Inv, Fate

\* A step is one of the pipeline when the numbers say so.
LEMMA StepMaps ==
    ASSUME Inv, Inv'
    PROVE  /\ /\ Status = "running" /\ Subs < Cases /\ Subs - Taken < 1
              /\ Subs' = Subs + 1 /\ Taken' = Taken /\ Fate' = Fate /\ Status' = Status
              => Pipeline!Submit
           /\ \A v \in Pipeline!Verdicts :
                 /\ Status = "running" /\ Taken < Subs
                 /\ Taken' = Taken + 1 /\ Fate' = [Fate EXCEPT ![Taken + 1] = v]
                 /\ Subs' = Subs /\ Status' = Status
                 => Pipeline!Finalize
           /\ /\ Status = "running" /\ Taken = Cases /\ Status' = "complete"
              /\ Subs' = Subs /\ Taken' = Taken /\ Fate' = Fate
              => Pipeline!Complete
           /\ /\ Status = "running" /\ Status' = "aborted"
              /\ Subs' = Subs /\ Taken' = Taken /\ Fate' = Fate
              => Pipeline!Abort
           /\ /\ Subs' = Subs /\ Taken' = Taken /\ Fate' = Fate /\ Status' = Status
              => UNCHANGED Pipeline!vars
<1>1. /\ Cardinality(Submitted) = Subs
      /\ Cardinality(Submitted \cap Accepted) = Taken
      /\ [i \in Case |-> IF i \in Submitted \cap Accepted
                         THEN Verdict(result[i]) ELSE "none"] = Fate
  BY Mapping
<1>2. (/\ Cardinality(Submitted) = Subs
       /\ Cardinality(Submitted \cap Accepted) = Taken
       /\ [i \in Case |-> IF i \in Submitted \cap Accepted
                          THEN Verdict(result[i]) ELSE "none"] = Fate)'
  BY Mapping, PTL
<1> USE <1>1, <1>2 DEF Status
<1>3. /\ Status = "running" /\ Subs < Cases /\ Subs - Taken < 1
      /\ Subs' = Subs + 1 /\ Taken' = Taken /\ Fate' = Fate /\ Status' = Status
      => Pipeline!Submit
  BY DEF Pipeline!Submit
<1>4. ASSUME NEW v \in Pipeline!Verdicts,
             /\ Status = "running" /\ Taken < Subs
             /\ Taken' = Taken + 1 /\ Fate' = [Fate EXCEPT ![Taken + 1] = v]
             /\ Subs' = Subs /\ Status' = Status
      PROVE  Pipeline!Finalize
  BY <1>4 DEF Pipeline!Finalize
<1>5. /\ Status = "running" /\ Taken = Cases /\ Status' = "complete"
      /\ Subs' = Subs /\ Taken' = Taken /\ Fate' = Fate
      => Pipeline!Complete
  BY DEF Pipeline!Complete
<1>6. /\ Status = "running" /\ Status' = "aborted"
      /\ Subs' = Subs /\ Taken' = Taken /\ Fate' = Fate
      => Pipeline!Abort
  BY DEF Pipeline!Abort
<1>7. /\ Subs' = Subs /\ Taken' = Taken /\ Fate' = Fate /\ Status' = Status
      => UNCHANGED Pipeline!vars
  BY DEF Pipeline!vars
<1> QED
  BY <1>3, <1>4, <1>5, <1>6, <1>7

\* Every step of the runner is a step of the pipeline or leaves it alone.
LEMMA StepRefines == Inv /\ Inv' /\ [Next]_vars => [Pipeline!Next]_Pipeline!vars
<1> SUFFICES ASSUME Inv, Inv', [Next]_vars PROVE [Pipeline!Next]_Pipeline!vars
  OBVIOUS
<1>0. /\ Still \/ SubmitKind \/ AcceptKind \/ FailKind \/ FinishKind
      /\ Cases \in Nat \ {0} /\ Case = 1..Cases /\ Subs \in Nat /\ Taken \in Nat
      /\ seq \in Nat /\ 1..Taken \subseteq Case /\ Taken <= Cases
  BY StepKinds, Basics DEF Inv
<1>1. ASSUME Taken' = Taken, \A i \in Case : i <= Taken => result'[i] = result[i]
      PROVE  Fate' = Fate
  BY <1>0, <1>1 DEF Fate
<1>2. CASE Still
  <2>1. Fate' = Fate
    BY <1>1, <1>2 DEF Still
  <2>2. Status' = Status
    BY <1>2 DEF Still, Status
  <2> QED
    BY <1>2, <2>1, <2>2, StepMaps DEF Still
<1>3. CASE SubmitKind
  <2>1. Fate' = Fate /\ Status = "running" /\ Status' = "running"
    BY <1>1, <1>3 DEF SubmitKind, Status
  <2>2. Subs < Cases /\ Subs - Taken < 1 /\ Subs' = Subs + 1 /\ Taken' = Taken
    BY <1>0, <1>3 DEF SubmitKind
  <2>3. Pipeline!Submit
    BY <2>1, <2>2, StepMaps
  <2> QED
    BY <2>3 DEF Pipeline!Next
<1>4. CASE AcceptKind
  <2> DEFINE v == Verdict(result[seq])
  <2>1. /\ pc = "accept" /\ pc' = "loop" /\ UNCHANGED <<seq, result>> /\ seq \in Case
        /\ Taken = seq - 1 /\ Taken' = seq /\ Subs = seq /\ Subs' = seq
    BY <1>4 DEF AcceptKind, Accept
  <2>2. Status = "running" /\ Status' = Status
    BY <2>1 DEF Status
  <2>3. v \in Pipeline!Verdicts
    BY DEF Verdict, Pipeline!Verdicts
  <2>4. Taken < Subs /\ Taken' = Taken + 1 /\ Subs' = Subs /\ Taken + 1 = seq
    BY <1>0, <2>1
  <2>5. Fate' = [Fate EXCEPT ![seq] = v]
    <3>1. 1..Taken' = (1..Taken) \cup {seq}
      BY <1>0, <2>1
    <3> HIDE DEF v
    <3>2. \A i \in Case : i \in 1..Taken' <=> i \in 1..Taken \/ i = seq
      BY <3>1
    <3> QED
      BY <2>1, <3>2 DEF Fate, v
  <2>6. Pipeline!Finalize
    <3> HIDE DEF v
    <3> QED
      BY <2>2, <2>3, <2>4, <2>5, StepMaps
  <2> QED
    BY <2>6 DEF Pipeline!Next
<1>5. CASE FailKind
  <2>1. Fate' = Fate /\ Status = "running" /\ Status' = "aborted"
    BY <1>1, <1>5 DEF FailKind, Status
  <2>2. Pipeline!Abort
    BY <1>5, <2>1, StepMaps DEF FailKind
  <2> QED
    BY <2>2 DEF Pipeline!Next
<1>6. CASE FinishKind
  <2>1. /\ Fate' = Fate /\ Status = "running"
        /\ Taken = Cases /\ Subs' = Subs /\ Taken' = Taken
    BY <1>1, <1>6 DEF FinishKind, Finish, Status
  <2>2. CASE Status' = "complete"
    BY <2>1, <2>2, StepMaps DEF Pipeline!Next
  <2>3. CASE Status' = "aborted"
    BY <2>1, <2>3, StepMaps DEF Pipeline!Next
  <2> QED
    BY <1>6, <2>2, <2>3 DEF FinishKind, Finish, Status
<1> QED
  BY <1>0, <1>2, <1>3, <1>4, <1>5, <1>6

\* The legacy runner is a pipeline with a window of one: RunCampaign submits a
\* case only after the sink has accepted the case before it, every accepted
\* case keeps its verdict, and the campaign is complete only with all of them.
THEOREM PipelineRefinement == Spec => ImplementsPipeline
<1>1. Init => Pipeline!Init
  <2> SUFFICES ASSUME Init PROVE Pipeline!Init
    OBVIOUS
  <2>1. Inv
    BY InitInv
  <2>2. pc = "loop" /\ seq = 0
    BY DEF Init
  <2>3. Subs = 0 /\ Taken = 0 /\ Status = "running"
    BY <2>2 DEF Subs, Taken, Status
  <2>4. Fate = [i \in 1..Cases |-> "none"]
    BY <2>3 DEF Fate, Case
  <2> QED
    BY <2>1, <2>2, <2>3, <2>4, Mapping DEF Pipeline!Init
<1> QED
  BY <1>1, StepRefines, Invariance, PTL DEF Spec, ImplementsPipeline, Pipeline!Spec

=============================================================================
