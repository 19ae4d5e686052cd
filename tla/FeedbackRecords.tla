-------------------------- MODULE FeedbackRecords --------------------------
(***************************************************************************)
(* What the campaign runners record about one test case (feedback/record.go*)
(* with the states of runner/confirm.go) and the three classifications     *)
(* that read it: the canonical-feedback test of runner/types.go, the       *)
(* terminal-state test of runner/finalize_v2.go and the signature of       *)
(* interestingness/signature.go.                                           *)
(*                                                                         *)
(* A record keeps the SendStatus, the status of the receipt if one was     *)
(* observed, the anomaly flags (the code appends each at most once, in one *)
(* order, so a set loses nothing) and the ConfirmState.                    *)
(***************************************************************************)
EXTENDS Naturals, FiniteSets

\* "internal_error" (a case without a transaction) goes the way of "rpc_error":
\* the campaign's own builder never makes one.
SendStates == {"sent", "rpc_error"}
ConfirmStates == {"awaiting_receipt", "included_success", "included_reverted",
                  "sla_breached_pending", "unresolved_shutdown"}
Flags == {"receipt_timeout", "receipt_lookup_failed",
          "sla_breached_pending", "unresolved_shutdown"}
Receipts == {"success", "reverted"}

Results == [send : SendStates \cup {"none"},
            receipt : Receipts \cup {"none"},
            flags : SUBSET Flags,
            confirm : ConfirmStates \cup {"none"}]

\* No record yet.
NoResult == [send |-> "none", receipt |-> "none", flags |-> {}, confirm |-> "none"]

\* A submission that was not sent.
RejectedRecord ==
    [send |-> "rpc_error", receipt |-> "none", flags |-> {}, confirm |-> "none"]

\* Mutant of IsCanonicalFeedbackTerminal: a reported SLA breach ends a case.
IsCanonicalAlsoOnBreach(r) ==
    \/ r.receipt # "none" \/ r.send # "sent"
    \/ r.flags \cap {"unresolved_shutdown", "sla_breached_pending"} # {}

\* IsCanonicalFeedbackTerminal, by which the sink decides to write feedback.
IsCanonicalFeedbackTerminal(r) ==
    r.receipt # "none" \/ r.send # "sent" \/ "unresolved_shutdown" \in r.flags

\* isTerminalConfirmState, by which the report counts terminal cases.
IsTerminalConfirmState(s) ==
    s \in {"included_success", "included_reverted", "dropped_or_replaced",
          "unresolved_shutdown"}

\* SignatureForFeedback, up to hashing; one rpc error text is distinguished.
Signature(r) ==
    [kind |-> IF r.send = "rpc_error" THEN "rpc_error"
              ELSE IF r.receipt # "none" THEN "receipt" ELSE "anomaly",
     receipt |-> r.receipt, flags |-> r.flags]

\* What a record says about the fate of its transaction.
Verdict(r) ==
    IF r.send = "rpc_error" THEN "rejected"
    ELSE IF r.receipt # "none" THEN "included"
    ELSE IF "unresolved_shutdown" \in r.flags THEN "unresolved" ELSE "open"

=============================================================================
