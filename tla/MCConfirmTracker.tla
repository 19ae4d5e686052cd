-------------------------- MODULE MCConfirmTracker --------------------------
(* Instances of the confirmation tracker. *)
EXTENDS ConfirmTracker

\* A new transaction, and one that is older than the SLA and comes with the receipt
\* of an earlier, reverted inclusion.
PassedValue == {[receipt |-> NoReceipt, age |-> 0],
                [receipt |-> [observed |-> TRUE, status |-> "reverted"], age |-> SLA + 1]}
=============================================================================
