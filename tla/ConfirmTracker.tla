--------------------------- MODULE ConfirmTracker ---------------------------
(***************************************************************************)
(* The batch confirmation tracker, runner/confirm.go (ConfirmTracker).     *)
(* Its caller tells it which transactions were sent, polls the hashes it   *)
(* lists, feeds back what the node answered, and shuts it down; every call *)
(* returns the transitions it made.  The type is exported and tested; no   *)
(* other package calls it yet, so the caller here is any caller: answers   *)
(* may be late, repeated, contradictory or about unknown hashes, and a     *)
(* hash may be tracked again (a resubmission), with whatever TrackedTx the *)
(* caller has, that of its own earlier entry included.                     *)
(***************************************************************************)
EXTENDS Naturals, Sequences, FiniteSets

CONSTANTS Hashes,     \* transaction hashes, numbered in the order of their hex text
          BatchSize,  \* ConfirmTracker.batchSize
          SLA,        \* ConfirmTracker.sla, 0 for none
          Passed,     \* what TrackSent is called with: receipt and time since At
          MaxTracked  \* bound on the calls of TrackSent

\* TrackedTx.ReceiptObserved and ReceiptStatus; a status is "none" for a nil pointer.
Statuses == {"none", "success", "reverted"}
Receipts == [observed : BOOLEAN, status : Statuses]
NoReceipt == [observed |-> FALSE, status |-> "none"]

\* NewConfirmTracker replaces a batch size that is not positive by 1.
ASSUME TrackerAssumption ==
    /\ Hashes \subseteq Nat
    /\ BatchSize \in Nat \ {0}
    /\ SLA \in Nat
    /\ Passed \subseteq [receipt : Receipts, age : 0..(SLA + 1)]
    /\ MaxTracked \in Nat

VARIABLES
    order,     \* ConfirmTracker.order
    state,     \* state[h]: TrackedTx.ConfirmState, "not_tracked" without an entry
    receipt,   \* receipt[h]: TrackedTx.ReceiptObserved and ReceiptStatus
    given,     \* given[h]: the receipt h was last tracked with (history variable)
    age,       \* age[h]: time since TrackedTx.At, saturated above SLA
    returned,  \* the transitions the last call returned
    view       \* what its caller derives from all transitions (history variable)

vars == <<order, state, receipt, given, age, returned, view>>

Included == {"included_success", "included_reverted"}
Terminal == Included \cup {"dropped_or_replaced", "unresolved_shutdown"}
States == Terminal \cup {"not_tracked", "awaiting_receipt", "sla_breached_pending"}

IsTerminal(s) == s \in Terminal
Open(h) == state[h] # "not_tracked" /\ ~IsTerminal(state[h])

Transition(h, to) ==
    [hash |-> h, from |-> state[h], to |-> to,
     terminal |-> IsTerminal(to), soft |-> to = "sla_breached_pending"]

\* A call returns the transitions ts; its caller applies them in order.
Return(ts) ==
    /\ returned' = ts
    /\ view' = [h \in Hashes |->
          LET mine == {n \in DOMAIN ts : ts[n].hash = h}
          IN IF mine = {} THEN view[h]
             ELSE ts[CHOOSE n \in mine : \A m \in mine : m <= n].to]

Init ==
    /\ order = <<>>
    /\ state = [h \in Hashes |-> "not_tracked"]
    /\ receipt = [h \in Hashes |-> NoReceipt]
    /\ given = [h \in Hashes |-> NoReceipt]
    /\ age = [h \in Hashes |-> 0]
    /\ returned = <<>>
    /\ view = [h \in Hashes |-> "not_tracked"]

\* TrackSent makes a new entry, replacing one that is there, and always appends.  It
\* sets the state; the receipt and the time of sending stay as they are passed.
TrackSent(h, tx) ==
    /\ Len(order) < MaxTracked
    /\ order' = Append(order, h)
    /\ state' = [state EXCEPT ![h] = "awaiting_receipt"]
    /\ receipt' = [receipt EXCEPT ![h] = tx.receipt]
    /\ given' = [given EXCEPT ![h] = tx.receipt]
    /\ age' = [age EXCEPT ![h] = tx.age]
    /\ Return(<<[Transition(h, "awaiting_receipt") EXCEPT !.from = "not_tracked"]>>)

\* The members of a set of numbers, smallest first.
Ascending(P) ==
    [k \in 1..Cardinality(P) |-> CHOOSE n \in P : Cardinality({m \in P : m <= n}) = k]

\* The hashes a loop over `order` acts on, when it acts at the positions P.
HashesAt(P) == [k \in 1..Cardinality(P) |-> order[Ascending(P)[k]]]

\* Mutant of Visits: a hash is visited at all its occurrences.
VisitsAll(S) == {n \in DOMAIN order : order[n] \in S}

\* Where a loop over `order` acts on the hashes of S: a repeated hash has left S
\* when the loop meets it again.
Visits(S) ==
    {n \in DOMAIN order : order[n] \in S /\ \A m \in 1..(n - 1) : order[m] # order[n]}

\* A loop over `order` moves all hashes of S to one state.
MoveAll(S, to) ==
    /\ state' = [h \in Hashes |-> IF h \in S THEN to ELSE state[h]]
    /\ LET visited == HashesAt(Visits(S))
       IN Return([k \in DOMAIN visited |-> Transition(visited[k], to)])
    /\ UNCHANGED <<order, receipt, given, age>>

\* MarkSLABreaches: only waiting transactions, strictly later than the SLA.
Breached == {h \in Hashes : state[h] = "awaiting_receipt" /\ SLA > 0 /\ age[h] > SLA}
MarkSLABreaches == MoveAll(Breached, "sla_breached_pending")

FinalizeShutdown == MoveAll({h \in Hashes : Open(h)}, "unresolved_shutdown")

-----------------------------------------------------------------------------
(* Receipt results *)

\* ReceiptResult, with the status of the receipt.
ReceiptResults == [found : BOOLEAN, dropped : BOOLEAN, retryable : BOOLEAN,
                   status : Statuses]

\* A result that says nothing yet.
Silent(r) == ~r.retryable /\ ~r.found /\ ~r.dropped

\* Mutant of Outcome: a receipt is looked at before the drop.
OutcomeFoundFirst(r) ==
    IF r.found /\ r.status # "none"
    THEN IF r.status = "reverted" THEN "included_reverted" ELSE "included_success"
    ELSE "dropped_or_replaced"

\* The state a result leads to; a retryable or dropped one wins over a receipt.
Outcome(r) ==
    IF r.retryable \/ r.dropped THEN "dropped_or_replaced"
    ELSE IF r.status = "reverted" THEN "included_reverted" ELSE "included_success"

\* Mutant of Applies: a late result is applied to a transaction that is over.
AppliesLate(results, h) ==
    h \in DOMAIN results /\ state[h] # "not_tracked" /\ ~Silent(results[h])

\* The loop acts on the result for h: h is tracked and not over.
Applies(results, h) == h \in DOMAIN results /\ Open(h) /\ ~Silent(results[h])

\* The receipt of an entry after a result was applied: a nil status leaves the one
\* that is there.
Noted(r, old) ==
    IF r.retryable \/ r.dropped THEN old
    ELSE [observed |-> TRUE, status |-> IF r.status = "none" THEN old.status ELSE r.status]

\* ApplyReceiptResults, in the order of the hashes.
ApplyReceiptResults(results) ==
    LET S == {h \in Hashes : Applies(results, h)}
        sorted == Ascending(S)
    IN
    /\ state' = [h \in Hashes |-> IF h \in S THEN Outcome(results[h]) ELSE state[h]]
    /\ receipt' = [h \in Hashes |-> IF h \in S THEN Noted(results[h], receipt[h])
                                                ELSE receipt[h]]
    /\ Return([k \in DOMAIN sorted |->
                 Transition(sorted[k], Outcome(results[sorted[k]]))])
    /\ UNCHANGED <<order, given, age>>

-----------------------------------------------------------------------------

OpenAt == {n \in DOMAIN order : Open(order[n])}

\* Mutant of PendingHashes: the batches are cut off the end of what is left.
PendingHashesFromEnd ==
    LET pending == HashesAt(OpenAt)
        first(k) == IF k * BatchSize <= Len(pending) THEN Len(pending) - k * BatchSize + 1 ELSE 1
    IN [k \in 1..((Len(pending) + BatchSize - 1) \div BatchSize) |->
          SubSeq(pending, first(k), Len(pending) - (k - 1) * BatchSize)]

\* PendingHashes: the open hashes in batches of BatchSize.
PendingHashes ==
    LET pending == HashesAt(OpenAt)
        last(k) == IF k * BatchSize <= Len(pending) THEN k * BatchSize ELSE Len(pending)
    IN [k \in 1..((Len(pending) + BatchSize - 1) \div BatchSize) |->
          SubSeq(pending, (k - 1) * BatchSize + 1, last(k))]

\* Time passes.
Tick ==
    /\ age' = [h \in Hashes |-> IF Open(h) /\ age[h] <= SLA THEN age[h] + 1 ELSE age[h]]
    /\ UNCHANGED <<order, state, receipt, given, returned, view>>

Next ==
    \/ \E h \in Hashes, tx \in Passed : TrackSent(h, tx)
    \/ MarkSLABreaches
    \/ \E asked \in SUBSET Hashes : \E results \in [asked -> ReceiptResults] :
          ApplyReceiptResults(results)
    \/ FinalizeShutdown
    \/ Tick

Spec == Init /\ [][Next]_vars

-----------------------------------------------------------------------------
(* Properties *)

Transitions == [hash : Hashes, from : States, to : States,
                terminal : BOOLEAN, soft : BOOLEAN]

\* Every variable has its type.
TypeOK ==
    /\ order \in Seq(Hashes)
    /\ state \in [Hashes -> States] /\ view \in [Hashes -> States]
    /\ receipt \in [Hashes -> Receipts] /\ given \in [Hashes -> Receipts]
    /\ age \in [Hashes -> 0..(SLA + 1)]
    /\ returned \in Seq(Transitions)

\* The transitions a call returns are exactly what it changed, each once: a
\* caller that only applies them knows the state of every transaction.
TransitionsTellAll ==
    /\ view = state
    /\ \A m, n \in DOMAIN returned : returned[m].hash = returned[n].hash => m = n
    /\ \A n \in DOMAIN returned : returned[n].from # returned[n].to

\* Whatever receipt an entry came with: one that ended reverted has an observed
\* reverted receipt, one that ended in success an observed one that says so (or no
\* more than the caller's own, when the answer had no status), and no other answer,
\* SLA check or shutdown touches the receipt.  A caller that tracks a transaction
\* without a receipt can thus read inclusion off it.  (State and receipt are set at
\* different places of ApplyReceiptResults.)
ReceiptMeansIncluded ==
    \A h \in Hashes :
        /\ state[h] = "included_reverted" =>
              receipt[h] = [observed |-> TRUE, status |-> "reverted"]
        /\ state[h] = "included_success" =>
              receipt[h].observed /\ receipt[h].status \in {"success", given[h].status}
        /\ state[h] \notin Included => receipt[h] = given[h]

\* The batches to poll, read one after the other, are the open transactions in the
\* order of tracking: the open entry at n of `order` stands in the place that the
\* number of open entries up to n gives it, there are no other places, and no batch
\* is empty or too long.
PollsWhatIsOpen ==
    LET b == PendingHashes
        before(n) == Cardinality({m \in OpenAt : m < n})
        batch(n) == before(n) \div BatchSize + 1
        place(n) == (before(n) % BatchSize) + 1
    IN
    /\ \A n \in OpenAt :
          /\ batch(n) \in DOMAIN b /\ place(n) \in DOMAIN b[batch(n)]
          /\ b[batch(n)][place(n)] = order[n]
    /\ Cardinality(UNION {{k} \X DOMAIN b[k] : k \in DOMAIN b}) = Cardinality(OpenAt)
    /\ \A k \in DOMAIN b : Len(b[k]) \in 1..BatchSize

\* A late or repeated answer, an SLA check or a shutdown never changes a
\* transaction that is over; only tracking it again does.
OverIsOver ==
    [][\A h \in Hashes :
          IsTerminal(state[h]) => \/ state'[h] = state[h]
                                  \/ Len(order') = Len(order) + 1 /\ order'[Len(order')] = h]_vars

=============================================================================
