-------------------------- MODULE RunnerPartsProofs --------------------------
(***************************************************************************)
(* Proofs about the two data structures of the package runner, each by     *)
(* itself: ConfirmTracker, for any set of hashes and any number of calls,  *)
(* and InFlightLimiter, for any finite set of workers, any lanes and caps. *)
(*                                                                         *)
(* The tracker: what is over stays over, a receipt is noted exactly for    *)
(* the transactions that end included, the transitions a call returns tell *)
(* all that it changed, and the batches to poll hold what is open in its   *)
(* order.  The last two are about loops over sequences.  Ascending lists a *)
(* finite set of numbers, each at its rank (AscendingFacts); a loop over   *)
(* `order` meets every tracked hash because there is a first place where   *)
(* it stands (LeastNumber), and what is not open is not tracked or over    *)
(* (Listed).                                                               *)
(*                                                                         *)
(* The limiter: LimiterInv is the conjunction of the properties, of which  *)
(* the types and the counts carry the induction: after every step there is *)
(* a set of holders that is counted (CountedBy), which a release too many  *)
(* makes smaller than the set of all (Uncount).  The caps and refusals     *)
(* follow from what the counts say of the holders (CountFacts).  The marks *)
(* need one fact more: they are at least the counts (Marked).              *)
(***************************************************************************)
EXTENDS ConfirmTracker, InFlightLimiter, SequenceTheorems, FiniteSetTheorems, TLAPS

-----------------------------------------------------------------------------
(* The confirmation tracker *)

\* The part of the types that the proofs need.
StateTypes ==
    /\ order \in Seq(Hashes)
    /\ state \in [Hashes -> States]
    /\ receipt \in [Hashes -> Receipts] /\ given \in [Hashes -> Receipts]

TrackerInv == StateTypes /\ ReceiptMeansIncluded

\* What has a state has been tracked.
Listed ==
    \A h \in Hashes : state[h] # "not_tracked" => \E n \in DOMAIN order : order[n] = h

-----------------------------------------------------------------------------
(* Numbers in order *)

\* Every nonempty set of numbers has a least one.
LEMMA LeastNumber ==
    ASSUME NEW T, T \subseteq Nat, T # {}
    PROVE  \E x \in T : \A y \in T : x <= y
<1> DEFINE R == OpToRel(<, Nat)
<1>1. IsWellFoundedOn(R, Nat)
  BY NatLessThanWellFounded
<1>2. PICK x \in T : \A y \in T : <<y, x>> \notin R
  <2> HIDE DEF R
  <2> QED
    BY <1>1, WFMin
<1>3. \A y \in T : ~(y < x)
  BY <1>2 DEF OpToRel
<1> QED
  BY <1>3

\* Ascending lists a finite set of numbers, each once, in their order.
LEMMA AscendingFacts ==
    ASSUME NEW P, P \subseteq Nat, IsFiniteSet(P)
    PROVE  /\ Cardinality(P) \in Nat
           /\ Ascending(P) \in [1..Cardinality(P) -> P]
           /\ \A j, k \in 1..Cardinality(P) : Ascending(P)[j] = Ascending(P)[k] => j = k
           /\ \A n \in P : \E k \in 1..Cardinality(P) : Ascending(P)[k] = n
           /\ \A k \in 1..Cardinality(P) :
                 Cardinality({m \in P : m <= Ascending(P)[k]}) = k
<1> DEFINE c == Cardinality(P)
           upTo(n) == {m \in P : m <= n}
           rank == [n \in P |-> Cardinality(upTo(n))]
<1>1. c \in Nat
  BY FS_CardinalityType
<1>2. ASSUME NEW n \in P
      PROVE  IsFiniteSet(upTo(n)) /\ Cardinality(upTo(n)) \in 1..c
  <2>1. upTo(n) \subseteq P /\ n \in upTo(n)
    OBVIOUS
  <2>2. IsFiniteSet(upTo(n)) /\ Cardinality(upTo(n)) <= c
    BY <2>1, FS_Subset
  <2>3. Cardinality(upTo(n)) \in Nat /\ Cardinality(upTo(n)) # 0
    BY <2>1, <2>2, FS_CardinalityType, FS_EmptySet
  <2> QED
    BY <1>1, <2>2, <2>3
<1>3. ASSUME NEW m \in P, NEW n \in P, m < n
      PROVE  rank[m] # rank[n]
  <2>a. m \in Nat /\ n \in Nat /\ \A k \in P : k \in Nat
    OBVIOUS
  <2>b. \A k \in P : k <= m => k <= n
    BY <1>3, <2>a
  <2>c. ~(n <= m) /\ n <= n
    BY <1>3, <2>a
  <2>1. upTo(m) \subseteq upTo(n) /\ n \in upTo(n) /\ n \notin upTo(m)
    BY <2>b, <2>c
  <2>2. Cardinality(upTo(m)) # Cardinality(upTo(n))
    BY <1>2, <2>1, FS_Subset
  <2> QED
    BY <2>2
<1>4. \A m, n \in P : rank[m] = rank[n] => m = n
  <2> SUFFICES ASSUME NEW m \in P, NEW n \in P, m # n PROVE rank[m] # rank[n]
    OBVIOUS
  <2>1. m < n \/ n < m
    OBVIOUS
  <2> QED
    BY <1>3, <2>1
<1>5. rank \in [P -> 1..c]
  BY <1>2
<1>6. rank \in Injection(P, 1..c)
  <2> HIDE DEF rank
  <2> QED
    BY <1>4, <1>5 DEF Injection, IsInjective
<1>7. rank \in Surjection(P, 1..c)
  <2>1. IsFiniteSet(1..c) /\ Cardinality(1..c) = c
    BY <1>1, FS_Interval
  <2> HIDE DEF rank
  <2> QED
    BY <1>6, <2>1, FS_Injection
<1>8. \A k \in 1..c : \E n \in P : rank[n] = k
  <2> HIDE DEF rank
  <2> QED
    BY <1>7 DEF Surjection
<1>9. \A k \in 1..c : Ascending(P)[k] \in P /\ rank[Ascending(P)[k]] = k
  <2> SUFFICES ASSUME NEW k \in 1..c
               PROVE  Ascending(P)[k] \in P /\ rank[Ascending(P)[k]] = k
    OBVIOUS
  <2>1. Ascending(P)[k] = CHOOSE n \in P : Cardinality(upTo(n)) = k
    BY DEF Ascending
  <2>2. \E n \in P : Cardinality(upTo(n)) = k
    BY <1>8
  <2> QED
    BY <2>1, <2>2
<1>11. Ascending(P) \in [1..c -> P]
  <2>1. \A k \in 1..c : (CHOOSE n \in P : Cardinality(upTo(n)) = k) \in P
    BY <1>8
  <2> QED
    BY <2>1 DEF Ascending
<1>10. \A j, k \in 1..c : Ascending(P)[j] = Ascending(P)[k] => j = k
  BY <1>9
<1>12. \A n \in P : \E k \in 1..c : Ascending(P)[k] = n
  <2> SUFFICES ASSUME NEW n \in P PROVE \E k \in 1..c : Ascending(P)[k] = n
    OBVIOUS
  <2>1. rank[n] \in 1..c
    BY <1>5
  <2>2. Ascending(P)[rank[n]] \in P /\ rank[Ascending(P)[rank[n]]] = rank[n]
    BY <1>9, <2>1
  <2> HIDE DEF rank
  <2>3. Ascending(P)[rank[n]] = n
    BY <1>4, <2>2
  <2> QED
    BY <2>1, <2>3
<1>13. \A k \in 1..c : Cardinality(upTo(Ascending(P)[k])) = k
  BY <1>9
<1> QED
  BY <1>1, <1>10, <1>11, <1>12, <1>13

\* The positions of `order` are finitely many.
LEMMA Positions ==
    ASSUME StateTypes, NEW P, P \subseteq DOMAIN order
    PROVE  P \subseteq Nat /\ IsFiniteSet(P)
<1>1. DOMAIN order = 1..Len(order) /\ Len(order) \in Nat
  BY DEF StateTypes
<1>2. IsFiniteSet(1..Len(order))
  BY <1>1, FS_Interval
<1> QED
  BY <1>1, <1>2, FS_Subset

\* A loop over `order` acts on every tracked hash of S once.
LEMMA VisitsFacts ==
    ASSUME StateTypes, Listed, NEW S, S \subseteq Hashes,
           \A h \in S : state[h] # "not_tracked"
    PROVE  LET visited == HashesAt(Visits(S)) IN
           /\ DOMAIN visited = 1..Cardinality(Visits(S)) /\ Cardinality(Visits(S)) \in Nat
           /\ \A k \in DOMAIN visited : visited[k] \in S
           /\ \A j, k \in DOMAIN visited : visited[j] = visited[k] => j = k
           /\ \A h \in S : \E k \in DOMAIN visited : visited[k] = h
<1> DEFINE P == Visits(S)
           c == Cardinality(P)
           A == Ascending(P)
           visited == HashesAt(P)
<1>1. P \subseteq Nat /\ IsFiniteSet(P)
  <2>1. P \subseteq DOMAIN order
    BY DEF Visits
  <2> QED
    BY <2>1, Positions
<1>2. /\ c \in Nat /\ A \in [1..c -> P]
      /\ \A j, k \in 1..c : A[j] = A[k] => j = k
      /\ \A n \in P : \E k \in 1..c : A[k] = n
  BY <1>1, AscendingFacts
<1>3. DOMAIN visited = 1..c /\ \A k \in 1..c : visited[k] = order[A[k]]
  BY DEF HashesAt
<1>4. DOMAIN order \subseteq Nat \ {0}
  BY DEF StateTypes
<1>5. \A m, n \in P : order[m] = order[n] => m = n
  <2> SUFFICES ASSUME NEW m \in P, NEW n \in P, m < n PROVE order[m] # order[n]
    BY <1>1
  <2>1. m \in 1..(n - 1)
    BY <1>4 DEF Visits
  <2> QED
    BY <2>1 DEF Visits
<1>6. ASSUME NEW h \in S PROVE \E n \in P : order[n] = h
  <2> DEFINE T == {n \in DOMAIN order : order[n] = h}
  <2>1. T # {} /\ T \subseteq Nat
    BY <1>4 DEF Listed
  <2> PICK n \in T : \A m \in T : n <= m
    <3> HIDE DEF T
    <3> QED
      BY <2>1, LeastNumber
  <2>2. ASSUME NEW m \in 1..(n - 1), order[m] = order[n] PROVE FALSE
    <3>1. m \in DOMAIN order
      BY DEF StateTypes
    <3> QED
      BY <1>4, <2>2, <3>1
  <2> QED
    BY <2>2 DEF Visits
<1> HIDE DEF P, c, A, visited
<1>7. \A k \in 1..c : visited[k] \in S
  <2>1. \A n \in P : order[n] \in S
    BY DEF P, Visits
  <2> QED
    BY <1>2, <1>3, <2>1
<1>8. \A j, k \in 1..c : visited[j] = visited[k] => j = k
  BY <1>2, <1>3, <1>5
<1>9. \A h \in S : \E k \in 1..c : visited[k] = h
  BY <1>2, <1>3, <1>6
<1> QED
  BY <1>2, <1>3, <1>7, <1>8, <1>9 DEF P, c, visited

-----------------------------------------------------------------------------
(* States and receipts *)

\* A result that is applied leads to a terminal state, and to one of inclusion
\* exactly if it notes a receipt.
LEMMA OutcomeFacts ==
    ASSUME NEW x \in ReceiptResults, NEW old \in Receipts
    PROVE  /\ Outcome(x) \in Terminal
           /\ Noted(x, old) \in Receipts
           /\ Outcome(x) \notin Included => Noted(x, old) = old
           /\ Outcome(x) = "included_reverted" =>
                 Noted(x, old) = [observed |-> TRUE, status |-> "reverted"]
           /\ Outcome(x) = "included_success" =>
                 Noted(x, old).observed /\ Noted(x, old).status \in {"success", old.status}
<1>1. CASE x.retryable \/ x.dropped
  <2>1. Outcome(x) = "dropped_or_replaced" /\ Noted(x, old) = old
    BY <1>1 DEF Outcome, Noted
  <2> QED
    BY <2>1 DEF Terminal, Included
<1>2. CASE ~(x.retryable \/ x.dropped)
  <2>1. /\ Outcome(x) = IF x.status = "reverted" THEN "included_reverted" ELSE "included_success"
        /\ Noted(x, old) = [observed |-> TRUE,
                            status |-> IF x.status = "none" THEN old.status ELSE x.status]
    BY <1>2 DEF Outcome, Noted
  <2>2. x.status \in Statuses /\ old.status \in Statuses
    BY DEF ReceiptResults, Receipts
  <2>3. Noted(x, old) \in Receipts
    BY <2>1, <2>2 DEF Receipts
  <2>4. Noted(x, old).observed = TRUE
    BY <2>1
  <2>5. Noted(x, old).status = IF x.status = "none" THEN old.status ELSE x.status
    BY <2>1
  <2>6. CASE x.status = "reverted"
    BY <2>1, <2>3, <2>6 DEF Terminal, Included
  <2>7. CASE x.status # "reverted"
    <3>1. Noted(x, old).status \in {"success", old.status}
      BY <2>2, <2>5, <2>7 DEF Statuses
    <3> QED
      BY <2>1, <2>3, <2>4, <2>7, <3>1 DEF Terminal, Included
  <2> QED
    BY <2>6, <2>7
<1> QED
  BY <1>1, <1>2

LEMMA InitTrackerInv == Init => TrackerInv
<1> SUFFICES ASSUME Init PROVE TrackerInv
  OBVIOUS
<1>1. order \in Seq(Hashes) /\ state \in [Hashes -> States]
  BY DEF Init, States
<1>2. NoReceipt \in Receipts
  BY DEF NoReceipt, Receipts, Statuses
<1>3. receipt \in [Hashes -> Receipts] /\ given \in [Hashes -> Receipts]
  BY <1>2 DEF Init
<1>4. \A h \in Hashes : receipt[h] = given[h] /\ state[h] \notin Included
  BY DEF Init, Included
<1>5. ReceiptMeansIncluded
  BY <1>4 DEF ReceiptMeansIncluded, Included
<1> QED
  BY <1>1, <1>3, <1>5 DEF TrackerInv, StateTypes

\* A hash whose receipt stays, and whose state stays or is not one of inclusion.
Untouched(h) ==
    /\ receipt'[h] = receipt[h] /\ given'[h] = given[h]
    /\ state'[h] = state[h] \/ (state[h] \notin Included /\ state'[h] \notin Included)

LEMMA SameReceipt ==
    ASSUME NEW T \in SUBSET Hashes, ReceiptMeansIncluded, \A h \in T : Untouched(h),
           \A h \in Hashes \ T :
               /\ state'[h] = "included_reverted" =>
                     receipt'[h] = [observed |-> TRUE, status |-> "reverted"]
               /\ state'[h] = "included_success" =>
                     receipt'[h].observed /\ receipt'[h].status \in {"success", given'[h].status}
               /\ state'[h] \notin Included => receipt'[h] = given'[h]
    PROVE  ReceiptMeansIncluded'
BY DEF ReceiptMeansIncluded, Untouched, Included

\* A step that moves open hashes to a state without a receipt.
LEMMA MoveStep ==
    ASSUME TrackerInv, NEW S \in SUBSET Hashes, NEW to \in States \ Included,
           \A h \in S : Open(h), MoveAll(S, to)
    PROVE  /\ TrackerInv'
           /\ \A h \in Hashes : IsTerminal(state[h]) => state'[h] = state[h]
<1>1. /\ state' = [h \in Hashes |-> IF h \in S THEN to ELSE state[h]]
      /\ UNCHANGED <<order, receipt, given>>
  BY DEF MoveAll
<1>2. StateTypes'
  BY <1>1 DEF TrackerInv, StateTypes
<1>3. \A h \in S : state[h] \notin Included /\ ~IsTerminal(state[h])
  BY DEF Open, IsTerminal, Terminal
<1>4. \A h \in Hashes : Untouched(h)
  BY <1>1, <1>3 DEF Untouched
<1>5. ReceiptMeansIncluded'
  BY <1>4, SameReceipt DEF TrackerInv
<1>6. \A h \in Hashes : IsTerminal(state[h]) => state'[h] = state[h]
  BY <1>1, <1>3
<1> QED
  BY <1>2, <1>5, <1>6 DEF TrackerInv

\* Tracking sets one hash back to waiting, with the receipt its caller has.
LEMMA TrackStep ==
    ASSUME TrackerInv, NEW h \in Hashes, NEW tx \in Passed, TrackSent(h, tx)
    PROVE  TrackerInv'
<1>1. /\ order' = Append(order, h)
      /\ state' = [state EXCEPT ![h] = "awaiting_receipt"]
      /\ receipt' = [receipt EXCEPT ![h] = tx.receipt]
      /\ given' = [given EXCEPT ![h] = tx.receipt]
  BY DEF TrackSent
<1>2. order' \in Seq(Hashes) /\ state' \in [Hashes -> States]
  BY <1>1 DEF TrackerInv, StateTypes, States
<1>3. tx.receipt \in Receipts
  BY TrackerAssumption
<1>4. receipt' \in [Hashes -> Receipts] /\ given' \in [Hashes -> Receipts]
  BY <1>1, <1>3 DEF TrackerInv, StateTypes
<1>5. receipt'[h] = given'[h] /\ state'[h] = "awaiting_receipt"
  BY <1>1 DEF TrackerInv, StateTypes
<1>6. \A g \in Hashes \ {h} : Untouched(g)
  BY <1>1 DEF TrackerInv, StateTypes, Untouched
<1>7. ReceiptMeansIncluded'
  BY <1>5, <1>6, SameReceipt DEF TrackerInv, Included
<1> QED
  BY <1>2, <1>4, <1>7 DEF TrackerInv, StateTypes

\* Results move open hashes to terminal states and note their receipts.
LEMMA ResultsStep ==
    ASSUME TrackerInv, NEW asked \in SUBSET Hashes,
           NEW results \in [asked -> ReceiptResults], ApplyReceiptResults(results)
    PROVE  /\ TrackerInv'
           /\ \A h \in Hashes : IsTerminal(state[h]) => state'[h] = state[h]
<1> DEFINE S == {h \in Hashes : Applies(results, h)}
<1>1. /\ state' = [h \in Hashes |-> IF h \in S THEN Outcome(results[h]) ELSE state[h]]
      /\ receipt' = [h \in Hashes |-> IF h \in S THEN Noted(results[h], receipt[h])
                                                  ELSE receipt[h]]
      /\ UNCHANGED <<order, given>>
  BY DEF ApplyReceiptResults
<1>2. \A h \in S : h \in Hashes /\ Open(h) /\ results[h] \in ReceiptResults
  BY DEF Applies
<1> HIDE DEF S
<1>3. \A h \in S : ~IsTerminal(state[h]) /\ state[h] \notin Included
  BY <1>2 DEF Open, IsTerminal, Terminal
<1>4. \A h \in Hashes : receipt[h] \in Receipts
  BY DEF TrackerInv, StateTypes
<1>5. state' \in [Hashes -> States]
  BY <1>1, <1>2, <1>4, OutcomeFacts DEF TrackerInv, StateTypes, States
<1>6. receipt' \in [Hashes -> Receipts]
  <2>1. \A h \in S : Noted(results[h], receipt[h]) \in Receipts
    BY <1>2, <1>4, OutcomeFacts
  <2> QED
    BY <1>1, <1>4, <2>1
<1>7. StateTypes'
  BY <1>1, <1>5, <1>6 DEF TrackerInv, StateTypes
<1>8. ASSUME NEW h \in S
      PROVE  /\ state'[h] = "included_reverted" =>
                   receipt'[h] = [observed |-> TRUE, status |-> "reverted"]
             /\ state'[h] = "included_success" =>
                   receipt'[h].observed /\ receipt'[h].status \in {"success", given'[h].status}
             /\ state'[h] \notin Included => receipt'[h] = given'[h]
  <2>1. /\ state'[h] = Outcome(results[h]) /\ receipt'[h] = Noted(results[h], receipt[h])
        /\ given'[h] = given[h]
    BY <1>1, <1>2
  <2>2. receipt[h] = given[h]
    BY <1>2, <1>3 DEF TrackerInv, ReceiptMeansIncluded
  <2>3. results[h] \in ReceiptResults /\ given[h] \in Receipts
    BY <1>2, <1>4, <2>2
  <2> DEFINE x == results[h]
             old == given[h]
  <2>4. x \in ReceiptResults /\ old \in Receipts
    BY <2>3
  <2> HIDE DEF x, old
  <2>5. /\ Outcome(x) \notin Included => Noted(x, old) = old
        /\ Outcome(x) = "included_reverted" =>
              Noted(x, old) = [observed |-> TRUE, status |-> "reverted"]
        /\ Outcome(x) = "included_success" =>
              Noted(x, old).observed /\ Noted(x, old).status \in {"success", old.status}
    BY <2>4, OutcomeFacts
  <2>6. state'[h] = Outcome(x) /\ receipt'[h] = Noted(x, old) /\ given'[h] = old
    BY <2>1, <2>2 DEF x, old
  <2> QED
    BY Zenon, <2>5, <2>6
<1>9. ReceiptMeansIncluded'
  <2>1. \A h \in Hashes \ S : Untouched(h)
    BY <1>1 DEF Untouched
  <2>2. Hashes \ S \in SUBSET Hashes /\ \A h \in Hashes \ (Hashes \ S) : h \in S
    OBVIOUS
  <2> QED
    BY <1>8, <2>1, <2>2, SameReceipt DEF TrackerInv
<1>10. \A h \in Hashes : IsTerminal(state[h]) => state'[h] = state[h]
  BY <1>1, <1>3
<1> QED
  BY <1>7, <1>9, <1>10 DEF TrackerInv

\* One step of any caller.
LEMMA StepFacts ==
    ASSUME TrackerInv, [Next]_vars
    PROVE  /\ TrackerInv'
           /\ \A h \in Hashes :
                 IsTerminal(state[h]) =>
                     \/ state'[h] = state[h]
                     \/ Len(order') = Len(order) + 1 /\ order'[Len(order')] = h
<1>1. ASSUME NEW g \in Hashes, NEW tx \in Passed, TrackSent(g, tx)
      PROVE  \A h \in Hashes : \/ state'[h] = state[h]
                               \/ Len(order') = Len(order) + 1 /\ order'[Len(order')] = h
  <2>1. order' = Append(order, g) /\ state' = [state EXCEPT ![g] = "awaiting_receipt"]
    BY <1>1 DEF TrackSent
  <2>2. Len(order') = Len(order) + 1 /\ order'[Len(order')] = g
    BY <2>1, AppendProperties DEF TrackerInv, StateTypes
  <2>3. \A h \in Hashes \ {g} : state'[h] = state[h]
    BY <2>1 DEF TrackerInv, StateTypes
  <2> QED
    BY <2>2, <2>3
<1>2. CASE MarkSLABreaches
  <2>1. \A h \in Breached : h \in Hashes /\ Open(h)
    BY DEF Breached, Open, IsTerminal, Terminal, Included
  <2>2. "sla_breached_pending" \in States \ Included
    BY DEF States, Included
  <2> QED
    BY <1>2, <2>1, <2>2, MoveStep DEF MarkSLABreaches
<1>3. CASE FinalizeShutdown
  <2>1. "unresolved_shutdown" \in States \ Included
    BY DEF States, Terminal, Included
  <2> QED
    BY <1>3, <2>1, MoveStep DEF FinalizeShutdown
<1>4. CASE UNCHANGED <<order, state, receipt, given>>
  BY <1>4 DEF TrackerInv, StateTypes, ReceiptMeansIncluded
<1>5. CASE Tick
  BY <1>4, <1>5 DEF Tick
<1>6. CASE UNCHANGED vars
  BY <1>4, <1>6 DEF vars
<1> QED
  BY <1>1, <1>2, <1>3, <1>5, <1>6, TrackStep, ResultsStep DEF Next

\* Whatever entries a caller tracks and whatever it is answered: a transaction that
\* ended included has the receipt that says so, and no other has one its caller did
\* not pass (ApplyReceiptResults sets state and receipt at different places).
THEOREM ReceiptsAgree == Spec => []ReceiptMeansIncluded
<1>1. TrackerInv /\ [Next]_vars => TrackerInv'
  BY StepFacts
<1>2. TrackerInv => ReceiptMeansIncluded
  BY DEF TrackerInv
<1> QED
  BY InitTrackerInv, <1>1, <1>2, PTL DEF Spec

\* No answer, SLA check or shutdown, in whatever order and however often it
\* arrives, changes a transaction that is over.
THEOREM TerminalIsFinal == Spec => OverIsOver
<1>1. TrackerInv /\ [Next]_vars => TrackerInv'
  BY StepFacts
<1>2. TrackerInv /\ [Next]_vars =>
          [\A h \in Hashes :
              IsTerminal(state[h]) => \/ state'[h] = state[h]
                                      \/ Len(order') = Len(order) + 1 /\ order'[Len(order')] = h]_vars
  BY StepFacts
<1> QED
  BY InitTrackerInv, <1>1, <1>2, PTL DEF Spec, OverIsOver

-----------------------------------------------------------------------------
(* What a call returns *)

\* A call that returns one transition for each hash it moves tells all.
LEMMA Answer ==
    ASSUME NEW c \in Nat, NEW ts, DOMAIN ts = 1..c, Return(ts), view = state,
           state \in [Hashes -> States], state' \in [Hashes -> States],
           \A k \in 1..c : /\ ts[k].hash \in Hashes /\ ts[k].to = state'[ts[k].hash]
                           /\ ts[k].from # ts[k].to,
           \A j, k \in 1..c : ts[j].hash = ts[k].hash => j = k,
           \A h \in Hashes : state'[h] = state[h] \/ \E k \in 1..c : ts[k].hash = h
    PROVE  TransitionsTellAll'
<1>1. returned' = ts
  BY DEF Return
<1> DEFINE mine(h) == {n \in DOMAIN ts : ts[n].hash = h}
           latest(h) == CHOOSE n \in mine(h) : \A m \in mine(h) : m <= n
<1>2. view' = [h \in Hashes |-> IF mine(h) = {} THEN view[h] ELSE ts[latest(h)].to]
  BY DEF Return
<1>3. ASSUME NEW h \in Hashes
      PROVE  (IF mine(h) = {} THEN view[h] ELSE ts[latest(h)].to) = state'[h]
  <2>1. CASE mine(h) = {}
    <3>1. \A k \in 1..c : ts[k].hash # h
      BY <2>1
    <3> QED
      BY <2>1, <3>1
  <2>2. CASE mine(h) # {}
    <3> PICK n \in mine(h) : TRUE
      BY <2>2
    <3>1. mine(h) = {n} /\ n \in 1..c /\ ts[n].hash = h /\ n <= n
      OBVIOUS
    <3> HIDE DEF mine
    <3>2. latest(h) = n
      BY <3>1
    <3> QED
      BY <2>2, <3>1, <3>2
  <2> QED
    BY <2>1, <2>2
<1> HIDE DEF mine, latest
<1>4. view' = [h \in Hashes |-> state'[h]]
  BY <1>2, <1>3
<1>5. view' = state'
  BY <1>4
<1> QED
  BY <1>1, <1>5 DEF TransitionsTellAll

\* One transition, to a state that is not the present one.
LEMMA TransitionFacts ==
    ASSUME NEW h, NEW to
    PROVE  /\ Transition(h, to).hash = h /\ Transition(h, to).to = to
           /\ Transition(h, to).from = state[h]
BY DEF Transition

LEMMA MoveTells ==
    ASSUME TrackerInv, Listed, view = state, NEW S \in SUBSET Hashes, NEW to \in States,
           \A h \in S : state[h] \notin {"not_tracked", to}, to # "not_tracked",
           MoveAll(S, to)
    PROVE  Listed' /\ TransitionsTellAll'
<1> DEFINE visited == HashesAt(Visits(S))
           c == Cardinality(Visits(S))
           ts == [k \in DOMAIN visited |-> Transition(visited[k], to)]
<1>1. /\ DOMAIN visited = 1..c /\ c \in Nat
      /\ \A k \in 1..c : visited[k] \in S
      /\ \A j, k \in 1..c : visited[j] = visited[k] => j = k
      /\ \A h \in S : \E k \in 1..c : visited[k] = h
  BY VisitsFacts DEF TrackerInv
<1>2. /\ state' = [h \in Hashes |-> IF h \in S THEN to ELSE state[h]]
      /\ order' = order /\ Return(ts)
  BY DEF MoveAll
<1>3. state \in [Hashes -> States] /\ state' \in [Hashes -> States]
  BY <1>2 DEF TrackerInv, StateTypes
<1>4. Listed'
  BY <1>2 DEF Listed
<1> HIDE DEF visited, c
<1>5. DOMAIN ts = 1..c /\ \A k \in 1..c : /\ ts[k].hash = visited[k] /\ ts[k].to = to
                                          /\ ts[k].from = state[visited[k]]
  BY <1>1, TransitionFacts
<1> HIDE DEF ts
<1>6. \A k \in 1..c : /\ ts[k].hash \in Hashes /\ ts[k].to = state'[ts[k].hash]
                      /\ ts[k].from # ts[k].to
  BY <1>1, <1>2, <1>5
<1>7. \A j, k \in 1..c : ts[j].hash = ts[k].hash => j = k
  BY <1>1, <1>5
<1>8. \A h \in Hashes : state'[h] = state[h] \/ \E k \in 1..c : ts[k].hash = h
  BY <1>1, <1>2, <1>5
<1> QED
  BY <1>1, <1>2, <1>3, <1>4, <1>5, <1>6, <1>7, <1>8, Answer

LEMMA TrackTells ==
    ASSUME TrackerInv, Listed, view = state, NEW h \in Hashes, NEW tx \in Passed,
           TrackSent(h, tx)
    PROVE  Listed' /\ TransitionsTellAll'
<1> DEFINE t == [Transition(h, "awaiting_receipt") EXCEPT !.from = "not_tracked"]
           ts == <<t>>
<1>1. /\ order' = Append(order, h) /\ Return(ts)
      /\ state' = [state EXCEPT ![h] = "awaiting_receipt"]
  BY DEF TrackSent
<1>2. state \in [Hashes -> States] /\ order \in Seq(Hashes)
  BY DEF TrackerInv, StateTypes
<1>3. state' \in [Hashes -> States]
  BY <1>1, <1>2 DEF States
<1>4. Listed'
  <2>1. /\ \A n \in DOMAIN order : n \in DOMAIN order' /\ order'[n] = order[n]
        /\ Len(order) + 1 \in DOMAIN order' /\ order'[Len(order) + 1] = h
    BY <1>1, <1>2, AppendProperties
  <2>2. \A g \in Hashes : g # h => state'[g] = state[g]
    BY <1>1, <1>2
  <2> QED
    BY <2>1, <2>2 DEF Listed
<1>5. t.hash = h /\ t.from = "not_tracked" /\ t.to = "awaiting_receipt"
  BY DEF Transition
<1>6. DOMAIN ts = 1..1 /\ ts[1] = t /\ \A k \in 1..1 : k = 1
  OBVIOUS
<1> HIDE DEF ts, t
<1>7. \A k \in 1..1 : /\ ts[k].hash \in Hashes /\ ts[k].to = state'[ts[k].hash]
                      /\ ts[k].from # ts[k].to
  BY <1>1, <1>2, <1>5, <1>6
<1>8. \A g \in Hashes : state'[g] = state[g] \/ \E k \in 1..1 : ts[k].hash = g
  BY <1>1, <1>2, <1>5, <1>6
<1>9. 1 \in Nat /\ \A j, k \in 1..1 : ts[j].hash = ts[k].hash => j = k
  BY <1>6
<1>10. TransitionsTellAll'
  BY <1>1, <1>2, <1>3, <1>6, <1>7, <1>8, <1>9, Answer
<1> QED
  BY <1>4, <1>10

\* The results that apply concern tracked hashes, of which there are finitely
\* many.
LEMMA ResultsTell ==
    ASSUME TrackerInv, Listed, view = state, NEW asked \in SUBSET Hashes,
           NEW results \in [asked -> ReceiptResults], ApplyReceiptResults(results)
    PROVE  Listed' /\ TransitionsTellAll'
<1> DEFINE S == {h \in Hashes : Applies(results, h)}
           c == Cardinality(S)
           A == Ascending(S)
           ts == [k \in DOMAIN A |-> Transition(A[k], Outcome(results[A[k]]))]
<1>1. /\ state' = [h \in Hashes |-> IF h \in S THEN Outcome(results[h]) ELSE state[h]]
      /\ order' = order /\ Return(ts)
  BY DEF ApplyReceiptResults
<1>2. \A h \in S : /\ h \in Hashes /\ Open(h) /\ Outcome(results[h]) \in Terminal
  BY OutcomeFacts DEF Applies, TrackerInv, StateTypes
<1>3. S \subseteq Nat /\ IsFiniteSet(S)
  <2>1. \A h \in S : \E n \in DOMAIN order : order[n] = h
    BY <1>2 DEF Listed, Open
  <2> DEFINE P == {n \in DOMAIN order : order[n] \in S}
             f == [n \in P |-> order[n]]
  <2>2. IsFiniteSet(P)
    <3>1. P \subseteq DOMAIN order
      OBVIOUS
    <3> HIDE DEF P
    <3> QED
      BY <3>1, Positions DEF TrackerInv
  <2>3. f \in Surjection(P, S)
    BY <2>1 DEF Surjection
  <2> HIDE DEF f, P, S
  <2>4. IsFiniteSet(S)
    BY <2>2, <2>3, FS_Surjection
  <2> QED
    BY <1>2, <2>4, TrackerAssumption
<1>4. /\ c \in Nat /\ A \in [1..c -> S]
      /\ \A j, k \in 1..c : A[j] = A[k] => j = k
      /\ \A n \in S : \E k \in 1..c : A[k] = n
  <2> HIDE DEF S
  <2> QED
    BY <1>3, AscendingFacts
<1>5. state \in [Hashes -> States]
  BY DEF TrackerInv, StateTypes
<1> HIDE DEF S, c, A
<1>6. state' \in [Hashes -> States]
  BY <1>1, <1>2, <1>5 DEF States
<1>7. Listed'
  BY <1>1, <1>2 DEF Listed, Open
<1>8. DOMAIN ts = 1..c /\ \A k \in 1..c : /\ ts[k].hash = A[k]
                                          /\ ts[k].to = Outcome(results[A[k]])
                                          /\ ts[k].from = state[A[k]]
  BY <1>4, TransitionFacts
<1> HIDE DEF ts
<1>9. \A k \in 1..c : /\ ts[k].hash \in Hashes /\ ts[k].to = state'[ts[k].hash]
                      /\ ts[k].from # ts[k].to
  <2> SUFFICES ASSUME NEW k \in 1..c
               PROVE  /\ ts[k].hash \in Hashes /\ ts[k].to = state'[ts[k].hash]
                      /\ ts[k].from # ts[k].to
    OBVIOUS
  <2>1. A[k] \in S
    BY <1>4
  <2>2. state[A[k]] \notin Terminal /\ Outcome(results[A[k]]) \in Terminal
    BY <1>2, <2>1 DEF Open, IsTerminal
  <2> QED
    BY <1>1, <1>2, <1>8, <2>1, <2>2
<1>10. \A j, k \in 1..c : ts[j].hash = ts[k].hash => j = k
  BY <1>4, <1>8
<1>11. \A h \in Hashes : state'[h] = state[h] \/ \E k \in 1..c : ts[k].hash = h
  BY <1>1, <1>4, <1>8
<1> QED
  BY <1>1, <1>4, <1>5, <1>6, <1>7, <1>8, <1>9, <1>10, <1>11, Answer

\* The transitions a call returns are exactly what it changed, each once: no loop
\* over `order` misses a hash or moves one twice, although a hash may stand in
\* `order` several times (TrackSent always appends), and the answers are applied
\* in the order of their hashes.
THEOREM TransitionsSuffice == Spec => []TransitionsTellAll
<1> DEFINE Inv == TrackerInv /\ Listed /\ TransitionsTellAll
<1>1. Init => Inv
  <2>1. Init => Listed /\ TransitionsTellAll
    BY DEF Init, Listed, TransitionsTellAll
  <2> QED
    BY <2>1, InitTrackerInv
<1>2. Inv /\ [Next]_vars => Inv'
  <2> SUFFICES ASSUME Inv, [Next]_vars PROVE Inv'
    OBVIOUS
  <2>1. TrackerInv'
    BY StepFacts
  <2>2. view = state
    BY DEF TransitionsTellAll
  <2>3. CASE MarkSLABreaches
    <3>1. /\ \A h \in Breached : state[h] \notin {"not_tracked", "sla_breached_pending"}
          /\ Breached \in SUBSET Hashes
      BY DEF Breached
    <3>2. "sla_breached_pending" \in States
      BY DEF States
    <3> QED
      BY <2>1, <2>2, <2>3, <3>1, <3>2, MoveTells DEF MarkSLABreaches
  <2>4. CASE FinalizeShutdown
    <3> DEFINE S == {h \in Hashes : Open(h)}
    <3>1. /\ \A h \in S : state[h] \notin {"not_tracked", "unresolved_shutdown"}
          /\ S \in SUBSET Hashes
      BY DEF Open, IsTerminal, Terminal
    <3>2. "unresolved_shutdown" \in States /\ MoveAll(S, "unresolved_shutdown")
      BY <2>4 DEF States, Terminal, FinalizeShutdown
    <3> HIDE DEF S
    <3> QED
      BY <2>1, <2>2, <3>1, <3>2, MoveTells
  <2>5. CASE UNCHANGED <<order, state, returned, view>>
    BY <2>1, <2>5 DEF Listed, TransitionsTellAll
  <2>6. CASE Tick
    BY <2>5, <2>6 DEF Tick
  <2>7. CASE UNCHANGED vars
    BY <2>5, <2>7 DEF vars
  <2> QED
    BY <2>1, <2>2, <2>3, <2>4, <2>6, <2>7, TrackTells, ResultsTell DEF Next
<1> QED
  BY <1>1, <1>2, PTL DEF Spec

-----------------------------------------------------------------------------
(* The batches to poll *)

\* How many batches of B hold N hashes.
Batches(N, B) == (N + B - 1) \div B

\* Cutting N places into batches of B: where a batch ends, and in which batch a
\* place is.
LEMMA BatchEnds ==
    ASSUME NEW N \in Nat, NEW B \in Nat \ {0}, NEW k \in 1..Batches(N, B)
    PROVE  /\ (k - 1) * B \in Nat /\ k * B = (k - 1) * B + B
           /\ (k - 1) * B < N
           /\ k < Batches(N, B) => k * B <= N
<1> DEFINE K == Batches(N, B)
<1>1. K \in Int /\ K * B <= N + B - 1
  BY DEF Batches
<1>2. k \in Nat \ {0} /\ k <= K
  OBVIOUS
<1> HIDE DEF K
<1>3. k * B = (k - 1) * B + B /\ (k - 1) * B \in Nat
  BY <1>2
<1>4. k * B <= K * B
  BY <1>1, <1>2
<1>5. ASSUME k < K PROVE k * B <= N
  <2>1. k + 1 <= K
    BY <1>1, <1>2, <1>5
  <2>2. (k + 1) * B <= K * B /\ (k + 1) * B = k * B + B
    BY <1>1, <1>2, <2>1
  <2>3. k * B \in Int /\ K * B \in Int
    BY <1>1, <1>2
  <2> QED
    BY <1>1, <2>2, <2>3
<1>6. k * B \in Int /\ K * B \in Int
  BY <1>1, <1>2
<1>7. (k - 1) * B < N
  BY <1>1, <1>3, <1>4, <1>6
<1> QED
  BY <1>3, <1>5, <1>7 DEF K

LEMMA BatchOf ==
    ASSUME NEW N \in Nat, NEW B \in Nat \ {0}, NEW j \in 1..N
    PROVE  \E k \in 1..Batches(N, B) : \E i \in 1..B : j = (k - 1) * B + i
<1> DEFINE q == (j - 1) \div B
           K == Batches(N, B)
<1>1. q \in Nat /\ q * B <= j - 1 /\ j - 1 < q * B + B /\ q * B \in Nat
  OBVIOUS
<1>2. K \in Int /\ N + B - 1 < K * B + B /\ K * B \in Int
  BY DEF Batches
<1> HIDE DEF q, K
<1>3. q < K
  <2> SUFFICES ASSUME K <= q PROVE FALSE
    BY <1>1, <1>2
  <2>1. K * B <= q * B
    BY <1>1, <1>2
  <2> QED
    BY <1>1, <1>2, <2>1
<1>4. q + 1 \in 1..K /\ j - q * B \in 1..B /\ (q + 1) - 1 = q
  BY <1>1, <1>2, <1>3
<1>5. j = ((q + 1) - 1) * B + (j - q * B)
  BY <1>1, <1>4
<1> QED
  BY <1>4, <1>5 DEF K

\* A place is in one batch.
LEMMA BatchUnique ==
    ASSUME NEW B \in Nat \ {0}, NEW k \in Nat \ {0}, NEW l \in Nat \ {0},
           NEW i \in 1..B, NEW j \in 1..B, (k - 1) * B + i = (l - 1) * B + j
    PROVE  k = l /\ i = j
<1>1. ASSUME NEW a \in Nat \ {0}, NEW b \in Nat \ {0}, a < b
      PROVE  (a - 1) * B \in Nat /\ (b - 1) * B \in Nat /\ (a - 1) * B + B <= (b - 1) * B
  <2>1. a <= b - 1
    BY <1>1
  <2>2. a * B <= (b - 1) * B /\ a * B = (a - 1) * B + B
    BY <2>1
  <2> QED
    BY <2>2
<1>2. ~(k < l)
  BY <1>1
<1>3. ~(l < k)
  BY <1>1
<1>4. k = l /\ (k - 1) * B \in Nat
  BY <1>2, <1>3
<1> QED
  BY <1>4

\* The batch and the place in it of a number that counts from 0.
LEMMA BatchQuotient ==
    ASSUME NEW B \in Nat \ {0}, NEW k \in Nat \ {0}, NEW i \in 1..B
    PROVE  ((k - 1) * B + i - 1) \div B = k - 1 /\ ((k - 1) * B + i - 1) % B = i - 1
<1> DEFINE x == (k - 1) * B + i - 1
           q == x \div B
           m == x % B
<1>1. x \in Nat
  <2>1. (k - 1) * B \in Nat
    OBVIOUS
  <2> QED
    BY <2>1
<1>2. q \in Nat /\ m \in 0..(B - 1) /\ x = q * B + m
  <2> HIDE DEF x
  <2> QED
    BY <1>1
<1>3. q + 1 \in Nat \ {0} /\ m + 1 \in 1..B /\ ((q + 1) - 1) * B + (m + 1) = (k - 1) * B + i
  <2> HIDE DEF q, m
  <2>1. q * B \in Nat /\ (k - 1) * B \in Nat /\ (q + 1) - 1 = q
    BY <1>2
  <2>2. q * B + m = (k - 1) * B + i - 1
    BY <1>2
  <2> QED
    BY <1>2, <2>1, <2>2
<1> HIDE DEF q, m
<1>4. k = q + 1 /\ i = m + 1
  BY <1>3, BatchUnique
<1>5. q = k - 1 /\ m = i - 1
  BY <1>2, <1>4
<1> QED
  BY <1>5 DEF q, m

\* The batches hold the open places of `order`, each once and in their order.
LEMMA PollsAreOpen == StateTypes => PollsWhatIsOpen
<1> SUFFICES ASSUME StateTypes PROVE PollsWhatIsOpen
  OBVIOUS
<1> DEFINE N == Cardinality(OpenAt)
           A == Ascending(OpenAt)
           B == BatchSize
           K == Batches(N, B)
           pending == HashesAt(OpenAt)
           last(k) == IF k * B <= N THEN k * B ELSE N
           b == PendingHashes
           U == UNION {{k} \X DOMAIN b[k] : k \in DOMAIN b}
           before(n) == Cardinality({m \in OpenAt : m < n})
<1>1. OpenAt \subseteq DOMAIN order /\ OpenAt \subseteq Nat /\ IsFiniteSet(OpenAt)
  <2>1. OpenAt \subseteq DOMAIN order
    BY DEF OpenAt
  <2> QED
    BY <2>1, Positions
<1>2. /\ N \in Nat /\ A \in [1..N -> OpenAt]
      /\ \A j, k \in 1..N : A[j] = A[k] => j = k
      /\ \A n \in OpenAt : \E k \in 1..N : A[k] = n
      /\ \A k \in 1..N : Cardinality({m \in OpenAt : m <= A[k]}) = k
  BY <1>1, AscendingFacts
<1>3. B \in Nat \ {0}
  BY TrackerAssumption
<1>4. /\ pending \in Seq(Hashes) /\ Len(pending) = N
      /\ \A j \in 1..N : pending[j] = order[A[j]]
  <2>1. pending = [j \in 1..N |-> order[A[j]]]
    BY DEF HashesAt
  <2>2. \A j \in 1..N : order[A[j]] \in Hashes
    BY <1>1, <1>2 DEF StateTypes
  <2> HIDE DEF pending, A, N
  <2>3. pending \in [1..N -> Hashes]
    BY <2>1, <2>2
  <2> QED
    BY <1>2, <2>1, <2>3
<1>5. b = [k \in 1..K |-> SubSeq(pending, (k - 1) * B + 1, last(k))]
  BY <1>4 DEF PendingHashes, Batches
<1> HIDE DEF pending, b, A, N
<1>6. ASSUME NEW k \in 1..K
      PROVE  /\ Len(b[k]) = last(k) - (k - 1) * B /\ Len(b[k]) \in 1..B
             /\ DOMAIN b[k] = 1..Len(b[k])
             /\ (k - 1) * B \in Nat /\ (k - 1) * B + Len(b[k]) <= N
             /\ \A i \in 1..Len(b[k]) : b[k][i] = order[A[(k - 1) * B + i]]
             /\ k < K => Len(b[k]) = B
             /\ \A i \in 1..B : (k - 1) * B + i <= N => i \in 1..Len(b[k])
  <2>1. /\ (k - 1) * B \in Nat /\ k * B = (k - 1) * B + B /\ (k - 1) * B < N
        /\ k < K => k * B <= N
    BY <1>2, <1>3, BatchEnds
  <2> DEFINE f == (k - 1) * B
             l == last(k)
  <2>2. f \in Nat /\ f < N /\ l = (IF f + B <= N THEN f + B ELSE N)
    BY <2>1
  <2>3. k < K => l = f + B
    BY <2>1
  <2> HIDE DEF f, l, K
  <2>4. b[k] = SubSeq(pending, f + 1, l)
    BY <1>5 DEF f, l
  <2>5. l \in Nat /\ f + 1 <= l /\ l <= N /\ l - f \in 1..B
    BY <1>2, <1>3, <2>2
  <2>6. \A i \in (f + 1)..l : pending[i] \in Hashes
    BY <1>2, <1>4, <2>2, <2>5
  <2>7. /\ SubSeq(pending, f + 1, l) \in Seq(Hashes)
        /\ Len(SubSeq(pending, f + 1, l)) = IF f + 1 <= l THEN l - (f + 1) + 1 ELSE 0
        /\ \A i \in 1..(l - (f + 1) + 1) :
              SubSeq(pending, f + 1, l)[i] = pending[(f + 1) + i - 1]
    BY <2>2, <2>5, <2>6, SubSeqProperties
  <2>8. b[k] \in Seq(Hashes) /\ Len(b[k]) = l - f
    BY <2>2, <2>4, <2>5, <2>7
  <2>9. \A i \in 1..(l - f) : b[k][i] = order[A[f + i]]
    <3> SUFFICES ASSUME NEW i \in 1..(l - f) PROVE b[k][i] = order[A[f + i]]
      OBVIOUS
    <3>1. l - (f + 1) + 1 = l - f /\ (f + 1) + i - 1 = f + i /\ f + i \in 1..N
      BY <1>2, <2>2, <2>5
    <3> QED
      BY <1>4, <2>4, <2>7, <3>1
  <2>10. DOMAIN b[k] = 1..Len(b[k])
    BY <2>8
  <2>11. ASSUME k < K PROVE Len(b[k]) = B
    <3>1. l = f + B /\ Len(b[k]) = l - f
      BY <2>3, <2>8, <2>11
    <3> QED
      BY <1>3, <2>2, <3>1
  <2>12. \A i \in 1..B : f + i <= N => i \in 1..(l - f)
    BY <1>2, <1>3, <2>2, <2>5
  <2> QED
    BY <2>2, <2>5, <2>8, <2>9, <2>10, <2>11, <2>12 DEF f, l
<1>7. \A p : p \in U <=> \E k \in 1..K : \E i \in 1..Len(b[k]) : p = <<k, i>>
  <2> SUFFICES ASSUME NEW p
               PROVE  p \in U <=> \E k \in 1..K : \E i \in 1..Len(b[k]) : p = <<k, i>>
    OBVIOUS
  <2>1. DOMAIN b = 1..K /\ \A k \in 1..K : DOMAIN b[k] = 1..Len(b[k])
    BY <1>5, <1>6
  <2> HIDE DEF K
  <2>2. p \in U <=> \E k \in 1..K : p \in {k} \X (1..Len(b[k]))
    BY Zenon, <2>1
  <2>3. \A k : p \in {k} \X (1..Len(b[k])) <=> \E i \in 1..Len(b[k]) : p = <<k, i>>
    OBVIOUS
  <2> QED
    BY <2>2, <2>3
<1> HIDE DEF U, K, last
<1>8. \A j \in 1..N : \E k \in 1..K : \E i \in 1..B : j = (k - 1) * B + i
  BY <1>2, <1>3, BatchOf DEF K
<1>9. Cardinality(U) = Cardinality(OpenAt)
  <2> DEFINE f == [p \in U |-> A[(p[1] - 1) * B + p[2]]]
  <2>1. ASSUME NEW p \in U
        PROVE  /\ p[1] \in 1..K /\ p[2] \in 1..B
               /\ p = <<p[1], p[2]>>
               /\ (p[1] - 1) * B + p[2] \in 1..N
               /\ f[p] \in OpenAt
    <3> PICK k \in 1..K : \E i \in 1..Len(b[k]) : p = <<k, i>>
      BY <1>7
    <3> PICK i \in 1..Len(b[k]) : p = <<k, i>>
      OBVIOUS
    <3>1. p[1] = k /\ p[2] = i
      OBVIOUS
    <3>2. i \in 1..B /\ (k - 1) * B + i \in 1..N
      <4> DEFINE f0 == (k - 1) * B
                 n == Len(b[k])
      <4>1. f0 \in Nat /\ n \in 1..B /\ f0 + n <= N
        BY <1>6
      <4> HIDE DEF f0, n
      <4>2. i \in 1..B /\ f0 + i \in 1..N
        <5>1. i \in 1..n
          BY DEF n
        <5> QED
          BY <1>2, <1>3, <4>1, <5>1
      <4> QED
        BY <4>2 DEF f0
    <3>3. f[p] = A[(k - 1) * B + i]
      BY <3>1
    <3>4. f[p] \in OpenAt
      BY <1>2, <3>2, <3>3
    <3> QED
      BY <3>1, <3>2, <3>4
  <2>2. f \in [U -> OpenAt]
    BY <2>1
  <2>3. ASSUME NEW p \in U, NEW q \in U, f[p] = f[q] PROVE p = q
    <3>1. (p[1] - 1) * B + p[2] = (q[1] - 1) * B + q[2]
      BY <1>2, <2>1, <2>3
    <3>2. p[1] \in Nat \ {0} /\ q[1] \in Nat \ {0} /\ p[2] \in 1..B /\ q[2] \in 1..B
      BY <2>1 DEF K
    <3> DEFINE k == p[1]
               l == q[1]
               i == p[2]
               j == q[2]
    <3>3. p[1] = q[1] /\ p[2] = q[2]
      <4>1. /\ (k - 1) * B + i = (l - 1) * B + j
            /\ k \in Nat \ {0} /\ l \in Nat \ {0} /\ i \in 1..B /\ j \in 1..B
        BY <3>1, <3>2
      <4> HIDE DEF k, l, i, j
      <4>2. k = l /\ i = j
        BY <1>3, <4>1, BatchUnique
      <4> QED
        BY <4>2 DEF k, l, i, j
    <3> QED
      BY <2>1, <3>3
  <2>4. ASSUME NEW n \in OpenAt PROVE \E p \in U : f[p] = n
    <3> PICK j \in 1..N : A[j] = n
      BY <1>2
    <3> PICK k \in 1..K : \E i \in 1..B : j = (k - 1) * B + i
      BY <1>8
    <3> PICK i \in 1..B : j = (k - 1) * B + i
      OBVIOUS
    <3>1. <<k, i>> \in U
      BY <1>6, <1>7
    <3> QED
      BY <3>1
  <2> HIDE DEF f
  <2>5. f \in Injection(U, OpenAt)
    BY <2>2, <2>3 DEF Injection, IsInjective
  <2>6. f \in Surjection(U, OpenAt)
    BY <2>2, <2>4 DEF Surjection
  <2> QED
    BY <1>1, <2>5, <2>6, FS_Injection
<1>10. ASSUME NEW n \in OpenAt
       PROVE  LET k == before(n) \div B + 1
                  i == (before(n) % B) + 1
              IN k \in DOMAIN b /\ i \in DOMAIN b[k] /\ b[k][i] = order[n]
  <2> PICK j \in 1..N : A[j] = n
    BY <1>2
  <2>1. before(n) = j - 1
    <3>1. /\ Cardinality({m \in OpenAt : m <= n}) = j
          /\ n \in Nat /\ \A m \in OpenAt : m \in Nat
      BY <1>1, <1>2
    <3> DEFINE upTo == {m \in OpenAt : m <= n}
    <3>a. \A m \in OpenAt : m < n <=> m <= n /\ m # n
      BY <3>1
    <3>b. {m \in OpenAt : m < n} = upTo \ {n}
      BY Zenon, <3>a
    <3>c. n <= n
      BY <3>1
    <3>2. {m \in OpenAt : m < n} = upTo \ {n} /\ n \in upTo /\ upTo \subseteq OpenAt
      BY Zenon, <3>b, <3>c
    <3> HIDE DEF upTo
    <3>3. IsFiniteSet(upTo)
      BY <1>1, <3>2, FS_Subset
    <3>4. Cardinality(upTo \ {n}) = Cardinality(upTo) - 1
      BY <3>2, <3>3, FS_RemoveElement
    <3> QED
      BY <3>1, <3>2, <3>4 DEF upTo
  <2> HIDE DEF before
  <2> PICK k \in 1..K : \E i \in 1..B : j = (k - 1) * B + i
    BY <1>8
  <2> PICK i \in 1..B : j = (k - 1) * B + i
    OBVIOUS
  <2>2. k \in Nat \ {0}
    BY DEF K
  <2>3. before(n) = (k - 1) * B + i - 1
    <3> DEFINE x == (k - 1) * B
    <3>1. j = x + i /\ x \in Int /\ i \in Int /\ before(n) = j - 1
      BY <1>3, <2>1, <2>2
    <3> HIDE DEF x, B
    <3>2. before(n) = x + i - 1
      BY <3>1
    <3> QED
      BY <3>2 DEF x
  <2>a. ((k - 1) * B + i - 1) \div B = k - 1 /\ ((k - 1) * B + i - 1) % B = i - 1
    BY <1>3, <2>2, BatchQuotient
  <2>4. before(n) \div B = k - 1 /\ before(n) % B = i - 1
    BY Zenon, <2>3, <2>a
  <2>5. before(n) \div B + 1 = k /\ (before(n) % B) + 1 = i
    BY <1>3, <2>2, <2>4
  <2>6. k \in DOMAIN b /\ i \in DOMAIN b[k] /\ b[k][i] = order[n]
    <3>1. i \in 1..Len(b[k])
      BY <1>2, <1>6
    <3>2. b[k][i] = order[A[j]]
      BY <1>6, <3>1
    <3> QED
      BY <1>5, <1>6, <3>1, <3>2
  <2> QED
    BY <2>5, <2>6
<1>11. \A k \in DOMAIN b : Len(b[k]) \in 1..B
  BY <1>5, <1>6
<1> QED
  BY <1>9, <1>10, <1>11 DEF PollsWhatIsOpen, U, b, before

\* The batches to poll are the open transactions in the order of tracking: none is
\* missing, over or out of place, however often a hash was tracked (PendingHashes
\* cuts what a loop over `order` collects).
THEOREM PollsAreComplete == Spec => []PollsWhatIsOpen
<1>1. TrackerInv /\ [Next]_vars => TrackerInv'
  BY StepFacts
<1>2. TrackerInv => PollsWhatIsOpen
  BY PollsAreOpen DEF TrackerInv
<1> QED
  BY InitTrackerInv, <1>1, <1>2, PTL DEF Spec

-----------------------------------------------------------------------------
(* The in-flight limiter *)

\* The counts, unlike the holders, never exceed the caps.
CountsWithinCaps ==
    /\ GlobalCap > 0 => global <= GlobalCap
    /\ LaneCap > 0 => \A l \in Lanes : perLane[l] <= LaneCap

LimiterInv == LimiterTypeOK /\ CountsAreHolders /\ CountsWithinCaps /\ RefusedOnlyWhenFull

\* The counts are those of the holders in C.
CountedBy(C) ==
    /\ C \in SUBSET AllHolders
    /\ global = Cardinality(C)
    /\ \A l \in Lanes : perLane[l] = Cardinality(C \cap Holders(l))

-----------------------------------------------------------------------------
(* The limiter: how the sets of holders change *)

\* The holders are finite sets, so their numbers are natural numbers.
LEMMA HoldersFinite ==
    /\ IsFiniteSet(AllHolders) /\ Cardinality(AllHolders) \in Nat
    /\ \A l : IsFiniteSet(Holders(l)) /\ Cardinality(Holders(l)) \in Nat
<1>1. AllHolders \subseteq Workers /\ \A l : Holders(l) \subseteq Workers
  BY DEF AllHolders, Holders
<1> QED
  BY <1>1, LimiterAssumption, FS_Subset, FS_CardinalityType

\* A worker without a slot that gets one on lane l joins exactly the holders
\* of l.
LEMMA Joining ==
    ASSUME LimiterTypeOK, NEW w \in Workers, NEW l \in Lanes, holds[w] = NoLane,
           holds' = [holds EXCEPT ![w] = l]
    PROVE  /\ Cardinality(AllHolders') = Cardinality(AllHolders) + 1
           /\ Cardinality(Holders(l)') = Cardinality(Holders(l)) + 1
           /\ \A m \in Lanes \ {l} : Holders(m)' = Holders(m)
<1> USE LimiterAssumption DEF LimiterTypeOK, AllHolders, Holders
<1>1. w \notin AllHolders /\ w \notin Holders(l)
  OBVIOUS
<1>2. AllHolders' = AllHolders \cup {w} /\ Holders(l)' = Holders(l) \cup {w}
  OBVIOUS
<1>3. \A m \in Lanes \ {l} : Holders(m)' = Holders(m)
  OBVIOUS
<1> HIDE DEF LimiterTypeOK, AllHolders, Holders
<1>4. IsFiniteSet(AllHolders) /\ IsFiniteSet(Holders(l))
  BY HoldersFinite
<1>5. Cardinality(AllHolders') = Cardinality(AllHolders) + 1
  BY <1>1, <1>2, <1>4, FS_AddElement
<1>6. Cardinality(Holders(l)') = Cardinality(Holders(l)) + 1
  BY <1>1, <1>2, <1>4, FS_AddElement
<1> QED
  BY <1>3, <1>5, <1>6

LEMMA OneLess ==
    \A S, x : IsFiniteSet(S) /\ x \in S => Cardinality(S \ {x}) = Cardinality(S) - 1
<1> SUFFICES ASSUME NEW S, NEW x, IsFiniteSet(S), x \in S
             PROVE  Cardinality(S \ {x}) = Cardinality(S) - 1
  OBVIOUS
<1> QED
  BY FS_RemoveElement

\* A worker that gives its slot on lane l back leaves exactly the holders of l.
LEMMA Leaving ==
    ASSUME LimiterTypeOK, NEW w \in Workers, NEW l \in Lanes, holds[w] = l,
           holds' = [holds EXCEPT ![w] = NoLane]
    PROVE  /\ Cardinality(AllHolders') = Cardinality(AllHolders) - 1
           /\ Cardinality(Holders(l)') = Cardinality(Holders(l)) - 1
           /\ Cardinality(AllHolders) # 0 /\ Cardinality(Holders(l)) # 0
           /\ \A m \in Lanes \ {l} : Holders(m)' = Holders(m)
<1> USE LimiterAssumption DEF LimiterTypeOK, AllHolders, Holders
<1>1. w \in AllHolders /\ w \in Holders(l)
  OBVIOUS
<1>2. AllHolders' = AllHolders \ {w} /\ Holders(l)' = Holders(l) \ {w}
  OBVIOUS
<1>3. \A m \in Lanes \ {l} : Holders(m)' = Holders(m)
  OBVIOUS
<1> HIDE DEF LimiterTypeOK, AllHolders, Holders
<1>4. IsFiniteSet(AllHolders) /\ IsFiniteSet(Holders(l))
  BY HoldersFinite
<1>5. Cardinality(AllHolders') = Cardinality(AllHolders) - 1
  BY <1>1, <1>2, <1>4, OneLess
<1>6. Cardinality(Holders(l)') = Cardinality(Holders(l)) - 1
  BY <1>1, <1>2, <1>4, OneLess
<1>7. Cardinality(AllHolders) # 0 /\ Cardinality(Holders(l)) # 0
  BY <1>1, <1>4, FS_EmptySet
<1> QED
  BY <1>3, <1>5, <1>6, <1>7

-----------------------------------------------------------------------------

\* Subsets of the holders have natural numbers of members, and not more.
LEMMA CountedFinite ==
    ASSUME NEW C \in SUBSET AllHolders
    PROVE  /\ IsFiniteSet(C) /\ Cardinality(C) \in Nat /\ Cardinality(C) <= Cardinality(AllHolders)
           /\ \A l : /\ IsFiniteSet(C \cap Holders(l)) /\ Cardinality(C \cap Holders(l)) \in Nat
                     /\ Cardinality(C \cap Holders(l)) <= Cardinality(C)
                     /\ Cardinality(C \cap Holders(l)) <= Cardinality(Holders(l))
<1>1. IsFiniteSet(C) /\ Cardinality(C) \in Nat /\ Cardinality(C) <= Cardinality(AllHolders)
  BY HoldersFinite, FS_Subset, FS_CardinalityType
<1>2. ASSUME NEW l
      PROVE  /\ IsFiniteSet(C \cap Holders(l)) /\ Cardinality(C \cap Holders(l)) \in Nat
             /\ Cardinality(C \cap Holders(l)) <= Cardinality(C)
             /\ Cardinality(C \cap Holders(l)) <= Cardinality(Holders(l))
  <2> DEFINE S == C \cap Holders(l)
  <2>1. S \subseteq C /\ S \subseteq Holders(l) /\ IsFiniteSet(Holders(l))
    BY HoldersFinite
  <2> HIDE DEF S
  <2>2. IsFiniteSet(S) /\ Cardinality(S) <= Cardinality(C) /\ Cardinality(S) <= Cardinality(Holders(l))
    BY <1>1, <2>1, FS_Subset
  <2>3. Cardinality(S) \in Nat
    BY <2>2, FS_CardinalityType
  <2> QED
    BY <2>2, <2>3 DEF S
<1> QED
  BY <1>1, <1>2

\* What the invariant says of the numbers of holders.
CountsFollow ==
    /\ Cardinality(AllHolders) \in Nat /\ \A l \in Lanes : Cardinality(Holders(l)) \in Nat
    /\ global <= Cardinality(AllHolders) /\ Cardinality(AllHolders) <= global + strays
    /\ \A l \in Lanes : /\ perLane[l] <= Cardinality(Holders(l))
                        /\ Cardinality(Holders(l)) <= perLane[l] + laneStrays[l]

LEMMA CountFacts ==
    LimiterInv => CountsFollow /\ WithinCaps
<1> SUFFICES ASSUME LimiterInv PROVE CountsFollow /\ WithinCaps
  OBVIOUS
<1>1. PICK C : CountedBy(C)
  BY DEF LimiterInv, CountsAreHolders, CountedBy
<1>2. /\ global <= Cardinality(AllHolders) /\ Cardinality(AllHolders) <= global + strays
      /\ \A l \in Lanes : /\ perLane[l] <= Cardinality(Holders(l))
                          /\ Cardinality(Holders(l)) <= perLane[l] + laneStrays[l]
  BY <1>1, CountedFinite DEF CountedBy, LimiterInv, CountsAreHolders
<1>3. /\ global \in Nat /\ strays \in Nat /\ Cardinality(AllHolders) \in Nat
      /\ \A l \in Lanes : perLane[l] \in Nat /\ laneStrays[l] \in Nat /\ Cardinality(Holders(l)) \in Nat
  BY HoldersFinite DEF LimiterInv, LimiterTypeOK
<1>4. GlobalCap > 0 => Cardinality(AllHolders) <= GlobalCap + strays
  BY <1>2, <1>3, LimiterAssumption DEF LimiterInv, CountsWithinCaps
<1>5. ASSUME LaneCap > 0, NEW l \in Lanes PROVE Cardinality(Holders(l)) <= LaneCap + laneStrays[l]
  <2>1. perLane[l] <= LaneCap
    BY <1>5 DEF LimiterInv, CountsWithinCaps
  <2> QED
    BY <1>2, <1>3, <2>1, LimiterAssumption
<1> QED
  BY <1>2, <1>3, <1>4, <1>5 DEF CountsFollow, WithinCaps

\* Nothing is held at the beginning.
LEMMA InitLimiterInv == LimiterInit => LimiterInv
<1> SUFFICES ASSUME LimiterInit PROVE LimiterInv
  OBVIOUS
<1>1. AllHolders = {} /\ \A l \in Lanes : Holders(l) = {}
  BY LimiterAssumption DEF LimiterInit, AllHolders, Holders
<1>2. Cardinality({}) = 0
  BY FS_EmptySet
<1>3. LimiterTypeOK
  BY DEF LimiterInit, LimiterTypeOK
<1>4. CountsAreHolders
  <2>1. \A l \in Lanes : {} \cap Holders(l) = {}
    OBVIOUS
  <2> QED
    BY <1>1, <1>2, <2>1 DEF LimiterInit, CountsAreHolders
<1>5. CountsWithinCaps /\ RefusedOnlyWhenFull
  BY LimiterAssumption DEF LimiterInit, CountsWithinCaps, RefusedOnlyWhenFull
<1> QED
  BY <1>3, <1>4, <1>5 DEF LimiterInv

\* A grant counts one holder more and stays below the caps; a refusal changes
\* nothing and meets a cap.
LEMMA AcquireStep ==
    ASSUME LimiterInv, NEW w \in Workers, NEW l \in Lanes, TryAcquire(w, l)
    PROVE  LimiterInv'
<1> USE LimiterAssumption
<1>0. /\ LimiterTypeOK /\ CountsAreHolders /\ CountsWithinCaps /\ l # NoLane
      /\ global \in Nat /\ perLane \in [Lanes -> Nat]
      /\ maxGlobal \in Nat /\ maxLane \in [Lanes -> Nat]
      /\ strays \in Nat /\ laneStrays \in [Lanes -> Nat]
      /\ holds[w] = NoLane /\ UNCHANGED strayed
  BY DEF LimiterInv, LimiterTypeOK, TryAcquire
<1>1. CASE Full(l)
  <2>1. refused' = l /\ UNCHANGED <<global, perLane, marks, holds>>
    BY <1>1 DEF TryAcquire
  <2>2. AllHolders' = AllHolders /\ \A m \in Lanes : Holders(m)' = Holders(m)
    BY <2>1 DEF AllHolders, Holders
  <2>3. LimiterTypeOK'
    BY <1>0, <2>1 DEF LimiterTypeOK, marks, strayed
  <2>4. CountsAreHolders' /\ CountsWithinCaps'
    BY <1>0, <2>1, <2>2 DEF CountsAreHolders, CountsWithinCaps, strayed
  <2>5. RefusedOnlyWhenFull'
    <3>1. /\ global <= Cardinality(AllHolders) /\ Cardinality(AllHolders) \in Nat
          /\ perLane[l] <= Cardinality(Holders(l)) /\ Cardinality(Holders(l)) \in Nat
      BY CountFacts DEF CountsFollow
    <3> QED
      BY <1>0, <1>1, <2>1, <2>2, <3>1 DEF Full, RefusedOnlyWhenFull
  <2> QED
    BY <2>3, <2>4, <2>5 DEF LimiterInv
<1>2. CASE ~Full(l)
  <2>1. /\ global' = global + 1 /\ perLane' = [perLane EXCEPT ![l] = @ + 1]
        /\ maxGlobal' = Larger(global', maxGlobal)
        /\ maxLane' = [maxLane EXCEPT ![l] = Larger(perLane'[l], @)]
        /\ holds' = [holds EXCEPT ![w] = l] /\ refused' = NoLane
    BY <1>2 DEF TryAcquire
  <2>2. /\ Cardinality(AllHolders') = Cardinality(AllHolders) + 1
        /\ Cardinality(Holders(l)') = Cardinality(Holders(l)) + 1
        /\ \A m \in Lanes \ {l} : Holders(m)' = Holders(m)
    BY <1>0, <2>1, Joining
  <2>3. LimiterTypeOK'
    BY <1>0, <2>1 DEF LimiterTypeOK, Larger, strayed
  <2>4. CountsAreHolders'
    <3>1. PICK C : CountedBy(C)
      BY <1>0 DEF CountsAreHolders, CountedBy
    <3>2. /\ C \in SUBSET AllHolders /\ global = Cardinality(C)
          /\ \A m \in Lanes : perLane[m] = Cardinality(C \cap Holders(m))
      BY <3>1 DEF CountedBy
    <3>3. /\ w \notin AllHolders /\ w \notin C
          /\ AllHolders' = AllHolders \cup {w} /\ Holders(l)' = Holders(l) \cup {w}
          /\ \A m \in Lanes \ {l} : w \notin Holders(m)
      BY <1>0, <2>1, <3>2 DEF AllHolders, Holders, LimiterTypeOK
    <3> DEFINE D == C \cup {w}
    <3>4. /\ D \in SUBSET AllHolders'
          /\ D \cap Holders(l)' = (C \cap Holders(l)) \cup {w}
          /\ \A m \in Lanes \ {l} : D \cap Holders(m)' = C \cap Holders(m)
      BY <2>2, <3>2, <3>3
    <3>5. IsFiniteSet(C) /\ IsFiniteSet(C \cap Holders(l))
      BY <3>2, CountedFinite
    <3>6. Cardinality(D) = Cardinality(C) + 1
      BY <3>3, <3>5, FS_AddElement
    <3>7. Cardinality((C \cap Holders(l)) \cup {w}) = Cardinality(C \cap Holders(l)) + 1
      BY <3>3, <3>5, FS_AddElement
    <3> HIDE DEF D
    <3>8. /\ global' = Cardinality(D)
          /\ \A m \in Lanes : perLane'[m] = Cardinality(D \cap Holders(m)')
      BY <1>0, <2>1, <3>2, <3>4, <3>6, <3>7
    <3>9. /\ Cardinality(AllHolders') <= global' + strays'
          /\ \A m \in Lanes : Cardinality(Holders(m)') <= perLane'[m] + laneStrays'[m]
      <4>1. /\ Cardinality(AllHolders) <= global + strays /\ Cardinality(AllHolders) \in Nat
            /\ \A m \in Lanes : /\ Cardinality(Holders(m)) <= perLane[m] + laneStrays[m]
                                /\ Cardinality(Holders(m)) \in Nat
        BY <1>0, HoldersFinite DEF CountsAreHolders
      <4>2. Cardinality(AllHolders') <= global' + strays'
        BY <1>0, <2>1, <2>2, <4>1 DEF strayed
      <4>3. ASSUME NEW m \in Lanes PROVE Cardinality(Holders(m)') <= perLane'[m] + laneStrays'[m]
        <5>1. perLane[m] \in Nat /\ laneStrays[m] \in Nat /\ laneStrays' = laneStrays
          BY <1>0 DEF strayed
        <5>2. CASE m = l
          BY <1>0, <2>1, <2>2, <4>1, <5>1, <5>2
        <5>3. CASE m # l
          BY <1>0, <2>1, <2>2, <4>1, <5>1, <5>3
        <5> QED
          BY <5>2, <5>3
      <4> QED
        BY <4>2, <4>3
    <3> QED
      BY <3>4, <3>8, <3>9 DEF CountsAreHolders
  <2>5. CountsWithinCaps'
    BY <1>0, <1>2, <2>1 DEF CountsWithinCaps, Full
  <2>6. RefusedOnlyWhenFull'
    BY <2>1 DEF RefusedOnlyWhenFull
  <2> QED
    BY <2>3, <2>4, <2>5, <2>6 DEF LimiterInv
<1> QED
  BY <1>1, <1>2

\* What a release leaves counted, when it is not lost on an empty lane: all but one
\* holder x of the lane, whom the limiter does not know.
LEMMA GiveStep ==
    ASSUME LimiterTypeOK, NEW C, CountedBy(C), NEW l \in Lanes, Give(l)
    PROVE  \/ /\ C \cap Holders(l) = {} /\ perLane[l] = 0
              /\ UNCHANGED <<global, perLane>>
           \/ /\ C \cap Holders(l) # {}
              /\ global' = global - 1 /\ perLane' = [perLane EXCEPT ![l] = @ - 1]
              /\ global \in Nat \ {0} /\ perLane[l] \in Nat \ {0}
<1>1. /\ C \in SUBSET AllHolders /\ global = Cardinality(C) /\ global \in Nat
      /\ perLane[l] = Cardinality(C \cap Holders(l)) /\ perLane[l] \in Nat
      /\ IsFiniteSet(C \cap Holders(l)) /\ perLane[l] <= global
  BY CountedFinite DEF CountedBy, LimiterTypeOK
<1>2. C \cap Holders(l) = {} <=> perLane[l] = 0
  BY <1>1, FS_EmptySet
<1>3. CASE perLane[l] = 0
  BY <1>1, <1>2, <1>3 DEF Give
<1>4. CASE perLane[l] # 0
  BY <1>1, <1>2, <1>4 DEF Give
<1> QED
  BY <1>3, <1>4

\* A worker that gives its slot back is no longer counted, or was not, and then
\* another holder of the lane no longer is.
LEMMA ReleaseStep ==
    ASSUME LimiterInv, NEW w \in Workers, Release(w) PROVE LimiterInv'
<1> USE LimiterAssumption
<1>1. PICK l \in Lanes : holds[w] = l
  BY DEF Release, LimiterInv, LimiterTypeOK
<1>2. /\ LimiterTypeOK /\ CountsAreHolders /\ CountsWithinCaps
      /\ global \in Nat /\ perLane \in [Lanes -> Nat]
      /\ strays \in Nat /\ laneStrays \in [Lanes -> Nat]
      /\ holds' = [holds EXCEPT ![w] = NoLane] /\ refused' = NoLane
      /\ Give(l) /\ UNCHANGED marks /\ UNCHANGED strayed
  BY <1>1 DEF Release, LimiterInv, LimiterTypeOK
<1>3. /\ Cardinality(AllHolders') = Cardinality(AllHolders) - 1
      /\ Cardinality(Holders(l)') = Cardinality(Holders(l)) - 1
      /\ \A m \in Lanes \ {l} : Holders(m)' = Holders(m)
  BY <1>1, <1>2, Leaving
<1>4. PICK C : CountedBy(C)
  BY <1>2 DEF CountsAreHolders, CountedBy
<1>5. /\ C \in SUBSET AllHolders /\ global = Cardinality(C)
      /\ \A m \in Lanes : perLane[m] = Cardinality(C \cap Holders(m))
  BY <1>4 DEF CountedBy
<1>6. /\ w \in Holders(l) /\ AllHolders' = AllHolders \ {w} /\ Holders(l)' = Holders(l) \ {w}
      /\ \A m \in Lanes \ {l} : w \notin Holders(m)
  BY <1>1, <1>2 DEF AllHolders, Holders, LimiterTypeOK
<1>7. /\ Cardinality(AllHolders) <= global + strays /\ Cardinality(AllHolders) \in Nat
      /\ \A m \in Lanes : /\ Cardinality(Holders(m)) <= perLane[m] + laneStrays[m]
                          /\ Cardinality(Holders(m)) \in Nat
                          /\ perLane[m] \in Nat /\ laneStrays[m] \in Nat
      /\ strays' = strays /\ laneStrays' = laneStrays
  BY <1>2, HoldersFinite DEF CountsAreHolders, strayed
<1>8. LimiterTypeOK' /\ CountsWithinCaps' /\ CountsAreHolders'
  <2>1. CASE C \cap Holders(l) = {} /\ UNCHANGED <<global, perLane>>
    <3>1. LimiterTypeOK' /\ CountsWithinCaps'
      BY <1>2, <2>1 DEF LimiterTypeOK, CountsWithinCaps, marks, strayed
    <3>2. C \in SUBSET AllHolders' /\ \A m \in Lanes : C \cap Holders(m)' = C \cap Holders(m)
      BY <1>3, <1>5, <1>6, <2>1
    <3>3. Cardinality(AllHolders') <= global' + strays'
      BY <1>2, <1>3, <1>7, <2>1
    <3>4. \A m \in Lanes : Cardinality(Holders(m)') <= perLane'[m] + laneStrays'[m]
      BY <1>3, <1>7, <2>1
    <3> QED
      BY <1>5, <2>1, <3>1, <3>2, <3>3, <3>4 DEF CountsAreHolders
  <2>2. CASE /\ C \cap Holders(l) # {}
             /\ global' = global - 1 /\ perLane' = [perLane EXCEPT ![l] = @ - 1]
             /\ global \in Nat \ {0} /\ perLane[l] \in Nat \ {0}
    <3>1. LimiterTypeOK'
      BY <1>2, <2>2 DEF LimiterTypeOK, marks, strayed
    <3>2. CountsWithinCaps'
      <4>1. GlobalCap > 0 => global' <= GlobalCap
        BY <1>2, <2>2 DEF CountsWithinCaps
      <4>2. ASSUME LaneCap > 0, NEW m \in Lanes PROVE perLane'[m] <= LaneCap
        <5>1. perLane'[m] <= perLane[m] /\ perLane'[m] \in Int /\ perLane[m] <= LaneCap /\ perLane[m] \in Nat
          BY <1>2, <2>2, <4>2 DEF CountsWithinCaps
        <5> QED
          BY <5>1
      <4> QED
        BY <4>1, <4>2 DEF CountsWithinCaps
    <3>3. PICK x \in C \cap Holders(l) : w \in C => x = w
      BY <1>6, <2>2
    <3> DEFINE D == C \ {x}
    <3>4. /\ Cardinality(D) = Cardinality(C) - 1
          /\ Cardinality(D \cap Holders(l)) = Cardinality(C \cap Holders(l)) - 1
          /\ \A m \in Lanes \ {l} : D \cap Holders(m) = C \cap Holders(m)
      <4>1. IsFiniteSet(C) /\ IsFiniteSet(C \cap Holders(l))
        BY <1>5, CountedFinite
      <4>2. D \cap Holders(l) = (C \cap Holders(l)) \ {x}
        OBVIOUS
      <4>3. \A m \in Lanes \ {l} : x \notin Holders(m)
        BY DEF Holders
      <4>4. \A m \in Lanes \ {l} : D \cap Holders(m) = C \cap Holders(m)
        BY <4>3
      <4>5. Cardinality(D) = Cardinality(C) - 1
        BY <4>1, OneLess
      <4>6. Cardinality((C \cap Holders(l)) \ {x}) = Cardinality(C \cap Holders(l)) - 1
        BY <4>1, OneLess
      <4> QED
        BY <4>2, <4>4, <4>5, <4>6
    <3>5. D \in SUBSET AllHolders' /\ \A m \in Lanes : D \cap Holders(m)' = D \cap Holders(m)
      <4>1. w \notin D
        BY <3>3
      <4> QED
        BY <1>3, <1>5, <1>6, <4>1
    <3> HIDE DEF D
    <3>6. /\ global' = Cardinality(D)
          /\ \A m \in Lanes : perLane'[m] = Cardinality(D \cap Holders(m)')
      BY <1>2, <1>5, <2>2, <3>4, <3>5
    <3>7. Cardinality(AllHolders') <= global' + strays'
      BY <1>2, <1>3, <1>7, <2>2
    <3>8. ASSUME NEW m \in Lanes PROVE Cardinality(Holders(m)') <= perLane'[m] + laneStrays'[m]
      <4>1. CASE m = l
        BY <1>2, <1>3, <1>7, <2>2, <4>1
      <4>2. CASE m # l
        BY <1>2, <1>3, <1>7, <2>2, <4>2
      <4> QED
        BY <4>1, <4>2
    <3> QED
      BY <3>1, <3>2, <3>5, <3>6, <3>7, <3>8 DEF CountsAreHolders
  <2> QED
    BY <1>2, <1>4, <2>1, <2>2, GiveStep
<1>9. RefusedOnlyWhenFull'
  BY <1>2 DEF RefusedOnlyWhenFull
<1> QED
  BY <1>8, <1>9 DEF LimiterInv

\* A release too many is lost on a lane nobody is counted on; otherwise somebody on
\* the lane is no longer counted, and it is one more release too many.
LEMMA StrayStep ==
    ASSUME LimiterInv, NEW l \in Lanes, StrayRelease(l) PROVE LimiterInv'
<1> USE LimiterAssumption
<1>1. /\ LimiterTypeOK /\ CountsAreHolders /\ CountsWithinCaps
      /\ global \in Nat /\ perLane \in [Lanes -> Nat]
      /\ strays \in Nat /\ laneStrays \in [Lanes -> Nat]
      /\ refused' = NoLane /\ Give(l) /\ UNCHANGED <<marks, holds>>
  BY DEF StrayRelease, LimiterInv, LimiterTypeOK
<1>2. AllHolders' = AllHolders /\ \A m \in Lanes : Holders(m)' = Holders(m)
  BY <1>1 DEF AllHolders, Holders
<1>3. PICK C : CountedBy(C)
  BY <1>1 DEF CountsAreHolders, CountedBy
<1>4. /\ C \in SUBSET AllHolders /\ global = Cardinality(C)
      /\ \A m \in Lanes : perLane[m] = Cardinality(C \cap Holders(m))
  BY <1>3 DEF CountedBy
<1>5. /\ Cardinality(AllHolders) <= global + strays /\ Cardinality(AllHolders) \in Nat
      /\ \A m \in Lanes : /\ Cardinality(Holders(m)) <= perLane[m] + laneStrays[m]
                          /\ Cardinality(Holders(m)) \in Nat
                          /\ perLane[m] \in Nat /\ laneStrays[m] \in Nat
  BY <1>1, HoldersFinite DEF CountsAreHolders
<1>6. \/ UNCHANGED strayed
      \/ strays' = strays + 1 /\ laneStrays' = [laneStrays EXCEPT ![l] = @ + 1]
  BY DEF StrayRelease
<1>7. /\ strays' \in Nat /\ strays <= strays' /\ laneStrays' \in [Lanes -> Nat]
      /\ \A m \in Lanes : laneStrays[m] <= laneStrays'[m]
  BY <1>1, <1>6 DEF strayed
<1>8. LimiterTypeOK' /\ CountsWithinCaps' /\ CountsAreHolders'
  <2>1. CASE UNCHANGED <<global, perLane>>
    <3>1. LimiterTypeOK' /\ CountsWithinCaps'
      BY <1>1, <1>7, <2>1 DEF LimiterTypeOK, CountsWithinCaps, marks
    <3>2. Cardinality(AllHolders') <= global' + strays'
      BY <1>1, <1>2, <1>5, <1>7, <2>1
    <3>3. ASSUME NEW m \in Lanes PROVE Cardinality(Holders(m)') <= perLane'[m] + laneStrays'[m]
      <4>1. laneStrays'[m] \in Nat /\ laneStrays[m] <= laneStrays'[m] /\ perLane'[m] = perLane[m]
        BY <1>7, <2>1
      <4> QED
        BY <1>2, <1>5, <4>1
    <3> QED
      BY <1>2, <1>4, <2>1, <3>1, <3>2, <3>3 DEF CountsAreHolders
  <2>2. CASE /\ C \cap Holders(l) # {}
             /\ global' = global - 1 /\ perLane' = [perLane EXCEPT ![l] = @ - 1]
             /\ global \in Nat \ {0} /\ perLane[l] \in Nat \ {0}
    <3>1. LimiterTypeOK'
      BY <1>1, <1>7, <2>2 DEF LimiterTypeOK, marks
    <3>2. CountsWithinCaps'
      <4>1. GlobalCap > 0 => global' <= GlobalCap
        BY <1>1, <2>2 DEF CountsWithinCaps
      <4>2. ASSUME LaneCap > 0, NEW m \in Lanes PROVE perLane'[m] <= LaneCap
        <5>1. perLane'[m] <= perLane[m] /\ perLane'[m] \in Int /\ perLane[m] <= LaneCap /\ perLane[m] \in Nat
          BY <1>1, <2>2, <4>2 DEF CountsWithinCaps
        <5> QED
          BY <5>1
      <4> QED
        BY <4>1, <4>2 DEF CountsWithinCaps
    <3>3. strays' = strays + 1 /\ laneStrays' = [laneStrays EXCEPT ![l] = @ + 1]
      BY <2>2 DEF StrayRelease
    <3>4. PICK x \in C \cap Holders(l) : TRUE
      BY <2>2
    <3> DEFINE D == C \ {x}
    <3>5. /\ Cardinality(D) = Cardinality(C) - 1
          /\ Cardinality(D \cap Holders(l)) = Cardinality(C \cap Holders(l)) - 1
          /\ \A m \in Lanes \ {l} : D \cap Holders(m) = C \cap Holders(m)
      <4>1. IsFiniteSet(C) /\ IsFiniteSet(C \cap Holders(l))
        BY <1>4, CountedFinite
      <4>2. D \cap Holders(l) = (C \cap Holders(l)) \ {x}
        OBVIOUS
      <4>3. \A m \in Lanes \ {l} : x \notin Holders(m)
        BY DEF Holders
      <4>4. \A m \in Lanes \ {l} : D \cap Holders(m) = C \cap Holders(m)
        BY <4>3
      <4>5. Cardinality(D) = Cardinality(C) - 1
        BY <4>1, OneLess
      <4>6. Cardinality((C \cap Holders(l)) \ {x}) = Cardinality(C \cap Holders(l)) - 1
        BY <4>1, OneLess
      <4> QED
        BY <4>2, <4>4, <4>5, <4>6
    <3>6. D \in SUBSET AllHolders
      BY <1>4
    <3> HIDE DEF D
    <3>7. /\ global' = Cardinality(D)
          /\ \A m \in Lanes : perLane'[m] = Cardinality(D \cap Holders(m))
      BY <1>1, <1>4, <2>2, <3>5
    <3>8. Cardinality(AllHolders') <= global' + strays'
      BY <1>1, <1>2, <1>5, <2>2, <3>3
    <3>9. ASSUME NEW m \in Lanes PROVE Cardinality(Holders(m)') <= perLane'[m] + laneStrays'[m]
      <4>1. CASE m = l
        BY <1>1, <1>2, <1>5, <2>2, <3>3, <4>1
      <4>2. CASE m # l
        BY <1>1, <1>2, <1>5, <2>2, <3>3, <4>2
      <4> QED
        BY <4>1, <4>2
    <3> QED
      BY <1>2, <3>1, <3>2, <3>6, <3>7, <3>8, <3>9 DEF CountsAreHolders
  <2> QED
    BY <1>1, <1>3, <2>1, <2>2, GiveStep
<1>9. RefusedOnlyWhenFull'
  BY <1>1 DEF RefusedOnlyWhenFull
<1> QED
  BY <1>8, <1>9 DEF LimiterInv

LEMMA NextLimiterInv == LimiterInv /\ [LimiterNext]_limiterVars => LimiterInv'
<1> SUFFICES ASSUME LimiterInv, [LimiterNext]_limiterVars PROVE LimiterInv'
  OBVIOUS
<1>1. CASE UNCHANGED limiterVars
  <2>1. AllHolders' = AllHolders /\ \A m \in Lanes : Holders(m)' = Holders(m)
    BY <1>1 DEF limiterVars, AllHolders, Holders
  <2>2. LimiterTypeOK'
    BY <1>1 DEF LimiterInv, limiterVars, marks, strayed, LimiterTypeOK
  <2>3. CountsAreHolders' /\ CountsWithinCaps'
    BY <1>1, <2>1 DEF LimiterInv, limiterVars, strayed, CountsAreHolders, CountsWithinCaps
  <2>4. RefusedOnlyWhenFull'
    BY <1>1, <2>1 DEF LimiterInv, limiterVars, LimiterTypeOK, RefusedOnlyWhenFull
  <2> QED
    BY <2>2, <2>3, <2>4 DEF LimiterInv
<1> QED
  BY <1>1, AcquireStep, ReleaseStep, StrayStep DEF LimiterNext

\* No slot is leaked, with any number of workers and lanes and however many releases
\* too many: the counts are those of the holders, but for one at most for each
\* release too many on an occupied lane.
THEOREM NoSlotLost == LimiterSpec => []CountsAreHolders
<1>1. LimiterInv => CountsAreHolders
  BY DEF LimiterInv
<1> QED
  BY InitLimiterInv, NextLimiterInv, <1>1, PTL DEF LimiterSpec

\* The caps hold for the workers, not only for the counts, but for one worker for
\* each release too many.
THEOREM CapsHold == LimiterSpec => []WithinCaps
<1>1. LimiterInv => WithinCaps
  BY CountFacts
<1> QED
  BY InitLimiterInv, NextLimiterInv, <1>1, PTL DEF LimiterSpec

\* TryAcquire refuses only when as many slots are held as a cap allows.
THEOREM RefusalsJustified == LimiterSpec => []RefusedOnlyWhenFull
<1>1. LimiterInv => RefusedOnlyWhenFull
  BY DEF LimiterInv
<1> QED
  BY InitLimiterInv, NextLimiterInv, <1>1, PTL DEF LimiterSpec

\* The marks are not below the counts.
Marked == maxGlobal >= global /\ \A l \in Lanes : maxLane[l] >= perLane[l]

LEMMA LargerFacts ==
    \A a, b \in Nat : Larger(a, b) = Larger(b, a) /\ Larger(a, b) >= b /\ (b <= a => Larger(a, b) = a)
BY DEF Larger

\* In every step the marks become the maxima of what they were and the counts.
LEMMA MarksStep ==
    ASSUME LimiterTypeOK, LimiterTypeOK', Marked, [LimiterNext]_limiterVars
    PROVE  /\ maxGlobal' = Larger(maxGlobal, global')
           /\ \A l \in Lanes : maxLane'[l] = Larger(maxLane[l], perLane'[l])
<1> USE DEF LimiterTypeOK
<1>1. CASE global' <= global /\ (\A l \in Lanes : perLane'[l] <= perLane[l]) /\ UNCHANGED marks
  <2>1. global' <= maxGlobal /\ \A l \in Lanes : perLane'[l] <= maxLane[l]
    BY <1>1 DEF Marked
  <2> QED
    BY <1>1, <2>1, LargerFacts DEF marks
<1>2. CASE UNCHANGED <<global, perLane, marks>>
  BY <1>1, <1>2 DEF Marked
<1>3. ASSUME NEW l \in Lanes, Give(l), UNCHANGED marks
      PROVE  global' <= global /\ \A m \in Lanes : perLane'[m] <= perLane[m]
  <2>1. CASE UNCHANGED <<global, perLane>>
    BY <2>1
  <2>2. CASE global' = global - 1 /\ perLane' = [perLane EXCEPT ![l] = @ - 1]
    BY <2>2
  <2> QED
    BY <1>3, <2>1, <2>2 DEF Give
<1>4. ASSUME NEW w \in Workers, NEW l \in Lanes, TryAcquire(w, l), ~Full(l)
      PROVE  /\ maxGlobal' = Larger(maxGlobal, global')
             /\ \A m \in Lanes : maxLane'[m] = Larger(maxLane[m], perLane'[m])
  <2>1. /\ maxGlobal' = Larger(global', maxGlobal) /\ perLane' = [perLane EXCEPT ![l] = @ + 1]
        /\ maxLane' = [maxLane EXCEPT ![l] = Larger(perLane'[l], @)]
    BY <1>4 DEF TryAcquire
  <2>2. maxLane'[l] = Larger(perLane'[l], maxLane[l])
    BY <2>1
  <2>3. ASSUME NEW m \in Lanes \ {l} PROVE maxLane'[m] = Larger(maxLane[m], perLane'[m])
    <3>1. maxLane'[m] = maxLane[m] /\ perLane'[m] = perLane[m] /\ perLane[m] <= maxLane[m]
      BY <2>1 DEF Marked
    <3> QED
      BY <3>1, LargerFacts
  <2> QED
    BY <2>1, <2>2, <2>3, LargerFacts
<1>5. ASSUME NEW w \in Workers, NEW l \in Lanes, TryAcquire(w, l), Full(l)
      PROVE  UNCHANGED <<global, perLane, marks>>
  BY <1>5 DEF TryAcquire
<1>6. ASSUME NEW w \in Workers, Release(w)
      PROVE  /\ global' <= global /\ UNCHANGED marks
             /\ \A m \in Lanes : perLane'[m] <= perLane[m]
  BY <1>3, <1>6 DEF Release
<1>7. ASSUME NEW l \in Lanes, StrayRelease(l)
      PROVE  /\ global' <= global /\ UNCHANGED marks
             /\ \A m \in Lanes : perLane'[m] <= perLane[m]
  BY <1>3, <1>7 DEF StrayRelease
<1>8. CASE UNCHANGED limiterVars
  BY <1>2, <1>8 DEF limiterVars, marks
<1> QED
  BY <1>1, <1>2, <1>4, <1>5, <1>6, <1>7, <1>8 DEF LimiterNext

\* A mark that is the maximum of the counts observes the holders.
LEMMA ObservesFacts ==
    ASSUME NEW mark \in Nat, NEW count \in Nat, NEW held \in Nat, NEW hidden \in Nat,
           count <= held, held <= count + hidden
    PROVE  Observes(mark, Larger(mark, count), held, hidden)
BY DEF Observes, Larger

\* The high-water marks of the report follow the slots held, overall and on each
\* lane: no acquisition passes without being seen, and a release never lowers them
\* (TryAcquire alone writes them).
THEOREM MarksAreMaxima == LimiterSpec => HighWater
<1> DEFINE Seen == /\ Observes(maxGlobal, maxGlobal', Cardinality(AllHolders'), strays')
                   /\ \A l \in Lanes : Observes(maxLane[l], maxLane'[l],
                                                Cardinality(Holders(l)'), laneStrays'[l])
<1>1. LimiterInit => LimiterInv /\ Marked
  BY InitLimiterInv DEF LimiterInit, Marked
<1>2. LimiterInv /\ Marked /\ [LimiterNext]_limiterVars => LimiterInv' /\ Marked' /\ Seen
  <2> SUFFICES ASSUME LimiterInv, Marked, [LimiterNext]_limiterVars
               PROVE  LimiterInv' /\ Marked' /\ Seen
    OBVIOUS
  <2>1. LimiterInv' /\ LimiterTypeOK /\ LimiterTypeOK'
    BY NextLimiterInv DEF LimiterInv
  <2>2. /\ maxGlobal' = Larger(maxGlobal, global')
        /\ \A l \in Lanes : maxLane'[l] = Larger(maxLane[l], perLane'[l])
    BY <2>1, MarksStep
  <2>3. Marked'
    BY <2>1, <2>2, LargerFacts DEF Marked, LimiterTypeOK
  <2>4. CountsFollow'
    BY <2>1, CountFacts, PTL
  <2>5. /\ maxGlobal \in Nat /\ global' \in Nat /\ strays' \in Nat
        /\ \A l \in Lanes : maxLane[l] \in Nat /\ perLane'[l] \in Nat /\ laneStrays'[l] \in Nat
    BY <2>1 DEF LimiterTypeOK
  <2>6. Observes(maxGlobal, maxGlobal', Cardinality(AllHolders'), strays')
    BY <2>2, <2>4, <2>5, ObservesFacts DEF CountsFollow
  <2>7. ASSUME NEW l \in Lanes
        PROVE  Observes(maxLane[l], maxLane'[l], Cardinality(Holders(l)'), laneStrays'[l])
    BY <2>2, <2>4, <2>5, ObservesFacts DEF CountsFollow
  <2> QED
    BY <2>1, <2>3, <2>6, <2>7
<1> QED
  BY <1>1, <1>2, PTL DEF LimiterSpec, HighWater

=============================================================================
