-------------------------- MODULE CampaignPipeline --------------------------
(***************************************************************************)
(* What a campaign promises, whichever runner executes it: cases are       *)
(* submitted and finalised in order, at most Window of them lie between    *)
(* the two, every finalised case gets one verdict and keeps it, and the    *)
(* campaign is complete only when all of its cases have one.               *)
(***************************************************************************)
EXTENDS Naturals

CONSTANTS Cases,  \* the number of cases
          Window  \* how many may be submitted and not finalised

VARIABLES submitted,  \* cases submitted so far
          finalized,  \* cases finalised so far
          verdict,    \* verdict[i]: the fate recorded for case i, or "none"
          status      \* "running", "complete" or "aborted"

vars == <<submitted, finalized, verdict, status>>

Verdicts == {"rejected", "included", "unresolved", "open"}

Init ==
    /\ submitted = 0 /\ finalized = 0
    /\ verdict = [i \in 1..Cases |-> "none"]
    /\ status = "running"

Submit ==
    /\ status = "running"
    /\ submitted < Cases /\ submitted - finalized < Window
    /\ submitted' = submitted + 1
    /\ UNCHANGED <<finalized, verdict, status>>

Finalize ==
    /\ status = "running"
    /\ finalized < submitted
    /\ finalized' = finalized + 1
    /\ \E v \in Verdicts : verdict' = [verdict EXCEPT ![finalized'] = v]
    /\ UNCHANGED <<submitted, status>>

Complete ==
    /\ status = "running"
    /\ finalized = Cases
    /\ status' = "complete"
    /\ UNCHANGED <<submitted, finalized, verdict>>

Abort ==
    /\ status = "running"
    /\ status' = "aborted"
    /\ UNCHANGED <<submitted, finalized, verdict>>

Next == Submit \/ Finalize \/ Complete \/ Abort

Spec == Init /\ [][Next]_vars
=============================================================================
