------------------------- MODULE MCInFlightLimiter --------------------------
(* Interchangeable workers over interchangeable lanes. *)
EXTENDS InFlightLimiter, TLC

CONSTANTS w1, w2, w3, w4, la, lb

WorkersValue == {w1, w2, w3, w4}
LanesValue == {la, lb}
=============================================================================
