---------------------------- MODULE MCNonceLease ----------------------------
(* Three lanes over two addresses; the lanes are interchangeable. *)
EXTENDS NonceLease, TLC

CONSTANTS l1, l2, l3, a1, a2

LanesValue == {l1, l2, l3}
AddrsValue == {a1, a2}
=============================================================================
