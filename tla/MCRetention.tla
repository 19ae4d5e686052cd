---------------------------- MODULE MCRetention -----------------------------
(* Interchangeable cases over two signatures and two scores. *)
EXTENDS Retention, TLC

CONSTANTS c1, c2, c3, c4

ThreeCases == {c1, c2, c3}
TwoCases == {c1, c2}
CaseSymmetry == Permutations(CaseIds)
=============================================================================
