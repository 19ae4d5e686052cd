----------------------------- MODULE MCSpamLoop -----------------------------
(* Instances of the spam loop. *)
EXTENDS SpamLoop
=============================================================================
