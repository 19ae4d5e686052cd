-------------------------- MODULE MCCampaignLegacy --------------------------
(* Instances of the legacy campaign. *)
EXTENDS CampaignLegacy
=============================================================================
