---------------------------- MODULE MCCampaignV2 ----------------------------
(* Instances of the v2 campaign. *)
EXTENDS CampaignV2
=============================================================================
