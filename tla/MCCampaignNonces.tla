-------------------------- MODULE MCCampaignNonces --------------------------
(* Instances of a campaign's nonces. *)
EXTENDS CampaignNonces
=============================================================================
