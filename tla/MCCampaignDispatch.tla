------------------------- MODULE MCCampaignDispatch -------------------------
(* Instances of CampaignDispatch for TLC: one template for every campaign,  *)
(* one campaign for every delivery.                                         *)
EXTENDS CampaignDispatch

MCTemplateOf == [c \in Campaign |-> CHOOSE t \in Template : TRUE]
MCCampaignOf == [d \in Delivery |-> CHOOSE c \in Campaign : TRUE]
=============================================================================
