------------------------- MODULE DocumentDeliveries -------------------------
(***************************************************************************)
(* The columns of document_deliveries that are fixed when a campaign       *)
(* creates the row (models/document_deliveries.py,                         *)
(* services/document_campaign_service.py).  A delivery is its id, which    *)
(* also stands for its unique_token.                                       *)
(***************************************************************************)
EXTENDS Integers, FiniteSets

CONSTANTS
  Delivery,    \* ids of the deliveries
  MaxDelivery, \* the highest id that may occur
  OrgOf,       \* organization_id
  CampaignOf,  \* campaign_id
  ExpiresAt    \* expires_at

ASSUME DeliveryAssumption ==
  /\ MaxDelivery \in Nat
  /\ Delivery \subseteq 1..MaxDelivery
  /\ DOMAIN OrgOf = Delivery
  /\ DOMAIN CampaignOf = Delivery
  /\ ExpiresAt \in [Delivery -> Nat]

Campaign == {CampaignOf[d] : d \in Delivery}
=============================================================================
