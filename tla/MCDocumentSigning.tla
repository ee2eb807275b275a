------------------------- MODULE MCDocumentSigning -------------------------
(***************************************************************************)
(* Instances of DocumentSigning for TLC: two organizations, o1 with two    *)
(* deliveries in one campaign or with three, o2 with one.                  *)
(***************************************************************************)
EXTENDS DocumentSigning, TLC

\* One delivery expires before the clock stops, where the clock runs at all.
MCExpiresAt ==
  [d \in Delivery |-> IF d = Max(Delivery) /\ MaxTime > 0 THEN MaxTime - 1 ELSE MaxTime]

\* The highest id belongs to another organization than the others.
MCTwoOrgs == [d \in Delivery |-> IF d = Max(Delivery) THEN "o2" ELSE "o1"]
MCOneOrg == [d \in Delivery |-> "o1"]

MCCampaignOf == [d \in Delivery |-> IF d = Max(Delivery) THEN "c2" ELSE "c1"]
MCOneCampaign == [d \in Delivery |-> "c1"]

\* One of the contents names no signature method, if there are several.
MCMethodOf ==
  [f \in Form |-> IF Cardinality(Form) > 1 /\ f = CHOOSE g \in Form : TRUE
                    THEN NoMethod ELSE f]

\* Requests are interchangeable.
MCSymmetry == Permutations(SignRequest) \cup Permutations(OtpRequest)
=============================================================================
