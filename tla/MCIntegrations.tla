--------------------------- MODULE MCIntegrations ---------------------------
(* One key; one event that one of the two kinds of subscription wants.     *)
EXTENDS Integrations, TLC

MCOwner == [k \in Keys |-> IF k = "k1" THEN "a1" ELSE "a2"]
AnyCampaign == [type |-> "created", campaign |-> NoCampaign]
OneCampaign == [type |-> "created", campaign |-> "c1"]
MCFilters == {AnyCampaign, OneCampaign}
MCEvents == {[account |-> "a1", type |-> "created", campaign |-> "c2"]}
MCSymmetry == Permutations(Requests)
=============================================================================
