------------------------------ MODULE MCBilling ------------------------------
(* Instances of billing.  Handlers of webhooks, and of requests, are symmetric. *)
EXTENDS Billing, TLC

MCSymmetry == Permutations(Workers) \cup Permutations(Requests)
=============================================================================
