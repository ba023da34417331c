----------------------------- MODULE MCSegments -----------------------------
(* Two campaigns that share an address.  Requests are symmetric. *)
EXTENDS Segments, TLC

CONSTANTS u1, u2, u3, c1, c2, m1, m2, r1, r2, w1
MCCampaign == u1 :> c1 @@ u2 :> c2 @@ u3 :> c1
MCAddress == u1 :> m1 @@ u2 :> m1 @@ u3 :> m2
MCFirst == u1 :> "verified" @@ u2 :> "pending" @@ u3 :> "verified"
MCSymmetry == Permutations(Requests)
=============================================================================
