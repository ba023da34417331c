------------------------------- MODULE MCLeads -------------------------------
(* Instances of the users of a campaign.  Analysts, requests
   and the two addresses that are alike are symmetric. *)
EXTENDS Leads, TLC

CONSTANTS a1, a2, a3, i1, r1, r2, w1, w2
MCEmails == {a1, a2, a3}
MCDisposable == {a3}
MCIps == {i1}
MCSimilar(a, b) == {a, b} = {a1, a2}
MCSymmetry == Permutations(Analysts) \cup Permutations(Requests) \cup Permutations({a1, a2})
=============================================================================
