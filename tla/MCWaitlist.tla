----------------------------- MODULE MCWaitlist -----------------------------
(* Instances of the waitlist of a campaign.                                 *)
EXTENDS Waitlist

MCSignupLimits == {1, 2}
=============================================================================
