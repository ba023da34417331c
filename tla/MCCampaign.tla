----------------------------- MODULE MCCampaign -----------------------------
(* Instances of the campaign requests.  Requests and slugs are symmetric.   *)
EXTENDS Campaign, TLC

Free == [limit |-> 1, features |-> {}]
Team == [limit |-> NoLimit, features |-> {"anti_spam_protection", "tracking_pixels"}]
MCPlans == {Free, Team}

Field(k) == [key |-> k, val |-> "v"]

\* The captcha with a site key, and two form fields.
Guarded == [single |-> [form |-> [flag |-> TRUE, opt |-> "key"]],
            list |-> [fields |-> <<Field("a"), Field("b")>>]]
\* The form settings without a site key, a share message, a tracking integration.
Tracked == [single |-> [form |-> [flag |-> FALSE, opt |-> Absent]],
            list |-> [messages |-> <<Field("a")>>, tracking |-> <<Field("a")>>]]
\* The settings that need no plan, and a list that names a key twice.
Doubled == [single |-> [t \in {"email", "branding", "referral"} |-> [flag |-> TRUE, opt |-> Absent]],
            list |-> [fields |-> <<Field("c"), Field("c")>>]]
MCPayloads == {Guarded, Tracked, Doubled}

MCSymmetry == Permutations(Requests) \cup Permutations(Slugs)
=============================================================================
