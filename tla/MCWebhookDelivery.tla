------------------------- MODULE MCWebhookDelivery -------------------------
(* Instances of WebhookDelivery for TLC. *)
EXTENDS WebhookDelivery, TLC

CONSTANTS s1, h1, h2
MCServers == {s1}
MCWebhooks == {h1, h2}
MCLimits == {1, 3}
============================================================================
