-------------------------- MODULE MCEventConsumer --------------------------
(* Instances of the event consumer.                                        *)
EXTENDS EventConsumer

MCMalformed == {2}
MCNoMalformed == {}
MCAllErrors == {"own", "cancelled"}
=============================================================================
