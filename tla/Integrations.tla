---------------------------- MODULE Integrations ----------------------------
(***************************************************************************)
(* API keys and Zapier subscriptions: internal/apikeys, the REST hooks and *)
(* the management endpoints of internal/integrations/zapier, the consumer  *)
(* that hands events to internal/integrations/service, and the goroutines  *)
(* that deliver them.  A request is the key check of the middleware        *)
(* followed by the statements of its handler; nothing holds them together. *)
(* An event is committed when its goroutines have been started, whatever   *)
(* becomes of them: a crash ends them, and nothing retries a delivery.     *)
(*                                                                         *)
(* Names, URLs, hashes, error texts and times are left out.  A delivery is *)
(* one record for the goroutine and its row of integration_deliveries.     *)
(***************************************************************************)
EXTENDS Integers, Sequences, FiniteSets, FiniteSetsExt, SequencesExt

CONSTANTS
  Accounts,
  Keys,         \* API keys that may be created
  Owner,        \* the account of each key
  ZapierKeys,   \* the keys whose scopes open the Zapier endpoints
  Requests,     \* requests in flight at once
  Filters,      \* what a subscription asks for: a type, and a campaign or none
  Events,       \* events, each published once: account, type, campaign
  MaxSubs,      \* bound: subscriptions created
  MaxOps,       \* bound: requests made
  MaxFailures,  \* bound: failed statements and crashes
  MaxChanges    \* bound: changes of a plan and expiries of a key

NoCampaign == "no campaign"   \* of a filter or of an event

ASSUME IntegrationsAssumption ==
  /\ Owner \in [Keys -> Accounts] /\ ZapierKeys \subseteq Keys
  /\ IsFiniteSet(Requests) /\ Requests # {}
  /\ \A e \in Events : e.account \in Accounts
  /\ {MaxSubs, MaxOps, MaxFailures, MaxChanges} \subseteq Nat

VARIABLES
  key,        \* rows of api_keys
  sub,        \* rows of integration_subscriptions, in order of creation
  event,      \* per event: not published, waiting in the topic, or committed
  delivery,   \* deliveries, in the order their goroutines were started
  plan,       \* the accounts whose plan has webhooks_zapier
  req,        \* per request: the statement it is at and its locals
  ops, failures, changes,  \* counters of the bounds
  window      \* window: per key, those under way when it ceased to be valid

counters == <<ops, failures, changes>>
vars == <<key, sub, event, delivery, plan, req, counters, window>>

Idle == [op |-> "none", pc |-> "idle", key |-> "none", account |-> "none", sub |-> 0,
         list |-> {}, listed |-> {}, skipped |-> FALSE, done |-> FALSE]

Init ==
  /\ key = [k \in Keys |-> "none"]
  /\ sub = <<>> /\ delivery = <<>>
  /\ event = [e \in Events |-> "none"]
  /\ plan \in SUBSET Accounts
  /\ req = [r \in Requests |-> Idle]
  /\ ops = 0 /\ failures = 0 /\ changes = 0
  /\ window = [k \in Keys |-> 0]

-----------------------------------------------------------------------------
(* The statements of the store.                                            *)

\* Mutant: status and expiry are not part of the query.
ValidKeyAny(k) == key[k] # "none"

\* GetAPIKeyByHash finds active keys that have not expired.
ValidKey(k) == key[k] = "active"

\* Soft deletion: these are the rows every query sees.
Live == {s \in DOMAIN sub : ~sub[s].deleted}
OfAccount(a) == {s \in Live : sub[s].account = a}

\* Without a campaign in the event the query has no condition on campaigns.
Wants(filter, e) ==
  filter.type = e.type /\ (e.campaign = NoCampaign \/ filter.campaign \in {NoCampaign, e.campaign})
ActiveFor(e) == {s \in OfAccount(e.account) : Wants(sub[s].filter, e)}

Deleted(s) == sub' = IF s \in Live THEN [sub EXCEPT ![s].deleted = TRUE] ELSE sub

\* A statement fails; the bound counts it.
Fails == failures < MaxFailures /\ failures' = failures + 1 /\ UNCHANGED <<ops, changes>>

-----------------------------------------------------------------------------
(* API keys                                                                *)

CreateAPIKey(k) ==
  /\ key[k] = "none"
  /\ key' = [key EXCEPT ![k] = "active"]
  /\ UNCHANGED <<sub, event, delivery, plan, req, counters, window>>

Ends(k, status) ==
  /\ key' = [key EXCEPT ![k] = status]
  /\ window' = IF key[k] = "active"
               THEN [window EXCEPT ![k] =
                       Cardinality({r \in Requests : req[r].pc # "idle" /\ req[r].key = k})]
               ELSE window

\* A key is revoked once, expired or not; its subscriptions are not touched.
RevokeAPIKey(k) ==
  /\ key[k] \in {"active", "expired"} /\ ops < MaxOps /\ ops' = ops + 1
  /\ Ends(k, "revoked")
  /\ UNCHANGED <<sub, event, delivery, plan, req, failures, changes>>

Expire(k) ==
  /\ key[k] = "active" /\ changes < MaxChanges /\ changes' = changes + 1
  /\ Ends(k, "expired")
  /\ UNCHANGED <<sub, event, delivery, plan, req, ops, failures>>

-----------------------------------------------------------------------------
(* Requests with a key                                                     *)

Goes(r, rec) == req' = [req EXCEPT ![r] = rec]
\* What is answered is left out, except for a disconnection.
Answered == Idle
At(r, pc) == [req[r] EXCEPT !.pc = pc]

\* APIKeyMiddleware, in front of both handlers.
APIKeyMiddleware(r, k) ==
  /\ req[r].pc = "idle" /\ ops < MaxOps /\ ops' = ops + 1
  /\ \E new \in [op : {"subscribe"}, pc : {"feature"}, sub : {0}]
           \cup [op : {"unsubscribe"}, pc : {"get"}, sub : DOMAIN sub] :
       LET start == [Idle EXCEPT !.op = new.op, !.sub = new.sub, !.key = k, !.account = Owner[k]]
           opens == ValidKey(k) /\ k \in ZapierKeys
       IN Goes(r, IF opens THEN [start EXCEPT !.pc = new.pc] ELSE Answered)
  /\ UNCHANGED <<key, sub, event, delivery, plan, failures, changes, window>>

CheckZapierFeature(r) ==
  /\ req[r].pc = "feature"
  /\ Goes(r, IF req[r].account \in plan THEN At(r, "insert") ELSE Answered)
  /\ UNCHANGED <<key, sub, event, delivery, plan, counters, window>>

\* Nothing makes a subscription unique.  late: the key was no longer valid.
CreateIntegrationSubscription(r) ==
  /\ req[r].pc = "insert" /\ Len(sub) < MaxSubs
  /\ \E f \in Filters :
       sub' = Append(sub, [account |-> req[r].account, key |-> req[r].key, filter |-> f,
                           deleted |-> FALSE, triggers |-> 0, errors |-> 0,
                           late |-> key[req[r].key] # "active"])
  /\ Goes(r, Answered)
  /\ UNCHANGED <<key, event, delivery, plan, counters, window>>

GetIntegrationSubscriptionByID(r) ==
  /\ req[r].pc = "get"
  /\ Goes(r, IF req[r].sub \in OfAccount(req[r].account) THEN At(r, "delete") ELSE Answered)
  /\ UNCHANGED <<key, sub, event, delivery, plan, counters, window>>

DeleteIntegrationSubscription(r) ==
  /\ req[r].pc = "delete"
  /\ Deleted(req[r].sub)
  /\ Goes(r, Answered)
  /\ UNCHANGED <<key, event, delivery, plan, counters, window>>

-----------------------------------------------------------------------------
(* HandleDisconnect: the subscriptions are listed, then deleted one by one *)

ListSubscriptions(r, a) ==
  /\ req[r].pc = "idle" /\ ops < MaxOps /\ ops' = ops + 1
  /\ Goes(r, [Idle EXCEPT !.op = "disconnect", !.account = a, !.pc = "each",
                          !.list = OfAccount(a), !.listed = OfAccount(a)])
  /\ UNCHANGED <<key, sub, event, delivery, plan, failures, changes, window>>

\* Mutant: the loop ends at the first error, and "not found" is one.
DeleteEachUntilError(r) ==
  /\ req[r].pc = "each" /\ req[r].list # {}
  /\ LET s == Max(req[r].list)
         rest == [req[r] EXCEPT !.list = @ \ {s}]
     IN \/ /\ Deleted(s) /\ UNCHANGED counters
           /\ Goes(r, IF s \in Live THEN rest ELSE [rest EXCEPT !.list = {}])
        \/ /\ Fails /\ UNCHANGED sub
           /\ Goes(r, [rest EXCEPT !.skipped = TRUE])
  /\ UNCHANGED <<key, event, delivery, plan, window>>

\* Newest first; an error is logged and the loop goes on.
DeleteEach(r) ==
  /\ req[r].pc = "each" /\ req[r].list # {}
  /\ LET s == Max(req[r].list)
         rest == [req[r] EXCEPT !.list = @ \ {s}]
     IN \/ Deleted(s) /\ Goes(r, rest) /\ UNCHANGED counters
        \/ Fails /\ UNCHANGED sub /\ Goes(r, [rest EXCEPT !.skipped = TRUE])
  /\ UNCHANGED <<key, event, delivery, plan, window>>

Disconnected(r) ==
  /\ req[r].pc = "each" /\ req[r].list = {}
  /\ Goes(r, [At(r, "idle") EXCEPT !.done = TRUE])
  /\ UNCHANGED <<key, sub, event, delivery, plan, counters, window>>

StatementFails(r) ==
  /\ req[r].pc \in {"feature", "insert", "get", "delete"}
  /\ Fails
  /\ Goes(r, Answered)
  /\ UNCHANGED <<key, sub, event, delivery, plan, window>>

-----------------------------------------------------------------------------
(* Events and deliveries                                                   *)

Publish(e) ==
  /\ event[e] = "none"
  /\ event' = [event EXCEPT ![e] = "queued"]
  /\ UNCHANGED <<key, sub, delivery, plan, req, counters, window>>

Started(s, e) == [sub |-> s, event |-> e, pc |-> "create", status |-> "none"]

\* DeliverEvent selects the subscriptions, in no order, and starts a goroutine for
\* each; the event is committed after that.
DeliverEvent(e) ==
  /\ event[e] = "queued"
  /\ delivery' = delivery \o [i \in 1 .. Cardinality(ActiveFor(e)) |->
                                Started(SetToSeq(ActiveFor(e))[i], e)]
  /\ event' = [event EXCEPT ![e] = "done"]
  /\ UNCHANGED <<key, sub, plan, req, counters, window>>

\* The query fails: the consumer drops the error, the event is committed.
DeliverEventFails(e) ==
  /\ event[e] = "queued"
  /\ Fails
  /\ event' = [event EXCEPT ![e] = "done"]
  /\ UNCHANGED <<key, sub, delivery, plan, req, window>>

CreateDelivery(d) ==
  /\ delivery[d].pc = "create"
  /\ \/ /\ delivery' = [delivery EXCEPT ![d].pc = "call", ![d].status = "pending"]
        /\ UNCHANGED counters
     \/ Fails /\ delivery' = [delivery EXCEPT ![d].pc = "failed"]
  /\ UNCHANGED <<key, sub, event, plan, req, window>>

\* The call of the target, with a time-out: any answer but 2xx is a failure.
Deliver(d) ==
  /\ delivery[d].pc = "call"
  /\ \E answer \in {"ok", "bad"} : delivery' = [delivery EXCEPT ![d].pc = answer]
  /\ UNCHANGED <<key, sub, event, plan, req, counters, window>>

\* The row gets the outcome; its error is dropped and the count follows.
UpdateDeliveryStatus(d) ==
  LET ok == delivery[d].pc = "ok"
      next == IF ok THEN "count_ok" ELSE "count_bad"
  IN
  /\ delivery[d].pc \in {"ok", "bad"}
  /\ \/ /\ delivery' = [delivery EXCEPT ![d].pc = next,
                          ![d].status = IF ok THEN "success" ELSE "failed"]
        /\ UNCHANGED counters
     \/ Fails /\ delivery' = [delivery EXCEPT ![d].pc = next]
  /\ UNCHANGED <<key, sub, event, plan, req, window>>

\* Mutant: a failed delivery counts as a trigger too.
CountTrigger(d) ==
  /\ delivery[d].pc \in {"count_ok", "count_bad"}
  /\ delivery' = [delivery EXCEPT ![d].pc = "done"]
  /\ \/ /\ sub' = [sub EXCEPT ![delivery[d].sub].triggers = @ + 1]
        /\ UNCHANGED counters
     \/ Fails /\ UNCHANGED sub
  /\ UNCHANGED <<key, event, plan, req, window>>

\* The counters of the subscription, deleted or not.
UpdateIntegrationSubscriptionStats(d) ==
  LET ok == delivery[d].pc = "count_ok" IN
  /\ delivery[d].pc \in {"count_ok", "count_bad"}
  /\ delivery' = [delivery EXCEPT ![d].pc = "done"]
  /\ \/ /\ sub' = [sub EXCEPT ![delivery[d].sub].triggers = IF ok THEN @ + 1 ELSE @,
                              ![delivery[d].sub].errors = IF ok THEN @ ELSE @ + 1]
        /\ UNCHANGED counters
     \/ Fails /\ UNCHANGED sub
  /\ UNCHANGED <<key, event, plan, req, window>>

DeliveryStep(d) ==
  CreateDelivery(d) \/ Deliver(d) \/ UpdateDeliveryStatus(d) \/ UpdateIntegrationSubscriptionStats(d)

\* The server stops or dies: requests and goroutines end where they are, and the
\* events whose commit was lost are delivered again.
Crash ==
  /\ failures < MaxFailures /\ failures' = failures + 1
  /\ req' = [r \in Requests |-> IF req[r].pc = "idle" THEN req[r] ELSE Answered]
  /\ delivery' = [d \in DOMAIN delivery |->
                    [delivery[d] EXCEPT !.pc = IF @ = "done" THEN @ ELSE "failed"]]
  /\ \E lost \in SUBSET {e \in Events : event[e] = "done"} :
       event' = [e \in Events |-> IF e \in lost THEN "queued" ELSE event[e]]
  /\ UNCHANGED <<key, sub, plan, ops, changes, window>>

\* The subscription of the account's owner changes: see Billing.
ChangePlan ==
  /\ changes < MaxChanges /\ changes' = changes + 1
  /\ plan' \in SUBSET Accounts \ {plan}
  /\ UNCHANGED <<key, sub, event, delivery, req, ops, failures, window>>

RequestStep(r) ==
  \/ CheckZapierFeature(r) \/ CreateIntegrationSubscription(r)
  \/ GetIntegrationSubscriptionByID(r) \/ DeleteIntegrationSubscription(r)
  \/ DeleteEach(r) \/ Disconnected(r)

Next ==
  \/ \E k \in Keys : CreateAPIKey(k) \/ RevokeAPIKey(k) \/ Expire(k)
  \/ \E r \in Requests, k \in Keys : APIKeyMiddleware(r, k)
  \/ \E r \in Requests, a \in Accounts : ListSubscriptions(r, a)
  \/ \E r \in Requests : RequestStep(r) \/ StatementFails(r)
  \/ \E e \in Events : Publish(e) \/ DeliverEvent(e) \/ DeliverEventFails(e)
  \/ \E d \in DOMAIN delivery : DeliveryStep(d)
  \/ Crash \/ ChangePlan

Spec == Init /\ [][Next]_vars

-----------------------------------------------------------------------------
(* Properties.                                                             *)

Called(d) == delivery[d].pc \in {"ok", "bad", "count_ok", "count_bad", "done"}
Of(s) == {d \in DOMAIN delivery : delivery[d].sub = s}
With(s, status) == {d \in Of(s) : delivery[d].status = status}

\* The figures shown to the owner are true: a subscription never counts more than
\* was called, and when no statement failed, nothing crashed and nothing is under
\* way, every delivery is counted as what its row says.
CountersTrue ==
  \A s \in DOMAIN sub :
    /\ sub[s].triggers + sub[s].errors <= Cardinality({d \in Of(s) : Called(d)})
    /\ failures = 0 /\ (\A d \in Of(s) : delivery[d].pc = "done") =>
         /\ sub[s].triggers = Cardinality(With(s, "success"))
         /\ sub[s].errors = Cardinality(With(s, "failed"))
         /\ With(s, "pending") = {}

\* Disconnecting answers success when none of the subscriptions there were at its
\* start is left, even when other requests delete some of them meanwhile.  A
\* deletion that fails is only logged.
DisconnectLeavesNothing ==
  \A r \in Requests :
    req[r].op = "disconnect" /\ req[r].done /\ ~req[r].skipped =>
      req[r].listed \cap Live = {}

\* A revoked or expired key subscribes no more, except for requests that had
\* passed the middleware before.
LateSubscriptionsBounded ==
  \A k \in Keys : Cardinality({s \in DOMAIN sub : sub[s].late /\ sub[s].key = k}) <= window[k]
=============================================================================
