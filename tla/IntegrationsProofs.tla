------------------------- MODULE IntegrationsProofs -------------------------
(***************************************************************************)
(* Proofs about integrations, for every number of accounts, keys, requests,*)
(* filters, events and bounds.                                             *)
(***************************************************************************)
EXTENDS Integrations, FiniteSetTheorems, TLAPS

-----------------------------------------------------------------------------
(* Types.                                                                  *)

KeyStates == {"none", "active", "expired", "revoked"}
DeliveryStates == {"create", "call", "ok", "bad", "count_ok", "count_bad", "done", "failed"}

Subscription ==
  [account : Accounts, key : Keys, filter : Filters, deleted : BOOLEAN,
   triggers : Nat, errors : Nat, late : BOOLEAN]
Delivery ==
  [sub : Nat, event : Events, pc : DeliveryStates,
   status : {"none", "pending", "success", "failed"}]
Request ==
  [op : {"none", "subscribe", "unsubscribe", "disconnect"},
   pc : {"idle", "feature", "insert", "get", "delete", "each"},
   key : Keys \cup {"none"}, account : Accounts \cup {"none"}, sub : Nat,
   list : SUBSET Nat, listed : SUBSET Nat, skipped : BOOLEAN, done : BOOLEAN]

KeysFit == key \in [Keys -> KeyStates] /\ window \in [Keys -> Nat] /\ failures \in Nat
SubsFit == sub \in Seq(Subscription)

\* A request that subscribes has a key and its account.
RequestsFit ==
  /\ req \in [Requests -> Request]
  /\ \A r \in Requests : req[r].pc \in {"feature", "insert"} =>
       req[r].key \in Keys /\ req[r].account \in Accounts

\* A delivery is for a subscription there is.
DeliveriesFit ==
  delivery \in Seq(Delivery) /\ \A d \in DOMAIN delivery : delivery[d].sub \in DOMAIN sub

Fits == KeysFit /\ SubsFit /\ RequestsFit /\ DeliveriesFit

\* What a disconnection has gone through is deleted, and it goes through what there was.
Disconnects(q) ==
  /\ q.list \subseteq q.listed /\ q.listed \subseteq DOMAIN sub
  /\ q.done => q.list = {}
  /\ q.op = "disconnect" /\ ~q.skipped => (q.listed \ q.list) \cap Live = {}
DisconnectInv == \A r \in Requests : Disconnects(req[r])

\* Late subscriptions of a key, and the requests that may still add one.
Late(k) == {s \in DOMAIN sub : sub[s].late /\ sub[s].key = k}
Holders(k) == {r \in Requests : req[r].pc \in {"feature", "insert"} /\ req[r].key = k}
LateInv ==
  \A k \in Keys :
    /\ key[k] = "none" => Holders(k) = {}
    /\ key[k] \in {"none", "active"} => Late(k) = {}
    /\ key[k] \notin {"none", "active"} => Cardinality(Late(k)) + Cardinality(Holders(k)) <= window[k]

\* The deliveries of a subscription that are over, and those of one outcome.
Done(s) == {d \in Of(s) : delivery[d].pc = "done"}
DoneWith(s, status) == {d \in Done(s) : delivery[d].status = status}

\* Without a failure a delivery's row says what has become of its call.
Truthful(q) ==
  /\ q.pc # "failed"
  /\ q.pc \in {"call", "ok", "bad"} => q.status = "pending"
  /\ q.pc = "count_ok" => q.status = "success"
  /\ q.pc = "count_bad" => q.status = "failed"
  /\ q.pc = "done" => q.status \in {"success", "failed"}

CountInv ==
  /\ \A s \in DOMAIN sub : sub[s].triggers + sub[s].errors <= Cardinality(Done(s))
  /\ failures = 0 =>
       /\ \A d \in DOMAIN delivery : Truthful(delivery[d])
       /\ \A s \in DOMAIN sub : /\ sub[s].triggers = Cardinality(DoneWith(s, "success"))
                                /\ sub[s].errors = Cardinality(DoneWith(s, "failed"))
-----------------------------------------------------------------------------
(* What the steps of a request do.                                         *)

LEMMA IdleFits ==
  /\ Idle \in Request /\ Idle.pc = "idle" /\ Idle.op = "none" /\ Idle.done = FALSE
  /\ Idle.list = {} /\ Idle.listed = {}
BY DEF Idle, Request

RequestAction(r) ==
  \/ \E k \in Keys : APIKeyMiddleware(r, k)
  \/ \E a \in Accounts : ListSubscriptions(r, a)
  \/ RequestStep(r) \/ StatementFails(r)

\* The kinds of steps, by the record the request goes on with.
Opens(rec) ==
  /\ rec.pc \in {"feature", "get"} /\ rec.key \in Keys /\ key[rec.key] = "active"
  /\ rec.account \in Accounts
  /\ rec.op # "disconnect" /\ rec.list = {} /\ rec.listed = {} /\ rec.done = FALSE
  /\ sub' = sub
Continues(q, rec) ==
  /\ \/ q.pc = "feature" /\ rec.pc = "insert"
     \/ q.pc = "get" /\ rec.pc = "delete"
  /\ rec = [q EXCEPT !.pc = rec.pc] /\ sub' = sub
Lists(rec) ==
  /\ rec.pc = "each" /\ rec.listed = rec.list /\ rec.list \subseteq Live /\ rec.done = FALSE
  /\ sub' = sub
Deletes(q, rec) ==
  /\ q.pc = "each" /\ rec.pc = "each" /\ rec.op = q.op /\ rec.listed = q.listed /\ rec.done = q.done
  /\ \E s : /\ rec.list = q.list \ {s}
             /\ \/ Deleted(s) /\ rec.skipped = q.skipped
                \/ sub' = sub /\ rec.skipped = TRUE
Completes(q, rec) ==
  /\ q.pc = "each" /\ q.list = {} /\ rec = [q EXCEPT !.pc = "idle", !.done = TRUE] /\ sub' = sub
Answers(r, rec) ==
  /\ rec = Idle
  /\ \/ sub' = sub
     \/ CreateIntegrationSubscription(r)
     \/ \E s : Deleted(s)

Course(r, rec) ==
  \/ Answers(r, rec) \/ Opens(rec) \/ Continues(req[r], rec) \/ Lists(rec)
  \/ Deletes(req[r], rec) \/ Completes(req[r], rec)
Aside == UNCHANGED <<key, delivery, window>> /\ failures' \in {failures, failures + 1}

\* One request moves at a time, and every step of it is of one of these kinds
\* (zapier/handler.go).
LEMMA CourseOfRequest ==
  ASSUME Fits, NEW r \in Requests, RequestAction(r)
  PROVE  Aside /\ \E rec \in Request : req' = [req EXCEPT ![r] = rec] /\ Course(r, rec)
<1> DEFINE q == req[r]
           Goal == \E rec \in Request : req' = [req EXCEPT ![r] = rec] /\ Course(r, rec)
<1>1. q \in Request /\ Idle \in Request /\ DOMAIN sub \subseteq Nat /\ Live \subseteq DOMAIN sub
  BY IdleFits DEF Fits, RequestsFit, SubsFit, Live
<1>2. ASSUME Goes(r, Idle), \/ sub' = sub
                            \/ CreateIntegrationSubscription(r)
                            \/ \E s : Deleted(s)
      PROVE  Goal
  BY <1>1, <1>2 DEF Goes, Course, Answers
<1>3. ASSUME NEW k \in Keys, APIKeyMiddleware(r, k) PROVE Aside /\ Goal
  <2>0. Aside /\ sub' = sub
    BY <1>3 DEF APIKeyMiddleware, Aside
  <2>1. PICK new \in [op : {"subscribe"}, pc : {"feature"}, sub : {0}]
                     \cup [op : {"unsubscribe"}, pc : {"get"}, sub : DOMAIN sub] :
          LET start == [Idle EXCEPT !.op = new.op, !.sub = new.sub, !.key = k, !.account = Owner[k]]
              opens == ValidKey(k) /\ k \in ZapierKeys
          IN Goes(r, IF opens THEN [start EXCEPT !.pc = new.pc] ELSE Answered)
    BY <1>3 DEF APIKeyMiddleware
  <2>2. new.op \in {"subscribe", "unsubscribe"} /\ new.pc \in {"feature", "get"} /\ new.sub \in Nat
    BY <1>1
  <2> DEFINE o == new.op
             p == new.pc
             u == new.sub
             a == Owner[k]
             i == Idle
             start == [i EXCEPT !.op = o, !.sub = u, !.key = k, !.account = a]
             rec == [start EXCEPT !.pc = p]
  <2>3. a \in Accounts
    BY IntegrationsAssumption
  <2>4. o \in {"subscribe", "unsubscribe"} /\ p \in {"feature", "get"} /\ u \in Nat
    BY <2>2
  <2>5. i \in Request /\ i.list = {} /\ i.listed = {} /\ i.done = FALSE
    BY IdleFits
  <2>6. \/ Goes(r, Idle)
        \/ Goes(r, rec) /\ ValidKey(k)
    BY <2>1 DEF Answered
  <2> HIDE DEF o, p, u, a, i
  <2>7. /\ start \in Request /\ start.list = {} /\ start.listed = {} /\ start.done = FALSE
        /\ start.op = o /\ start.key = k /\ start.account = a
    BY <2>3, <2>4, <2>5 DEF Request
  <2> HIDE DEF start
  <2>8. /\ rec \in Request /\ rec.list = {} /\ rec.listed = {} /\ rec.done = FALSE
        /\ rec.op = o /\ rec.key = k /\ rec.account = a /\ rec.pc = p
    BY <2>4, <2>7 DEF Request
  <2> HIDE DEF rec
  <2>9. CASE Goes(r, rec) /\ ValidKey(k)
    <3>1. Opens(rec)
      BY <2>0, <2>3, <2>4, <2>8, <2>9 DEF Opens, ValidKey
    <3> QED
      BY <2>0, <2>8, <2>9, <3>1 DEF Goes, Course
  <2> QED
    BY <1>2, <2>0, <2>6, <2>9
<1>4. ASSUME NEW a \in Accounts, ListSubscriptions(r, a) PROVE Aside /\ Goal
  <2> DEFINE S == OfAccount(a)
             i == Idle
             start == [i EXCEPT !.op = "disconnect", !.account = a, !.pc = "each"]
             rec == [start EXCEPT !.list = S, !.listed = S]
  <2>1. Aside /\ sub' = sub /\ Goes(r, rec)
    BY <1>4 DEF ListSubscriptions, Aside
  <2>2. S \subseteq Live /\ S \in SUBSET Nat
    BY <1>1 DEF OfAccount
  <2>3. i \in Request /\ i.done = FALSE
    BY IdleFits
  <2> HIDE DEF S, i
  <2>4. start \in Request /\ start.done = FALSE /\ start.pc = "each"
    BY <2>3 DEF Request
  <2> HIDE DEF start
  <2>5. rec \in Request /\ rec.done = FALSE /\ rec.pc = "each" /\ rec.list = S /\ rec.listed = S
    BY <2>2, <2>4 DEF Request
  <2> HIDE DEF rec
  <2>6. Lists(rec)
    BY <2>1, <2>2, <2>5 DEF Lists
  <2> QED
    BY <2>1, <2>5, <2>6 DEF Goes, Course
<1>5. ASSUME CheckZapierFeature(r) \/ GetIntegrationSubscriptionByID(r) PROVE Aside /\ Goal
  <2>1. Aside /\ sub' = sub
    BY <1>5 DEF CheckZapierFeature, GetIntegrationSubscriptionByID, Aside, counters
  <2>2. CASE Goes(r, Idle)
    BY <1>2, <2>1, <2>2
  <2>3. ASSUME NEW pc \in {"insert", "delete"}, Goes(r, At(r, pc)),
               pc = "insert" => q.pc = "feature", pc = "delete" => q.pc = "get"
        PROVE  Goal
    <3>1. At(r, pc) \in Request /\ At(r, pc).pc = pc /\ At(r, pc) = [q EXCEPT !.pc = pc]
      BY <1>1 DEF At, Request
    <3>2. Continues(q, At(r, pc))
      BY <2>1, <2>3, <3>1 DEF Continues
    <3> QED
      BY <2>3, <3>1, <3>2 DEF Goes, Course
  <2>4. \/ Goes(r, Idle)
        \/ q.pc = "feature" /\ Goes(r, At(r, "insert"))
        \/ q.pc = "get" /\ Goes(r, At(r, "delete"))
    BY <1>5 DEF CheckZapierFeature, GetIntegrationSubscriptionByID, Answered
  <2> QED
    BY <2>1, <2>2, <2>3, <2>4
<1>6. ASSUME CreateIntegrationSubscription(r) PROVE Aside /\ Goal
  BY <1>2, <1>6 DEF CreateIntegrationSubscription, Aside, Answered, counters
<1>7. ASSUME DeleteIntegrationSubscription(r) PROVE Aside /\ Goal
  <2>1. q.sub \in Nat /\ Deleted(q.sub) /\ Goes(r, Idle)
    BY <1>1, <1>7 DEF DeleteIntegrationSubscription, Request, Answered
  <2> QED
    BY <1>2, <1>7, <2>1 DEF DeleteIntegrationSubscription, Aside, counters
<1>8. ASSUME DeleteEach(r) PROVE Aside /\ Goal
  <2> DEFINE s == Max(q.list)
             L == q.list \ {s}
             rest == [q EXCEPT !.list = L]
             skip == [rest EXCEPT !.skipped = TRUE]
  <2>1. Aside
    BY <1>8 DEF DeleteEach, Aside, Fails, counters
  <2>2. /\ q.pc = "each"
        /\ (Deleted(s) /\ Goes(r, rest)) \/ (sub' = sub /\ Goes(r, skip))
    BY <1>8 DEF DeleteEach
  <2>3. L \in SUBSET Nat
    BY <1>1 DEF Request
  <2> HIDE DEF L
  <2>4. rest \in Request /\ rest = [q EXCEPT !.list = L]
    BY <1>1, <2>3 DEF Request
  <2> HIDE DEF rest
  <2>5. skip \in Request
    BY <2>4 DEF Request
  <2>6. /\ rest.pc = q.pc /\ rest.op = q.op /\ rest.listed = q.listed /\ rest.done = q.done
        /\ rest.list = L /\ rest.skipped = q.skipped
        /\ skip.pc = q.pc /\ skip.op = q.op /\ skip.listed = q.listed /\ skip.done = q.done
        /\ skip.list = L /\ skip.skipped = TRUE
    BY <1>1, <2>4 DEF Request
  <2> HIDE DEF skip
  <2>7. CASE Deleted(s) /\ Goes(r, rest)
    <3>1. Deletes(q, rest)
      BY <2>2, <2>6, <2>7 DEF Deletes, L
    <3> QED
      BY <2>1, <2>4, <2>7, <3>1 DEF Goes, Course
  <2>8. CASE sub' = sub /\ Goes(r, skip)
    <3>1. Deletes(q, skip)
      BY <2>2, <2>6, <2>8 DEF Deletes, L
    <3> QED
      BY <2>1, <2>5, <2>8, <3>1 DEF Goes, Course
  <2> QED
    BY <2>2, <2>7, <2>8
<1>9. ASSUME Disconnected(r) PROVE Aside /\ Goal
  <2> DEFINE rec == [q EXCEPT !.pc = "idle", !.done = TRUE]
  <2>1. Aside /\ sub' = sub /\ q.pc = "each" /\ q.list = {}
    BY <1>9 DEF Disconnected, Aside, counters
  <2>2. Goes(r, rec)
    <3>1. [At(r, "idle") EXCEPT !.done = TRUE] = rec
      BY <1>1 DEF At, Request
    <3> QED
      BY <1>9, <3>1 DEF Disconnected
  <2>3. rec \in Request
    BY <1>1 DEF Request
  <2> QED
    BY <2>1, <2>2, <2>3 DEF Goes, Course, Completes
<1>10. ASSUME StatementFails(r) PROVE Aside /\ Goal
  <2>1. Aside /\ sub' = sub /\ Goes(r, Idle)
    BY <1>10 DEF StatementFails, Fails, Aside, Answered
  <2> QED
    BY <1>2, <2>1
<1> QED
  BY <1>3, <1>4, <1>5, <1>6, <1>7, <1>8, <1>9, <1>10 DEF RequestAction, RequestStep

-----------------------------------------------------------------------------
(* What the steps of a delivery do.                                        *)

\* The subscription of a delivery counts it by its outcome.
CountsAs(q, old, new) ==
  /\ new.key = old.key /\ new.late = old.late /\ new.deleted = old.deleted
  /\ q.pc = "count_ok" => new.triggers = old.triggers + 1 /\ new.errors = old.errors
  /\ q.pc # "count_ok" => new.triggers = old.triggers /\ new.errors = old.errors + 1
Counts(q) ==
  \E new \in Subscription :
    sub' = [sub EXCEPT ![q.sub] = new] /\ CountsAs(q, sub[q.sub], new)

Underway(q, new) ==
  /\ q.pc # "done" /\ new.pc # "done" /\ sub' = sub
  /\ failures' = failures + 1 \/ (failures' = failures /\ (Truthful(q) => Truthful(new)))
Finishes(q, new) ==
  /\ q.pc \in {"count_ok", "count_bad"} /\ new.pc = "done" /\ new.status = q.status
  /\ (sub' = sub /\ failures' = failures + 1) \/ (Counts(q) /\ failures' = failures)

\* A delivery is counted when it is over, and once (integrations/service/service.go,
\* deliverToSubscription).
LEMMA CourseOfDelivery ==
  ASSUME Fits, NEW d \in DOMAIN delivery, DeliveryStep(d)
  PROVE  /\ UNCHANGED <<key, req, window>>
         /\ \E new \in Delivery : /\ delivery' = [delivery EXCEPT ![d] = new]
                                  /\ new.sub = delivery[d].sub
                                  /\ Underway(delivery[d], new) \/ Finishes(delivery[d], new)
<1> DEFINE q == delivery[d]
           Goal == \E new \in Delivery : /\ delivery' = [delivery EXCEPT ![d] = new]
                                         /\ new.sub = q.sub
                                         /\ Underway(q, new) \/ Finishes(q, new)
<1>1. q \in Delivery /\ q.sub \in DOMAIN sub /\ delivery \in Seq(Delivery) /\ sub \in Seq(Subscription)
  BY DEF Fits, DeliveriesFit, SubsFit
<1>2. \* A step that sets the state and, if it does, the status.
      ASSUME NEW pc \in DeliveryStates, NEW status \in {"none", "pending", "success", "failed"},
             delivery' = [delivery EXCEPT ![d].pc = pc, ![d].status = status],
             Underway(q, [q EXCEPT !.pc = pc, !.status = status])
             \/ Finishes(q, [q EXCEPT !.pc = pc, !.status = status])
      PROVE  Goal
  <2> DEFINE new == [q EXCEPT !.pc = pc, !.status = status]
  <2>1. new \in Delivery /\ new.sub = q.sub
    BY <1>1 DEF Delivery
  <2>2. delivery' = [delivery EXCEPT ![d] = new]
    BY <1>1, <1>2 DEF Delivery
  <2> HIDE DEF new
  <2>3. Underway(q, new) \/ Finishes(q, new)
    BY <1>2 DEF new
  <2> QED
    BY <2>1, <2>2, <2>3
<1>3. \* A step that leaves the status.
      ASSUME NEW pc \in DeliveryStates, delivery' = [delivery EXCEPT ![d].pc = pc],
             Underway(q, [q EXCEPT !.pc = pc]) \/ Finishes(q, [q EXCEPT !.pc = pc])
      PROVE  Goal
  <2> DEFINE new == [q EXCEPT !.pc = pc]
  <2>1. new \in Delivery /\ new.sub = q.sub
    BY <1>1 DEF Delivery
  <2>2. delivery' = [delivery EXCEPT ![d] = new]
    BY <1>1, <1>3 DEF Delivery
  <2> HIDE DEF new
  <2>3. Underway(q, new) \/ Finishes(q, new)
    BY <1>3 DEF new
  <2> QED
    BY <2>1, <2>2, <2>3
<1>4. ASSUME CreateDelivery(d) PROVE UNCHANGED <<key, req, window>> /\ Goal
  <2>1. /\ UNCHANGED <<key, req, window>> /\ q.pc = "create" /\ sub' = sub
        /\ \/ /\ delivery' = [delivery EXCEPT ![d].pc = "call", ![d].status = "pending"]
              /\ failures' = failures
           \/ /\ delivery' = [delivery EXCEPT ![d].pc = "failed"] /\ failures' = failures + 1
    BY <1>4 DEF CreateDelivery, Fails, counters
  <2>2. Underway(q, [q EXCEPT !.pc = "failed"]) \/ failures' # failures + 1
    BY <1>1, <2>1 DEF Underway, Delivery
  <2>3. Underway(q, [q EXCEPT !.pc = "call", !.status = "pending"]) \/ failures' # failures
    BY <1>1, <2>1 DEF Underway, Delivery, Truthful
  <2>4. failures # failures + 1
    BY DEF Fits, KeysFit
  <2>5. {"call", "failed"} \subseteq DeliveryStates
    BY DEF DeliveryStates
  <2> QED
    BY <1>2, <1>3, <2>1, <2>2, <2>3, <2>4, <2>5
<1>5. ASSUME Deliver(d) PROVE UNCHANGED <<key, req, window>> /\ Goal
  <2>1. UNCHANGED <<key, req, window>> /\ q.pc = "call" /\ sub' = sub /\ failures' = failures
    BY <1>5 DEF Deliver, counters
  <2>2. PICK answer \in {"ok", "bad"} : delivery' = [delivery EXCEPT ![d].pc = answer]
    BY <1>5 DEF Deliver
  <2>3. Underway(q, [q EXCEPT !.pc = answer])
    BY <1>1, <2>1 DEF Underway, Delivery, Truthful
  <2>4. answer \in DeliveryStates
    BY DEF DeliveryStates
  <2> QED
    BY <1>3, <2>1, <2>2, <2>3, <2>4
<1>6. ASSUME UpdateDeliveryStatus(d) PROVE UNCHANGED <<key, req, window>> /\ Goal
  <2> DEFINE pc == IF q.pc = "ok" THEN "count_ok" ELSE "count_bad"
             status == IF q.pc = "ok" THEN "success" ELSE "failed"
  <2>1. /\ UNCHANGED <<key, req, window>> /\ q.pc \in {"ok", "bad"} /\ sub' = sub
        /\ \/ /\ delivery' = [delivery EXCEPT ![d].pc = pc, ![d].status = status]
              /\ failures' = failures
           \/ /\ delivery' = [delivery EXCEPT ![d].pc = pc] /\ failures' = failures + 1
    BY <1>6 DEF UpdateDeliveryStatus, Fails, counters
  <2>2. pc \in DeliveryStates /\ status \in {"none", "pending", "success", "failed"}
    BY DEF DeliveryStates
  <2>3. /\ pc \in {"count_ok", "count_bad"} /\ status \in {"success", "failed"}
        /\ pc = "count_ok" <=> status = "success"
    OBVIOUS
  <2> HIDE DEF pc, status
  <2>4. CASE /\ delivery' = [delivery EXCEPT ![d].pc = pc, ![d].status = status]
             /\ failures' = failures
    <3>1. Underway(q, [q EXCEPT !.pc = pc, !.status = status])
      BY <1>1, <2>1, <2>3, <2>4 DEF Underway, Delivery, Truthful
    <3> QED
      BY <1>2, <2>1, <2>2, <2>4, <3>1
  <2>5. CASE delivery' = [delivery EXCEPT ![d].pc = pc] /\ failures' = failures + 1
    <3>1. Underway(q, [q EXCEPT !.pc = pc])
      BY <1>1, <2>1, <2>3, <2>5 DEF Underway, Delivery
    <3> QED
      BY <1>3, <2>1, <2>2, <2>5, <3>1
  <2> QED
    BY <2>1, <2>4, <2>5
<1>7. ASSUME UpdateIntegrationSubscriptionStats(d) PROVE UNCHANGED <<key, req, window>> /\ Goal
  <2> DEFINE s == q.sub
             row == sub[s]
             t == IF q.pc = "count_ok" THEN row.triggers + 1 ELSE row.triggers
             e == IF q.pc = "count_ok" THEN row.errors ELSE row.errors + 1
             new == [row EXCEPT !.triggers = t, !.errors = e]
  <2>1. /\ UNCHANGED <<key, req, window>> /\ q.pc \in {"count_ok", "count_bad"}
        /\ delivery' = [delivery EXCEPT ![d].pc = "done"]
        /\ \/ /\ sub' = [sub EXCEPT ![s].triggers = IF q.pc = "count_ok" THEN @ + 1 ELSE @,
                                    ![s].errors = IF q.pc = "count_ok" THEN @ ELSE @ + 1]
              /\ failures' = failures
           \/ sub' = sub /\ failures' = failures + 1
    BY <1>7 DEF UpdateIntegrationSubscriptionStats, Fails, counters
  <2>2. row \in Subscription /\ s \in DOMAIN sub
    BY <1>1
  <2>7. row.triggers \in Nat /\ row.errors \in Nat
    BY <2>2 DEF Subscription
  <2>8. t \in Nat /\ e \in Nat
    BY <2>7
  <2>3. ASSUME sub' = [sub EXCEPT ![s].triggers = IF q.pc = "count_ok" THEN @ + 1 ELSE @,
                                  ![s].errors = IF q.pc = "count_ok" THEN @ ELSE @ + 1]
        PROVE  Counts(q)
    <3>1. sub' = [sub EXCEPT ![s] = new]
      BY <1>1, <2>2, <2>3 DEF Subscription
    <3>2. /\ q.pc = "count_ok" => t = row.triggers + 1 /\ e = row.errors
          /\ q.pc # "count_ok" => t = row.triggers /\ e = row.errors + 1
      OBVIOUS
    <3> HIDE DEF t, e
    <3>3. /\ new \in Subscription /\ new.key = row.key /\ new.late = row.late
          /\ new.deleted = row.deleted /\ new.triggers = t /\ new.errors = e
      BY <2>2, <2>8 DEF Subscription
    <3> HIDE DEF new
    <3>4. CountsAs(q, row, new)
      BY <3>2, <3>3 DEF CountsAs
    <3> QED
      BY <3>1, <3>3, <3>4 DEF Counts
  <2>4. (failures' = failures + 1 /\ sub' = sub) \/ (failures' = failures /\ Counts(q))
    BY <2>1, <2>3
  <2>5. Finishes(q, [q EXCEPT !.pc = "done"])
    BY <1>1, <2>1, <2>4 DEF Finishes, Delivery
  <2>6. "done" \in DeliveryStates
    BY DEF DeliveryStates
  <2> QED
    BY <1>3, <2>1, <2>5, <2>6
<1> QED
  BY <1>4, <1>5, <1>6, <1>7 DEF DeliveryStep

-----------------------------------------------------------------------------
(* What the other steps do.                                                *)

KeyStep(k) == CreateAPIKey(k) \/ RevokeAPIKey(k) \/ Expire(k)
KeyCourse(k) ==
  /\ UNCHANGED <<sub, delivery, req, failures>>
  /\ \/ /\ key[k] = "none" /\ key' = [key EXCEPT ![k] = "active"] /\ window' = window
     \/ /\ key[k] \in {"active", "expired"}
        /\ \E status \in {"revoked", "expired"} : Ends(k, status)

LEMMA CourseOfKey ==
  ASSUME NEW k \in Keys, KeyStep(k)
  PROVE  KeyCourse(k)
BY DEF KeyStep, KeyCourse, CreateAPIKey, RevokeAPIKey, Expire, counters

\* New deliveries have their call before them.
Starts(s) ==
  /\ UNCHANGED <<key, sub, req, window, failures>>
  /\ delivery' = delivery \o s
  /\ s \in Seq(Delivery)
  /\ \A i \in DOMAIN s : s[i].sub \in DOMAIN sub /\ s[i].pc = "create" /\ s[i].status = "none"

\* The elements of a finite set, one after the other.
LEMMA SetToSeqIsOnto ==
  ASSUME NEW S, IsFiniteSet(S)
  PROVE  Cardinality(S) \in Nat /\ SetToSeq(S) \in [1 .. Cardinality(S) -> S]
<1>1. Cardinality(S) \in Nat /\ ExistsBijection(1 .. Cardinality(S), S)
  BY FS_CardinalityType
<1>2. \E f \in [1 .. Cardinality(S) -> S] : IsInjective(f)
  BY <1>1 DEF ExistsBijection, Bijection, Injection
<1> QED
  BY <1>1, <1>2 DEF SetToSeq

LEMMA CourseOfEvent ==
  ASSUME Fits, NEW e \in Events, DeliverEvent(e)
  PROVE  \E s : Starts(s)
<1> DEFINE S == ActiveFor(e)
           n == Cardinality(S)
           order == SetToSeq(S)
           s == [i \in 1 .. n |-> Started(order[i], e)]
<1>1. sub \in Seq(Subscription) /\ DOMAIN sub = 1 .. Len(sub) /\ Len(sub) \in Nat
  BY DEF Fits, SubsFit
<1>2. S \subseteq DOMAIN sub
  BY DEF ActiveFor, OfAccount, Live
<1>3. IsFiniteSet(S)
  <2>1. IsFiniteSet(DOMAIN sub)
    BY <1>1, FS_Interval
  <2> HIDE DEF S
  <2> QED
    BY <1>2, <2>1, FS_Subset
<1>4. n \in Nat /\ order \in [1 .. n -> S]
  BY <1>3, SetToSeqIsOnto
<1>5. delivery' = delivery \o s /\ UNCHANGED <<key, sub, req, window, failures>>
  BY DEF DeliverEvent, counters
<1> HIDE DEF S, n, order
<1>6. ASSUME NEW i \in 1 .. n
      PROVE  /\ Started(order[i], e) \in Delivery /\ Started(order[i], e).sub \in DOMAIN sub
             /\ Started(order[i], e).pc = "create" /\ Started(order[i], e).status = "none"
  <2>1. order[i] \in DOMAIN sub /\ order[i] \in Nat
    BY <1>1, <1>2, <1>4
  <2> QED
    BY <2>1 DEF Started, Delivery, DeliveryStates
<1>7. s \in Seq(Delivery) /\ DOMAIN s = 1 .. n
  BY <1>4, <1>6
<1>8. \A i \in DOMAIN s : s[i].sub \in DOMAIN sub /\ s[i].pc = "create" /\ s[i].status = "none"
  BY <1>6, <1>7
<1> HIDE DEF s
<1>9. Starts(s)
  BY <1>5, <1>7, <1>8 DEF Starts
<1> QED
  BY <1>9

\* Steps that touch none of what the invariants speak of, save the count of failures.
Quiet == UNCHANGED <<key, sub, delivery, req, window>> /\ failures' \in {failures, failures + 1}

\* Everything a step can be.
LEMMA StepKinds ==
  ASSUME Fits, [Next]_vars
  PROVE  \/ \E r \in Requests : RequestAction(r)
         \/ \E d \in DOMAIN delivery : DeliveryStep(d)
         \/ \E k \in Keys : KeyCourse(k)
         \/ \E s : Starts(s)
         \/ Crash \/ Quiet
<1>1. CASE UNCHANGED vars
  BY <1>1 DEF vars, counters, Quiet
<1>2. CASE ChangePlan
  BY <1>2 DEF ChangePlan, Quiet
<1>3. ASSUME NEW e \in Events, Publish(e) \/ DeliverEventFails(e) PROVE Quiet
  BY <1>3 DEF Publish, DeliverEventFails, Fails, Quiet, counters
<1>4. ASSUME NEW k \in Keys, CreateAPIKey(k) \/ RevokeAPIKey(k) \/ Expire(k) PROVE KeyCourse(k)
  BY <1>4, CourseOfKey DEF KeyStep
<1>5. CASE Next
  BY <1>2, <1>3, <1>4, <1>5, CourseOfEvent DEF Next, RequestAction
<1> QED
  BY <1>1, <1>5

-----------------------------------------------------------------------------
(* Subscriptions stay, and so does what they are for.                      *)

NewSub(r, f) ==
  [account |-> req[r].account, key |-> req[r].key, filter |-> f,
   deleted |-> FALSE, triggers |-> 0, errors |-> 0, late |-> key[req[r].key] # "active"]

SubsKept ==
  /\ sub' \in Seq(Subscription) /\ DOMAIN sub \subseteq DOMAIN sub'
  /\ \A s \in DOMAIN sub : /\ sub'[s].key = sub[s].key /\ sub'[s].late = sub[s].late
                           /\ sub[s].deleted => sub'[s].deleted

LEMMA OneSubChanges ==
  ASSUME Fits, NEW s \in DOMAIN sub, NEW new \in Subscription, sub' = [sub EXCEPT ![s] = new]
  PROVE  /\ sub' \in Seq(Subscription) /\ DOMAIN sub' = DOMAIN sub /\ sub'[s] = new
         /\ \A u \in DOMAIN sub \ {s} : sub'[u] = sub[u]
<1>1. Len(sub) \in Nat /\ DOMAIN sub = 1 .. Len(sub) /\ sub \in [1 .. Len(sub) -> Subscription]
  BY DEF Fits, SubsFit
<1>2. sub' \in [1 .. Len(sub) -> Subscription]
  BY <1>1
<1>3. sub' \in Seq(Subscription)
  BY <1>1, <1>2
<1> QED
  BY <1>1, <1>2, <1>3

LEMMA SubscribeKeepsSubs ==
  ASSUME Fits, NEW r \in Requests, CreateIntegrationSubscription(r)
  PROVE  /\ SubsKept /\ Len(sub) \in Nat /\ DOMAIN sub = 1 .. Len(sub)
         /\ DOMAIN sub' = DOMAIN sub \cup {Len(sub) + 1}
         /\ \A s \in DOMAIN sub : sub'[s] = sub[s]
         /\ \E f \in Filters : sub'[Len(sub) + 1] = NewSub(r, f)
<1>1. PICK f \in Filters : sub' = Append(sub, NewSub(r, f))
  BY DEF CreateIntegrationSubscription, NewSub
<1>2. req[r].key \in Keys /\ req[r].account \in Accounts
  BY DEF CreateIntegrationSubscription, Fits, RequestsFit
<1> DEFINE late == key[req[r].key] # "active"
<1>3. late \in BOOLEAN
  OBVIOUS
<1>4. NewSub(r, f) = [account |-> req[r].account, key |-> req[r].key, filter |-> f,
                      deleted |-> FALSE, triggers |-> 0, errors |-> 0, late |-> late]
  BY DEF NewSub
<1> HIDE DEF late
<1>5. NewSub(r, f) \in Subscription
  BY <1>2, <1>3, <1>4 DEF Subscription
<1>6. sub \in Seq(Subscription) /\ Len(sub) \in Nat /\ DOMAIN sub = 1 .. Len(sub)
  BY DEF Fits, SubsFit
<1>7. /\ sub' \in Seq(Subscription) /\ DOMAIN sub' = 1 .. Len(sub) + 1
      /\ \A s \in DOMAIN sub : sub'[s] = sub[s]
      /\ sub'[Len(sub) + 1] = NewSub(r, f)
  BY <1>1, <1>5, <1>6
<1>8. DOMAIN sub' = DOMAIN sub \cup {Len(sub) + 1}
  BY <1>6, <1>7
<1> QED
  BY <1>6, <1>7, <1>8 DEF SubsKept

LEMMA DeletionKeepsSubs ==
  ASSUME Fits, NEW s, Deleted(s)
  PROVE  /\ SubsKept /\ DOMAIN sub' = DOMAIN sub /\ s \notin Live'
         /\ \A u \in DOMAIN sub : sub'[u].triggers = sub[u].triggers /\ sub'[u].errors = sub[u].errors
<1>1. sub \in Seq(Subscription) /\ \A u \in DOMAIN sub : sub[u] \in Subscription
  BY DEF Fits, SubsFit
<1>2. CASE s \in Live
  <2> DEFINE new == [sub[s] EXCEPT !.deleted = TRUE]
  <2>1. s \in DOMAIN sub /\ sub' = [sub EXCEPT ![s] = new]
    BY <1>2 DEF Deleted, Live
  <2>2. /\ new \in Subscription /\ new.key = sub[s].key /\ new.late = sub[s].late
        /\ new.deleted = TRUE /\ new.triggers = sub[s].triggers /\ new.errors = sub[s].errors
    BY <1>1, <2>1 DEF Subscription
  <2> HIDE DEF new
  <2>3. /\ sub' \in Seq(Subscription) /\ DOMAIN sub' = DOMAIN sub /\ sub'[s] = new
        /\ \A u \in DOMAIN sub \ {s} : sub'[u] = sub[u]
    BY <2>1, <2>2, OneSubChanges
  <2> QED
    BY <2>2, <2>3 DEF SubsKept, Live
<1>3. CASE s \notin Live
  BY <1>1, <1>3 DEF Deleted, SubsKept, Live
<1> QED
  BY <1>2, <1>3

LEMMA CountKeepsSubs ==
  ASSUME Fits, NEW d \in DOMAIN delivery, Counts(delivery[d])
  PROVE  /\ SubsKept /\ DOMAIN sub' = DOMAIN sub
         /\ CountsAs(delivery[d], sub[delivery[d].sub], sub'[delivery[d].sub])
         /\ \A u \in DOMAIN sub \ {delivery[d].sub} : sub'[u] = sub[u]
<1> DEFINE s == delivery[d].sub
<1>1. s \in DOMAIN sub
  BY DEF Fits, DeliveriesFit
<1>2. PICK new \in Subscription : sub' = [sub EXCEPT ![s] = new] /\ CountsAs(delivery[d], sub[s], new)
  BY DEF Counts
<1>3. /\ sub' \in Seq(Subscription) /\ DOMAIN sub' = DOMAIN sub /\ sub'[s] = new
      /\ \A u \in DOMAIN sub \ {s} : sub'[u] = sub[u]
  BY <1>1, <1>2, OneSubChanges
<1>4. new.key = sub[s].key /\ new.late = sub[s].late /\ new.deleted = sub[s].deleted
  BY <1>2 DEF CountsAs
<1> HIDE DEF s
<1>5. SubsKept
  BY <1>1, <1>3, <1>4 DEF SubsKept
<1> QED
  BY <1>2, <1>3, <1>5 DEF s

\* Rows of subscriptions are only marked deleted, never removed.
LEMMA SubsAreKept ==
  ASSUME Fits, [Next]_vars
  PROVE  SubsKept
<1>1. sub' = sub => SubsKept
  BY DEF Fits, SubsFit, SubsKept
<1>2. ASSUME NEW r \in Requests, RequestAction(r) PROVE SubsKept
  <2>1. \/ sub' = sub
        \/ CreateIntegrationSubscription(r)
        \/ \E s : Deleted(s)
    BY <1>2, CourseOfRequest DEF Course, Answers, Opens, Continues, Lists, Deletes, Completes
  <2> QED
    BY <1>1, <2>1, SubscribeKeepsSubs, DeletionKeepsSubs
<1>3. ASSUME NEW d \in DOMAIN delivery, DeliveryStep(d) PROVE SubsKept
  <2>1. sub' = sub \/ Counts(delivery[d])
    BY <1>3, CourseOfDelivery DEF Underway, Finishes
  <2> QED
    BY <1>1, <2>1, CountKeepsSubs
<1>4. ASSUME NEW k \in Keys, KeyCourse(k) PROVE SubsKept
  BY <1>1, <1>4 DEF KeyCourse
<1>5. ASSUME NEW s, Starts(s) PROVE SubsKept
  BY <1>1, <1>5 DEF Starts
<1>6. CASE Crash
  BY <1>1, <1>6 DEF Crash
<1>7. CASE Quiet
  BY <1>1, <1>7 DEF Quiet
<1> QED
  BY <1>2, <1>3, <1>4, <1>5, <1>6, <1>7, StepKinds

LEMMA OneRequestFits ==
  ASSUME Fits, NEW r \in Requests, NEW rec \in Request, req' = [req EXCEPT ![r] = rec],
         rec.pc \in {"feature", "insert"} => rec.key \in Keys /\ rec.account \in Accounts
  PROVE  RequestsFit'
BY DEF Fits, RequestsFit

LEMMA OneDeliveryFits ==
  ASSUME Fits, SubsKept, NEW d \in DOMAIN delivery, NEW new \in Delivery,
         delivery' = [delivery EXCEPT ![d] = new], new.sub = delivery[d].sub
  PROVE  /\ DeliveriesFit' /\ DOMAIN delivery' = DOMAIN delivery /\ delivery'[d] = new
         /\ \A i \in DOMAIN delivery \ {d} : delivery'[i] = delivery[i]
<1>1. /\ Len(delivery) \in Nat /\ DOMAIN delivery = 1 .. Len(delivery)
      /\ delivery \in [1 .. Len(delivery) -> Delivery]
      /\ \A i \in DOMAIN delivery : delivery[i].sub \in DOMAIN sub
  BY DEF Fits, DeliveriesFit
<1>2. delivery' \in [1 .. Len(delivery) -> Delivery]
  BY <1>1
<1>3. /\ delivery' \in Seq(Delivery) /\ DOMAIN delivery' = DOMAIN delivery /\ delivery'[d] = new
      /\ \A i \in DOMAIN delivery \ {d} : delivery'[i] = delivery[i]
  BY <1>1, <1>2
<1>4. \A i \in DOMAIN delivery' : delivery'[i].sub \in DOMAIN sub'
  BY <1>1, <1>3 DEF SubsKept
<1> QED
  BY <1>3, <1>4 DEF DeliveriesFit

\* A crash ends what is under way.
LEMMA CourseOfCrash ==
  ASSUME Fits, Crash
  PROVE  /\ UNCHANGED <<key, sub, window>> /\ failures' = failures + 1
         /\ RequestsFit' /\ \A r \in Requests : req'[r] = IF req[r].pc = "idle" THEN req[r] ELSE Idle
         /\ DeliveriesFit' /\ DOMAIN delivery' = DOMAIN delivery
         /\ \A d \in DOMAIN delivery :
              /\ delivery'[d].sub = delivery[d].sub
              /\ delivery'[d].pc = IF delivery[d].pc = "done" THEN "done" ELSE "failed"
<1>1. UNCHANGED <<key, sub, window>> /\ failures' = failures + 1
  BY DEF Crash
<1>2. /\ req' = [r \in Requests |-> IF req[r].pc = "idle" THEN req[r] ELSE Idle]
      /\ req \in [Requests -> Request] /\ Idle \in Request /\ Idle.pc = "idle"
  BY IdleFits DEF Crash, Answered, Fits, RequestsFit
<1>3. RequestsFit' /\ \A r \in Requests : req'[r] = IF req[r].pc = "idle" THEN req[r] ELSE Idle
  BY <1>2 DEF RequestsFit
<1>4. delivery' = [d \in DOMAIN delivery |->
                     [delivery[d] EXCEPT !.pc = IF delivery[d].pc = "done" THEN "done" ELSE "failed"]]
  BY DEF Crash
<1>5. /\ Len(delivery) \in Nat /\ DOMAIN delivery = 1 .. Len(delivery)
      /\ \A d \in DOMAIN delivery : delivery[d] \in Delivery /\ delivery[d].sub \in DOMAIN sub
  BY DEF Fits, DeliveriesFit
<1>6. ASSUME NEW d \in DOMAIN delivery
      PROVE  /\ delivery'[d] \in Delivery /\ delivery'[d].sub = delivery[d].sub
             /\ delivery'[d].pc = IF delivery[d].pc = "done" THEN "done" ELSE "failed"
  <2> DEFINE pc == IF delivery[d].pc = "done" THEN "done" ELSE "failed"
  <2>1. delivery'[d] = [delivery[d] EXCEPT !.pc = pc]
    BY <1>4
  <2>2. pc \in DeliveryStates
    BY DEF DeliveryStates
  <2> HIDE DEF pc
  <2>3. delivery'[d] \in Delivery /\ delivery'[d].sub = delivery[d].sub /\ delivery'[d].pc = pc
    BY <1>5, <2>1, <2>2 DEF Delivery
  <2> QED
    BY <2>3 DEF pc
<1>7. delivery' \in [1 .. Len(delivery) -> Delivery] /\ DOMAIN delivery' = DOMAIN delivery
  BY <1>4, <1>5, <1>6
<1>8. delivery' \in Seq(Delivery)
  BY <1>5, <1>7
<1>9. DeliveriesFit'
  BY <1>1, <1>5, <1>6, <1>7, <1>8 DEF DeliveriesFit
<1> QED
  BY <1>1, <1>3, <1>6, <1>7, <1>9

-----------------------------------------------------------------------------
(* Types are kept.                                                         *)

LEMMA InitFits == Init => Fits
<1> SUFFICES ASSUME Init PROVE Fits
  OBVIOUS
<1>1. KeysFit
  BY DEF Init, KeysFit, KeyStates
<1>2. SubsFit /\ DeliveriesFit
  BY DEF Init, SubsFit, DeliveriesFit
<1>3. RequestsFit
  BY IdleFits DEF Init, RequestsFit
<1> QED
  BY <1>1, <1>2, <1>3 DEF Fits

LEMMA NextKeepsFits == Fits /\ [Next]_vars => Fits'
<1> SUFFICES ASSUME Fits, [Next]_vars PROVE Fits'
  OBVIOUS
<1>1. SubsKept
  BY SubsAreKept
<1>2. SubsFit'
  BY <1>1 DEF SubsKept, SubsFit
<1>3. UNCHANGED delivery => DeliveriesFit'
  BY <1>1 DEF Fits, DeliveriesFit, SubsKept
<1>4. UNCHANGED req => RequestsFit'
  BY DEF Fits, RequestsFit
<1>5. UNCHANGED <<key, window>> /\ failures' \in {failures, failures + 1} => KeysFit'
  BY DEF Fits, KeysFit
<1>6. ASSUME NEW r \in Requests, RequestAction(r) PROVE Fits'
  <2>1. PICK rec \in Request : req' = [req EXCEPT ![r] = rec] /\ Course(r, rec)
    BY <1>6, CourseOfRequest
  <2>2. Aside
    BY <1>6, CourseOfRequest
  <2>3. rec.pc \in {"feature", "insert"} => rec.key \in Keys /\ rec.account \in Accounts
    <3>1. CASE Continues(req[r], rec)
      <4>1. rec.pc = "insert" => req[r].pc = "feature"
        BY <3>1 DEF Continues
      <4>2. rec.key = req[r].key /\ rec.account = req[r].account /\ rec.pc \in {"insert", "delete"}
        BY <3>1 DEF Continues, Fits, RequestsFit, Request
      <4>3. req[r].pc = "feature" => req[r].key \in Keys /\ req[r].account \in Accounts
        BY DEF Fits, RequestsFit
      <4> QED
        BY <4>1, <4>2, <4>3
    <3>2. CASE Completes(req[r], rec)
      <4>1. rec.pc = "idle"
        BY <3>2 DEF Completes, Fits, RequestsFit, Request
      <4> QED
        BY <4>1
    <3> QED
      BY <2>1, <3>1, <3>2, IdleFits DEF Course, Answers, Opens, Lists, Deletes
  <2>4. RequestsFit'
    BY <2>1, <2>3, OneRequestFits
  <2> QED
    BY <1>2, <1>3, <1>5, <2>2, <2>4 DEF Fits, Aside
<1>7. ASSUME NEW d \in DOMAIN delivery, DeliveryStep(d) PROVE Fits'
  <2>1. PICK new \in Delivery : /\ delivery' = [delivery EXCEPT ![d] = new]
                                /\ new.sub = delivery[d].sub
                                /\ Underway(delivery[d], new) \/ Finishes(delivery[d], new)
    BY <1>7, CourseOfDelivery
  <2>2. UNCHANGED <<key, req, window>>
    BY <1>7, CourseOfDelivery
  <2>3. failures' \in {failures, failures + 1}
    BY <2>1 DEF Underway, Finishes
  <2>4. DeliveriesFit'
    BY <1>1, <2>1, OneDeliveryFits
  <2> QED
    BY <1>2, <1>4, <1>5, <2>2, <2>3, <2>4 DEF Fits
<1>8. ASSUME NEW k \in Keys, KeyCourse(k) PROVE Fits'
  <2>1. UNCHANGED <<sub, delivery, req, failures>>
    BY <1>8 DEF KeyCourse
  <2>2. KeysFit'
    <3> DEFINE n == Cardinality({r \in Requests : req[r].pc # "idle" /\ req[r].key = k})
    <3>1. n \in Nat
      BY IntegrationsAssumption, FS_Subset, FS_CardinalityType
    <3>2. window' \in [Keys -> Nat]
      <4>1. window' = window \/ window' = [window EXCEPT ![k] = n]
        BY <1>8 DEF KeyCourse, Ends
      <4> HIDE DEF n
      <4> QED
        BY <3>1, <4>1 DEF Fits, KeysFit
    <3>3. key' \in [Keys -> KeyStates]
      BY <1>8 DEF KeyCourse, Ends, Fits, KeysFit, KeyStates
    <3> QED
      BY <2>1, <3>2, <3>3 DEF Fits, KeysFit
  <2> QED
    BY <1>2, <1>3, <1>4, <2>1, <2>2 DEF Fits
<1>9. ASSUME NEW s, Starts(s) PROVE Fits'
  <2>1. /\ UNCHANGED <<key, sub, req, window, failures>> /\ delivery' = delivery \o s
        /\ s \in Seq(Delivery) /\ \A i \in DOMAIN s : s[i].sub \in DOMAIN sub
    BY <1>9 DEF Starts
  <2>2. DeliveriesFit'
    <3>1. delivery \in Seq(Delivery) /\ \A i \in DOMAIN delivery : delivery[i].sub \in DOMAIN sub
      BY DEF Fits, DeliveriesFit
    <3>2. /\ delivery' \in Seq(Delivery) /\ Len(delivery) \in Nat /\ Len(s) \in Nat
          /\ DOMAIN delivery = 1 .. Len(delivery) /\ DOMAIN s = 1 .. Len(s)
          /\ DOMAIN delivery' = 1 .. Len(delivery) + Len(s)
      BY <2>1, <3>1
    <3>3. ASSUME NEW i \in DOMAIN delivery' PROVE delivery'[i].sub \in DOMAIN sub
      <4>1. CASE i <= Len(delivery)
        BY <2>1, <3>1, <3>2, <4>1
      <4>2. CASE i > Len(delivery)
        <5>1. i - Len(delivery) \in DOMAIN s /\ delivery'[i] = s[i - Len(delivery)]
          BY <2>1, <3>1, <3>2, <4>2
        <5> QED
          BY <2>1, <5>1
      <4> QED
        BY <3>2, <4>1, <4>2
    <3> QED
      BY <2>1, <3>2, <3>3 DEF DeliveriesFit
  <2> QED
    BY <1>2, <1>4, <1>5, <2>1, <2>2 DEF Fits
<1>10. CASE Crash
  BY <1>2, <1>5, <1>10, CourseOfCrash DEF Fits
<1>11. CASE Quiet
  BY <1>2, <1>3, <1>4, <1>5, <1>11 DEF Quiet, Fits
<1> QED
  BY <1>6, <1>7, <1>8, <1>9, <1>10, <1>11, StepKinds

-----------------------------------------------------------------------------
(* What a disconnection has gone through is gone.                          *)

LEMMA InitDisconnects == Init => DisconnectInv
BY IdleFits DEF Init, DisconnectInv, Disconnects

\* What Disconnects(q) says of the state after the step.
DisconnectsNext(q) ==
  /\ q.list \subseteq q.listed /\ q.listed \subseteq DOMAIN sub'
  /\ q.done => q.list = {}
  /\ q.op = "disconnect" /\ ~q.skipped => (q.listed \ q.list) \cap Live' = {}

\* A row marked deleted stays so, and what DeleteEach takes off its list is deleted then.
LEMMA NextKeepsDisconnects == Fits /\ DisconnectInv /\ [Next]_vars => DisconnectInv'
<1> SUFFICES ASSUME Fits, DisconnectInv, [Next]_vars PROVE DisconnectInv'
  OBVIOUS
<1>1. DOMAIN sub \subseteq DOMAIN sub' /\ Live' \cap DOMAIN sub \subseteq Live
  BY SubsAreKept DEF SubsKept, Live
<1>2. \A q : Disconnects(q) => DisconnectsNext(q)
  BY <1>1 DEF Disconnects, DisconnectsNext
<1>3. ASSUME \A r \in Requests : DisconnectsNext(req'[r]) PROVE DisconnectInv'
  BY <1>3 DEF DisconnectsNext, DisconnectInv, Disconnects
<1>4. UNCHANGED req => DisconnectInv'
  BY <1>2, <1>3 DEF DisconnectInv
<1>5. DisconnectsNext(Idle)
  BY IdleFits DEF DisconnectsNext
<1>6. ASSUME NEW r \in Requests, RequestAction(r) PROVE DisconnectInv'
  <2> DEFINE q == req[r]
  <2>1. PICK rec \in Request : req' = [req EXCEPT ![r] = rec] /\ Course(r, rec)
    BY <1>6, CourseOfRequest
  <2>2. q \in Request /\ Disconnects(q) /\ Live \subseteq DOMAIN sub
    BY DEF DisconnectInv, Fits, RequestsFit, Live
  <2> HIDE DEF q
  <2>3. ASSUME Opens(rec) PROVE DisconnectsNext(rec)
    BY <2>3 DEF Opens, DisconnectsNext
  <2>4. ASSUME Continues(q, rec) PROVE DisconnectsNext(rec)
    <3>1. /\ rec.list = q.list /\ rec.listed = q.listed /\ rec.done = q.done
          /\ rec.op = q.op /\ rec.skipped = q.skipped
      BY <2>2, <2>4 DEF Continues, Request
    <3> QED
      BY <1>2, <2>2, <3>1 DEF DisconnectsNext
  <2>5. ASSUME Lists(rec) PROVE DisconnectsNext(rec)
    BY <1>1, <2>2, <2>5 DEF Lists, DisconnectsNext
  <2>6. ASSUME Deletes(q, rec) PROVE DisconnectsNext(rec)
    <3>1. PICK s : /\ rec.list = q.list \ {s}
                   /\ \/ Deleted(s) /\ rec.skipped = q.skipped
                      \/ sub' = sub /\ rec.skipped = TRUE
      BY <2>6 DEF Deletes
    <3>2. Deleted(s) => s \notin Live'
      BY DeletionKeepsSubs
    <3>3. DisconnectsNext(q) /\ rec.op = q.op /\ rec.listed = q.listed /\ rec.done = q.done
      BY <1>2, <2>2, <2>6 DEF Deletes
    <3>4. rec.op = "disconnect" /\ ~rec.skipped => (rec.listed \ rec.list) \cap Live' = {}
      BY <3>1, <3>2, <3>3 DEF DisconnectsNext
    <3> QED
      BY <3>1, <3>3, <3>4 DEF DisconnectsNext
  <2>7. ASSUME Completes(q, rec) PROVE DisconnectsNext(rec)
    <3>1. /\ rec.list = q.list /\ rec.listed = q.listed /\ q.list = {}
          /\ rec.op = q.op /\ rec.skipped = q.skipped
      BY <2>2, <2>7 DEF Completes, Request
    <3> QED
      BY <1>2, <2>2, <3>1 DEF DisconnectsNext
  <2>8. DisconnectsNext(rec)
    BY <1>5, <2>1, <2>3, <2>4, <2>5, <2>6, <2>7 DEF Course, Answers, q
  <2> QED
    BY <1>2, <1>3, <2>1, <2>8 DEF DisconnectInv, Fits, RequestsFit
<1>7. CASE Crash
  <2>1. ASSUME NEW r \in Requests PROVE DisconnectsNext(req'[r])
    BY <1>2, <1>5, <1>7, CourseOfCrash DEF DisconnectInv
  <2> QED
    BY <1>3, <2>1
<1>8. ASSUME NEW d \in DOMAIN delivery, DeliveryStep(d) PROVE UNCHANGED req
  BY <1>8, CourseOfDelivery
<1> QED
  BY <1>4, <1>6, <1>7, <1>8, StepKinds DEF KeyCourse, Starts, Quiet

-----------------------------------------------------------------------------
(* Who subscribes with a key that has ended held it before.                *)

\* There are finitely many of both.
LEMMA FewHolders ==
  ASSUME Fits
  PROVE  \A k \in Keys : /\ IsFiniteSet(Late(k)) /\ IsFiniteSet(Holders(k))
                         /\ Cardinality(Late(k)) \in Nat /\ Cardinality(Holders(k)) \in Nat
<1> SUFFICES ASSUME NEW k \in Keys
             PROVE  /\ IsFiniteSet(Late(k)) /\ IsFiniteSet(Holders(k))
                    /\ Cardinality(Late(k)) \in Nat /\ Cardinality(Holders(k)) \in Nat
  OBVIOUS
<1>1. Late(k) \subseteq DOMAIN sub /\ Holders(k) \subseteq Requests /\ IsFiniteSet(Requests)
  BY IntegrationsAssumption DEF Late, Holders
<1>2. DOMAIN sub = 1 .. Len(sub) /\ Len(sub) \in Nat
  BY DEF Fits, SubsFit
<1>3. IsFiniteSet(DOMAIN sub)
  BY <1>2, FS_Interval
<1> QED
  BY <1>1, <1>3, FS_Subset, FS_CardinalityType

LEMMA InitLate == Init => LateInv
<1> SUFFICES ASSUME Init, NEW k \in Keys
             PROVE  key[k] = "none" /\ Holders(k) = {} /\ Late(k) = {}
  BY DEF LateInv
<1> QED
  BY IdleFits DEF Init, Holders, Late

\* Steps that make no subscription and after which no request has newly got a key that is
\* not active.
LEMMA HoldersLeave ==
  ASSUME Fits, LateInv, UNCHANGED <<key, window>>,
         \A k \in Keys : /\ Late(k)' = Late(k)
                         /\ key[k] # "active" => Holders(k)' \subseteq Holders(k)
  PROVE  LateInv'
<1> SUFFICES ASSUME NEW k \in Keys
             PROVE  /\ key[k] = "none" => Holders(k)' = {}
                    /\ key[k] \in {"none", "active"} => Late(k)' = {}
                    /\ key[k] \notin {"none", "active"} =>
                         Cardinality(Late(k)') + Cardinality(Holders(k)') <= window[k]
  BY DEF LateInv
<1> DEFINE H == Holders(k)
           HN == Holders(k)'
           m == Cardinality(H)
           n == Cardinality(HN)
           c == Cardinality(Late(k))
<1>1. IsFiniteSet(H) /\ m \in Nat /\ c \in Nat /\ window[k] \in Nat
  BY FewHolders DEF Fits, KeysFit
<1>2. key[k] # "active" => HN \subseteq H
  OBVIOUS
<1>3. key[k] # "active" => n \in Nat /\ n <= m
  <2> HIDE DEF H, HN
  <2> QED
    BY <1>1, <1>2, FS_Subset, FS_CardinalityType
<1>4. Late(k)' = Late(k)
  OBVIOUS
<1>5. /\ key[k] = "none" => H = {}
      /\ key[k] \in {"none", "active"} => Late(k) = {}
      /\ key[k] \notin {"none", "active"} => c + m <= window[k]
  BY DEF LateInv
<1>6. Cardinality(Late(k)') = c
  BY <1>4
<1> HIDE DEF m, n, c
<1>7. key[k] \notin {"none", "active"} => c + n <= window[k]
  BY <1>1, <1>3, <1>5
<1> QED
  BY <1>2, <1>4, <1>5, <1>6, <1>7 DEF n

LEMMA LateSame ==
  ASSUME SubsKept, DOMAIN sub' = DOMAIN sub
  PROVE  \A k \in Keys : Late(k)' = Late(k)
BY DEF SubsKept, Late

\* CreateIntegrationSubscription: the request is among the holders, and answers.
LEMMA SubscribeKeepsLate ==
  ASSUME Fits, LateInv, NEW r \in Requests, CreateIntegrationSubscription(r)
  PROVE  LateInv'
<1> DEFINE h == req[r].key
           i == Len(sub) + 1
<1>1. UNCHANGED <<key, window>> /\ req' = [req EXCEPT ![r] = Idle] /\ req[r].pc = "insert"
  BY DEF CreateIntegrationSubscription, Goes, Answered
<1>2. h \in Keys /\ req \in [Requests -> Request]
  BY <1>1 DEF Fits, RequestsFit
<1>3. /\ i \notin DOMAIN sub /\ DOMAIN sub' = DOMAIN sub \cup {i}
      /\ \A s \in DOMAIN sub : sub'[s] = sub[s]
      /\ sub'[i].key = h /\ sub'[i].late = (key[h] # "active")
  <2>1. PICK f \in Filters : sub'[i] = NewSub(r, f)
    BY SubscribeKeepsSubs
  <2>2. i \notin DOMAIN sub /\ DOMAIN sub' = DOMAIN sub \cup {i} /\ \A s \in DOMAIN sub : sub'[s] = sub[s]
    BY SubscribeKeepsSubs
  <2> DEFINE late == key[req[r].key] # "active"
  <2>3. NewSub(r, f) = [account |-> req[r].account, key |-> req[r].key, filter |-> f,
                        deleted |-> FALSE, triggers |-> 0, errors |-> 0, late |-> late]
    BY DEF NewSub
  <2> HIDE DEF late
  <2>4. NewSub(r, f).key = h /\ NewSub(r, f).late = late
    BY <2>3
  <2> QED
    BY <2>1, <2>2, <2>4 DEF late
<1>4. r \in Holders(h)
  BY <1>1 DEF Holders
<1>5. ASSUME NEW k \in Keys PROVE Holders(k)' = Holders(k) \ {r}
  BY <1>1, <1>2, IdleFits DEF Holders
<1>6. ASSUME NEW k \in Keys
      PROVE  Late(k)' = IF k = h /\ key[h] # "active" THEN Late(k) \cup {i} ELSE Late(k)
  BY <1>3 DEF Late
<1>7. key[h] # "none"
  BY <1>2, <1>4 DEF LateInv
<1>8. ASSUME NEW k \in Keys
      PROVE  /\ key[k] = "none" => Holders(k)' = {}
             /\ key[k] \in {"none", "active"} => Late(k)' = {}
             /\ key[k] \notin {"none", "active"} =>
                  Cardinality(Late(k)') + Cardinality(Holders(k)') <= window[k]
  <2>1. /\ key[k] = "none" => Holders(k) = {}
        /\ key[k] \in {"none", "active"} => Late(k) = {}
        /\ key[k] \notin {"none", "active"} =>
             Cardinality(Late(k)) + Cardinality(Holders(k)) <= window[k]
    BY DEF LateInv
  <2>2. /\ IsFiniteSet(Late(k)) /\ IsFiniteSet(Holders(k)) /\ window[k] \in Nat
        /\ Cardinality(Late(k)) \in Nat /\ Cardinality(Holders(k)) \in Nat
    BY FewHolders DEF Fits, KeysFit
  <2>3. i \notin Late(k)
    BY <1>3 DEF Late
  <2>4. Cardinality(Holders(k) \ {r}) = IF r \in Holders(k) THEN Cardinality(Holders(k)) - 1
                                        ELSE Cardinality(Holders(k))
    BY <2>2, FS_RemoveElement
  <2>5. Cardinality(Late(k) \cup {i}) = Cardinality(Late(k)) + 1
    BY <2>2, <2>3, FS_AddElement
  <2> HIDE DEF i
  <2>6. CASE k = h
    <3>1. CASE key[h] = "active"
      BY <1>5, <1>6, <2>1, <2>6, <3>1
    <3>2. CASE key[h] # "active"
      <4>1. Cardinality(Holders(k)') = Cardinality(Holders(k)) - 1
        BY <1>4, <1>5, <2>4, <2>6
      <4>2. Cardinality(Late(k)') = Cardinality(Late(k)) + 1
        BY <1>6, <2>5, <2>6, <3>2
      <4> QED
        BY <1>7, <2>1, <2>2, <2>6, <3>2, <4>1, <4>2
    <3> QED
      BY <3>1, <3>2
  <2>7. CASE k # h
    <3>1. Late(k)' = Late(k) /\ Holders(k)' = Holders(k) \ {r}
      BY <1>5, <1>6, <2>7
    <3>2. Cardinality(Holders(k)') <= Cardinality(Holders(k)) /\ Cardinality(Holders(k)') \in Int
      BY <2>2, <2>4, <3>1
    <3>3. Cardinality(Late(k)') = Cardinality(Late(k))
      BY <3>1
    <3>4. Cardinality(Late(k)) + Cardinality(Holders(k)) <= window[k] =>
            Cardinality(Late(k)') + Cardinality(Holders(k)') <= window[k]
      BY <2>2, <3>2, <3>3
    <3> QED
      BY <2>1, <3>1, <3>4
  <2> QED
    BY <2>6, <2>7
<1> QED
  BY <1>1, <1>8 DEF LateInv

\* A key's creation finds no request with it, and its end counts them all.
LEMMA KeyKeepsLate ==
  ASSUME Fits, LateInv, NEW h \in Keys, KeyCourse(h)
  PROVE  LateInv'
<1>1. \A k \in Keys : Late(k)' = Late(k) /\ Holders(k)' = Holders(k)
  BY DEF KeyCourse, Late, Holders
<1>2. key \in [Keys -> KeyStates] /\ window \in [Keys -> Nat]
  BY DEF Fits, KeysFit
<1>3. CASE key[h] = "none" /\ key' = [key EXCEPT ![h] = "active"] /\ window' = window
  BY <1>1, <1>2, <1>3 DEF LateInv
<1>4. ASSUME key[h] \in {"active", "expired"},
             NEW status \in {"revoked", "expired"}, Ends(h, status)
      PROVE  LateInv'
  <2> DEFINE B == {r \in Requests : req[r].pc # "idle" /\ req[r].key = h}
             n == Cardinality(B)
  <2>1. key' = [key EXCEPT ![h] = status] /\
        window' = IF key[h] = "active" THEN [window EXCEPT ![h] = n] ELSE window
    BY <1>4 DEF Ends
  <2>2. Holders(h) \subseteq B
    BY DEF Holders
  <2>3. IsFiniteSet(B)
    BY IntegrationsAssumption, FS_Subset
  <2>4. n \in Nat
    BY <2>3, FS_CardinalityType
  <2>5. Cardinality(Holders(h)) <= n
    <3> HIDE DEF B
    <3> QED
      BY <2>2, <2>3, FS_Subset
  <2>6. key[h] = "active" => Late(h) = {}
    BY DEF LateInv
  <2> HIDE DEF B, n
  <2>7. ASSUME NEW k \in Keys, k # h
        PROVE  key'[k] = key[k] /\ window'[k] = window[k]
    BY <1>2, <2>1, <2>7
  <2>8. key'[h] = status /\ window'[h] = IF key[h] = "active" THEN n ELSE window[h]
    BY <1>2, <2>1
  <2>9. Cardinality(Late(h)) + Cardinality(Holders(h)) <= window'[h]
    <3>1. CASE key[h] = "active"
      <4>1. Cardinality(Late(h)) = 0
        BY <2>6, <3>1, FS_EmptySet
      <4> QED
        BY <2>4, <2>5, <2>8, <3>1, <4>1, FewHolders
    <3>2. CASE key[h] = "expired"
      BY <2>8, <3>2 DEF LateInv
    <3> QED
      BY <1>4, <3>1, <3>2
  <2>10. ASSUME NEW k \in Keys
         PROVE  /\ key'[k] = "none" => Holders(k) = {}
                /\ key'[k] \in {"none", "active"} => Late(k) = {}
                /\ key'[k] \notin {"none", "active"} =>
                     Cardinality(Late(k)) + Cardinality(Holders(k)) <= window'[k]
    <3>1. CASE k = h
      BY <1>4, <2>8, <2>9, <3>1
    <3>2. CASE k # h
      BY <2>7, <3>2 DEF LateInv
    <3> QED
      BY <3>1, <3>2
  <2> QED
    BY <1>1, <2>10 DEF LateInv
<1> QED
  BY <1>3, <1>4 DEF KeyCourse

\* Only the middleware gives a request a key, an active one.
LEMMA NextKeepsLate == Fits /\ LateInv /\ [Next]_vars => LateInv'
<1> SUFFICES ASSUME Fits, LateInv, [Next]_vars PROVE LateInv'
  OBVIOUS
<1>1. SubsKept
  BY SubsAreKept
<1>2. req \in [Requests -> Request]
  BY DEF Fits, RequestsFit
<1>3. ASSUME UNCHANGED <<key, window, req>>, DOMAIN sub' = DOMAIN sub PROVE LateInv'
  <2>1. \A k \in Keys : Late(k)' = Late(k)
    BY <1>1, <1>3, LateSame
  <2>2. \A k \in Keys : Holders(k)' = Holders(k)
    BY <1>3 DEF Holders
  <2> QED
    BY <1>3, <2>1, <2>2, HoldersLeave
<1>4. ASSUME NEW r \in Requests, RequestAction(r) PROVE LateInv'
  <2> DEFINE q == req[r]
  <2>1. PICK rec \in Request : req' = [req EXCEPT ![r] = rec] /\ Course(r, rec)
    BY <1>4, CourseOfRequest
  <2>2. UNCHANGED <<key, window>>
    BY <1>4, CourseOfRequest DEF Aside
  <2>3. CASE CreateIntegrationSubscription(r)
    BY <2>3, SubscribeKeepsLate
  <2>4. CASE ~CreateIntegrationSubscription(r)
    <3>1. DOMAIN sub' = DOMAIN sub
      BY <2>1, <2>4, DeletionKeepsSubs
      DEF Course, Answers, Opens, Continues, Lists, Deletes, Completes
    <3>2. rec.pc \in {"feature", "insert"} =>
            key[rec.key] = "active" \/ (q.pc \in {"feature", "insert"} /\ rec.key = q.key)
      <4>1. CASE Continues(q, rec)
        <5>1. rec.key = q.key /\ (rec.pc = "insert" => q.pc = "feature") /\ rec.pc \in {"insert", "delete"}
          BY <1>2, <4>1 DEF Continues, Request
        <5> QED
          BY <5>1
      <4>2. CASE Completes(q, rec)
        <5>1. rec.pc = "idle"
          BY <1>2, <4>2 DEF Completes, Request
        <5> QED
          BY <5>1
      <4> QED
        BY <2>1, <4>1, <4>2, IdleFits DEF Course, Answers, Opens, Lists, Deletes
    <3>3. ASSUME NEW k \in Keys, key[k] # "active" PROVE Holders(k)' \subseteq Holders(k)
      BY <1>2, <2>1, <3>2, <3>3 DEF Holders
    <3> QED
      BY <1>1, <2>2, <3>1, <3>3, LateSame, HoldersLeave
  <2> QED
    BY <2>3, <2>4
<1>5. ASSUME NEW d \in DOMAIN delivery, DeliveryStep(d) PROVE LateInv'
  <2>1. DOMAIN sub' = DOMAIN sub
    BY <1>5, CourseOfDelivery, CountKeepsSubs DEF Underway, Finishes
  <2> QED
    BY <1>3, <1>5, <2>1, CourseOfDelivery
<1>6. CASE Crash
  <2>1. UNCHANGED <<key, window, sub>>
    BY <1>6, CourseOfCrash
  <2>2. \A k \in Keys : Holders(k)' \subseteq Holders(k)
    BY <1>6, CourseOfCrash, IdleFits DEF Holders
  <2> QED
    BY <1>1, <2>1, <2>2, LateSame, HoldersLeave
<1> QED
  BY <1>3, <1>4, <1>5, <1>6, KeyKeepsLate, StepKinds DEF Starts, Quiet

-----------------------------------------------------------------------------
(* What is counted is what was called.                                     *)

LEMMA InitCount == Init => CountInv
<1> SUFFICES ASSUME Init PROVE CountInv
  OBVIOUS
<1>1. DOMAIN sub = {} /\ DOMAIN delivery = {}
  BY DEF Init
<1> QED
  BY <1>1 DEF CountInv

\* There are finitely many deliveries.
LEMMA FewDeliveries ==
  ASSUME Fits
  PROVE  \A s : /\ IsFiniteSet(Of(s)) /\ IsFiniteSet(Done(s)) /\ Cardinality(Done(s)) \in Nat
                /\ \A status : /\ IsFiniteSet(DoneWith(s, status))
                               /\ Cardinality(DoneWith(s, status)) \in Nat
<1>1. DOMAIN delivery = 1 .. Len(delivery) /\ Len(delivery) \in Nat
  BY DEF Fits, DeliveriesFit
<1>2. IsFiniteSet(DOMAIN delivery)
  BY <1>1, FS_Interval
<1> SUFFICES ASSUME NEW s
             PROVE  /\ IsFiniteSet(Of(s)) /\ IsFiniteSet(Done(s)) /\ Cardinality(Done(s)) \in Nat
                    /\ \A status : /\ IsFiniteSet(DoneWith(s, status))
                                   /\ Cardinality(DoneWith(s, status)) \in Nat
  OBVIOUS
<1>3. /\ Of(s) \subseteq DOMAIN delivery /\ Done(s) \subseteq DOMAIN delivery
      /\ \A status : DoneWith(s, status) \subseteq DOMAIN delivery
  BY DEF Of, Done, DoneWith
<1> QED
  BY <1>2, <1>3, FS_Subset, FS_CardinalityType

\* The counters of s and the deliveries they are about are as before.
SameCount(s) ==
  /\ s \in DOMAIN sub /\ sub'[s].triggers = sub[s].triggers /\ sub'[s].errors = sub[s].errors
  /\ Done(s)' = Done(s)
  /\ failures' = failures => /\ DoneWith(s, "success")' = DoneWith(s, "success")
                             /\ DoneWith(s, "failed")' = DoneWith(s, "failed")
\* s is new, and nothing has been delivered for it.
NoCount(s) == sub'[s].triggers = 0 /\ sub'[s].errors = 0 /\ Done(s)' = {}

\* What CountInv says of s in the state after the step.
CountNext(s) ==
  /\ sub'[s].triggers + sub'[s].errors <= Cardinality(Done(s)')
  /\ failures' = 0 => /\ sub'[s].triggers = Cardinality(DoneWith(s, "success")')
                      /\ sub'[s].errors = Cardinality(DoneWith(s, "failed")')

LEMMA OneCountStays ==
  ASSUME Fits, CountInv, failures' \in {failures, failures + 1},
         NEW s \in DOMAIN sub', SameCount(s) \/ NoCount(s)
  PROVE  CountNext(s)
<1>1. failures \in Nat /\ (failures' = 0 => failures = 0 /\ failures' = failures)
  BY DEF Fits, KeysFit
<1>2. CASE SameCount(s)
  <2>1. /\ s \in DOMAIN sub /\ sub'[s].triggers = sub[s].triggers /\ sub'[s].errors = sub[s].errors
        /\ Done(s)' = Done(s)
    BY <1>2 DEF SameCount
  <2>2. failures' = 0 => /\ DoneWith(s, "success")' = DoneWith(s, "success")
                         /\ DoneWith(s, "failed")' = DoneWith(s, "failed")
    BY <1>1, <1>2 DEF SameCount
  <2>3. /\ sub[s].triggers + sub[s].errors <= Cardinality(Done(s))
        /\ failures = 0 => /\ sub[s].triggers = Cardinality(DoneWith(s, "success"))
                           /\ sub[s].errors = Cardinality(DoneWith(s, "failed"))
    BY <2>1 DEF CountInv
  <2> QED
    BY <1>1, <2>1, <2>2, <2>3 DEF CountNext
<1>3. CASE NoCount(s)
  <2>1. sub'[s].triggers = 0 /\ sub'[s].errors = 0 /\ Done(s)' = {}
    BY <1>3 DEF NoCount
  <2>2. DoneWith(s, "success")' = {} /\ DoneWith(s, "failed")' = {}
    BY <2>1 DEF DoneWith
  <2>3. Cardinality({}) = 0
    BY FS_EmptySet
  <2> QED
    BY <2>1, <2>2, <2>3 DEF CountNext
<1> QED
  BY <1>2, <1>3

LEMMA CountsStay ==
  ASSUME Fits, CountInv, failures' \in {failures, failures + 1},
         \A s \in DOMAIN sub' : SameCount(s) \/ NoCount(s),
         failures = 0 /\ failures' = failures => \A d \in DOMAIN delivery' : Truthful(delivery'[d])
  PROVE  CountInv'
<1>1. failures \in Nat /\ (failures' = 0 => failures = 0 /\ failures' = failures)
  BY DEF Fits, KeysFit
<1>2. \A s \in DOMAIN sub' : CountNext(s)
  BY OneCountStays
<1> QED
  BY <1>1, <1>2 DEF CountNext, CountInv

\* A subscription that was just made has no deliveries.
LEMMA SubscribeKeepsCount ==
  ASSUME Fits, CountInv, NEW r \in Requests, CreateIntegrationSubscription(r)
  PROVE  CountInv'
<1> DEFINE i == Len(sub) + 1
<1>1. delivery' = delivery /\ failures' = failures
  BY DEF CreateIntegrationSubscription, counters
<1>2. /\ DOMAIN sub' = DOMAIN sub \cup {i} /\ i \notin DOMAIN sub
      /\ \A s \in DOMAIN sub : sub'[s] = sub[s]
  <2>1. /\ DOMAIN sub' = DOMAIN sub \cup {i} /\ Len(sub) \in Nat /\ DOMAIN sub = 1 .. Len(sub)
        /\ \A s \in DOMAIN sub : sub'[s] = sub[s]
    BY SubscribeKeepsSubs
  <2> QED
    BY <2>1
<1>3. sub'[i].triggers = 0 /\ sub'[i].errors = 0
  <2>1. PICK f \in Filters : sub'[i] = NewSub(r, f)
    BY SubscribeKeepsSubs
  <2> QED
    BY <2>1 DEF NewSub
<1>4. \A s : /\ Done(s)' = Done(s) /\ DoneWith(s, "success")' = DoneWith(s, "success")
             /\ DoneWith(s, "failed")' = DoneWith(s, "failed")
  BY <1>1 DEF Done, DoneWith, Of
<1>5. Done(i) = {}
  BY <1>2 DEF Done, Of, Fits, DeliveriesFit
<1>6. \A s \in DOMAIN sub' : SameCount(s) \/ NoCount(s)
  BY <1>2, <1>3, <1>4, <1>5 DEF SameCount, NoCount
<1>7. failures = 0 /\ failures' = failures => \A d \in DOMAIN delivery' : Truthful(delivery'[d])
  BY <1>1 DEF CountInv
<1> QED
  BY <1>1, <1>6, <1>7, CountsStay

\* The delivery that is over is counted by the subscription it is for, and by no other.
LEMMA FinishKeepsCount ==
  ASSUME Fits, CountInv, NEW d \in DOMAIN delivery, NEW new \in Delivery,
         delivery' = [delivery EXCEPT ![d] = new], new.sub = delivery[d].sub,
         Finishes(delivery[d], new)
  PROVE  CountInv'
<1> DEFINE q == delivery[d]
           u == q.sub
<1>1. /\ q.pc \in {"count_ok", "count_bad"} /\ new.pc = "done" /\ new.status = q.status
      /\ (sub' = sub /\ failures' = failures + 1) \/ (Counts(q) /\ failures' = failures)
  BY DEF Finishes
<1>2. /\ SubsKept /\ DOMAIN sub' = DOMAIN sub
      /\ \A s \in DOMAIN sub \ {u} : sub'[s] = sub[s]
      /\ sub' = sub \/ CountsAs(q, sub[u], sub'[u])
  <2>1. CASE sub' = sub
    BY <2>1 DEF SubsKept, Fits, SubsFit
  <2>2. CASE Counts(q)
    BY <2>2, CountKeepsSubs
  <2> QED
    BY <1>1, <2>1, <2>2
<1>3. /\ DOMAIN delivery' = DOMAIN delivery /\ delivery'[d] = new
      /\ \A i \in DOMAIN delivery \ {d} : delivery'[i] = delivery[i]
  BY <1>2, OneDeliveryFits
<1>4. failures \in Nat /\ u \in DOMAIN sub /\ sub[u].triggers \in Nat /\ sub[u].errors \in Nat
  <2>1. failures \in Nat /\ u \in DOMAIN sub
    BY DEF Fits, KeysFit, DeliveriesFit
  <2>2. sub[u] \in Subscription
    BY <2>1 DEF Fits, SubsFit
  <2> QED
    BY <2>1, <2>2 DEF Subscription
<1>5. ASSUME NEW s, s # u
      PROVE  /\ Done(s)' = Done(s) /\ DoneWith(s, "success")' = DoneWith(s, "success")
             /\ DoneWith(s, "failed")' = DoneWith(s, "failed")
  BY <1>3, <1>5 DEF Done, DoneWith, Of
<1>6. d \notin Done(u) /\ Done(u)' = Done(u) \cup {d}
  BY <1>1, <1>3 DEF Done, Of
<1>7. /\ d \notin DoneWith(u, "success") /\ d \notin DoneWith(u, "failed")
      /\ DoneWith(u, "success")' = IF q.status = "success" THEN DoneWith(u, "success") \cup {d}
                                   ELSE DoneWith(u, "success")
      /\ DoneWith(u, "failed")' = IF q.status = "failed" THEN DoneWith(u, "failed") \cup {d}
                                  ELSE DoneWith(u, "failed")
  BY <1>1, <1>3 DEF Done, DoneWith, Of
<1>8. /\ Cardinality(Done(u)) \in Nat /\ Cardinality(Done(u) \cup {d}) = Cardinality(Done(u)) + 1
      /\ Cardinality(DoneWith(u, "success")) \in Nat /\ Cardinality(DoneWith(u, "failed")) \in Nat
      /\ Cardinality(DoneWith(u, "success") \cup {d}) = Cardinality(DoneWith(u, "success")) + 1
      /\ Cardinality(DoneWith(u, "failed") \cup {d}) = Cardinality(DoneWith(u, "failed")) + 1
  <2> HIDE DEF q, u
  <2> QED
    BY <1>6, <1>7, FewDeliveries, FS_AddElement
<1>9. failures = 0 => /\ q.pc = "count_ok" => q.status = "success"
                      /\ q.pc = "count_bad" => q.status = "failed"
  BY DEF CountInv, Truthful
<1>10. CountNext(u)
  <2>1. /\ sub[u].triggers + sub[u].errors <= Cardinality(Done(u))
        /\ failures = 0 => /\ sub[u].triggers = Cardinality(DoneWith(u, "success"))
                           /\ sub[u].errors = Cardinality(DoneWith(u, "failed"))
    BY <1>4 DEF CountInv
  <2> HIDE DEF q, u
  <2>2. CASE sub' = sub /\ failures' = failures + 1
    BY <1>4, <1>6, <1>8, <2>1, <2>2 DEF CountNext
  <2>3. CASE sub' # sub /\ failures' = failures
    <3>1. /\ q.pc = "count_ok" => /\ sub'[u].triggers = sub[u].triggers + 1
                                  /\ sub'[u].errors = sub[u].errors
          /\ q.pc # "count_ok" => /\ sub'[u].triggers = sub[u].triggers
                                  /\ sub'[u].errors = sub[u].errors + 1
      BY <1>2, <2>3 DEF CountsAs
    <3>2. sub'[u].triggers + sub'[u].errors <= Cardinality(Done(u)')
      BY <1>4, <1>6, <1>8, <2>1, <3>1
    <3>3. CASE q.pc = "count_ok"
      <4>1. failures = 0 => /\ sub'[u].triggers = Cardinality(DoneWith(u, "success")')
                            /\ sub'[u].errors = Cardinality(DoneWith(u, "failed")')
        BY <1>7, <1>8, <1>9, <2>1, <3>1, <3>3
      <4> QED
        BY <2>3, <3>2, <4>1 DEF CountNext
    <3>4. CASE q.pc = "count_bad"
      <4>1. failures = 0 => /\ sub'[u].triggers = Cardinality(DoneWith(u, "success")')
                            /\ sub'[u].errors = Cardinality(DoneWith(u, "failed")')
        BY <1>7, <1>8, <1>9, <2>1, <3>1, <3>4
      <4> QED
        BY <2>3, <3>2, <4>1 DEF CountNext
    <3> QED
      BY <1>1, <3>3, <3>4
  <2>4. Counts(q) => CountsAs(q, sub[u], sub'[u])
    BY CountKeepsSubs DEF q, u
  <2>5. Counts(q) => sub' # sub
    BY <1>1, <1>4, <2>4 DEF CountsAs
  <2> QED
    BY <1>1, <2>2, <2>3, <2>5
<1>11. ASSUME NEW s \in DOMAIN sub' PROVE CountNext(s)
  <2>1. s # u => SameCount(s)
    BY <1>2, <1>5 DEF SameCount
  <2>2. failures' \in {failures, failures + 1}
    BY <1>1
  <2> QED
    BY <1>10, <2>1, <2>2, OneCountStays
<1>12. failures' = 0 => \A i \in DOMAIN delivery' : Truthful(delivery'[i])
  <2>1. failures' = 0 => failures = 0
    BY <1>1, <1>4
  <2>2. failures = 0 => Truthful(new)
    BY <1>1, <1>9 DEF Truthful
  <2> QED
    BY <1>3, <2>1, <2>2 DEF CountInv
<1> QED
  BY <1>11, <1>12 DEF CountNext, CountInv

LEMMA NextKeepsCount == Fits /\ CountInv /\ [Next]_vars => CountInv'
<1> SUFFICES ASSUME Fits, CountInv, [Next]_vars PROVE CountInv'
  OBVIOUS
<1>1. \* The deliveries that are over are as before, and the counters too.
      ASSUME DOMAIN sub' = DOMAIN sub, failures' \in {failures, failures + 1},
             \A s \in DOMAIN sub : sub'[s].triggers = sub[s].triggers /\ sub'[s].errors = sub[s].errors,
             \A s : Done(s)' = Done(s),
             failures' = failures =>
               /\ \A s : /\ DoneWith(s, "success")' = DoneWith(s, "success")
                         /\ DoneWith(s, "failed")' = DoneWith(s, "failed")
               /\ failures = 0 => \A d \in DOMAIN delivery' : Truthful(delivery'[d])
      PROVE  CountInv'
  <2>1. \A s \in DOMAIN sub' : SameCount(s)
    BY <1>1 DEF SameCount
  <2> QED
    BY <1>1, <2>1, CountsStay
<1>2. ASSUME UNCHANGED delivery, DOMAIN sub' = DOMAIN sub, failures' \in {failures, failures + 1},
             \A s \in DOMAIN sub : sub'[s].triggers = sub[s].triggers /\ sub'[s].errors = sub[s].errors
      PROVE  CountInv'
  <2>1. \A s : /\ Done(s)' = Done(s) /\ DoneWith(s, "success")' = DoneWith(s, "success")
               /\ DoneWith(s, "failed")' = DoneWith(s, "failed")
    BY <1>2 DEF Done, DoneWith, Of
  <2>2. failures = 0 => \A d \in DOMAIN delivery' : Truthful(delivery'[d])
    BY <1>2 DEF CountInv
  <2> QED
    BY <1>1, <1>2, <2>1, <2>2
<1>3. ASSUME NEW r \in Requests, RequestAction(r) PROVE CountInv'
  <2>1. Aside /\ \E rec \in Request : Course(r, rec)
    BY <1>3, CourseOfRequest
  <2>2. CASE CreateIntegrationSubscription(r)
    BY <2>2, SubscribeKeepsCount
  <2>3. CASE ~CreateIntegrationSubscription(r)
    <3>1. sub' = sub \/ \E s : Deleted(s)
      BY <2>1, <2>3 DEF Course, Answers, Opens, Continues, Lists, Deletes, Completes
    <3>2. /\ DOMAIN sub' = DOMAIN sub
          /\ \A s \in DOMAIN sub : sub'[s].triggers = sub[s].triggers /\ sub'[s].errors = sub[s].errors
      BY <3>1, DeletionKeepsSubs
    <3> QED
      BY <1>2, <2>1, <3>2 DEF Aside
  <2> QED
    BY <2>2, <2>3
<1>4. ASSUME NEW d \in DOMAIN delivery, DeliveryStep(d) PROVE CountInv'
  <2>1. PICK new \in Delivery : /\ delivery' = [delivery EXCEPT ![d] = new]
                                /\ new.sub = delivery[d].sub
                                /\ Underway(delivery[d], new) \/ Finishes(delivery[d], new)
    BY <1>4, CourseOfDelivery
  <2>2. CASE Underway(delivery[d], new)
    <3>1. /\ delivery[d].pc # "done" /\ new.pc # "done" /\ sub' = sub
          /\ \/ failures' = failures + 1
             \/ failures' = failures /\ (Truthful(delivery[d]) => Truthful(new))
      BY <2>2 DEF Underway
    <3>2. /\ DOMAIN delivery' = DOMAIN delivery /\ delivery'[d] = new
          /\ \A i \in DOMAIN delivery \ {d} : delivery'[i] = delivery[i]
      BY <2>1, OneDeliveryFits, SubsAreKept
    <3>3. \A s : /\ Done(s)' = Done(s) /\ DoneWith(s, "success")' = DoneWith(s, "success")
                 /\ DoneWith(s, "failed")' = DoneWith(s, "failed")
      BY <3>1, <3>2 DEF Done, DoneWith, Of
    <3>4. failures \in Nat
      BY DEF Fits, KeysFit
    <3>5. failures' = failures /\ failures = 0 => \A i \in DOMAIN delivery' : Truthful(delivery'[i])
      BY <3>1, <3>2, <3>4 DEF CountInv
    <3> QED
      BY <1>1, <3>1, <3>3, <3>5
  <2>3. CASE Finishes(delivery[d], new)
    BY <2>1, <2>3, FinishKeepsCount
  <2> QED
    BY <2>1, <2>2, <2>3
<1>5. ASSUME NEW k \in Keys, KeyCourse(k) PROVE CountInv'
  BY <1>2, <1>5 DEF KeyCourse
<1>6. ASSUME NEW s, Starts(s) PROVE CountInv'
  <2>1. /\ UNCHANGED <<sub, failures>> /\ delivery' = delivery \o s /\ s \in Seq(Delivery)
        /\ \A i \in DOMAIN s : s[i].pc = "create"
    BY <1>6 DEF Starts
  <2>2. delivery \in Seq(Delivery) /\ Len(delivery) \in Nat /\ Len(s) \in Nat
    BY <2>1 DEF Fits, DeliveriesFit
  <2>3. /\ DOMAIN delivery \subseteq DOMAIN delivery'
        /\ \A d \in DOMAIN delivery : delivery'[d] = delivery[d]
    BY <2>1, <2>2
  <2>4. ASSUME NEW d \in DOMAIN delivery' \ DOMAIN delivery PROVE delivery'[d].pc = "create"
    <3>1. d - Len(delivery) \in DOMAIN s /\ delivery'[d] = s[d - Len(delivery)]
      BY <2>1, <2>2
    <3> QED
      BY <2>1, <3>1
  <2>5. \A u : /\ Done(u)' = Done(u) /\ DoneWith(u, "success")' = DoneWith(u, "success")
               /\ DoneWith(u, "failed")' = DoneWith(u, "failed")
    BY <2>3, <2>4 DEF Done, DoneWith, Of
  <2>6. failures = 0 => \A d \in DOMAIN delivery' : Truthful(delivery'[d])
    BY <2>3, <2>4 DEF CountInv, Truthful
  <2> QED
    BY <1>1, <2>1, <2>5, <2>6
<1>7. CASE Crash
  <2>1. \A s : Done(s)' = Done(s)
    BY <1>7, CourseOfCrash DEF Done, Of
  <2>2. UNCHANGED sub /\ failures' = failures + 1 /\ failures \in Nat
    BY <1>7, CourseOfCrash DEF Fits, KeysFit
  <2> QED
    BY <1>1, <2>1, <2>2
<1>8. CASE Quiet
  BY <1>2, <1>8 DEF Quiet
<1> QED
  BY <1>3, <1>4, <1>5, <1>6, <1>7, <1>8, StepKinds

-----------------------------------------------------------------------------
(* The theorems.                                                           *)

\* Rows, requests and deliveries have their types; a request that subscribes has the key
\* it came with, and a delivery has a subscription.
THEOREM IntegrationsTypeCorrect == Spec => []Fits
BY InitFits, NextKeepsFits, PTL DEF Spec

\* A disconnection that says it succeeded left none of the subscriptions it listed, whoever
\* else deletes them meanwhile (HandleDisconnect: the loop goes on after "not found").
THEOREM DisconnectionsAreComplete == Spec => []DisconnectLeavesNothing
<1>1. DisconnectInv => DisconnectLeavesNothing
  <2> SUFFICES ASSUME DisconnectInv, NEW r \in Requests,
                      req[r].op = "disconnect", req[r].done, ~req[r].skipped
               PROVE  req[r].listed \cap Live = {}
    BY DEF DisconnectLeavesNothing
  <2> QED
    BY DEF DisconnectInv, Disconnects
<1> QED
  BY <1>1, InitDisconnects, NextKeepsDisconnects, IntegrationsTypeCorrect, PTL DEF Spec

\* A key that was revoked or has expired subscribes no more than the requests that had it
\* by then, which nothing checks again (APIKeyMiddleware, then HandleSubscribe).
THEOREM LateSubscriptions == Spec => []LateSubscriptionsBounded
<1>1. Fits /\ LateInv => LateSubscriptionsBounded
  <2> SUFFICES ASSUME Fits, LateInv, NEW k \in Keys PROVE Cardinality(Late(k)) <= window[k]
    BY DEF LateSubscriptionsBounded, Late
  <2>1. window[k] \in Nat /\ Cardinality(Late(k)) \in Nat /\ Cardinality(Holders(k)) \in Nat
    BY FewHolders DEF Fits, KeysFit
  <2>2. CASE key[k] \in {"none", "active"}
    <3>1. Cardinality(Late(k)) = 0
      BY <2>2, FS_EmptySet DEF LateInv
    <3> QED
      BY <2>1, <3>1
  <2>3. CASE key[k] \notin {"none", "active"}
    BY <2>1, <2>3 DEF LateInv
  <2> QED
    BY <2>2, <2>3
<1> QED
  BY <1>1, InitLate, NextKeepsLate, IntegrationsTypeCorrect, PTL DEF Spec

\* A subscription never counts more than was called for it, and without failures it counts
\* what the rows of its deliveries say (deliverToSubscription: the row first, then the
\* counters, each in a statement of its own).
THEOREM CountersAreTrue == Spec => []CountersTrue
<1>1. Fits /\ CountInv => CountersTrue
  <2> SUFFICES ASSUME Fits, CountInv, NEW s \in DOMAIN sub
               PROVE  /\ sub[s].triggers + sub[s].errors <= Cardinality({d \in Of(s) : Called(d)})
                      /\ failures = 0 /\ (\A d \in Of(s) : delivery[d].pc = "done") =>
                           /\ sub[s].triggers = Cardinality(With(s, "success"))
                           /\ sub[s].errors = Cardinality(With(s, "failed"))
                           /\ With(s, "pending") = {}
    BY DEF CountersTrue
  <2> DEFINE C == {d \in Of(s) : Called(d)}
  <2>1. sub[s].triggers + sub[s].errors <= Cardinality(C)
    <3>1. Done(s) \subseteq C /\ C \subseteq Of(s)
      BY DEF Done, Called
    <3> HIDE DEF C
    <3>2. Cardinality(Done(s)) <= Cardinality(C) /\ Cardinality(C) \in Nat
      BY <3>1, FewDeliveries, FS_Subset, FS_CardinalityType
    <3>3. sub[s].triggers \in Nat /\ sub[s].errors \in Nat
      <4>1. sub[s] \in Subscription
        BY DEF Fits, SubsFit
      <4> QED
        BY <4>1 DEF Subscription
    <3>4. sub[s].triggers + sub[s].errors <= Cardinality(Done(s)) /\ Cardinality(Done(s)) \in Nat
      BY FewDeliveries DEF CountInv
    <3> QED
      BY <3>2, <3>3, <3>4
  <2>2. ASSUME failures = 0, \A d \in Of(s) : delivery[d].pc = "done"
        PROVE  /\ sub[s].triggers = Cardinality(With(s, "success"))
               /\ sub[s].errors = Cardinality(With(s, "failed"))
               /\ With(s, "pending") = {}
    <3>1. With(s, "success") = DoneWith(s, "success") /\ With(s, "failed") = DoneWith(s, "failed")
      BY <2>2 DEF With, DoneWith, Done
    <3>2. \A d \in Of(s) : delivery[d].status \in {"success", "failed"}
      BY <2>2 DEF CountInv, Truthful, Of
    <3> QED
      BY <2>2, <3>1, <3>2 DEF CountInv, With
  <2> QED
    BY <2>1, <2>2
<1> QED
  BY <1>1, InitCount, NextKeepsCount, IntegrationsTypeCorrect, PTL DEF Spec
=============================================================================
