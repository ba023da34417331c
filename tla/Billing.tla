------------------------------ MODULE Billing ------------------------------
(***************************************************************************)
(* Sign-up, subscriptions and the price catalogue: internal/auth,          *)
(* internal/money and the tiers the rest of the program asks for.  Stripe  *)
(* owns the subscriptions; the rows here follow its webhooks, which are    *)
(* delivered in any order, side by side, again after an error, sometimes   *)
(* again after a success, and are given up in the end.  No column of       *)
(* subscriptions, prices or products is unique.                            *)
(*                                                                         *)
(* A request and a webhook run statements and calls of Stripe with no      *)
(* transaction around them, except for the insertion of a user with the    *)
(* account.  Passwords, tokens, amounts, dates and features are left out.  *)
(***************************************************************************)
EXTENDS Integers, Sequences, FiniteSets, FiniteSetsExt

CONSTANTS
  Emails,        \* addresses people sign up with
  Prices,        \* prices of the Stripe account
  Free,          \* the one described as 'free'
  Planned,       \* prices plan_feature_limits refers to
  Requests,      \* API requests in flight at once
  Workers,       \* webhooks handled at once
  MaxEvents,     \* bound: events Stripe makes
  MaxActs        \* bound: requests, changes at Stripe and mishaps, in all

ASSUME BillingAssumption ==
  /\ Free \in Prices /\ Planned \subseteq Prices
  /\ IsFiniteSet(Requests) /\ Requests # {} /\ Workers # {}
  /\ {MaxEvents, MaxActs} \subseteq Nat

NoCustomer == 0
NoState == [customer |-> NoCustomer, price |-> Free, status |-> "none", ending |-> FALSE, version |-> 0]
\* CHECK (status IN ...): Stripe's incomplete is not among them.
RowStatuses == {"active", "inactive", "canceled", "past_due", "trialing"}
Kinds == {"email", "oauth"}

VARIABLES
  user,       \* rows of users, each with its account and how it signs in
  product,    \* per price: rows of products for the product it belongs to
  price,      \* per price: rows of prices
  row,        \* rows of subscriptions, in order of insertion
  req,        \* per request: the statement it is at and its locals
  job,        \* per webhook handler: the same
  customers,  \* Stripe: the number of customers
  stripe,     \* Stripe: the subscriptions
  listed,     \* Stripe: the prices there are
  event,      \* Stripe: the events, each with the deliveries still to make
  acts,       \* requests, changes at Stripe, failures, repetitions and losses so far
  applied,    \* history: per subscription, the newest version written to rows
  overtaken,  \* history: subscriptions an older version was written to
  abandoned   \* history: subscriptions one of whose events was given up

tables == <<user, product, price, row>>
stripes == <<customers, stripe, listed>>
billingHistory == <<applied, overtaken, abandoned>>
billingVars == <<tables, req, job, stripes, event, acts, billingHistory>>

Idle == [pc |-> "idle", email |-> "none", kind |-> "none", user |-> 0,
         customer |-> NoCustomer, price |-> Free, sub |-> 0]
IdleJob == [pc |-> "idle", event |-> 0, state |-> NoState, user |-> 0]

\* Nobody has signed up; the free price, and maybe others, have been stored.
BillingInit ==
  /\ user = <<>> /\ row = <<>> /\ stripe = <<>> /\ event = <<>>
  /\ listed \in SUBSET Prices /\ Free \in listed
  /\ product = [p \in Prices |-> IF p \in listed THEN 1 ELSE 0]
  /\ price = product
  /\ req = [r \in Requests |-> Idle]
  /\ job = [w \in Workers |-> IdleJob]
  /\ customers = 0
  /\ acts = 0
  /\ applied = <<>> /\ overtaken = {} /\ abandoned = {}

-----------------------------------------------------------------------------
(* The statements of the store.                                            *)

\* Mutant: accounts that sign in with Google are not looked at.
CheckEmailAuthOnly(email) == \E u \in DOMAIN user : user[u].email = email /\ user[u].kind = "email"

CheckIfEmailExists(email) == \E u \in DOMAIN user : user[u].email = email
\* UNIQUE (email) of email_auth; oauth_auth has no such constraint.
EmailAuthTaken(email) == \E u \in DOMAIN user : user[u].email = email /\ user[u].kind = "email"
\* One transaction: users, user_auth, email_auth and accounts.
CreateUserOnEmailSignup(email) ==
  user' = Append(user, [email |-> email, kind |-> "email", customer |-> NoCustomer])
CreateUserOnGoogleSignIn(email) ==
  user' = Append(user, [email |-> email, kind |-> "oauth", customer |-> NoCustomer])
UpdateStripeCustomerIDByUserID(u, c) == user' = [user EXCEPT ![u].customer = c]
GetUserByStripeCustomerID(c) == {u \in DOMAIN user : c # NoCustomer /\ user[u].customer = c}

GetProductByStripeID(p) == product[p] > 0
GetPriceByStripeID(p) == price[p] > 0
GetFreePriceStripeID == GetPriceByStripeID(Free)
\* Rows of subscriptions, and of plan_feature_limits, refer to prices.
PriceReferenced(p) == p \in Planned \/ \E k \in DOMAIN row : row[k].price = p

OfUser(u) == {k \in DOMAIN row : row[k].user = u}
Of(s) == {k \in DOMAIN row : row[k].sub = s}
\* ORDER BY created_at DESC: the row inserted last, whatever its status.
GetSubscriptionByUserID(u) == row[Max(OfUser(u))]

CreateSubscription(u, p, s, status) ==
  row' = Append(row, [user |-> u, price |-> p, sub |-> s, status |-> status])

\* Mutant: the row found by stripe_id is updated, not every row.
UpdateOneSubscription(s, p, status) ==
  row' = [row EXCEPT ![Max(Of(s))].price = p, ![Max(Of(s))].status = status]

UpdateSubscription(s, p, status) ==
  row' = [k \in DOMAIN row |->
            IF k \in Of(s) THEN [row[k] EXCEPT !.price = p, !.status = status] ELSE row[k]]

CancelSubscriptionRows(s) ==
  row' = [k \in DOMAIN row |->
            IF k \in Of(s) THEN [row[k] EXCEPT !.status = "canceled"] ELSE row[k]]

\* The plan of the free price, or its default when that price is not stored.
GetFreeTierInfo == Free

\* Mutant: the status of the subscription is not looked at.
TierOfAnyStatus(u) == IF OfUser(u) = {} THEN GetFreeTierInfo ELSE GetSubscriptionByUserID(u).price

\* GetTierInfoByUserID, and with it every limit and feature of the account.
GetTierInfoByUserID(u) ==
  IF OfUser(u) # {} /\ GetSubscriptionByUserID(u).status \in {"active", "trialing"}
  THEN GetSubscriptionByUserID(u).price ELSE GetFreeTierInfo
\* The tier a user is told of.
GetUserInfo(u) == GetTierInfoByUserID(u)

-----------------------------------------------------------------------------
(* Stripe.  What it changes it tells in events, each with the subscription *)
(* as it is after the change.                                              *)

About(type, s, state, was) ==
  [type |-> type, sub |-> s, price |-> state.price, state |-> state, was |-> was, left |-> 1]
Emits(new) == Len(event) + Len(new) <= MaxEvents /\ event' = event \o new

\* A subscription that begins: active, or incomplete until the card is charged.
NewSubscription(c, p, status) ==
  LET state == [customer |-> c, price |-> p, status |-> status, ending |-> FALSE, version |-> 1]
  IN /\ stripe' = Append(stripe, state)
     /\ applied' = Append(applied, 0)
     /\ Emits(<<About("created", Len(stripe) + 1, state, "none")>>)

\* Subscription s changes to state, and invoices are paid or not.
Becomes(s, state, type, invoices) ==
  LET new == [state EXCEPT !.version = stripe[s].version + 1]
  IN /\ stripe' = [stripe EXCEPT ![s] = new]
     /\ Emits(<<About(type, s, new, stripe[s].status)>>
                \o [i \in DOMAIN invoices |-> About(invoices[i], s, new, "none")])
EndsNow(s) == Becomes(s, [stripe[s] EXCEPT !.status = "canceled"], "deleted", <<>>)

Acts == acts < MaxActs /\ acts' = acts + 1

CardCharged(s) ==
  /\ Acts /\ stripe[s].status \in {"incomplete", "past_due"}
  /\ Becomes(s, [stripe[s] EXCEPT !.status = "active"], "updated", <<"paid">>)
  /\ UNCHANGED <<tables, req, job, customers, listed, billingHistory>>

CardRefused(s) ==
  /\ Acts /\ stripe[s].status = "active"
  /\ Becomes(s, [stripe[s] EXCEPT !.status = "past_due"], "updated", <<"payment_failed">>)
  /\ UNCHANGED <<tables, req, job, customers, listed, billingHistory>>

\* In the customer portal: another price, an end of the subscription or none.
PortalUpdates(s) ==
  /\ Acts /\ stripe[s].status = "active"
  /\ \E p \in listed, ending \in BOOLEAN :
       /\ <<p, ending>> # <<stripe[s].price, stripe[s].ending>>
       /\ Becomes(s, [stripe[s] EXCEPT !.price = p, !.ending = ending], "updated", <<>>)
  /\ UNCHANGED <<tables, req, job, customers, listed, billingHistory>>

SubscriptionEnds(s) ==
  /\ Acts /\ stripe[s].status # "canceled"
  /\ EndsNow(s)
  /\ UNCHANGED <<tables, req, job, customers, listed, billingHistory>>

AboutPrice(type, p) == About(type, 0, [NoState EXCEPT !.price = p], "none")

CatalogueChanges(p) ==
  /\ Acts
  /\ \/ /\ p \notin listed /\ listed' = listed \cup {p}
        /\ Emits(<<AboutPrice("product.created", p), AboutPrice("price.created", p)>>)
     \/ /\ p \in listed /\ listed' = listed
        /\ Emits(<<AboutPrice("price.updated", p)>>)
     \/ /\ p \in listed \ {Free} /\ listed' = listed \ {p}
        /\ Emits(<<AboutPrice("price.deleted", p)>>)
  /\ UNCHANGED <<tables, req, job, customers, stripe, billingHistory>>

-----------------------------------------------------------------------------
(* Sign-up, with an address and a password or with Google.                 *)

Goes(r, pc) == req' = [req EXCEPT ![r].pc = pc]
Answers(r) == req' = [req EXCEPT ![r] = Idle]
Begins(r, new) ==
  /\ req[r].pc = "idle" /\ Acts
  /\ req' = [req EXCEPT ![r] = new]
  /\ UNCHANGED <<tables, job, stripes, event, billingHistory>>

\* A known address is refused; with Google it is logged in, and nothing a
\* sign-up left undone is made up for.
LooksForEmail(r, email, kind) ==
  Begins(r, IF CheckIfEmailExists(email) THEN Idle
            ELSE [Idle EXCEPT !.pc = "create", !.email = email, !.kind = kind])

HandleEmailSignup(r, email) == LooksForEmail(r, email, "email")
\* The code of the callback has been exchanged for the address.
HandleGoogleOauthCallback(r, email) == LooksForEmail(r, email, "oauth")

CreatesUser(r) ==
  LET email == req[r].email IN
  /\ req[r].pc = "create"
  /\ IF req[r].kind = "email" /\ EmailAuthTaken(email)
     THEN Answers(r) /\ UNCHANGED user
     ELSE /\ IF req[r].kind = "email" THEN CreateUserOnEmailSignup(email)
             ELSE CreateUserOnGoogleSignIn(email)
          /\ req' = [req EXCEPT ![r].pc = "customer", ![r].user = Len(user) + 1]
  /\ UNCHANGED <<product, price, row, job, stripes, event, acts, billingHistory>>

CreateStripeCustomer(r) ==
  /\ req[r].pc = "customer"
  /\ customers' = customers + 1
  /\ req' = [req EXCEPT ![r].pc = "link", ![r].customer = customers + 1]
  /\ UNCHANGED <<tables, job, stripe, listed, event, acts, billingHistory>>

LinksCustomer(r) ==
  /\ req[r].pc = "link"
  /\ UpdateStripeCustomerIDByUserID(req[r].user, req[r].customer)
  /\ Goes(r, "free")
  /\ UNCHANGED <<product, price, row, job, stripes, event, acts, billingHistory>>

\* Stripe has the subscription from now on; the row comes with its event.
CreateFreeSubscription(r) ==
  /\ req[r].pc = "free"
  /\ Answers(r)
  /\ IF GetFreePriceStripeID
     THEN NewSubscription(req[r].customer, Free, "active")
     ELSE UNCHANGED <<stripe, applied, event>>
  /\ UNCHANGED <<tables, job, customers, listed, acts, overtaken, abandoned>>

-----------------------------------------------------------------------------
(* Subscriptions over the API.                                             *)

\* Any row refuses the checkout, a canceled one too.
CreateCheckoutSession(r, u, p) ==
  /\ OfUser(u) = {}
  /\ Begins(r, [Idle EXCEPT !.pc = "checkout", !.user = u, !.price = p])

HandleCreateCheckoutSession(r, u) == \E p \in Prices : CreateCheckoutSession(r, u, p)

\* The customer of the user, NULL when the sign-up broke off, and the price.
OpensSession(r) ==
  LET c == user[req[r].user].customer IN
  /\ req[r].pc = "checkout"
  /\ IF c # NoCustomer /\ GetPriceByStripeID(req[r].price)
     THEN req' = [req EXCEPT ![r].pc = "session", ![r].customer = c]
     ELSE Answers(r)
  /\ UNCHANGED <<tables, job, stripes, event, acts, billingHistory>>

\* The session stays open at Stripe: the customer pays some time later, or not.
SessionEnds(r) ==
  /\ req[r].pc = "session"
  /\ Answers(r)
  /\ \/ UNCHANGED <<stripe, applied, event>>
     \/ \E status \in {"active", "incomplete"} : NewSubscription(req[r].customer, req[r].price, status)
  /\ UNCHANGED <<tables, job, customers, listed, acts, overtaken, abandoned>>

\* The subscription is read, then canceled at Stripe.
CancelSubscription(r, u) == Begins(r, [Idle EXCEPT !.pc = "cancel", !.sub = GetSubscriptionByUserID(u).sub])
HandleCancelSubscription(r, u) == OfUser(u) # {} /\ CancelSubscription(r, u)

CancelsAtStripe(r) ==
  LET s == req[r].sub IN
  /\ req[r].pc = "cancel"
  /\ Answers(r)
  /\ IF stripe[s].status # "canceled" THEN EndsNow(s) ELSE UNCHANGED <<stripe, event>>
  /\ UNCHANGED <<tables, job, customers, listed, acts, billingHistory>>

\* A statement or a call of Stripe fails: the request ends where it is.
RequestFails(r) ==
  /\ req[r].pc \notin {"idle", "session"}
  /\ Acts
  /\ Answers(r)
  /\ UNCHANGED <<tables, job, stripes, event, billingHistory>>

-----------------------------------------------------------------------------
(* Webhooks.  An error is answered 500, and Stripe delivers again.         *)

\* HandleWebhook: by the type of the event and the status it had before.
FirstStep(e) ==
  CASE e.type = "created" \/ (e.type = "updated" /\ e.was = "incomplete") -> "customer"
    [] e.type = "updated" /\ e.was # "incomplete" -> IF e.state.ending THEN "cancel" ELSE "update_price"
    [] e.type = "deleted" -> "cancel"
    [] e.type = "payment_failed" -> "stripe_cancel"
    [] e.type = "paid" -> "stripe_get"
    [] e.type = "product.created" -> "insert_product"
    [] e.type = "price.created" -> "find_product"
    [] e.type = "price.updated" -> "product_of_price"
    [] e.type = "price.deleted" -> "delete_price"

Step(w, pc) == job' = [job EXCEPT ![w].pc = pc]
Done(w) == job' = [job EXCEPT ![w] = IdleJob] /\ UNCHANGED event
Refuses(w) ==
  job' = [job EXCEPT ![w] = IdleJob] /\ event' = [event EXCEPT ![job[w].event].left = @ + 1]
\* The rows of s now show, or would show, its state at version v.
Shows(s, v) ==
  /\ applied' = [applied EXCEPT ![s] = Max({@, v})]
  /\ overtaken' = IF v < applied[s] THEN overtaken \cup {s} ELSE overtaken
  /\ UNCHANGED abandoned

HandleWebhook(w, e) ==
  /\ job[w].pc = "idle" /\ event[e].left > 0
  /\ event' = [event EXCEPT ![e].left = @ - 1]
  /\ job' = [job EXCEPT ![w] = [pc |-> FirstStep(event[e]), event |-> e, state |-> event[e].state, user |-> 0]]
  /\ UNCHANGED <<tables, req, stripes, acts, billingHistory>>

SubOf(w) == event[job[w].event].sub
PriceOf(w) == event[job[w].event].price

\* SubscriptionCreated: the user may not have its customer yet.
FindsUser(w) ==
  /\ job[w].pc = "customer"
  /\ LET found == GetUserByStripeCustomerID(job[w].state.customer) IN
       IF found = {} THEN Refuses(w)
       ELSE /\ \E u \in found : job' = [job EXCEPT ![w].pc = "created_price", ![w].user = u]
            /\ UNCHANGED event
  /\ UNCHANGED <<tables, req, stripes, acts, billingHistory>>

\* The price, of a creation or an update, may not be stored yet.
FindsPrice(w) ==
  /\ job[w].pc \in {"created_price", "update_price"}
  /\ IF GetPriceByStripeID(job[w].state.price)
     THEN Step(w, IF job[w].pc = "created_price" THEN "insert" ELSE "update") /\ UNCHANGED event
     ELSE Refuses(w)
  /\ UNCHANGED <<tables, req, stripes, acts, billingHistory>>

\* The foreign key and the CHECK refuse a price that is gone, a status unknown.
Storable(state) == GetPriceByStripeID(state.price) /\ state.status \in RowStatuses

SubscriptionCreated(w) ==
  LET state == job[w].state IN
  /\ job[w].pc = "insert"
  /\ IF Storable(state)
     THEN /\ CreateSubscription(job[w].user, state.price, SubOf(w), state.status)
          /\ Shows(SubOf(w), state.version)
          /\ Done(w)
     ELSE Refuses(w) /\ UNCHANGED <<row, billingHistory>>
  /\ UNCHANGED <<user, product, price, req, stripes, acts>>

\* An UPDATE that finds no row is an error ...
SubscriptionUpdated(w) ==
  LET state == job[w].state IN
  /\ job[w].pc = "update"
  /\ IF Storable(state) /\ Of(SubOf(w)) # {}
     THEN /\ UpdateSubscription(SubOf(w), state.price, state.status)
          /\ Shows(SubOf(w), state.version)
          /\ Done(w)
     ELSE Refuses(w) /\ UNCHANGED <<row, billingHistory>>
  /\ UNCHANGED <<user, product, price, req, stripes, acts>>

\* ... a cancellation that finds none is not.
SubscriptionCanceled(w) ==
  /\ job[w].pc = "cancel"
  /\ CancelSubscriptionRows(SubOf(w))
  /\ Shows(SubOf(w), job[w].state.version)
  /\ Done(w)
  /\ UNCHANGED <<user, product, price, req, stripes, acts>>

\* Stripe refuses to cancel what is canceled.
InvoicePaymentFailed(w) ==
  LET s == SubOf(w) IN
  /\ job[w].pc = "stripe_cancel"
  /\ IF stripe[s].status # "canceled"
     THEN EndsNow(s) /\ job' = [job EXCEPT ![w] = IdleJob]
     ELSE Refuses(w) /\ UNCHANGED stripe
  /\ UNCHANGED <<tables, req, customers, listed, acts, billingHistory>>

\* The subscription as it is now; it may change before the rows do.
InvoicePaymentPaid(w) ==
  LET now == stripe[SubOf(w)] IN
  /\ job[w].pc = "stripe_get"
  /\ job' = [job EXCEPT ![w].state = now, ![w].pc = IF now.ending THEN "cancel" ELSE "update_price"]
  /\ UNCHANGED <<tables, req, stripes, event, acts, billingHistory>>

ProductCreated(w) ==
  /\ job[w].pc = "insert_product"
  /\ product' = [product EXCEPT ![PriceOf(w)] = @ + 1]
  /\ Done(w)
  /\ UNCHANGED <<user, price, row, req, stripes, acts, billingHistory>>

\* CreatePrice looks for its product, and fetches one that is not stored.
FindsProduct(w) ==
  /\ job[w].pc = "find_product"
  /\ Step(w, IF GetProductByStripeID(PriceOf(w)) THEN "insert_price" ELSE "fetch_product")
  /\ UNCHANGED <<tables, req, stripes, event, acts, billingHistory>>

FetchesProduct(w) ==
  /\ job[w].pc = "fetch_product"
  /\ product' = [product EXCEPT ![PriceOf(w)] = @ + 1]
  /\ Step(w, "insert_price")
  /\ UNCHANGED <<user, price, row, req, stripes, event, acts, billingHistory>>

PriceCreated(w) ==
  /\ job[w].pc = "insert_price"
  /\ price' = [price EXCEPT ![PriceOf(w)] = @ + 1]
  /\ Done(w)
  /\ UNCHANGED <<user, product, row, req, stripes, acts, billingHistory>>

PriceUpdated(w) ==
  /\ \/ /\ job[w].pc = "product_of_price" /\ GetProductByStripeID(PriceOf(w))
        /\ Step(w, "rewrite_price") /\ UNCHANGED event
     \/ job[w].pc = "product_of_price" /\ ~GetProductByStripeID(PriceOf(w)) /\ Refuses(w)
     \/ job[w].pc = "rewrite_price" /\ IF GetPriceByStripeID(PriceOf(w)) THEN Done(w) ELSE Refuses(w)
  /\ UNCHANGED <<tables, req, stripes, acts, billingHistory>>

\* A hard DELETE, which the foreign keys refuse while the price is in use.
PriceDeleted(w) ==
  /\ job[w].pc = "delete_price"
  /\ IF PriceReferenced(PriceOf(w)) THEN Refuses(w) /\ UNCHANGED price
     ELSE price' = [price EXCEPT ![PriceOf(w)] = 0] /\ Done(w)
  /\ UNCHANGED <<user, product, row, req, stripes, acts, billingHistory>>

WebhookFails(w) ==
  /\ job[w].pc # "idle"
  /\ Acts
  /\ Refuses(w)
  /\ UNCHANGED <<tables, req, stripes, billingHistory>>

\* Stripe delivers once more, though the event was handled or still is.
RepeatsDelivery(e) ==
  /\ Acts
  /\ event' = [event EXCEPT ![e].left = @ + 1]
  /\ UNCHANGED <<tables, req, job, stripes, billingHistory>>

\* Days later Stripe stops to retry.
GivesUp(e) ==
  /\ event[e].left > 0 /\ Acts
  /\ event' = [event EXCEPT ![e].left = 0]
  /\ abandoned' = abandoned \cup {event[e].sub}
  /\ UNCHANGED <<tables, req, job, stripes, applied, overtaken>>

SignupStep(r) == CreatesUser(r) \/ CreateStripeCustomer(r) \/ LinksCustomer(r) \/ CreateFreeSubscription(r)
RequestStep(r) == SignupStep(r) \/ OpensSession(r) \/ SessionEnds(r) \/ CancelsAtStripe(r)
WebhookStep(w) ==
  \/ FindsUser(w) \/ FindsPrice(w) \/ SubscriptionCreated(w) \/ SubscriptionUpdated(w)
  \/ SubscriptionCanceled(w) \/ InvoicePaymentFailed(w) \/ InvoicePaymentPaid(w)
  \/ ProductCreated(w) \/ FindsProduct(w) \/ FetchesProduct(w)
  \/ PriceCreated(w) \/ PriceUpdated(w) \/ PriceDeleted(w)

BillingNext ==
  \/ \E r \in Requests, m \in Emails : HandleEmailSignup(r, m) \/ HandleGoogleOauthCallback(r, m)
  \/ \E r \in Requests, u \in DOMAIN user : HandleCreateCheckoutSession(r, u) \/ HandleCancelSubscription(r, u)
  \/ \E r \in Requests : RequestStep(r) \/ RequestFails(r)
  \/ \E w \in Workers, e \in DOMAIN event : HandleWebhook(w, e)
  \/ \E w \in Workers : WebhookStep(w) \/ WebhookFails(w)
  \/ \E e \in DOMAIN event : RepeatsDelivery(e) \/ GivesUp(e)
  \/ \E s \in DOMAIN stripe : CardCharged(s) \/ CardRefused(s) \/ PortalUpdates(s) \/ SubscriptionEnds(s)
  \/ \E p \in Prices : CatalogueChanges(p)

BillingSpec == BillingInit /\ [][BillingNext]_billingVars

-----------------------------------------------------------------------------
(* Properties.                                                             *)

\* An event whose status no row may have is refused for ever, and waits for none.
Hopeless(e) == e.state.status = "incomplete"
Handled(s) ==
  /\ \A e \in DOMAIN event : event[e].sub = s /\ ~Hopeless(event[e]) => event[e].left = 0
  /\ \A w \in Workers : job[w].pc # "idle" => SubOf(w) # s
  /\ s \notin overtaken \cup abandoned

\* What a row says of a subscription: one that will end counts as canceled.
Status(s) == IF stripe[s].ending THEN "canceled" ELSE stripe[s].status

\* Some event of s makes a row: it tells of s active.
Begun(s) == \E e \in DOMAIN event : event[e].sub = s /\ FirstStep(event[e]) = "customer" /\ ~Hopeless(event[e])

\* When all events of a subscription are handled, each at least once, and no older
\* one was written over a newer, every row of it shows what Stripe has, however
\* many rows repeated deliveries made (SubscriptionCreated, UpdateSubscription).
RowsFollowStripe ==
  \A s \in DOMAIN stripe :
    Handled(s) /\ Begun(s) =>
      /\ Of(s) # {}
      /\ \A k \in Of(s) : /\ row[k].status = Status(s)
                          /\ row[k].status # "canceled" => row[k].price = stripe[s].price

\* The tier of a user with one subscription is then the price it pays for, and the
\* free one when the card was refused or the subscription ended (GetTierInfoByUserID).
TierFollowsStripe ==
  \A u \in DOMAIN user, s \in DOMAIN stripe :
    /\ Handled(s) /\ Begun(s)
    /\ OfUser(u) \cap Of(s) # {} /\ OfUser(u) \subseteq Of(s)
    => GetUserInfo(u) = IF Status(s) = "active" THEN stripe[s].price ELSE Free

\* An address has one account with a password at most, and accounts in all no more
\* than requests that looked for it side by side (CheckIfEmailExists, then an
\* INSERT in a transaction of its own).
DuplicateAccountsBounded ==
  \A m \in Emails :
    LET accounts(kinds) == {u \in DOMAIN user : user[u].email = m /\ user[u].kind \in kinds}
    IN Cardinality(accounts({"email"})) <= 1 /\ Cardinality(accounts(Kinds)) <= Cardinality(Requests)
=============================================================================
