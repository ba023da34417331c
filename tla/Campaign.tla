------------------------------ MODULE Campaign ------------------------------
(***************************************************************************)
(* Campaigns of one account: internal/campaign/processor over the rows of  *)
(* campaigns and of the seven settings tables.  A request is a sequence of *)
(* separate statements with no transaction around them: the limit of the   *)
(* plan, the count, the slug, the insert, the features of the plan, then   *)
(* one settings table after the other.  Single settings are read, then     *)
(* created or updated; lists are cleared, then filled row by row.  A       *)
(* request may stop anywhere with an error and leaves what it has written. *)
(*                                                                         *)
(* Of a single settings row the model keeps two columns: flag, which every *)
(* request writes (captcha_enabled in the form settings), and opt, which   *)
(* COALESCE keeps when the request leaves it out.  Names, dates and texts  *)
(* are left out, and so is the account: a campaign of another account is   *)
(* one that every statement here fails to find.                            *)
(***************************************************************************)
EXTENDS Integers, Sequences, FiniteSets, FiniteSetsExt, Functions

CONSTANTS
  Requests,     \* requests in flight at once
  Slugs,        \* slugs administrators choose from
  Plans,        \* plans the owner may have: the campaigns limit and features
  Payloads,     \* the settings a request may carry
  Statuses,     \* the statuses administrators set
  MaxOps,       \* bound: requests made
  MaxFaults,    \* bound: failed statements
  MaxPlanChanges \* bound: changes of the plan

NoLimit == -1   \* a limit the plan does not set
Absent == "absent"

Singles == {"email", "branding", "form", "referral"}
Lists == {"fields", "messages", "tracking"}
\* The order in which upsertCampaignSettings goes through the tables.
Tables == <<"email", "branding", "form", "referral", "fields", "messages", "tracking">>
ValidStatuses == {"draft", "active", "paused", "completed"}

ASSUME CampaignAssumption ==
  /\ IsFiniteSet(Requests) /\ Requests # {}
  /\ \A p \in Plans : p.limit \in Nat \cup {NoLimit}
  /\ \A d \in Payloads :
       /\ DOMAIN d.single \subseteq Singles /\ DOMAIN d.list \subseteq Lists
       \* A list without items is none at all (upsertCampaignSettings: len > 0).
       /\ \A l \in DOMAIN d.list : DOMAIN d.list[l] = 1 .. Len(d.list[l]) /\ Len(d.list[l]) \in Nat \ {0}
  /\ Statuses \subseteq ValidStatuses
  /\ MaxOps \in Nat /\ MaxFaults \in Nat /\ MaxPlanChanges \in Nat

Ids == 1 .. MaxOps
NoSettings == [exists |-> FALSE, flag |-> FALSE, opt |-> Absent]
NoPayload == [single |-> <<>>, list |-> <<>>]

VARIABLES
  campaign,   \* rows of campaigns, in order of creation
  single,     \* per campaign and single table: its settings row
  rows,       \* per campaign and list table: its rows
  plan,       \* the plan of the account's owner
  req,        \* per request: the statement it is at and its locals
  ops, faults, planChanges,  \* counters of the bounds
  had,        \* history: the features the account has ever had
  cap         \* history: the largest campaigns limit it has ever had

tables == <<campaign, single, rows>>
history == <<had, cap>>
vars == <<campaign, single, rows, plan, req, ops, faults, planChanges, had, cap>>

Idle == [op |-> "none", pc |-> "idle", id |-> 0, slug |-> Absent, data |-> NoPayload,
         limit |-> NoLimit, table |-> 1, item |-> 1, seen |-> FALSE, result |-> "none",
         clash |-> FALSE, lost |-> {}]

Init ==
  /\ campaign = <<>>
  /\ single = [c \in Ids |-> [s \in Singles |-> NoSettings]]
  /\ rows = [c \in Ids |-> [l \in Lists |-> {}]]
  /\ plan \in Plans
  /\ req = [r \in Requests |-> Idle]
  /\ ops = 0 /\ faults = 0 /\ planChanges = 0
  /\ had = plan.features /\ cap = plan.limit

-----------------------------------------------------------------------------
(* The statements of the store.                                            *)

Live == {c \in DOMAIN campaign : ~campaign[c].deleted}
CountCampaigns == Cardinality(Live)
LiveWithSlug(slug) == {c \in Live : campaign[c].slug = slug}
NewCampaign(slug) == [slug |-> slug, status |-> "draft", deleted |-> FALSE]
\* The two updates of a campaign's row skip a deleted one.
SetStatus(c, status) ==
  campaign' = IF c \in Live THEN [campaign EXCEPT ![c].status = status] ELSE campaign
SoftDelete(c) ==
  campaign' = IF c \in Live THEN [campaign EXCEPT ![c].deleted = TRUE] ELSE campaign
\* UNIQUE(account_id, slug) counts deleted campaigns too.
SlugTaken(slug) == \E c \in DOMAIN campaign : campaign[c].slug = slug

CreateRow(old, new) == [exists |-> TRUE, flag |-> new.flag, opt |-> new.opt]

\* Mutant: a false flag counts as left out.
UpdateRowKeepsFlag(old, new) ==
  [exists |-> TRUE, flag |-> old.flag \/ new.flag,
   opt |-> IF new.opt = Absent THEN old.opt ELSE new.opt]

\* COALESCE: a column the request leaves out keeps its value.
UpdateRow(old, new) ==
  [exists |-> TRUE, flag |-> new.flag, opt |-> IF new.opt = Absent THEN old.opt ELSE new.opt]

HasFeature(name) == name \in plan.features

\* The first table at or after t that the request carries settings for.
Carries(d, t) == Tables[t] \in DOMAIN d.single \cup DOMAIN d.list
NextTable(d, t) == Min({u \in t .. Len(Tables) : Carries(d, u)} \cup {Len(Tables) + 1})

-----------------------------------------------------------------------------
(* Progress of a request.  As history a request knows in clash whether     *)
(* another one wrote while it ran, and in lost the tables of its campaign  *)
(* that others have overwritten since it wrote them.                       *)

\* The table and the campaign a request works on.
Table(r) == Tables[req[r].table]
Id(r) == req[r].id

AtWork(r, t) == req[r].table <= Len(Tables) /\ Table(r) = t

Goes(r, rec) == req' = [req EXCEPT ![r] = rec]

Writes(r, rec) ==
  req' = [q \in Requests |-> IF q = r THEN rec
                             ELSE [req[q] EXCEPT !.clash = @ \/ req[q].pc # "idle"]]

Overwrites(r, rec) ==
  req' = [q \in Requests |->
            IF q = r THEN [rec EXCEPT !.lost = @ \ {Table(r)}]
            ELSE [req[q] EXCEPT !.clash = @ \/ req[q].pc # "idle",
                                !.lost = IF Id(q) = Id(r) THEN @ \cup {Table(r)} ELSE @]]

Answer(r, result) == [req[r] EXCEPT !.pc = "idle", !.result = result]
At(r, pc) == [req[r] EXCEPT !.pc = pc]
AtTable(r, t) == [req[r] EXCEPT !.pc = "table", !.table = NextTable(req[r].data, t)]

-----------------------------------------------------------------------------
(* CreateCampaign                                                          *)

\* The handler takes the request; GetLimitByAccountID reads the plan.
BeginCreate(r) ==
  /\ req[r].pc = "idle" /\ ops < MaxOps
  /\ \E slug \in Slugs, d \in Payloads :
       Goes(r, [Idle EXCEPT !.op = "create", !.pc = "count", !.slug = slug, !.data = d,
                            !.limit = plan.limit])
  /\ ops' = ops + 1
  /\ UNCHANGED <<tables, plan, faults, planChanges, history>>

\* Mutant: one more than the limit is let through.
CheckLimitLax(r) ==
  /\ req[r].pc = "count"
  /\ Goes(r, IF req[r].limit # NoLimit /\ CountCampaigns > req[r].limit
             THEN Answer(r, "forbidden") ELSE At(r, "slug"))
  /\ UNCHANGED <<tables, plan, ops, faults, planChanges, history>>

CheckLimit(r) ==
  /\ req[r].pc = "count"
  /\ Goes(r, IF req[r].limit # NoLimit /\ CountCampaigns >= req[r].limit
             THEN Answer(r, "forbidden") ELSE At(r, "slug"))
  /\ UNCHANGED <<tables, plan, ops, faults, planChanges, history>>

CheckSlug(r) ==
  /\ req[r].pc = "slug"
  /\ Goes(r, IF LiveWithSlug(req[r].slug) # {} THEN Answer(r, "conflict") ELSE At(r, "insert"))
  /\ UNCHANGED <<tables, plan, ops, faults, planChanges, history>>

InsertCampaign(r) ==
  /\ req[r].pc = "insert"
  /\ IF SlugTaken(req[r].slug)
     THEN Goes(r, Answer(r, "error")) /\ UNCHANGED campaign
     ELSE /\ campaign' = Append(campaign, NewCampaign(req[r].slug))
          /\ Writes(r, [At(r, "tracking") EXCEPT !.id = Len(campaign')])
  /\ UNCHANGED <<single, rows, plan, ops, faults, planChanges, history>>

-----------------------------------------------------------------------------
(* UpdateCampaign, UpdateCampaignStatus, DeleteCampaign                    *)

\* The UPDATE of the row decides whether the campaign is there.
BeginUpdate(r) ==
  /\ req[r].pc = "idle" /\ ops < MaxOps
  /\ \E c \in DOMAIN campaign, d \in Payloads :
       LET new == [Idle EXCEPT !.op = "update", !.id = c, !.data = d]
       IN Goes(r, IF c \in Live THEN [new EXCEPT !.pc = "tracking"]
                  ELSE [new EXCEPT !.result = "not_found"])
  /\ ops' = ops + 1
  /\ UNCHANGED <<tables, plan, faults, planChanges, history>>

UpdateCampaignStatus(r) ==
  /\ req[r].pc = "idle" /\ ops < MaxOps
  /\ \E c \in DOMAIN campaign, status \in Statuses :
       LET new == [Idle EXCEPT !.op = "status", !.id = c]
       IN /\ SetStatus(c, status)
          /\ IF c \in Live THEN Writes(r, [new EXCEPT !.pc = "table", !.table = Len(Tables) + 1])
             ELSE Goes(r, [new EXCEPT !.result = "not_found"])
  /\ ops' = ops + 1
  /\ UNCHANGED <<single, rows, plan, faults, planChanges, history>>

DeleteCampaign(r) ==
  /\ req[r].pc = "idle" /\ ops < MaxOps
  /\ \E c \in DOMAIN campaign :
       LET new == [Idle EXCEPT !.op = "delete", !.id = c]
       IN /\ SoftDelete(c)
          /\ IF c \in Live THEN Writes(r, [new EXCEPT !.result = "ok"])
             ELSE Goes(r, [new EXCEPT !.result = "not_found"])
  /\ ops' = ops + 1
  /\ UNCHANGED <<single, rows, plan, faults, planChanges, history>>

-----------------------------------------------------------------------------
(* upsertCampaignSettings, for a create and an update alike                *)

\* Mutant: the feature is checked for a new campaign only.
CheckTrackingOnce(r) ==
  /\ req[r].pc = "tracking"
  /\ Goes(r, IF /\ req[r].op = "create"
                /\ "tracking" \in DOMAIN req[r].data.list /\ ~HasFeature("tracking_pixels")
             THEN Answer(r, "forbidden") ELSE At(r, "captcha"))
  /\ UNCHANGED <<tables, plan, ops, faults, planChanges, history>>

CheckTracking(r) ==
  /\ req[r].pc = "tracking"
  /\ Goes(r, IF "tracking" \in DOMAIN req[r].data.list /\ ~HasFeature("tracking_pixels")
             THEN Answer(r, "forbidden") ELSE At(r, "captcha"))
  /\ UNCHANGED <<tables, plan, ops, faults, planChanges, history>>

CaptchaOn(d) == "form" \in DOMAIN d.single /\ d.single["form"].flag

CheckCaptcha(r) ==
  /\ req[r].pc = "captcha"
  /\ Goes(r, IF CaptchaOn(req[r].data) /\ ~HasFeature("anti_spam_protection")
             THEN Answer(r, "forbidden") ELSE AtTable(r, 1))
  /\ UNCHANGED <<tables, plan, ops, faults, planChanges, history>>

\* Upsert: the settings row is read ...
ReadSettings(r, t) ==
  /\ req[r].pc = "table" /\ AtWork(r, t)
  /\ Goes(r, [At(r, "store") EXCEPT !.seen = single[Id(r)][t].exists])
  /\ UNCHANGED <<tables, plan, ops, faults, planChanges, history>>

\* ... and then created, which fails when another request was faster, or updated.
StoreSettings(r, t) ==
  LET old == single[Id(r)][t]
      new == req[r].data.single[t]
  IN
  /\ req[r].pc = "store" /\ AtWork(r, t)
  /\ IF old.exists /\ ~req[r].seen
     THEN Goes(r, Answer(r, "error")) /\ UNCHANGED single
     ELSE /\ single' = [single EXCEPT ![Id(r)][t] =
                          IF req[r].seen THEN UpdateRow(old, new) ELSE CreateRow(old, new)]
          /\ Overwrites(r, AtTable(r, req[r].table + 1))
  /\ UNCHANGED <<campaign, rows, plan, ops, faults, planChanges, history>>

\* Replace: the rows of the list are deleted ...
ClearList(r, t) ==
  /\ req[r].pc = "table" /\ AtWork(r, t)
  /\ rows' = [rows EXCEPT ![Id(r)][t] = {}]
  /\ Overwrites(r, [At(r, "rows") EXCEPT !.item = 1])
  /\ UNCHANGED <<campaign, single, plan, ops, faults, planChanges, history>>

\* ... and the new ones inserted one by one; the key is unique in the campaign.
InsertRow(r, t) ==
  LET new == req[r].data.list[t]
      row == new[req[r].item]
  IN
  /\ req[r].pc = "rows" /\ AtWork(r, t)
  /\ IF \E old \in rows[Id(r)][t] : old.key = row.key
     THEN Goes(r, Answer(r, "error")) /\ UNCHANGED rows
     ELSE /\ rows' = [rows EXCEPT ![Id(r)][t] = @ \cup {row}]
          /\ Writes(r, IF req[r].item = Len(new) THEN AtTable(r, req[r].table + 1)
                       ELSE [req[r] EXCEPT !.item = @ + 1])
  /\ UNCHANGED <<campaign, single, plan, ops, faults, planChanges, history>>

UpsertSettings(r, t) == ReadSettings(r, t) \/ StoreSettings(r, t)
UpsertCampaignEmailSettings(r) == UpsertSettings(r, "email")
UpsertCampaignBrandingSettings(r) == UpsertSettings(r, "branding")
UpsertCampaignFormSettings(r) == UpsertSettings(r, "form")
UpsertCampaignReferralSettings(r) == UpsertSettings(r, "referral")

ReplaceRows(r, t) == ClearList(r, t) \/ InsertRow(r, t)
ReplaceCampaignFormFields(r) == ReplaceRows(r, "fields")
ReplaceCampaignShareMessages(r) == ReplaceRows(r, "messages")
ReplaceCampaignTrackingIntegrations(r) == ReplaceRows(r, "tracking")

\* GetCampaignWithSettings reads the campaign back for the answer.
ReadBack(r) ==
  /\ req[r].pc = "table" /\ req[r].table > Len(Tables)
  /\ Goes(r, Answer(r, IF Id(r) \in Live THEN "ok" ELSE "error"))
  /\ UNCHANGED <<tables, plan, ops, faults, planChanges, history>>

\* A statement fails: what was written before it stays.
StatementFails(r) ==
  /\ req[r].pc # "idle" /\ faults < MaxFaults
  /\ Goes(r, Answer(r, "fault"))
  /\ faults' = faults + 1
  /\ UNCHANGED <<tables, plan, ops, planChanges, history>>

\* The subscription of the owner changes: see Billing.
ChangePlan ==
  /\ planChanges < MaxPlanChanges /\ planChanges' = planChanges + 1
  /\ plan' \in Plans \ {plan}
  /\ had' = had \cup plan'.features
  /\ cap' = IF NoLimit \in {cap, plan'.limit} THEN NoLimit ELSE Max({cap, plan'.limit})
  /\ UNCHANGED <<tables, req, ops, faults>>

Step(r) ==
  \/ CheckLimit(r) \/ CheckSlug(r) \/ InsertCampaign(r)
  \/ CheckTracking(r) \/ CheckCaptcha(r)
  \/ UpsertCampaignEmailSettings(r) \/ UpsertCampaignBrandingSettings(r)
  \/ UpsertCampaignFormSettings(r) \/ UpsertCampaignReferralSettings(r)
  \/ ReplaceCampaignFormFields(r) \/ ReplaceCampaignShareMessages(r)
  \/ ReplaceCampaignTrackingIntegrations(r)
  \/ ReadBack(r)

Next ==
  \/ \E r \in Requests :
       \/ BeginCreate(r) \/ BeginUpdate(r) \/ UpdateCampaignStatus(r) \/ DeleteCampaign(r)
       \/ Step(r) \/ StatementFails(r)
  \/ ChangePlan

Spec == Init /\ [][Next]_vars

-----------------------------------------------------------------------------
(* Properties.                                                             *)

\* The limit of the plan is compared with a count that may be old when the row
\* is inserted: concurrent creations pass it, but no more than the others in
\* flight, and whatever was deleted, changed or failed in between.
LimitOverrunBounded ==
  cap # NoLimit => CountCampaigns <= cap + Cardinality(Requests) - 1

\* Tracking integrations and the captcha need a feature of the plan.  The check
\* comes before the writes and the plan may change under them, but an account
\* that never had the feature has no campaign with it.
GatedSettingsWerePaid ==
  \A c \in Ids : /\ rows[c]["tracking"] # {} => "tracking_pixels" \in had
                 /\ single[c]["form"].flag => "anti_spam_protection" \in had

\* A table holds what a request carried: an option it left out may keep an older
\* value, and a list may hold rows of others besides.
Stored(r, t) ==
  IF t \in Singles
  THEN LET new == req[r].data.single[t]
           row == single[Id(r)][t]
       IN row.exists /\ row.flag = new.flag /\ (new.opt # Absent => row.opt = new.opt)
  ELSE Range(req[r].data.list[t]) \subseteq rows[Id(r)][t]

NamesKeyTwice(s) == \E i, j \in DOMAIN s : i # j /\ s[i].key = s[j].key

\* An answer of success means the settings are stored, in every table that no other
\* request has overwritten since.  A request ends with an internal error only for
\* one of three reasons: another request wrote while it ran, its own list names a
\* key twice, or a deleted campaign still holds the slug; what an earlier request
\* left half done is no such reason (CreateCampaign, UpdateCampaign).
AnswersAreTrue ==
  \A r \in Requests :
    /\ req[r].result = "ok" =>
         \A t \in (DOMAIN req[r].data.single \cup DOMAIN req[r].data.list) \ req[r].lost :
           Stored(r, t)
    /\ req[r].result = "error" =>
         \/ req[r].clash
         \/ \E l \in DOMAIN req[r].data.list : NamesKeyTwice(req[r].data.list[l])
         \/ /\ req[r].op = "create"
            /\ \E c \in DOMAIN campaign : campaign[c].slug = req[r].slug /\ campaign[c].deleted
=============================================================================
