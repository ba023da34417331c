--------------------------- MODULE CampaignProofs ---------------------------
(***************************************************************************)
(* Proofs about campaigns, for every number of requests, plans, slugs,     *)
(* payloads and bounds.                                                    *)
(***************************************************************************)
EXTENDS Campaign, FiniteSetTheorems, TLAPS

-----------------------------------------------------------------------------
(* Tables and payloads.                                                    *)

Places == 1 .. Len(Tables) + 1

\* The tables upsertCampaignSettings goes through (campaign/processor/processor.go).
LEMMA TableNames ==
  /\ Len(Tables) = 7 /\ Places = 1 .. 8 /\ Singles \cap Lists = {}
  /\ \A t \in 1 .. 7 : Tables[t] \in Singles \cup Lists
<1>1. Len(Tables) = 7 /\ Places = 1 .. 8
  BY DEF Tables, Places
<1>2. \A t \in 1 .. 7 : Tables[t] \in Singles \cup Lists
  BY DEF Tables, Singles, Lists
<1> QED
  BY <1>1, <1>2 DEF Singles, Lists

\* Sets of places in that order have a first one.
LEMMA FirstPlace ==
  ASSUME NEW S \in SUBSET (1 .. 8), S # {}
  PROVE  Min(S) \in S /\ \A y \in S : Min(S) <= y
<1> DEFINE HasFirst == \E x \in S : \A y \in S : x =< y
<1>0. ASSUME NEW k \in 1 .. 8, k \in S, S \subseteq k .. 8 PROVE HasFirst
  <2>1. \A y \in S : k =< y
    BY <1>0
  <2> QED
    BY <1>0, <2>1
<1>8. S \subseteq 8 .. 8 => HasFirst
  <2>1. S \subseteq 8 .. 8 => 8 \in S
    <3>1. \A x \in 8 .. 8 : x = 8
      OBVIOUS
    <3> QED
      BY <3>1
  <2> QED
    BY <1>0, <2>1
<1> HIDE DEF HasFirst
<1>7. S \subseteq 7 .. 8 => HasFirst
  <2>1. S \subseteq 7 .. 8 => 7 \in S \/ S \subseteq 8 .. 8
    OBVIOUS
  <2> QED
    BY <1>0, <1>8, <2>1
<1>6. S \subseteq 6 .. 8 => HasFirst
  <2>1. S \subseteq 6 .. 8 => 6 \in S \/ S \subseteq 7 .. 8
    OBVIOUS
  <2> QED
    BY <1>0, <1>7, <2>1
<1>5. S \subseteq 5 .. 8 => HasFirst
  <2>1. S \subseteq 5 .. 8 => 5 \in S \/ S \subseteq 6 .. 8
    OBVIOUS
  <2> QED
    BY <1>0, <1>6, <2>1
<1>4. S \subseteq 4 .. 8 => HasFirst
  <2>1. S \subseteq 4 .. 8 => 4 \in S \/ S \subseteq 5 .. 8
    OBVIOUS
  <2> QED
    BY <1>0, <1>5, <2>1
<1>3. S \subseteq 3 .. 8 => HasFirst
  <2>1. S \subseteq 3 .. 8 => 3 \in S \/ S \subseteq 4 .. 8
    OBVIOUS
  <2> QED
    BY <1>0, <1>4, <2>1
<1>2. S \subseteq 2 .. 8 => HasFirst
  <2>1. S \subseteq 2 .. 8 => 2 \in S \/ S \subseteq 3 .. 8
    OBVIOUS
  <2> QED
    BY <1>0, <1>3, <2>1
<1>1. S \subseteq 1 .. 8 => HasFirst
  <2>1. S \subseteq 1 .. 8 => 1 \in S \/ S \subseteq 2 .. 8
    OBVIOUS
  <2> QED
    BY <1>0, <1>2, <2>1
<1> QED
  BY <1>1 DEF Min, HasFirst

\* The next table is one the request carries settings for, or there is none.
LEMMA NextTableCarried ==
  ASSUME NEW d, NEW t \in Places
  PROVE  /\ NextTable(d, t) \in Places
         /\ NextTable(d, t) <= Len(Tables) => Carries(d, NextTable(d, t))
<1> DEFINE S == {u \in t .. Len(Tables) : Carries(d, u)} \cup {Len(Tables) + 1}
<1>1. S \in SUBSET (1 .. 8) /\ S # {} /\ Len(Tables) = 7 /\ Places = 1 .. 8
  BY TableNames
<1>2. Min(S) \in S
  BY <1>1, FirstPlace
<1>3. NextTable(d, t) = Min(S)
  BY DEF NextTable
<1> HIDE DEF NextTable
<1> QED
  BY <1>1, <1>2, <1>3

-----------------------------------------------------------------------------
(* Types.                                                                  *)

Row == [slug : Slugs, status : ValidStatuses, deleted : BOOLEAN]
Results == {"none", "forbidden", "conflict", "not_found", "error", "ok", "fault"}
Request ==
  [op : {"none", "create", "update", "status", "delete"},
   pc : {"idle", "count", "slug", "insert", "tracking", "captcha", "table", "store", "rows"},
   id : Nat, slug : Slugs \cup {Absent}, data : Payloads \cup {NoPayload},
   limit : Nat \cup {NoLimit}, table : Places, item : Nat, seen : BOOLEAN,
   result : Results,
   clash : BOOLEAN, lost : SUBSET (Singles \cup Lists)]

InSettings == {"table", "store", "rows"}
InCreation == {"count", "slug", "insert"}

\* A request at a table carries settings for it; one that creates has a slug, and one
\* that writes settings a campaign.
Works(q) ==
  /\ q.pc \in InSettings /\ q.table <= Len(Tables) => Carries(q.data, q.table)
  /\ q.pc \in InCreation => q.slug \in Slugs
  /\ q.pc \in InSettings \cup {"tracking", "captcha"} => q.id \in Ids

TypeOK ==
  /\ campaign \in Seq(Row) /\ req \in [Requests -> Request]
  /\ DOMAIN single = Ids /\ \A c \in Ids : DOMAIN single[c] = Singles
  /\ \A c \in Ids, s \in Singles : single[c][s].exists \in BOOLEAN
  /\ DOMAIN rows = Ids /\ \A c \in Ids : DOMAIN rows[c] = Lists
  /\ plan \in Plans /\ cap \in Nat \cup {NoLimit} /\ ops \in Nat

\* The requests that may still insert a campaign have room for it.
Creating == {r \in Requests : req[r].pc \in InCreation}
Room == Len(campaign) + Cardinality(Creating) <= ops /\ ops <= MaxOps

Fits == TypeOK /\ Room /\ \A r \in Requests : Works(req[r])

LEMMA IdleFits == Idle \in Request /\ Works(Idle)
BY TableNames DEF Idle, Request, Results, Works, InSettings, InCreation, NoLimit

\* A request goes on; the others learn at most that it wrote.
Onward(r, rec) ==
  /\ req' \in [Requests -> Request]
  /\ req'[r].pc = rec.pc /\ req'[r].data = rec.data /\ req'[r].table = rec.table
  /\ req'[r].slug = rec.slug /\ req'[r].limit = rec.limit /\ req'[r].id = rec.id
  /\ \A q \in Requests \ {r} :
       /\ req'[q].pc = req[q].pc /\ req'[q].data = req[q].data /\ req'[q].table = req[q].table
       /\ req'[q].slug = req[q].slug /\ req'[q].limit = req[q].limit /\ req'[q].id = req[q].id

LEMMA GoesOnward ==
  ASSUME Fits, NEW r \in Requests, NEW rec \in Request
  PROVE  /\ Goes(r, rec) => Onward(r, rec)
         /\ Writes(r, rec) => Onward(r, rec)
         /\ Overwrites(r, rec) /\ req[r].table <= Len(Tables) => Onward(r, rec)
<1>1. req \in [Requests -> Request] /\ \A q \in Requests : req[q] \in Request
  BY DEF Fits, TypeOK
<1>2. ASSUME Goes(r, rec) PROVE Onward(r, rec)
  BY <1>1, <1>2 DEF Goes, Onward
<1>3. ASSUME Writes(r, rec) PROVE Onward(r, rec)
  <2>1. req'[r] = rec
    BY <1>3 DEF Writes
  <2>2. ASSUME NEW q \in Requests \ {r}
        PROVE  /\ req'[q] \in Request
               /\ req'[q].pc = req[q].pc /\ req'[q].data = req[q].data /\ req'[q].table = req[q].table
               /\ req'[q].slug = req[q].slug /\ req'[q].limit = req[q].limit /\ req'[q].id = req[q].id
    <3>1. req'[q] = [req[q] EXCEPT !.clash = req[q].clash \/ req[q].pc # "idle"]
      BY <1>3 DEF Writes
    <3> DEFINE b == req[q].clash \/ req[q].pc # "idle"
    <3>2. b \in BOOLEAN
      OBVIOUS
    <3>3. req'[q] = [req[q] EXCEPT !.clash = b]
      BY <3>1
    <3> HIDE DEF b
    <3> QED
      BY <1>1, <3>2, <3>3 DEF Request
  <2>3. req' \in [Requests -> Request]
    BY <1>3, <2>1, <2>2 DEF Writes
  <2> QED
    BY <2>1, <2>2, <2>3 DEF Onward
<1>4. ASSUME Overwrites(r, rec), req[r].table <= Len(Tables) PROVE Onward(r, rec)
  <2>1. Table(r) \in Singles \cup Lists
    BY <1>1, <1>4, TableNames DEF Table, Request, Places
  <2>2. req'[r] = [rec EXCEPT !.lost = rec.lost \ {Table(r)}]
    BY <1>4 DEF Overwrites
  <2>3. /\ req'[r] \in Request /\ req'[r].pc = rec.pc /\ req'[r].data = rec.data
        /\ req'[r].table = rec.table /\ req'[r].slug = rec.slug /\ req'[r].limit = rec.limit
        /\ req'[r].id = rec.id
    BY <2>2 DEF Request
  <2>4. ASSUME NEW q \in Requests \ {r}
        PROVE  /\ req'[q] \in Request
               /\ req'[q].pc = req[q].pc /\ req'[q].data = req[q].data /\ req'[q].table = req[q].table
               /\ req'[q].slug = req[q].slug /\ req'[q].limit = req[q].limit /\ req'[q].id = req[q].id
    <3> DEFINE b == req[q].clash \/ req[q].pc # "idle"
               L == IF Id(q) = Id(r) THEN req[q].lost \cup {Table(r)} ELSE req[q].lost
    <3>1. req'[q] = [req[q] EXCEPT !.clash = b, !.lost = L]
      BY <1>4 DEF Overwrites
    <3>2. b \in BOOLEAN /\ L \in SUBSET (Singles \cup Lists)
      BY <1>1, <2>1 DEF Request
    <3> HIDE DEF b, L
    <3> QED
      BY <1>1, <3>1, <3>2 DEF Request
  <2>5. req' \in [Requests -> Request]
    BY <1>4, <2>3, <2>4 DEF Overwrites
  <2> QED
    BY <2>3, <2>4, <2>5 DEF Onward
<1> QED
  BY <1>2, <1>3, <1>4

-----------------------------------------------------------------------------
(* Steps.                                                                  *)

LEMMA InitFits == Init => Fits
<1> SUFFICES ASSUME Init PROVE Fits
  OBVIOUS
<1>1. \A p \in Plans : p.limit \in Nat \cup {NoLimit}
  BY CampaignAssumption
<1>2. TypeOK /\ \A r \in Requests : Works(req[r])
  <2>1. /\ DOMAIN single = Ids /\ \A c \in Ids : DOMAIN single[c] = Singles
        /\ DOMAIN rows = Ids /\ \A c \in Ids : DOMAIN rows[c] = Lists
    BY DEF Init
  <2>2. \A c \in Ids, s \in Singles : single[c][s].exists \in BOOLEAN
    BY DEF Init, NoSettings
  <2>3. /\ campaign \in Seq(Row) /\ req \in [Requests -> Request] /\ \A r \in Requests : Works(req[r])
        /\ plan \in Plans /\ ops \in Nat
    BY IdleFits DEF Init
  <2>4. cap \in Nat \cup {NoLimit}
    BY <1>1 DEF Init
  <2> QED
    BY <2>1, <2>2, <2>3, <2>4 DEF TypeOK
<1>3. Creating = {} /\ Len(campaign) = 0 /\ ops = 0
  BY DEF Init, Creating, InCreation, Idle
<1>4. Room
  BY <1>3, FS_EmptySet, CampaignAssumption DEF Room
<1> QED
  BY <1>2, <1>4 DEF Fits

\* What a request that stays at work keeps.
LEMMA LocalsFit ==
  ASSUME Fits, NEW r \in Requests
  PROVE  /\ \A pc \in {"slug", "insert", "captcha", "tracking"} :
              /\ At(r, pc) \in Request /\ At(r, pc).pc = pc
              /\ At(r, pc).data = req[r].data /\ At(r, pc).slug = req[r].slug
              /\ At(r, pc).limit = req[r].limit /\ At(r, pc).table = req[r].table
              /\ pc \in {"slug", "insert"} /\ req[r].slug \in Slugs => Works(At(r, pc))
              /\ pc = "captcha" /\ req[r].id \in Ids => Works(At(r, pc))
         /\ \A result \in {"forbidden", "conflict", "error", "ok", "fault"} :
              Answer(r, result) \in Request /\ Works(Answer(r, result)) /\ Answer(r, result).pc = "idle"
         /\ req[r].id \in Ids =>
              \A t \in Places :
                /\ AtTable(r, t) \in Request /\ Works(AtTable(r, t)) /\ AtTable(r, t).pc = "table"
                /\ AtTable(r, t).data = req[r].data
<1>1. req[r] \in Request
  BY DEF Fits, TypeOK
<1>2. ASSUME NEW pc \in {"slug", "insert", "captcha", "tracking"}
      PROVE  /\ At(r, pc) \in Request /\ At(r, pc).pc = pc
             /\ At(r, pc).data = req[r].data /\ At(r, pc).slug = req[r].slug
             /\ At(r, pc).limit = req[r].limit /\ At(r, pc).table = req[r].table
             /\ pc \in {"slug", "insert"} /\ req[r].slug \in Slugs => Works(At(r, pc))
             /\ pc = "captcha" /\ req[r].id \in Ids => Works(At(r, pc))
  <2>1. /\ At(r, pc) \in Request /\ At(r, pc).pc = pc
        /\ At(r, pc).data = req[r].data /\ At(r, pc).slug = req[r].slug
        /\ At(r, pc).limit = req[r].limit /\ At(r, pc).table = req[r].table
        /\ At(r, pc).id = req[r].id
    BY <1>1 DEF At, Request
  <2> QED
    BY <2>1 DEF Works, InSettings, InCreation
<1>3. ASSUME NEW result \in {"forbidden", "conflict", "error", "ok", "fault"}
      PROVE  Answer(r, result) \in Request /\ Works(Answer(r, result)) /\ Answer(r, result).pc = "idle"
  <2>2. result \in Results
    BY DEF Results
  <2>1. Answer(r, result) \in Request /\ Answer(r, result).pc = "idle"
    BY <1>1, <2>2 DEF Answer, Request
  <2> QED
    BY <2>1 DEF Works, InSettings, InCreation
<1>4. ASSUME req[r].id \in Ids, NEW t \in Places
      PROVE  /\ AtTable(r, t) \in Request /\ Works(AtTable(r, t)) /\ AtTable(r, t).pc = "table"
             /\ AtTable(r, t).data = req[r].data
  <2> DEFINE n == NextTable(req[r].data, t)
  <2>1. n \in Places /\ (n <= Len(Tables) => Carries(req[r].data, n))
    BY NextTableCarried
  <2>2. AtTable(r, t) = [req[r] EXCEPT !.pc = "table", !.table = n]
    BY DEF AtTable
  <2> HIDE DEF n
  <2>3. /\ AtTable(r, t) \in Request /\ AtTable(r, t).pc = "table" /\ AtTable(r, t).table = n
        /\ AtTable(r, t).data = req[r].data /\ AtTable(r, t).id = req[r].id
    BY <1>1, <2>1, <2>2 DEF Request
  <2> QED
    BY <1>4, <2>1, <2>3 DEF Works, InSettings, InCreation
<1> QED
  BY <1>2, <1>3, <1>4

\* Rows are numbered within the bound.
LEMMA CampaignsAreIds ==
  ASSUME Fits
  PROVE  /\ IsFiniteSet(Creating) /\ Cardinality(Creating) \in Nat
         /\ Len(campaign) <= ops /\ DOMAIN campaign \subseteq Ids
<1>1. IsFiniteSet(Creating) /\ Cardinality(Creating) \in Nat
  <2>1. IsFiniteSet(Requests) /\ Creating \subseteq Requests
    BY CampaignAssumption DEF Creating
  <2> QED
    BY <2>1, FS_Subset, FS_CardinalityType
<1>2. /\ campaign \in Seq(Row) /\ ops \in Nat /\ MaxOps \in Nat /\ ops <= MaxOps
      /\ Len(campaign) + Cardinality(Creating) <= ops
  BY CampaignAssumption DEF Fits, TypeOK, Room
<1>3. Len(campaign) \in Nat /\ DOMAIN campaign = 1 .. Len(campaign)
  BY <1>2
<1>4. Len(campaign) <= ops /\ Len(campaign) <= MaxOps
  BY <1>1, <1>2, <1>3
<1> QED
  BY <1>1, <1>2, <1>3, <1>4 DEF Ids

LEMMA RoomForOne ==
  ASSUME Fits, NEW r \in Requests, req[r].pc \in InCreation
  PROVE  Len(campaign) + 1 <= ops /\ ops <= MaxOps
<1>1. r \in Creating
  BY DEF Creating
<1>2. Cardinality(Creating) >= 1
  <2>1. Cardinality(Creating) # 0
    BY <1>1, CampaignsAreIds, FS_EmptySet
  <2> QED
    BY <2>1, CampaignsAreIds
<1>3. /\ campaign \in Seq(Row) /\ ops \in Nat /\ MaxOps \in Nat /\ ops <= MaxOps
      /\ Len(campaign) + Cardinality(Creating) <= ops
  BY CampaignAssumption DEF Fits, TypeOK, Room
<1> QED
  BY <1>2, <1>3, CampaignsAreIds

Others(r) ==
  \A q \in Requests \ {r} :
    /\ req'[q].pc = req[q].pc /\ req'[q].data = req[q].data /\ req'[q].table = req[q].table
    /\ req'[q].slug = req[q].slug /\ req'[q].limit = req[q].limit /\ req'[q].id = req[q].id

RequestMoves(r) == req' \in [Requests -> Request] /\ Works(req'[r]) /\ Others(r)

\* A request that goes on to a record that fits.
LEMMA MovesTo ==
  ASSUME Fits, NEW r \in Requests, NEW rec \in Request, Works(rec),
         Goes(r, rec) \/ Writes(r, rec) \/ (Overwrites(r, rec) /\ req[r].table <= Len(Tables))
  PROVE  /\ RequestMoves(r)
         /\ req'[r].pc = rec.pc /\ req'[r].data = rec.data /\ req'[r].table = rec.table
         /\ req'[r].slug = rec.slug /\ req'[r].limit = rec.limit /\ req'[r].id = rec.id
<1>1. Onward(r, rec)
  BY GoesOnward
<1> QED
  BY <1>1 DEF Onward, RequestMoves, Others, Works

RequestStep(r) ==
  \/ BeginCreate(r) \/ BeginUpdate(r) \/ UpdateCampaignStatus(r) \/ DeleteCampaign(r)
  \/ Step(r) \/ StatementFails(r)

\* Where a request goes, and what it was asked on the way.
Stops(r) == req'[r].pc = "idle"
IsChecked(r) ==
  \/ req[r].pc = "idle" /\ req'[r].pc = "count" /\ req'[r].limit = plan.limit
  \/ /\ req[r].pc = "count" /\ req'[r].pc = "slug"
     /\ req[r].limit # NoLimit => CountCampaigns < req[r].limit
  \/ req[r].pc = "slug" /\ req'[r].pc = "insert"
  \/ req[r].pc \in {"idle", "insert"} /\ req'[r].pc = "tracking"
EntersSettings(r) ==
  \/ /\ req[r].pc = "tracking" /\ req'[r].pc = "captcha" /\ req'[r].data = req[r].data
     /\ "tracking" \in DOMAIN req[r].data.list => HasFeature("tracking_pixels")
  \/ /\ req[r].pc = "captcha" /\ req'[r].pc = "table" /\ req'[r].data = req[r].data
     /\ CaptchaOn(req[r].data) => HasFeature("anti_spam_protection")
  \/ req'[r].pc = "table" /\ req'[r].data = NoPayload
InsideSettings(r) ==
  req[r].pc \in InSettings /\ req'[r].pc \in InSettings /\ req'[r].data = req[r].data

\* A request takes its course whole: every step is of one of these kinds
\* (campaign/processor/processor.go, CreateCampaign, UpdateCampaign, upsertCampaignSettings).
LEMMA CourseOfRequest ==
  ASSUME Fits, NEW r \in Requests, RequestStep(r)
  PROVE  RequestMoves(r) /\ (Stops(r) \/ IsChecked(r) \/ EntersSettings(r) \/ InsideSettings(r))
<1> DEFINE q == req[r]
           Goal == /\ RequestMoves(r)
                   /\ Stops(r) \/ IsChecked(r) \/ EntersSettings(r) \/ InsideSettings(r)
<1>1. q \in Request /\ Works(q) /\ Idle \in Request
  BY IdleFits DEF Fits, TypeOK
<1> DEFINE idle == Idle
<1>0. idle = Idle /\ idle \in Request /\ idle.pc = "idle" /\ idle.data = NoPayload
  BY <1>1 DEF Idle
<1> HIDE DEF idle
<1>2. ASSUME NEW result \in {"forbidden", "conflict", "error", "ok", "fault"},
             Goes(r, Answer(r, result))
      PROVE  Goal
  BY <1>2, LocalsFit, MovesTo DEF Stops
<1>3. \* Requests that end where they begin.
      ASSUME NEW rec \in Request, Works(rec), rec.pc = "idle", Goes(r, rec) \/ Writes(r, rec)
      PROVE  Goal
  BY <1>3, MovesTo DEF Stops
<1>4. ASSUME BeginCreate(r) PROVE Goal
  <2>1. PICK slug \in Slugs, d \in Payloads :
          Goes(r, [Idle EXCEPT !.op = "create", !.pc = "count", !.slug = slug, !.data = d,
                               !.limit = plan.limit])
    BY <1>4 DEF BeginCreate
  <2> DEFINE l == plan.limit
             asked == [idle EXCEPT !.op = "create", !.slug = slug, !.data = d]
             rec == [asked EXCEPT !.pc = "count", !.limit = l]
  <2>2. l \in Nat \cup {NoLimit}
    BY CampaignAssumption DEF Fits, TypeOK
  <2>4. Goes(r, rec)
    BY <1>0, <2>1
  <2>6. asked \in Request /\ asked.slug = slug
    BY <1>0 DEF Request
  <2> HIDE DEF asked, l
  <2>3. rec \in Request /\ rec.pc = "count" /\ rec.limit = l /\ rec.slug = slug
    BY <2>2, <2>6 DEF Request
  <2> HIDE DEF rec
  <2>5. Works(rec)
    BY <2>3 DEF Works, InSettings, InCreation
  <2> QED
    BY <1>4, <2>3, <2>4, <2>5, MovesTo DEF IsChecked, BeginCreate, l
<1>5. ASSUME CheckLimit(r) PROVE Goal
  <2>1. CASE Goes(r, Answer(r, "forbidden"))
    BY <1>2, <2>1
  <2>2. CASE ~(q.limit # NoLimit /\ CountCampaigns >= q.limit) /\ Goes(r, At(r, "slug"))
    <3>1. q.pc = "count" /\ q.slug \in Slugs
      BY <1>1, <1>5 DEF CheckLimit, Works, InCreation
    <3>2. At(r, "slug") \in Request /\ Works(At(r, "slug")) /\ At(r, "slug").pc = "slug"
      BY <3>1, LocalsFit
    <3>3. RequestMoves(r) /\ req'[r].pc = "slug"
      BY <2>2, <3>2, MovesTo
    <3>4. q.limit # NoLimit => CountCampaigns < q.limit
      <4>1. CountCampaigns \in Nat /\ q.limit \in Nat \cup {NoLimit}
        <5>1. campaign \in Seq(Row)
          BY DEF Fits, TypeOK
        <5>2. IsFiniteSet(DOMAIN campaign)
          BY <5>1, FS_Interval
        <5>3. IsFiniteSet(Live)
          BY <5>2, FS_Subset DEF Live
        <5> QED
          BY <1>1, <5>3, FS_CardinalityType DEF CountCampaigns, Request
      <4> QED
        BY <2>2, <4>1 DEF NoLimit
    <3> QED
      BY <3>1, <3>3, <3>4 DEF IsChecked
  <2> QED
    BY <1>5, <2>1, <2>2 DEF CheckLimit
<1>6. ASSUME CheckSlug(r) PROVE Goal
  <2>1. CASE Goes(r, Answer(r, "conflict"))
    BY <1>2, <2>1
  <2>2. CASE Goes(r, At(r, "insert"))
    <3>1. q.pc = "slug" /\ q.slug \in Slugs
      BY <1>1, <1>6 DEF CheckSlug, Works, InCreation
    <3>2. At(r, "insert") \in Request /\ Works(At(r, "insert")) /\ At(r, "insert").pc = "insert"
      BY <3>1, LocalsFit
    <3> QED
      BY <2>2, <3>1, <3>2, MovesTo DEF IsChecked
  <2> QED
    BY <1>6, <2>1, <2>2 DEF CheckSlug
<1>7. ASSUME InsertCampaign(r) PROVE Goal
  <2>1. CASE Goes(r, Answer(r, "error"))
    BY <1>2, <2>1
  <2>2. CASE /\ campaign' = Append(campaign, NewCampaign(q.slug))
             /\ Writes(r, [At(r, "tracking") EXCEPT !.id = Len(campaign')])
    <3> DEFINE n == Len(campaign')
               rec == [At(r, "tracking") EXCEPT !.id = n]
    <3>1. q.pc = "insert" /\ q.slug \in Slugs
      BY <1>1, <1>7 DEF InsertCampaign, Works, InCreation
    <3>2. n \in Ids
      <4>1. NewCampaign(q.slug) \in Row /\ campaign \in Seq(Row) /\ ops \in Nat /\ MaxOps \in Nat
        BY <3>1, CampaignAssumption DEF NewCampaign, Row, ValidStatuses, Fits, TypeOK
      <4>2. n = Len(campaign) + 1
        BY <2>2, <4>1
      <4>3. Len(campaign) + 1 <= ops /\ ops <= MaxOps
        BY <3>1, RoomForOne DEF InCreation
      <4> QED
        BY <4>1, <4>2, <4>3 DEF Ids
    <3>3. At(r, "tracking") \in Request /\ At(r, "tracking").pc = "tracking"
      BY LocalsFit
    <3>4. Writes(r, rec)
      BY <2>2
    <3> HIDE DEF n
    <3>5. rec \in Request /\ rec.pc = "tracking" /\ rec.id = n
      BY <3>2, <3>3 DEF Request, Ids
    <3> HIDE DEF rec
    <3>6. Works(rec)
      BY <3>2, <3>5 DEF Works, InSettings, InCreation
    <3> QED
      BY <3>1, <3>4, <3>5, <3>6, MovesTo DEF IsChecked
  <2> QED
    BY <1>7, <2>1, <2>2 DEF InsertCampaign
<1>8. ASSUME BeginUpdate(r) PROVE Goal
  <2>1. q.pc = "idle" /\ DOMAIN campaign \subseteq Ids /\ Ids \subseteq Nat
    BY <1>8, CampaignsAreIds DEF BeginUpdate, Ids
  <2>2. PICK c \in DOMAIN campaign, d \in Payloads :
          LET new == [Idle EXCEPT !.op = "update", !.id = c, !.data = d]
          IN Goes(r, IF c \in Live THEN [new EXCEPT !.pc = "tracking"]
                     ELSE [new EXCEPT !.result = "not_found"])
    BY <1>8 DEF BeginUpdate
  <2> DEFINE new == [idle EXCEPT !.op = "update", !.id = c, !.data = d]
             found == [new EXCEPT !.pc = "tracking"]
             missed == [new EXCEPT !.result = "not_found"]
  <2>3. new \in Request /\ new.pc = "idle" /\ new.id = c
    BY <1>0, <2>1 DEF Request
  <2>4. Goes(r, found) \/ Goes(r, missed)
    BY <1>0, <2>2
  <2> HIDE DEF new
  <2>5. /\ found \in Request /\ found.pc = "tracking" /\ found.id = c
        /\ missed \in Request /\ missed.pc = "idle"
    BY <2>3 DEF Request, Results
  <2> HIDE DEF found, missed
  <2>6. Works(found) /\ Works(missed)
    BY <2>1, <2>5 DEF Works, InSettings, InCreation
  <2>7. CASE Goes(r, found)
    BY <2>1, <2>5, <2>6, <2>7, MovesTo DEF IsChecked
  <2> QED
    BY <1>3, <2>4, <2>5, <2>6, <2>7
<1>9. ASSUME UpdateCampaignStatus(r) PROVE Goal
  <2>1. DOMAIN campaign \subseteq Ids /\ Ids \subseteq Nat
    BY CampaignsAreIds DEF Ids
  <2>2. PICK c \in DOMAIN campaign :
          LET new == [Idle EXCEPT !.op = "status", !.id = c]
          IN IF c \in Live THEN Writes(r, [new EXCEPT !.pc = "table", !.table = Len(Tables) + 1])
             ELSE Goes(r, [new EXCEPT !.result = "not_found"])
    BY <1>9 DEF UpdateCampaignStatus
  <2> DEFINE new == [idle EXCEPT !.op = "status", !.id = c]
             found == [new EXCEPT !.pc = "table", !.table = Len(Tables) + 1]
             missed == [new EXCEPT !.result = "not_found"]
  <2>3. new \in Request /\ new.pc = "idle" /\ new.data = NoPayload /\ new.id = c
    BY <1>0, <2>1 DEF Request
  <2> DEFINE n == Len(Tables) + 1
  <2>4. Writes(r, found) \/ Goes(r, missed)
    BY <1>0, <2>2
  <2> HIDE DEF new
  <2>8. found = [new EXCEPT !.pc = "table", !.table = n] /\ n \in Places /\ ~(n <= Len(Tables))
    BY TableNames
  <2> HIDE DEF n, found
  <2>5. /\ found \in Request /\ found.pc = "table" /\ found.data = NoPayload
        /\ found.table = n /\ found.id = c
        /\ missed \in Request /\ missed.pc = "idle"
    BY <2>3, <2>8 DEF Request, Results
  <2> HIDE DEF found, missed
  <2>6. Works(found) /\ Works(missed)
    BY <2>1, <2>5, <2>8 DEF Works, InSettings, InCreation
  <2>7. CASE Writes(r, found)
    BY <2>5, <2>6, <2>7, MovesTo DEF EntersSettings
  <2> QED
    BY <1>3, <2>4, <2>5, <2>6, <2>7
<1>10. ASSUME DeleteCampaign(r) PROVE Goal
  <2>1. DOMAIN campaign \subseteq Ids /\ Ids \subseteq Nat
    BY CampaignsAreIds DEF Ids
  <2>2. PICK c \in DOMAIN campaign :
          LET new == [Idle EXCEPT !.op = "delete", !.id = c]
          IN IF c \in Live THEN Writes(r, [new EXCEPT !.result = "ok"])
             ELSE Goes(r, [new EXCEPT !.result = "not_found"])
    BY <1>10 DEF DeleteCampaign
  <2> DEFINE new == [idle EXCEPT !.op = "delete", !.id = c]
             found == [new EXCEPT !.result = "ok"]
             missed == [new EXCEPT !.result = "not_found"]
  <2>3. new \in Request /\ new.pc = "idle"
    BY <1>0, <2>1 DEF Request
  <2>4. Writes(r, found) \/ Goes(r, missed)
    BY <1>0, <2>2
  <2> HIDE DEF new
  <2>5. found \in Request /\ found.pc = "idle" /\ missed \in Request /\ missed.pc = "idle"
    BY <2>3 DEF Request, Results
  <2> HIDE DEF found, missed
  <2>6. Works(found) /\ Works(missed)
    BY <2>5 DEF Works, InSettings, InCreation
  <2> QED
    BY <1>3, <2>4, <2>5, <2>6
<1>11. ASSUME CheckTracking(r) PROVE Goal
  <2>1. CASE Goes(r, Answer(r, "forbidden"))
    BY <1>2, <2>1
  <2>2. CASE /\ ~("tracking" \in DOMAIN q.data.list /\ ~HasFeature("tracking_pixels"))
             /\ Goes(r, At(r, "captcha"))
    <3>2. q.pc = "tracking" /\ q.id \in Ids
      BY <1>1, <1>11 DEF CheckTracking, Works
    <3>1. /\ At(r, "captcha") \in Request /\ Works(At(r, "captcha")) /\ At(r, "captcha").pc = "captcha"
          /\ At(r, "captcha").data = q.data
      BY <3>2, LocalsFit
    <3> QED
      BY <2>2, <3>1, <3>2, MovesTo DEF EntersSettings
  <2> QED
    BY <1>11, <2>1, <2>2 DEF CheckTracking
<1>12. \* A request turns to the next table.
       ASSUME NEW t \in Places, q.id \in Ids, Goes(r, AtTable(r, t)) \/ Writes(r, AtTable(r, t))
                                \/ (Overwrites(r, AtTable(r, t)) /\ q.table <= Len(Tables))
       PROVE  RequestMoves(r) /\ req'[r].pc = "table" /\ req'[r].data = q.data
  BY <1>12, LocalsFit, MovesTo
<1>13. ASSUME CheckCaptcha(r) PROVE Goal
  <2>1. CASE Goes(r, Answer(r, "forbidden"))
    BY <1>2, <2>1
  <2>2. CASE /\ ~(CaptchaOn(q.data) /\ ~HasFeature("anti_spam_protection"))
             /\ Goes(r, AtTable(r, 1))
    <3>1. 1 \in Places /\ q.pc = "captcha" /\ q.id \in Ids
      BY <1>1, <1>13, TableNames DEF CheckCaptcha, Works
    <3> QED
      BY <1>12, <2>2, <3>1 DEF EntersSettings
  <2> QED
    BY <1>13, <2>1, <2>2 DEF CheckCaptcha
<1>14. \* A request at a table goes on at it.
       ASSUME NEW pc \in {"store", "rows"}, NEW rec \in Request, rec.pc = pc, rec.table = q.table,
              rec.data = q.data, rec.id = q.id, q.pc \in InSettings, q.table <= Len(Tables),
              Goes(r, rec) \/ Writes(r, rec) \/ Overwrites(r, rec)
       PROVE  Goal
  <2>1. Works(rec)
    BY <1>1, <1>14 DEF Works, InSettings, InCreation
  <2> QED
    BY <1>14, <2>1, MovesTo DEF InsideSettings, InSettings
<1>15. ASSUME q.pc \in InSettings
       PROVE  q.id \in Ids /\ (q.table <= Len(Tables) => q.table + 1 \in Places)
  BY <1>1, <1>15, TableNames DEF Works, Request
<1>16. ASSUME NEW t \in Singles, UpsertSettings(r, t) PROVE Goal
  <2>1. q.pc \in InSettings /\ q.table <= Len(Tables)
    BY <1>16 DEF UpsertSettings, ReadSettings, StoreSettings, AtWork, InSettings
  <2>2. CASE ReadSettings(r, t)
    <3> DEFINE b == single[Id(r)][t].exists
               rec == [At(r, "store") EXCEPT !.seen = b]
    <3>1. Goes(r, rec)
      BY <2>2 DEF ReadSettings
    <3>2. b \in BOOLEAN
      BY <1>15, <2>1 DEF Fits, TypeOK, Id
    <3> HIDE DEF b
    <3>3. /\ rec \in Request /\ rec.pc = "store" /\ rec.table = q.table /\ rec.data = q.data
          /\ rec.id = q.id
      BY <1>1, <3>2 DEF At, Request
    <3> HIDE DEF rec
    <3> QED
      BY <1>14, <2>1, <3>1, <3>3
  <2>3. CASE StoreSettings(r, t)
    <3>1. Goes(r, Answer(r, "error")) \/ Overwrites(r, AtTable(r, q.table + 1))
      BY <2>3 DEF StoreSettings
    <3> QED
      BY <1>2, <1>12, <1>15, <2>1, <3>1 DEF InsideSettings, InSettings
  <2> QED
    BY <1>16, <2>2, <2>3 DEF UpsertSettings
<1>17. ASSUME NEW t \in Lists, ReplaceRows(r, t) PROVE Goal
  <2>1. q.pc \in InSettings /\ q.table <= Len(Tables)
    BY <1>17 DEF ReplaceRows, ClearList, InsertRow, AtWork, InSettings
  <2>2. CASE ClearList(r, t)
    <3> DEFINE rec == [At(r, "rows") EXCEPT !.item = 1]
    <3>1. Overwrites(r, rec)
      BY <2>2 DEF ClearList
    <3>2. /\ rec \in Request /\ rec.pc = "rows" /\ rec.table = q.table /\ rec.data = q.data
          /\ rec.id = q.id
      BY <1>1 DEF At, Request
    <3> HIDE DEF rec
    <3> QED
      BY <1>14, <2>1, <3>1, <3>2
  <2>3. CASE InsertRow(r, t)
    <3> DEFINE rec == [q EXCEPT !.item = q.item + 1]
    <3>1. Goes(r, Answer(r, "error")) \/ Writes(r, AtTable(r, q.table + 1)) \/ Writes(r, rec)
      BY <2>3 DEF InsertRow
    <3>2. q.pc = "rows"
      BY <2>3 DEF InsertRow
    <3>3. /\ rec \in Request /\ rec.pc = "rows" /\ rec.table = q.table /\ rec.data = q.data
          /\ rec.id = q.id
      BY <1>1, <3>2 DEF Request
    <3> HIDE DEF rec
    <3>4. CASE Writes(r, rec)
      BY <1>14, <2>1, <3>3, <3>4
    <3> QED
      BY <1>2, <1>12, <1>15, <2>1, <3>1, <3>4 DEF InsideSettings, InSettings
  <2> QED
    BY <1>17, <2>2, <2>3 DEF ReplaceRows
<1>18. ASSUME ReadBack(r) \/ StatementFails(r) PROVE Goal
  <2>1. \E result \in {"ok", "error", "fault"} : Goes(r, Answer(r, result))
    BY <1>18 DEF ReadBack, StatementFails
  <2> QED
    BY <1>2, <2>1
<1>19. "email" \in Singles /\ "branding" \in Singles /\ "form" \in Singles /\ "referral" \in Singles
  BY DEF Singles
<1>20. "fields" \in Lists /\ "messages" \in Lists /\ "tracking" \in Lists
  BY DEF Lists
<1>21. ASSUME Step(r) PROVE Goal
  <2>1. CASE \/ UpsertCampaignEmailSettings(r) \/ UpsertCampaignBrandingSettings(r)
             \/ UpsertCampaignFormSettings(r) \/ UpsertCampaignReferralSettings(r)
    BY <1>16, <1>19, <2>1 DEF UpsertCampaignEmailSettings, UpsertCampaignBrandingSettings,
         UpsertCampaignFormSettings, UpsertCampaignReferralSettings
  <2>2. CASE \/ ReplaceCampaignFormFields(r) \/ ReplaceCampaignShareMessages(r)
             \/ ReplaceCampaignTrackingIntegrations(r)
    BY <1>17, <1>20, <2>2 DEF ReplaceCampaignFormFields, ReplaceCampaignShareMessages,
         ReplaceCampaignTrackingIntegrations
  <2> QED
    BY <1>5, <1>6, <1>7, <1>11, <1>13, <1>18, <1>21, <2>1, <2>2 DEF Step
<1> QED
  BY <1>4, <1>8, <1>9, <1>10, <1>18, <1>21 DEF RequestStep

-----------------------------------------------------------------------------
(* What a request does to the tables.                                      *)

\* Campaigns: one more at the insert; one row changed at once; or none.
Inserts(r) ==
  /\ req[r].pc = "insert" /\ req'[r].pc = "tracking"
  /\ campaign' = Append(campaign, NewCampaign(req[r].slug))
Edits(r) ==
  /\ req[r].pc = "idle"
  /\ \E c \in Live : \E new \in Row : campaign' = [campaign EXCEPT ![c] = new]
CampaignsChange(r) == Inserts(r) \/ Edits(r) \/ campaign' = campaign

\* Settings: the table the request is at is stored, cleared or gets a row.
Stores(r, t) ==
  /\ req[r].pc = "store" /\ AtWork(r, t) /\ UNCHANGED rows
  /\ \E row : /\ row.exists = TRUE /\ row.flag = req[r].data.single[t].flag
              /\ single' = [single EXCEPT ![Id(r)][t] = row]
Fills(r, t) ==
  /\ req[r].pc \in {"table", "rows"} /\ AtWork(r, t) /\ UNCHANGED single
  /\ \E S : rows' = [rows EXCEPT ![Id(r)][t] = S]
SettingsChange(r) ==
  \/ UNCHANGED <<single, rows>>
  \/ \E t \in Singles : Stores(r, t)
  \/ \E t \in Lists : Fills(r, t)

OpsChange(r) ==
  \/ req[r].pc = "idle" /\ ops < MaxOps /\ ops' = ops + 1
  \/ req[r].pc # "idle" /\ ops' = ops

Effect(r) ==
  CampaignsChange(r) /\ SettingsChange(r) /\ OpsChange(r) /\ UNCHANGED <<plan, history>>

\* Every statement writes one table at most, and its own.
LEMMA EffectOfRequest ==
  ASSUME Fits, NEW r \in Requests, RequestStep(r)
  PROVE  Effect(r)
<1>1. req \in [Requests -> Request] /\ campaign \in Seq(Row) /\ req[r] \in Request
  BY DEF Fits, TypeOK
<1>2. Live \subseteq DOMAIN campaign /\ \A c \in Live : campaign[c] \in Row
  BY <1>1 DEF Live
<1>3. ASSUME BeginCreate(r) \/ BeginUpdate(r) PROVE Effect(r)
  BY <1>3 DEF BeginCreate, BeginUpdate, Effect, CampaignsChange, SettingsChange, OpsChange,
     tables, history
<1>4. ASSUME UpdateCampaignStatus(r) PROVE Effect(r)
  <2>1. PICK c \in DOMAIN campaign, status \in Statuses : SetStatus(c, status)
    BY <1>4 DEF UpdateCampaignStatus
  <2>2. CASE c \in Live
    <3> DEFINE new == [campaign[c] EXCEPT !.status = status]
    <3>1. campaign' = [campaign EXCEPT ![c] = new]
      BY <2>1, <2>2 DEF SetStatus
    <3>2. status \in ValidStatuses
      BY CampaignAssumption
    <3>3. new \in Row
      BY <1>2, <2>2, <3>2 DEF Row
    <3> HIDE DEF new
    <3>4. Edits(r)
      BY <1>4, <2>2, <3>1, <3>3 DEF Edits, UpdateCampaignStatus
    <3> QED
      BY <1>4, <3>4 DEF UpdateCampaignStatus, Effect, CampaignsChange, SettingsChange,
         OpsChange, history
  <2>3. CASE c \notin Live
    <3>1. campaign' = campaign
      BY <2>1, <2>3 DEF SetStatus
    <3> QED
      BY <1>4, <3>1 DEF UpdateCampaignStatus, Effect, CampaignsChange, SettingsChange,
         OpsChange, history
  <2> QED
    BY <2>2, <2>3
<1>5. ASSUME DeleteCampaign(r) PROVE Effect(r)
  <2>1. PICK c \in DOMAIN campaign : SoftDelete(c)
    BY <1>5 DEF DeleteCampaign
  <2>2. CASE c \in Live
    <3> DEFINE new == [campaign[c] EXCEPT !.deleted = TRUE]
    <3>1. campaign' = [campaign EXCEPT ![c] = new]
      BY <2>1, <2>2 DEF SoftDelete
    <3>3. new \in Row
      BY <1>2, <2>2 DEF Row
    <3> HIDE DEF new
    <3>4. Edits(r)
      BY <1>5, <2>2, <3>1, <3>3 DEF Edits, DeleteCampaign
    <3> QED
      BY <1>5, <3>4 DEF DeleteCampaign, Effect, CampaignsChange, SettingsChange, OpsChange, history
  <2>3. CASE c \notin Live
    <3>1. campaign' = campaign
      BY <2>1, <2>3 DEF SoftDelete
    <3> QED
      BY <1>5, <3>1 DEF DeleteCampaign, Effect, CampaignsChange, SettingsChange, OpsChange, history
  <2> QED
    BY <2>2, <2>3
<1>6. ASSUME InsertCampaign(r) PROVE Effect(r)
  <2>1. CASE campaign' = campaign
    BY <1>6, <2>1 DEF InsertCampaign, Effect, CampaignsChange, SettingsChange, OpsChange, history
  <2>2. CASE /\ campaign' = Append(campaign, NewCampaign(req[r].slug))
             /\ Writes(r, [At(r, "tracking") EXCEPT !.id = Len(campaign')])
    <3> DEFINE n == Len(campaign')
    <3>1. req'[r] = [At(r, "tracking") EXCEPT !.id = n]
      BY <2>2 DEF Writes
    <3> HIDE DEF n
    <3>2. req'[r].pc = "tracking"
      BY <1>1, <3>1 DEF At, Request
    <3>3. Inserts(r)
      BY <1>6, <2>2, <3>2 DEF InsertCampaign, Inserts
    <3> QED
      BY <1>6, <3>3 DEF InsertCampaign, Effect, CampaignsChange, SettingsChange, OpsChange, history
  <2> QED
    BY <1>6, <2>1, <2>2 DEF InsertCampaign
<1>7. ASSUME CheckLimit(r) \/ CheckSlug(r) \/ CheckTracking(r) \/ CheckCaptcha(r)
             \/ ReadBack(r) \/ StatementFails(r)
      PROVE  Effect(r)
  BY <1>7 DEF CheckLimit, CheckSlug, CheckTracking, CheckCaptcha, ReadBack, StatementFails,
       Effect, CampaignsChange, SettingsChange, OpsChange, tables, history
<1>8. ASSUME NEW t \in Singles, UpsertSettings(r, t) PROVE Effect(r)
  <2>1. CASE ReadSettings(r, t)
    BY <2>1 DEF ReadSettings, Effect, CampaignsChange, SettingsChange, OpsChange, tables, history
  <2>2. CASE StoreSettings(r, t)
    <3>1. CASE single' = single
      BY <2>2, <3>1 DEF StoreSettings, Effect, CampaignsChange, SettingsChange, OpsChange, history
    <3>2. CASE single' = [single EXCEPT ![Id(r)][t] =
                            IF req[r].seen THEN UpdateRow(single[Id(r)][t], req[r].data.single[t])
                            ELSE CreateRow(single[Id(r)][t], req[r].data.single[t])]
      <4> DEFINE row == IF req[r].seen THEN UpdateRow(single[Id(r)][t], req[r].data.single[t])
                        ELSE CreateRow(single[Id(r)][t], req[r].data.single[t])
      <4>1. row.exists = TRUE /\ row.flag = req[r].data.single[t].flag
        BY DEF UpdateRow, CreateRow
      <4>2. single' = [single EXCEPT ![Id(r)][t] = row]
        BY <3>2
      <4> HIDE DEF row
      <4>3. req[r].pc = "store" /\ AtWork(r, t) /\ UNCHANGED rows
        BY <2>2 DEF StoreSettings
      <4>4. Stores(r, t)
        BY <4>1, <4>2, <4>3 DEF Stores
      <4> QED
        BY <2>2, <4>4 DEF StoreSettings, Effect, CampaignsChange, SettingsChange, OpsChange, history
    <3> QED
      BY <2>2, <3>1, <3>2 DEF StoreSettings
  <2> QED
    BY <1>8, <2>1, <2>2 DEF UpsertSettings
<1>9. ASSUME NEW t \in Lists, ReplaceRows(r, t) PROVE Effect(r)
  <2>1. Fills(r, t) => SettingsChange(r)
    BY DEF SettingsChange
  <2>2. CASE ClearList(r, t)
    <3>1. /\ req[r].pc \in {"table", "rows"} /\ AtWork(r, t) /\ UNCHANGED single
          /\ rows' = [rows EXCEPT ![Id(r)][t] = {}]
      BY <2>2 DEF ClearList
    <3>2. SettingsChange(r)
      BY <2>1, <3>1 DEF Fills
    <3> QED
      BY <2>2, <3>2 DEF ClearList, Effect, CampaignsChange, OpsChange, history
  <2>3. CASE InsertRow(r, t)
    <3>1. CASE rows' = rows
      BY <2>3, <3>1 DEF InsertRow, Effect, CampaignsChange, SettingsChange, OpsChange, history
    <3>2. CASE rows' = [rows EXCEPT ![Id(r)][t] = @ \cup {req[r].data.list[t][req[r].item]}]
      <4> DEFINE S == rows[Id(r)][t] \cup {req[r].data.list[t][req[r].item]}
      <4>1. rows' = [rows EXCEPT ![Id(r)][t] = S]
        BY <3>2
      <4> HIDE DEF S
      <4>2. req[r].pc \in {"table", "rows"} /\ AtWork(r, t) /\ UNCHANGED single
        BY <2>3 DEF InsertRow
      <4>3. SettingsChange(r)
        BY <2>1, <4>1, <4>2 DEF Fills
      <4> QED
        BY <2>3, <4>3 DEF InsertRow, Effect, CampaignsChange, OpsChange, history
    <3> QED
      BY <2>3, <3>1, <3>2 DEF InsertRow
  <2> QED
    BY <1>9, <2>2, <2>3 DEF ReplaceRows
<1>10. /\ "email" \in Singles /\ "branding" \in Singles /\ "form" \in Singles /\ "referral" \in Singles
       /\ "fields" \in Lists /\ "messages" \in Lists /\ "tracking" \in Lists
  BY DEF Singles, Lists
<1>11. ASSUME Step(r) PROVE Effect(r)
  <2>1. CASE \/ UpsertCampaignEmailSettings(r) \/ UpsertCampaignBrandingSettings(r)
             \/ UpsertCampaignFormSettings(r) \/ UpsertCampaignReferralSettings(r)
    BY <1>8, <1>10, <2>1 DEF UpsertCampaignEmailSettings, UpsertCampaignBrandingSettings,
         UpsertCampaignFormSettings, UpsertCampaignReferralSettings
  <2>2. CASE \/ ReplaceCampaignFormFields(r) \/ ReplaceCampaignShareMessages(r)
             \/ ReplaceCampaignTrackingIntegrations(r)
    BY <1>9, <1>10, <2>2 DEF ReplaceCampaignFormFields, ReplaceCampaignShareMessages,
         ReplaceCampaignTrackingIntegrations
  <2> QED
    BY <1>6, <1>7, <1>11, <2>1, <2>2 DEF Step
<1> QED
  BY <1>3, <1>4, <1>5, <1>7, <1>11 DEF RequestStep

-----------------------------------------------------------------------------
(* The numbers of requests in a phase, and the rows they are kept with.    *)

InPhase(X) == {q \in Requests : req[q].pc \in X}

\* Only the request that moves enters or leaves a phase.
LEMMA PhaseCounts ==
  ASSUME NEW r \in Requests, Others(r), NEW X
  PROVE  /\ Cardinality(InPhase(X)) \in Nat /\ Cardinality(InPhase(X)') \in Nat
         /\ Cardinality(InPhase(X)') <= Cardinality(Requests) /\ Cardinality(Requests) \in Nat
         /\ Cardinality(InPhase(X)') <= Cardinality(InPhase(X)) + 1
         /\ (req'[r].pc \in X => req[r].pc \in X) => Cardinality(InPhase(X)') <= Cardinality(InPhase(X))
         /\ (req'[r].pc \notin X /\ req[r].pc \in X) =>
              Cardinality(InPhase(X)') = Cardinality(InPhase(X)) - 1
<1> DEFINE S == InPhase(X)
           T == InPhase(X)'
<1>1. IsFiniteSet(Requests) /\ S \subseteq Requests /\ T \subseteq Requests
  BY CampaignAssumption DEF InPhase
<1>2. IsFiniteSet(S) /\ IsFiniteSet(T) /\ Cardinality(S) \in Nat /\ Cardinality(T) \in Nat
  BY <1>1, FS_Subset, FS_CardinalityType
<1>3. Cardinality(T) <= Cardinality(Requests) /\ Cardinality(Requests) \in Nat
  BY <1>1, FS_Subset, FS_CardinalityType
<1>4. /\ \A q \in Requests \ {r} : q \in T <=> q \in S
      /\ r \in S <=> req[r].pc \in X
      /\ r \in T <=> req'[r].pc \in X
  BY DEF InPhase, Others
<1> HIDE DEF S, T
<1>5. CASE r \in T /\ r \notin S
  <2>1. T = S \cup {r}
    BY <1>1, <1>4, <1>5
  <2>2. Cardinality(T) = Cardinality(S) + 1
    BY <1>2, <1>5, <2>1, FS_AddElement
  <2> QED
    BY <1>2, <1>3, <1>4, <1>5, <2>2 DEF S, T
<1>6. CASE r \notin T /\ r \in S
  <2>1. T = S \ {r}
    BY <1>1, <1>4, <1>6
  <2>2. Cardinality(T) = Cardinality(S) - 1
    BY <1>2, <1>6, <2>1, FS_RemoveElement
  <2> QED
    BY <1>2, <1>3, <1>4, <1>6, <2>2 DEF S, T
<1>7. CASE r \in T <=> r \in S
  <2>1. T = S
    BY <1>1, <1>4, <1>7
  <2> QED
    BY <1>2, <1>3, <1>4, <1>7, <2>1 DEF S, T
<1> QED
  BY <1>5, <1>6, <1>7

\* Rows stay rows, and one comes only at an insert.
LEMMA RowsStayRows ==
  ASSUME Fits, NEW r \in Requests, CampaignsChange(r)
  PROVE  /\ campaign' \in Seq(Row) /\ Len(campaign) \in Nat
         /\ Inserts(r) => Len(campaign') = Len(campaign) + 1
         /\ ~Inserts(r) => Len(campaign') = Len(campaign)
         /\ ~Inserts(r) => Live' \subseteq Live
         /\ Inserts(r) => Live' \subseteq Live \cup {Len(campaign) + 1}
<1>1. campaign \in Seq(Row) /\ Works(req[r])
  BY DEF Fits, TypeOK
<1>2. CASE Inserts(r)
  <2>1. NewCampaign(req[r].slug) \in Row
    BY <1>1, <1>2 DEF Inserts, Works, InCreation, NewCampaign, Row, ValidStatuses
  <2>2. campaign' = Append(campaign, NewCampaign(req[r].slug))
    BY <1>2 DEF Inserts
  <2>3. /\ campaign' \in Seq(Row) /\ Len(campaign) \in Nat /\ Len(campaign') = Len(campaign) + 1
        /\ DOMAIN campaign = 1 .. Len(campaign) /\ DOMAIN campaign' = 1 .. Len(campaign')
        /\ \A c \in DOMAIN campaign : campaign'[c] = campaign[c]
    BY <1>1, <2>1, <2>2
  <2>4. Live' \subseteq Live \cup {Len(campaign) + 1}
    <3> SUFFICES ASSUME NEW c \in Live' PROVE c \in Live \cup {Len(campaign) + 1}
      OBVIOUS
    <3>1. c \in 1 .. Len(campaign) + 1 /\ ~campaign'[c].deleted
      BY <2>3 DEF Live
    <3>2. c \in 1 .. Len(campaign) \/ c = Len(campaign) + 1
      BY <2>3, <3>1
    <3> QED
      BY <2>3, <3>1, <3>2 DEF Live
  <2> QED
    BY <1>2, <2>3, <2>4
<1>3. CASE Edits(r)
  <2>1. PICK c \in Live, new \in Row : campaign' = [campaign EXCEPT ![c] = new]
    BY <1>3 DEF Edits
  <2>2. ~Inserts(r)
    BY <1>3 DEF Edits, Inserts
  <2>5. Len(campaign) \in Nat /\ DOMAIN campaign = 1 .. Len(campaign) /\ c \in 1 .. Len(campaign)
    BY <1>1 DEF Live
  <2>6. campaign \in [1 .. Len(campaign) -> Row]
    BY <1>1, <2>5
  <2>7. campaign' \in [1 .. Len(campaign) -> Row]
    BY <2>1, <2>5, <2>6
  <2>3. campaign' \in Seq(Row) /\ Len(campaign) \in Nat /\ Len(campaign') = Len(campaign)
    BY <2>5, <2>7
  <2>4. Live' \subseteq Live
    BY <1>1, <2>1 DEF Live
  <2> QED
    BY <2>2, <2>3, <2>4
<1>4. CASE campaign' = campaign /\ ~Inserts(r)
  BY <1>1, <1>4 DEF Live
<1> QED
  BY <1>2, <1>3, <1>4 DEF CampaignsChange

\* Settings keep their shape.
LEMMA SettingsStaySettings ==
  ASSUME Fits, NEW r \in Requests, SettingsChange(r)
  PROVE  /\ DOMAIN single' = Ids /\ \A c \in Ids : DOMAIN single'[c] = Singles
         /\ \A c \in Ids, s \in Singles : single'[c][s].exists \in BOOLEAN
         /\ DOMAIN rows' = Ids /\ \A c \in Ids : DOMAIN rows'[c] = Lists
<1>1. /\ DOMAIN single = Ids /\ \A c \in Ids : DOMAIN single[c] = Singles
      /\ \A c \in Ids, s \in Singles : single[c][s].exists \in BOOLEAN
      /\ DOMAIN rows = Ids /\ \A c \in Ids : DOMAIN rows[c] = Lists
  BY DEF Fits, TypeOK
<1>2. CASE UNCHANGED <<single, rows>>
  BY <1>1, <1>2
<1>3. ASSUME NEW t \in Singles, Stores(r, t)
      PROVE  /\ DOMAIN single' = Ids /\ \A c \in Ids : DOMAIN single'[c] = Singles
             /\ \A c \in Ids, s \in Singles : single'[c][s].exists \in BOOLEAN
             /\ rows' = rows
  <2>1. PICK row : row.exists = TRUE /\ single' = [single EXCEPT ![Id(r)][t] = row]
    BY <1>3 DEF Stores
  <2>2. DOMAIN single' = Ids /\ rows' = rows
    BY <1>1, <1>3, <2>1 DEF Stores
  <2>3. ASSUME NEW c \in Ids
        PROVE  DOMAIN single'[c] = Singles /\ \A s \in Singles : single'[c][s].exists \in BOOLEAN
    <3>1. CASE c = Id(r)
      <4>1. single'[c] = [single[c] EXCEPT ![t] = row]
        BY <1>1, <2>1, <3>1
      <4> QED
        BY <1>1, <2>1, <4>1
    <3>2. CASE c # Id(r)
      <4>1. single'[c] = single[c]
        BY <1>1, <2>1, <3>2
      <4> QED
        BY <1>1, <4>1
    <3> QED
      BY <3>1, <3>2
  <2> QED
    BY <2>2, <2>3
<1>4. ASSUME NEW t \in Lists, Fills(r, t)
      PROVE  /\ DOMAIN rows' = Ids /\ \A c \in Ids : DOMAIN rows'[c] = Lists
             /\ single' = single
  <2>1. PICK S : rows' = [rows EXCEPT ![Id(r)][t] = S]
    BY <1>4 DEF Fills
  <2> QED
    BY <1>1, <1>4, <2>1 DEF Fills
<1> QED
  BY <1>1, <1>2, <1>3, <1>4 DEF SettingsChange

-----------------------------------------------------------------------------
(* Types are kept.                                                         *)

\* A request enters a creation when it begins, and leaves it with its campaign.
LEMMA CreationsCount ==
  ASSUME Fits, NEW r \in Requests, RequestStep(r)
  PROVE  Room' /\ ops' \in Nat
<1>1. RequestMoves(r) /\ (Stops(r) \/ IsChecked(r) \/ EntersSettings(r) \/ InsideSettings(r))
  BY CourseOfRequest
<1>2. CampaignsChange(r) /\ OpsChange(r)
  BY EffectOfRequest DEF Effect
<1>3. /\ Len(campaign) \in Nat /\ Inserts(r) => Len(campaign') = Len(campaign) + 1
      /\ ~Inserts(r) => Len(campaign') = Len(campaign)
  BY <1>2, RowsStayRows
<1> DEFINE k == Cardinality(Creating)
           l == Cardinality(Creating')
<1>4. /\ k \in Nat /\ l \in Nat /\ l <= k + 1
      /\ (req'[r].pc \in InCreation => req[r].pc \in InCreation) => l <= k
      /\ (req'[r].pc \notin InCreation /\ req[r].pc \in InCreation) => l = k - 1
  <2>1. Creating = InPhase(InCreation) /\ Creating' = InPhase(InCreation)'
    BY DEF Creating, InPhase
  <2>2. Others(r)
    BY <1>1 DEF RequestMoves
  <2> QED
    BY <2>1, <2>2, PhaseCounts
<1>5. ops \in Nat /\ MaxOps \in Nat /\ Len(campaign) + k <= ops /\ ops <= MaxOps
  BY CampaignAssumption DEF Fits, TypeOK, Room
<1>6. req[r].pc # "idle" => (req'[r].pc \in InCreation => req[r].pc \in InCreation)
  BY <1>1 DEF Stops, IsChecked, EntersSettings, InsideSettings, InSettings, InCreation
<1>7. Inserts(r) => /\ req'[r].pc \notin InCreation /\ req[r].pc \in InCreation
                    /\ req[r].pc # "idle"
  BY DEF Inserts, InCreation
<1>8. \/ req[r].pc = "idle" /\ ops < MaxOps /\ ops' = ops + 1
      \/ req[r].pc # "idle" /\ ops' = ops
  BY <1>2 DEF OpsChange
<1> HIDE DEF k, l
<1>9. Len(campaign') + l <= ops' /\ ops' <= MaxOps /\ ops' \in Nat
  <2>1. CASE Inserts(r)
    BY <1>3, <1>4, <1>5, <1>7, <1>8, <2>1
  <2>2. CASE ~Inserts(r) /\ req[r].pc = "idle"
    BY <1>3, <1>4, <1>5, <1>8, <2>2
  <2>3. CASE ~Inserts(r) /\ req[r].pc # "idle"
    BY <1>3, <1>4, <1>5, <1>6, <1>8, <2>3
  <2> QED
    BY <2>1, <2>2, <2>3
<1> QED
  BY <1>9 DEF Room, l

LEMMA RequestKeepsFits ==
  ASSUME Fits, NEW r \in Requests, RequestStep(r)
  PROVE  Fits'
<1>1. Room' /\ ops' \in Nat
  BY CreationsCount
<1>2. RequestMoves(r)
  BY CourseOfRequest
<1>3. CampaignsChange(r) /\ SettingsChange(r) /\ plan' = plan /\ cap' = cap
  BY EffectOfRequest DEF Effect, history
<1>4. campaign' \in Seq(Row)
  BY <1>3, RowsStayRows
<1>5. /\ DOMAIN single' = Ids /\ \A c \in Ids : DOMAIN single'[c] = Singles
      /\ \A c \in Ids, s \in Singles : single'[c][s].exists \in BOOLEAN
      /\ DOMAIN rows' = Ids /\ \A c \in Ids : DOMAIN rows'[c] = Lists
  BY <1>3, SettingsStaySettings
<1>6. plan' \in Plans /\ cap' \in Nat \cup {NoLimit}
  BY <1>3 DEF Fits, TypeOK
<1>7. TypeOK'
  BY <1>1, <1>2, <1>4, <1>5, <1>6 DEF TypeOK, RequestMoves
<1>8. ASSUME NEW q \in Requests PROVE Works(req'[q])
  <2>1. CASE q = r
    BY <1>2, <2>1 DEF RequestMoves
  <2>2. CASE q # r
    <3>1. /\ req'[q].pc = req[q].pc /\ req'[q].data = req[q].data /\ req'[q].table = req[q].table
          /\ req'[q].slug = req[q].slug /\ req'[q].id = req[q].id
      BY <1>2, <2>2 DEF RequestMoves, Others
    <3>2. Works(req[q])
      BY DEF Fits
    <3> QED
      BY <3>1, <3>2 DEF Works
  <2> QED
    BY <2>1, <2>2
<1> QED
  BY <1>1, <1>7, <1>8 DEF Fits

\* The larger of two limits.
LEMMA LargerLimit ==
  ASSUME NEW a \in Nat \cup {NoLimit}, NEW b \in Nat \cup {NoLimit}, a # NoLimit, b # NoLimit
  PROVE  Max({a, b}) \in Nat /\ a <= Max({a, b}) /\ b <= Max({a, b})
<1>1. a \in Nat /\ b \in Nat
  OBVIOUS
<1>2. \E x \in {a, b} : \A y \in {a, b} : x >= y
  <2>1. CASE a >= b
    BY <1>1, <2>1
  <2>2. CASE b >= a
    BY <1>1, <2>2
  <2> QED
    BY <1>1, <2>1, <2>2
<1>3. Max({a, b}) \in {a, b} /\ \A y \in {a, b} : Max({a, b}) >= y
  BY <1>2 DEF Max
<1> QED
  BY <1>1, <1>3

\* What a plan allows: no more than the account has ever been allowed.
Within(limit, most) == most # NoLimit => limit # NoLimit /\ limit <= most

LEMMA PlanChanges ==
  ASSUME Fits, ChangePlan
  PROVE  /\ Fits' /\ plan'.features \subseteq had' /\ had \subseteq had'
         /\ Within(plan'.limit, cap') /\ Within(cap, cap')
<1>1. /\ plan' \in Plans /\ had' = had \cup plan'.features
      /\ cap' = IF NoLimit \in {cap, plan'.limit} THEN NoLimit ELSE Max({cap, plan'.limit})
      /\ UNCHANGED <<campaign, single, rows, req, ops>>
  BY DEF ChangePlan, tables
<1>2. plan'.limit \in Nat \cup {NoLimit} /\ cap \in Nat \cup {NoLimit}
  BY <1>1, CampaignAssumption DEF Fits, TypeOK
<1>3. /\ cap' \in Nat \cup {NoLimit} /\ Within(plan'.limit, cap') /\ Within(cap, cap')
  <2>1. CASE NoLimit \in {cap, plan'.limit}
    BY <1>1, <2>1 DEF Within
  <2>2. CASE NoLimit \notin {cap, plan'.limit}
    <3>1. cap # NoLimit /\ plan'.limit # NoLimit /\ cap' = Max({cap, plan'.limit})
      BY <1>1, <2>2
    <3> HIDE DEF NoLimit
    <3>2. cap' \in Nat /\ cap <= cap' /\ plan'.limit <= cap'
      BY <1>2, <3>1, LargerLimit
    <3> QED
      BY <3>1, <3>2 DEF Within
  <2> QED
    BY <2>1, <2>2
<1>4. Fits'
  <2>1. TypeOK'
    BY <1>1, <1>3 DEF Fits, TypeOK
  <2>2. Room'
    BY <1>1 DEF Fits, Room, Creating
  <2> QED
    BY <1>1, <2>1, <2>2 DEF Fits
<1> QED
  BY <1>1, <1>3, <1>4

-----------------------------------------------------------------------------
(* The limit.                                                              *)

PlanFits == plan.features \subseteq had /\ Within(plan.limit, cap)

\* The limit a request compares with is one the account had.
LimitsFit == \A r \in Requests : req[r].pc = "count" => Within(req[r].limit, cap)

\* Who has passed the check and not yet inserted has a seat besides the campaigns.
Passed == InPhase({"slug", "insert"})
Seats ==
  cap # NoLimit =>
    Cardinality(Live) + Cardinality(Passed) <= cap + Cardinality(Requests) - 1

LEMMA CampaignsAreFinite ==
  ASSUME Fits
  PROVE  IsFiniteSet(Live) /\ Cardinality(Live) \in Nat
<1>1. campaign \in Seq(Row)
  BY DEF Fits, TypeOK
<1>2. IsFiniteSet(DOMAIN campaign)
  BY <1>1, FS_Interval
<1> QED
  BY <1>2, FS_Subset, FS_CardinalityType DEF Live

\* A creation that passes the check finds a campaign fewer than the limit, and an
\* insert takes the seat its request already has.
LEMMA RequestKeepsSeats ==
  ASSUME Fits, PlanFits, LimitsFit, Seats, NEW r \in Requests, RequestStep(r)
  PROVE  PlanFits' /\ LimitsFit' /\ Seats'
<1> DEFINE X == {"slug", "insert"}
<1>1. RequestMoves(r) /\ (Stops(r) \/ IsChecked(r) \/ EntersSettings(r) \/ InsideSettings(r))
  BY CourseOfRequest
<1>2. CampaignsChange(r) /\ plan' = plan /\ cap' = cap /\ had' = had
  BY EffectOfRequest DEF Effect, history
<1>3. PlanFits'
  BY <1>2 DEF PlanFits, Within
<1>4. LimitsFit'
  <2> SUFFICES ASSUME NEW q \in Requests, req'[q].pc = "count" PROVE Within(req'[q].limit, cap')
    BY DEF LimitsFit
  <2>1. CASE q = r
    <3>1. req'[r].limit = plan.limit
      BY <1>1, <2>1 DEF Stops, IsChecked, EntersSettings, InsideSettings, InSettings
    <3> QED
      BY <1>2, <2>1, <3>1 DEF PlanFits, Within
  <2>2. CASE q # r
    <3>1. req'[q].pc = req[q].pc /\ req'[q].limit = req[q].limit
      BY <1>1, <2>2 DEF RequestMoves, Others
    <3> QED
      BY <1>2, <3>1 DEF LimitsFit, Within
  <2> QED
    BY <2>1, <2>2
<1>5. Seats'
  <2> SUFFICES ASSUME cap # NoLimit
               PROVE  Cardinality(Live') + Cardinality(Passed') <= cap + Cardinality(Requests) - 1
    BY <1>2 DEF Seats
  <2> DEFINE l == Cardinality(Live)
             m == Cardinality(Live')
             p == Cardinality(Passed)
             s == Cardinality(Passed')
             n == Cardinality(Requests)
  <2>1. /\ p \in Nat /\ s \in Nat /\ n \in Nat /\ s <= n /\ s <= p + 1
        /\ (req'[r].pc \in X => req[r].pc \in X) => s <= p
        /\ (req'[r].pc \notin X /\ req[r].pc \in X) => s = p - 1
    <3>1. Others(r)
      BY <1>1 DEF RequestMoves
    <3>2. Passed = InPhase(X) /\ Passed' = InPhase(X)'
      BY DEF Passed
    <3> QED
      BY <3>1, <3>2, PhaseCounts
  <2>2. IsFiniteSet(Live) /\ l \in Nat
    BY CampaignsAreFinite
  <2>3. /\ Len(campaign) \in Nat
        /\ ~Inserts(r) => Live' \subseteq Live
        /\ Inserts(r) => Live' \subseteq Live \cup {Len(campaign) + 1}
    BY <1>2, RowsStayRows
  <2>4. ~Inserts(r) => m <= l /\ m \in Nat
    BY <2>2, <2>3, FS_Subset, FS_CardinalityType
  <2>5. Inserts(r) => m <= l + 1 /\ m \in Nat
    <3> DEFINE c == Len(campaign) + 1
    <3>1. /\ IsFiniteSet(Live \cup {c})
          /\ Cardinality(Live \cup {c}) = l \/ Cardinality(Live \cup {c}) = l + 1
      BY <2>2, FS_AddElement
    <3> HIDE DEF c
    <3>2. Cardinality(Live \cup {c}) <= l + 1
      BY <2>2, <3>1
    <3>3. Live' \subseteq Live \cup {c} => /\ IsFiniteSet(Live') /\ m <= Cardinality(Live \cup {c})
                                           /\ m \in Nat
      BY <3>1, FS_Subset, FS_CardinalityType
    <3> QED
      BY <2>2, <2>3, <3>1, <3>2, <3>3 DEF c
  <2>6. l + p <= cap + n - 1 /\ cap \in Nat
    BY DEF Seats, Fits, TypeOK
  <2>7. CASE Inserts(r)
    <3>1. req'[r].pc \notin X /\ req[r].pc \in X
      BY <2>7 DEF Inserts
    <3> HIDE DEF l, m, p, s, n
    <3>2. m <= l + 1 /\ m \in Nat /\ s = p - 1
      BY <2>1, <2>5, <2>7, <3>1
    <3>3. m + s <= cap + n - 1
      BY <2>1, <2>2, <2>6, <3>2
    <3> QED
      BY <3>3 DEF m, s, n
  <2>8. CASE ~Inserts(r) /\ req[r].pc = "count" /\ req'[r].pc = "slug"
    <3>1. l < req[r].limit /\ req[r].limit \in Nat
      <4>1. req[r].limit # NoLimit => l < req[r].limit
        BY <1>1, <2>8 DEF Stops, IsChecked, EntersSettings, InsideSettings, InSettings,
           CountCampaigns
      <4>2. req[r].limit # NoLimit
        BY <2>8 DEF LimitsFit, Within
      <4>3. req[r].limit \in Nat \cup {NoLimit}
        BY DEF Fits, TypeOK, Request
      <4> QED
        BY <4>1, <4>2, <4>3
    <3>2. req[r].limit <= cap
      BY <2>8 DEF LimitsFit, Within
    <3>3. m <= l /\ m \in Nat
      BY <2>4, <2>8
    <3> HIDE DEF l, m, p, s, n
    <3>4. m + s <= cap + n - 1
      BY <2>1, <2>2, <2>6, <3>1, <3>2, <3>3
    <3> QED
      BY <3>4 DEF m, s, n
  <2>9. CASE ~Inserts(r) /\ ~(req[r].pc = "count" /\ req'[r].pc = "slug")
    <3>1. req'[r].pc \in X => req[r].pc \in X
      BY <1>1, <2>9 DEF Stops, IsChecked, EntersSettings, InsideSettings, InSettings
    <3>3. m <= l /\ m \in Nat /\ s <= p
      BY <2>1, <2>4, <2>9, <3>1
    <3> HIDE DEF l, m, p, s, n
    <3>4. m + s <= cap + n - 1
      BY <2>1, <2>2, <2>6, <3>3
    <3> QED
      BY <3>4 DEF m, s, n
  <2> QED
    BY <2>7, <2>8, <2>9
<1> QED
  BY <1>3, <1>4, <1>5

LimitInv == Fits /\ PlanFits /\ LimitsFit /\ Seats

LEMMA InitLimit == Init => LimitInv
<1> SUFFICES ASSUME Init PROVE LimitInv
  OBVIOUS
<1>1. Fits
  BY InitFits
<1>2. PlanFits /\ LimitsFit
  <2>1. plan.limit \in Nat \cup {NoLimit} /\ had = plan.features /\ cap = plan.limit
    BY CampaignAssumption DEF Init
  <2>2. \A r \in Requests : req[r].pc = "idle"
    BY DEF Init, Idle
  <2> QED
    BY <2>1, <2>2 DEF PlanFits, LimitsFit, Within, NoLimit
<1>3. Live = {} /\ Passed = {}
  BY DEF Init, Live, Passed, InPhase, Idle
<1>4. Cardinality(Live) = 0 /\ Cardinality(Passed) = 0
  BY <1>3, FS_EmptySet
<1>5. Cardinality(Requests) \in Nat /\ Cardinality(Requests) # 0
  BY CampaignAssumption, FS_CardinalityType, FS_EmptySet
<1>6. Seats
  BY <1>1, <1>4, <1>5 DEF Seats, Fits, TypeOK
<1> QED
  BY <1>1, <1>2, <1>6 DEF LimitInv

LEMMA PlanChangeKeepsLimit == LimitInv /\ ChangePlan => LimitInv'
<1> SUFFICES ASSUME LimitInv, ChangePlan PROVE LimitInv'
  OBVIOUS
<1>1. /\ Fits' /\ plan'.features \subseteq had'
      /\ Within(plan'.limit, cap') /\ Within(cap, cap')
  BY PlanChanges DEF LimitInv
<1>2. UNCHANGED <<campaign, req>>
  BY DEF ChangePlan, tables
<1>3. cap \in Nat \cup {NoLimit} /\ cap' \in Nat \cup {NoLimit}
  BY <1>1 DEF LimitInv, Fits, TypeOK
<1>4. ASSUME NEW r \in Requests, req[r].pc = "count" PROVE Within(req[r].limit, cap')
  <2>1. Within(req[r].limit, cap) /\ req[r].limit \in Nat \cup {NoLimit}
    BY <1>4 DEF LimitInv, LimitsFit, Fits, TypeOK, Request
  <2> QED
    BY <1>1, <1>3, <2>1 DEF Within, NoLimit
<1>5. LimitsFit'
  BY <1>2, <1>4 DEF LimitsFit
<1>6. Seats'
  <2>1. Live' = Live /\ Passed' = Passed
    BY <1>2 DEF Live, Passed, InPhase
  <2>2. Cardinality(Live) \in Nat /\ Cardinality(Passed) \in Nat /\ Cardinality(Requests) \in Nat
    <3>1. IsFiniteSet(Requests) /\ Passed \subseteq Requests
      BY CampaignAssumption DEF Passed, InPhase
    <3> QED
      BY <3>1, CampaignsAreFinite, FS_Subset, FS_CardinalityType DEF LimitInv
  <2>3. cap' # NoLimit => cap # NoLimit /\ cap <= cap' /\ cap \in Nat /\ cap' \in Nat
    BY <1>1, <1>3 DEF Within
  <2> QED
    BY <2>1, <2>2, <2>3 DEF LimitInv, Seats
<1> QED
  BY <1>1, <1>5, <1>6 DEF LimitInv, PlanFits

LEMMA NextKeepsLimit == LimitInv /\ [Next]_vars => LimitInv'
<1> SUFFICES ASSUME LimitInv, [Next]_vars PROVE LimitInv'
  OBVIOUS
<1>1. CASE ChangePlan
  BY <1>1, PlanChangeKeepsLimit
<1>2. ASSUME NEW r \in Requests, RequestStep(r) PROVE LimitInv'
  BY <1>2, RequestKeepsFits, RequestKeepsSeats DEF LimitInv
<1>3. CASE UNCHANGED vars
  <2>1. UNCHANGED <<campaign, single, rows, plan, req, ops, had, cap>>
    BY <1>3 DEF vars
  <2>2. Live' = Live /\ Passed' = Passed /\ Creating' = Creating
    BY <2>1 DEF Live, Passed, InPhase, Creating
  <2>3. Fits'
    BY <2>1, <2>2 DEF LimitInv, Fits, TypeOK, Room
  <2>4. PlanFits' /\ LimitsFit' /\ Seats'
    BY <2>1, <2>2 DEF LimitInv, PlanFits, LimitsFit, Seats, Within
  <2> QED
    BY <2>3, <2>4 DEF LimitInv
<1> QED
  BY <1>1, <1>2, <1>3 DEF Next, RequestStep

LEMMA LimitInvariant == Spec => []LimitInv
BY InitLimit, NextKeepsLimit, PTL DEF Spec

\* Types are kept; campaigns stay within the numbers settings are kept for, as a
\* request that may still insert one has room for it; and a request at a settings table
\* carries settings for it and has a campaign (upsertCampaignSettings).
THEOREM CampaignTypeCorrect == Spec => []Fits
<1>1. LimitInv => Fits
  BY DEF LimitInv
<1> QED
  BY <1>1, LimitInvariant, PTL

\* Concurrent creations pass the campaigns limit, but by no more than the others in
\* flight, however often the plan changes and whatever is deleted or fails in between
\* (CreateCampaign: GetLimitByAccountID, CountCampaignsByAccountID, CreateCampaign).
THEOREM OverrunIsBounded == Spec => []LimitOverrunBounded
<1>1. LimitInv => LimitOverrunBounded
  <2> SUFFICES ASSUME LimitInv, cap # NoLimit
               PROVE  Cardinality(Live) <= cap + Cardinality(Requests) - 1
    BY DEF LimitOverrunBounded, CountCampaigns
  <2>1. Cardinality(Live) \in Nat /\ Cardinality(Passed) \in Nat /\ Cardinality(Requests) \in Nat
    <3>1. IsFiniteSet(Requests) /\ Passed \subseteq Requests
      BY CampaignAssumption DEF Passed, InPhase
    <3> QED
      BY <3>1, CampaignsAreFinite, FS_Subset, FS_CardinalityType DEF LimitInv
  <2>2. Cardinality(Live) + Cardinality(Passed) <= cap + Cardinality(Requests) - 1 /\ cap \in Nat
    BY DEF LimitInv, Seats, Fits, TypeOK
  <2> QED
    BY <2>1, <2>2
<1> QED
  BY <1>1, LimitInvariant, PTL

-----------------------------------------------------------------------------
(* The features.                                                           *)

\* A request past a check has the feature paid for, or does not need it.
Paid(q) ==
  /\ q.pc \in InSettings \cup {"captcha"} /\ "tracking" \in DOMAIN q.data.list =>
       "tracking_pixels" \in had
  /\ q.pc \in InSettings /\ CaptchaOn(q.data) => "anti_spam_protection" \in had

FeatureInv == (\A r \in Requests : Paid(req[r])) /\ GatedSettingsWerePaid

\* What a request without settings carries.
LEMMA NothingCarried ==
  /\ DOMAIN NoPayload.single = {} /\ DOMAIN NoPayload.list = {} /\ ~CaptchaOn(NoPayload)
  /\ \A d \in Payloads \cup {NoPayload} :
       DOMAIN d.single \subseteq Singles /\ DOMAIN d.list \subseteq Lists
<1>1. DOMAIN NoPayload.single = {} /\ DOMAIN NoPayload.list = {}
  BY DEF NoPayload
<1> QED
  BY <1>1, CampaignAssumption DEF CaptchaOn

\* A request at a gated table carries settings for it.
LEMMA AtTheGate ==
  ASSUME Fits, NEW r \in Requests, req[r].pc \in InSettings
  PROVE  /\ AtWork(r, "tracking") => "tracking" \in DOMAIN req[r].data.list
         /\ AtWork(r, "form") => "form" \in DOMAIN req[r].data.single
<1>1. /\ DOMAIN req[r].data.single \subseteq Singles /\ DOMAIN req[r].data.list \subseteq Lists
  BY NothingCarried DEF Fits, TypeOK, Request
<1>2. ASSUME NEW t, AtWork(r, t) PROVE t \in DOMAIN req[r].data.single \cup DOMAIN req[r].data.list
  BY <1>2 DEF Fits, Works, AtWork, Table, Carries
<1> QED
  BY <1>1, <1>2 DEF Singles, Lists

\* Every step keeps the features of the account; a request pays before it writes.
LEMMA RequestKeepsFeatures ==
  ASSUME Fits, PlanFits, FeatureInv, NEW r \in Requests, RequestStep(r)
  PROVE  FeatureInv'
<1>1. RequestMoves(r) /\ (Stops(r) \/ IsChecked(r) \/ EntersSettings(r) \/ InsideSettings(r))
  BY CourseOfRequest
<1>2. SettingsChange(r) /\ had' = had
  BY EffectOfRequest DEF Effect, history
<1>3. ASSUME NEW q \in Requests PROVE Paid(req[q])'
  <2>1. CASE q # r
    <3>1. req'[q].pc = req[q].pc /\ req'[q].data = req[q].data
      BY <1>1, <2>1 DEF RequestMoves, Others
    <3> QED
      BY <1>2, <3>1 DEF FeatureInv, Paid
  <2>2. CASE q = r
    <3>1. Paid(req[r]) /\ \A f : HasFeature(f) => f \in had
      BY DEF FeatureInv, PlanFits, HasFeature
    <3>2. CASE Stops(r) \/ IsChecked(r)
      BY <2>2, <3>2 DEF Stops, IsChecked, Paid, InSettings
    <3>3. CASE EntersSettings(r)
      BY <1>2, <2>2, <3>1, <3>3, NothingCarried DEF EntersSettings, Paid, InSettings
    <3>4. CASE InsideSettings(r)
      BY <1>2, <2>2, <3>1, <3>4 DEF InsideSettings, Paid
    <3> QED
      BY <1>1, <3>2, <3>3, <3>4
  <2> QED
    BY <2>1, <2>2
<1>4. GatedSettingsWerePaid
  BY DEF FeatureInv
<1>5. /\ DOMAIN single = Ids /\ \A c \in Ids : DOMAIN single[c] = Singles
      /\ DOMAIN rows = Ids /\ \A c \in Ids : DOMAIN rows[c] = Lists
      /\ "form" \in Singles /\ "tracking" \in Lists
  BY DEF Fits, TypeOK, Singles, Lists
<1>6. ASSUME NEW c \in Ids, rows'[c]["tracking"] # {} PROVE "tracking_pixels" \in had
  <2>1. CASE rows[c]["tracking"] # {}
    BY <1>4, <2>1 DEF GatedSettingsWerePaid
  <2>2. CASE rows[c]["tracking"] = {}
    <3>1. rows' # rows
      BY <1>6, <2>2
    <3>2. PICK t \in Lists : Fills(r, t)
      BY <1>2, <3>1 DEF SettingsChange, Stores
    <3>3. PICK S : rows' = [rows EXCEPT ![Id(r)][t] = S]
      BY <3>2 DEF Fills
    <3>4. t = "tracking"
      BY <1>5, <1>6, <2>2, <3>3
    <3>5. req[r].pc \in InSettings /\ AtWork(r, "tracking")
      BY <3>2, <3>4 DEF Fills, InSettings
    <3>6. "tracking" \in DOMAIN req[r].data.list /\ Paid(req[r])
      BY <3>5, AtTheGate DEF FeatureInv
    <3> QED
      BY <3>5, <3>6 DEF Paid
  <2> QED
    BY <2>1, <2>2
<1>7. ASSUME NEW c \in Ids, single'[c]["form"].flag PROVE "anti_spam_protection" \in had
  <2>1. CASE single'[c]["form"] = single[c]["form"]
    BY <1>4, <1>7, <2>1 DEF GatedSettingsWerePaid
  <2>2. CASE single'[c]["form"] # single[c]["form"]
    <3>1. single' # single
      BY <2>2
    <3>2. PICK t \in Singles : Stores(r, t)
      BY <1>2, <3>1 DEF SettingsChange, Fills
    <3>3. PICK row : /\ row.flag = req[r].data.single[t].flag
                     /\ single' = [single EXCEPT ![Id(r)][t] = row]
      BY <3>2 DEF Stores
    <3>4. t = "form" /\ single'[c]["form"] = row
      BY <1>5, <2>2, <3>3
    <3>5. req[r].pc \in InSettings /\ AtWork(r, "form")
      BY <3>2, <3>4 DEF Stores, InSettings
    <3>6. "form" \in DOMAIN req[r].data.single /\ Paid(req[r])
      BY <3>5, AtTheGate DEF FeatureInv
    <3>7. req[r].data.single["form"].flag
      BY <1>7, <3>3, <3>4
    <3> QED
      BY <3>5, <3>6, <3>7 DEF Paid, CaptchaOn
  <2> QED
    BY <2>1, <2>2
<1>8. GatedSettingsWerePaid'
  BY <1>2, <1>6, <1>7 DEF GatedSettingsWerePaid
<1> QED
  BY <1>3, <1>8 DEF FeatureInv

LEMMA NextKeepsFeatures == LimitInv /\ FeatureInv /\ [Next]_vars => FeatureInv'
<1> SUFFICES ASSUME LimitInv, FeatureInv, [Next]_vars PROVE FeatureInv'
  OBVIOUS
<1>1. CASE ChangePlan
  <2>1. had \subseteq had' /\ UNCHANGED <<single, rows, req>>
    BY <1>1 DEF ChangePlan, tables
  <2> QED
    BY <2>1 DEF FeatureInv, Paid, GatedSettingsWerePaid
<1>2. ASSUME NEW r \in Requests, RequestStep(r) PROVE FeatureInv'
  BY <1>2, RequestKeepsFeatures DEF LimitInv
<1>3. CASE UNCHANGED vars
  <2>1. UNCHANGED <<single, rows, req, had>>
    BY <1>3 DEF vars
  <2> QED
    BY <2>1 DEF FeatureInv, Paid, GatedSettingsWerePaid
<1> QED
  BY <1>1, <1>2, <1>3 DEF Next, RequestStep

LEMMA InitFeatures == Init => FeatureInv
<1> SUFFICES ASSUME Init PROVE FeatureInv
  OBVIOUS
<1>1. \A r \in Requests : req[r].pc = "idle"
  BY DEF Init, Idle
<1>2. \A r \in Requests : Paid(req[r])
  BY <1>1 DEF Paid, InSettings
<1>3. GatedSettingsWerePaid
  <2>1. \A c \in Ids : rows[c]["tracking"] = {} /\ single[c]["form"] = NoSettings
    BY DEF Init, Singles, Lists
  <2>2. NoSettings.flag = FALSE
    BY DEF NoSettings
  <2> QED
    BY <2>1, <2>2 DEF GatedSettingsWerePaid
<1> QED
  BY <1>2, <1>3 DEF FeatureInv

\* Nobody has tracking integrations or a captcha without ever having had the feature:
\* the checks come before every write, though the plan may change between the two
\* (upsertCampaignSettings: HasFeatureByAccountID, then the tables).
THEOREM SettingsWerePaid == Spec => []GatedSettingsWerePaid
<1>1. FeatureInv => GatedSettingsWerePaid
  BY DEF FeatureInv
<1> QED
  BY <1>1, InitFeatures, NextKeepsFeatures, LimitInvariant, PTL DEF Spec

-----------------------------------------------------------------------------
(* What answers mean.                                                      *)

\* The tables a request carries settings for, and what they hold of it.
Carried(q) == DOMAIN q.data.single \cup DOMAIN q.data.list
Holds(q, t) ==
  IF t \in Singles
  THEN LET new == q.data.single[t]
           row == single[q.id][t]
       IN row.exists /\ row.flag = new.flag /\ (new.opt # Absent => row.opt = new.opt)
  ELSE Range(q.data.list[t]) \subseteq rows[q.id][t]

\* A list is filled up to the item the request is at.
AtRow(q) ==
  /\ q.table <= Len(Tables) /\ Tables[q.table] \in DOMAIN q.data.list
  /\ q.item \in DOMAIN q.data.list[Tables[q.table]]
  /\ Tables[q.table] \notin q.lost =>
       \A i \in 1 .. q.item - 1 : q.data.list[Tables[q.table]][i] \in rows[q.id][Tables[q.table]]

\* The tables before the one the request is at hold what it carried for them.
Progress(q) ==
  /\ q.pc # "idle" => q.result = "none"
  /\ q.pc \in InSettings =>
       \A u \in 1 .. Len(Tables) :
         u < q.table /\ Carries(q.data, u) /\ Tables[u] \notin q.lost => Holds(q, Tables[u])
  /\ q.pc = "rows" => AtRow(q)
  /\ q.result = "ok" => q.id \in Ids /\ \A t \in Carried(q) \ q.lost : Holds(q, t)

\* While nobody else writes, what the request has read is true.
Undisturbed(q) ==
  /\ q.pc = "insert" => LiveWithSlug(q.slug) = {}
  /\ q.pc \in InSettings \cup {"tracking", "captcha"} => q.id \in Live
  /\ q.pc = "store" => q.seen = single[q.id][Tables[q.table]].exists
  /\ q.pc = "rows" =>
       \A old \in rows[q.id][Tables[q.table]] :
         \E i \in 1 .. q.item - 1 : old = q.data.list[Tables[q.table]][i]

Excused(q) ==
  \/ q.clash
  \/ \E l \in DOMAIN q.data.list : NamesKeyTwice(q.data.list[l])
  \/ q.op = "create" /\ \E c \in DOMAIN campaign : campaign[c].slug = q.slug /\ campaign[c].deleted

Explained(q) ==
  /\ q.pc \in InCreation => q.op = "create"
  /\ q.pc # "idle" /\ ~q.clash => Undisturbed(q)
  /\ q.result = "error" => Excused(q)

AnswerInv == \A r \in Requests : Progress(req[r]) /\ Explained(req[r])

LEMMA TablesApart == \A u, v \in 1 .. 7 : Tables[u] = Tables[v] => u = v
BY DEF Tables

\* Payloads name tables there are, and lists with items.
LEMMA PayloadTables ==
  ASSUME NEW q \in Request
  PROVE  /\ DOMAIN q.data.single \subseteq Singles /\ DOMAIN q.data.list \subseteq Lists
         /\ \A l \in DOMAIN q.data.list :
              DOMAIN q.data.list[l] = 1 .. Len(q.data.list[l]) /\ Len(q.data.list[l]) \in Nat \ {0}
<1>1. q.data \in Payloads \/ q.data = NoPayload
  BY DEF Request
<1>2. CASE q.data \in Payloads
  BY <1>2, CampaignAssumption
<1>3. CASE q.data = NoPayload
  BY <1>3 DEF NoPayload
<1> QED
  BY <1>1, <1>2, <1>3

\* No table is passed over.
LEMMA NothingBefore ==
  ASSUME NEW d, NEW t \in Places, NEW u \in 1 .. Len(Tables), t <= u, u < NextTable(d, t)
  PROVE  ~Carries(d, u)
<1> DEFINE S == {v \in t .. Len(Tables) : Carries(d, v)} \cup {Len(Tables) + 1}
<1>1. S \in SUBSET (1 .. 8) /\ S # {} /\ Len(Tables) = 7 /\ Places = 1 .. 8
  BY TableNames
<1>2. \A y \in S : Min(S) <= y
  BY <1>1, FirstPlace
<1>3. NextTable(d, t) = Min(S) /\ Min(S) \in 1 .. 8
  BY <1>1, FirstPlace DEF NextTable
<1>4. Carries(d, u) => u \in S
  BY <1>1
<1> HIDE DEF NextTable, S
<1> QED
  BY <1>1, <1>2, <1>3, <1>4

-----------------------------------------------------------------------------
(* What a step does to the other requests.                                 *)

CampaignsStay ==
  \A c \in DOMAIN campaign : /\ c \in DOMAIN campaign' /\ campaign'[c].slug = campaign[c].slug
                             /\ campaign[c].deleted => campaign'[c].deleted

\* A request that does not move keeps its locals, and learns of what is written.
Spared(o, n) ==
  /\ n.op = o.op /\ n.pc = o.pc /\ n.id = o.id /\ n.slug = o.slug /\ n.data = o.data
  /\ n.table = o.table /\ n.item = o.item /\ n.seen = o.seen /\ n.result = o.result
  /\ o.clash => n.clash
  /\ o.lost \subseteq n.lost
  /\ o.pc # "idle" /\ ~n.clash => UNCHANGED tables
  /\ o.id \in Ids =>
       /\ \A t \in Singles \ n.lost : single'[o.id][t] = single[o.id][t]
       /\ \A t \in Lists \ n.lost : rows[o.id][t] \subseteq rows'[o.id][t]

LEMMA SparedKeepsTrue ==
  ASSUME Fits, CampaignsStay, NEW r \in Requests, Spared(req[r], req'[r]),
         Progress(req[r]), Explained(req[r])
  PROVE  Progress(req[r])' /\ Explained(req[r])'
<1> DEFINE o == req[r]
           n == req'[r]
<1>1. o \in Request /\ Works(o)
  BY DEF Fits, TypeOK
<1>2. /\ n.op = o.op /\ n.pc = o.pc /\ n.id = o.id /\ n.slug = o.slug /\ n.data = o.data
      /\ n.table = o.table /\ n.item = o.item /\ n.seen = o.seen /\ n.result = o.result
      /\ o.clash => n.clash
      /\ o.lost \subseteq n.lost
      /\ o.pc # "idle" /\ ~n.clash => UNCHANGED tables
  BY DEF Spared
<1>3. o.id \in Ids =>
       /\ \A t \in Singles \ n.lost : single'[o.id][t] = single[o.id][t]
       /\ \A t \in Lists \ n.lost : rows[o.id][t] \subseteq rows'[o.id][t]
  BY DEF Spared
<1>4. Len(Tables) = 7 /\ \A u \in 1 .. 7 : Tables[u] \in Singles \cup Lists
  BY TableNames
<1>5. Carried(o) \subseteq Singles \cup Lists /\ DOMAIN o.data.list \subseteq Lists
  BY <1>1, PayloadTables DEF Carried
<1>6. ASSUME o.id \in Ids, NEW t \in (Singles \cup Lists) \ n.lost, Holds(o, t)
      PROVE  Holds(req[r], t)'
  BY <1>2, <1>3, <1>6 DEF Holds
<1>7. Progress(req[r])'
  <2>1. n.pc # "idle" => n.result = "none"
    BY <1>2 DEF Progress
  <2>2. ASSUME n.pc \in InSettings, NEW u \in 1 .. Len(Tables),
               u < n.table, Carries(n.data, u), Tables[u] \notin n.lost
        PROVE  Holds(req[r], Tables[u])'
    <3>1. o.id \in Ids
      BY <1>1, <1>2, <2>2 DEF Works
    <3>2. Holds(o, Tables[u])
      BY <1>2, <2>2 DEF Progress
    <3> QED
      BY <1>4, <1>6, <2>2, <3>1, <3>2
  <2>3. ASSUME n.pc = "rows" PROVE AtRow(req[r])'
    <3>1. AtRow(o) /\ o.id \in Ids
      BY <1>1, <1>2, <2>3 DEF Progress, Works, InSettings
    <3>2. PICK T : T = Tables[o.table]
      OBVIOUS
    <3>3. /\ o.table <= Len(Tables) /\ T \in DOMAIN o.data.list /\ o.item \in DOMAIN o.data.list[T]
          /\ T \notin o.lost => \A i \in 1 .. o.item - 1 : o.data.list[T][i] \in rows[o.id][T]
      BY <3>1, <3>2 DEF AtRow
    <3>4. T \notin n.lost => rows[o.id][T] \subseteq rows'[o.id][T] /\ T \notin o.lost
      BY <1>2, <1>3, <1>5, <3>1, <3>3
    <3>5. T \notin n.lost => \A i \in 1 .. o.item - 1 : o.data.list[T][i] \in rows'[o.id][T]
      BY <3>3, <3>4
    <3>6. /\ n.table = o.table /\ n.data.list = o.data.list /\ n.item = o.item /\ n.id = o.id
      BY <1>2
    <3> QED
      BY <3>2, <3>3, <3>5, <3>6 DEF AtRow
  <2>4. ASSUME n.result = "ok" PROVE n.id \in Ids /\ \A t \in Carried(n) \ n.lost : Holds(req[r], t)'
    <3>1. o.id \in Ids /\ \A t \in Carried(o) \ o.lost : Holds(o, t)
      BY <1>2, <2>4 DEF Progress
    <3>2. Carried(n) = Carried(o)
      BY <1>2 DEF Carried
    <3> QED
      BY <1>2, <1>5, <1>6, <3>1, <3>2
  <2>5. Carried(n) = Carried(req[r])'
    BY DEF Carried
  <2> QED
    BY <2>1, <2>2, <2>3, <2>4, <2>5 DEF Progress
<1>8. Explained(req[r])'
  <2>1. n.pc \in InCreation => n.op = "create"
    BY <1>2 DEF Explained
  <2>2. ASSUME n.pc # "idle", ~n.clash PROVE Undisturbed(req[r])'
    <3>1. Undisturbed(o) /\ UNCHANGED <<campaign, single, rows>>
      BY <1>2, <2>2 DEF Explained, tables
    <3> QED
      BY <1>2, <3>1 DEF Undisturbed, LiveWithSlug, Live
  <2>3. n.result = "error" => Excused(req[r])'
    BY <1>2 DEF Explained, Excused, CampaignsStay
  <2> QED
    BY <2>1, <2>2, <2>3 DEF Explained
<1> QED
  BY <1>7, <1>8

RestSpared(r) == CampaignsStay /\ \A q \in Requests \ {r} : Spared(req[q], req'[q])

\* The record a request goes on with, and what the others see of it.
LEMMA GoesSpares ==
  ASSUME Fits, NEW r \in Requests, NEW rec, Goes(r, rec), UNCHANGED tables
  PROVE  req'[r] = rec /\ RestSpared(r)
<1>1. req'[r] = rec /\ \A q \in Requests \ {r} : req'[q] = req[q]
  BY DEF Goes, Fits, TypeOK
<1>2. CampaignsStay
  BY DEF tables, CampaignsStay
<1>3. ASSUME NEW q \in Requests \ {r} PROVE Spared(req[q], req'[q])
  BY <1>1, <1>3 DEF Spared, tables
<1> QED
  BY <1>1, <1>2, <1>3 DEF RestSpared

LEMMA WritesSpares ==
  ASSUME Fits, NEW r \in Requests, NEW rec, Writes(r, rec), CampaignsStay, UNCHANGED single,
         \A c \in Ids : \A t \in Lists : rows[c][t] \subseteq rows'[c][t]
  PROVE  req'[r] = rec /\ RestSpared(r)
<1>1. req'[r] = rec
  BY DEF Writes
<1>2. ASSUME NEW q \in Requests \ {r} PROVE Spared(req[q], req'[q])
  <2> DEFINE b == req[q].clash \/ req[q].pc # "idle"
  <2>1. req'[q] = [req[q] EXCEPT !.clash = b] /\ req[q] \in Request
    BY DEF Writes, Fits, TypeOK
  <2>2. /\ req[q].clash => b
        /\ req[q].pc # "idle" => b
    OBVIOUS
  <2> HIDE DEF b
  <2>3. /\ req'[q].op = req[q].op /\ req'[q].pc = req[q].pc /\ req'[q].id = req[q].id
        /\ req'[q].slug = req[q].slug /\ req'[q].data = req[q].data
        /\ req'[q].table = req[q].table /\ req'[q].item = req[q].item
        /\ req'[q].seen = req[q].seen /\ req'[q].result = req[q].result
        /\ req'[q].clash = b /\ req'[q].lost = req[q].lost
    BY <2>1 DEF Request
  <2> QED
    BY <2>2, <2>3 DEF Spared
<1> QED
  BY <1>1, <1>2 DEF RestSpared

\* One table of one campaign is written anew.
OneTableChanges(c, t) ==
  /\ UNCHANGED campaign
  /\ \A d \in Ids : /\ \A s \in Singles : d # c \/ s # t => single'[d][s] = single[d][s]
                    /\ \A l \in Lists : d # c \/ l # t => rows'[d][l] = rows[d][l]

LEMMA OverwritesSpares ==
  ASSUME Fits, NEW r \in Requests, NEW rec, Overwrites(r, rec), OneTableChanges(Id(r), Table(r))
  PROVE  req'[r] = [rec EXCEPT !.lost = rec.lost \ {Table(r)}] /\ RestSpared(r)
<1> DEFINE T == Table(r)
           c == Id(r)
<1>1. req'[r] = [rec EXCEPT !.lost = rec.lost \ {T}]
  BY DEF Overwrites
<1>2. CampaignsStay
  BY DEF OneTableChanges, CampaignsStay
<1>3. ASSUME NEW q \in Requests \ {r} PROVE Spared(req[q], req'[q])
  <2> DEFINE b == req[q].clash \/ req[q].pc # "idle"
             L == IF Id(q) = c THEN req[q].lost \cup {T} ELSE req[q].lost
  <2>1. req'[q] = [req[q] EXCEPT !.clash = b, !.lost = L] /\ req[q] \in Request
    BY DEF Overwrites, Fits, TypeOK
  <2>2. /\ req[q].clash => b
        /\ req[q].pc # "idle" => b
        /\ req[q].lost \subseteq L
        /\ req[q].id = c => T \in L
    BY DEF Id
  <2> HIDE DEF b, L
  <2>3. /\ req'[q].op = req[q].op /\ req'[q].pc = req[q].pc /\ req'[q].id = req[q].id
        /\ req'[q].slug = req[q].slug /\ req'[q].data = req[q].data
        /\ req'[q].table = req[q].table /\ req'[q].item = req[q].item
        /\ req'[q].seen = req[q].seen /\ req'[q].result = req[q].result
        /\ req'[q].clash = b /\ req'[q].lost = L
    BY <2>1 DEF Request
  <2>4. req[q].id \in Ids =>
          /\ \A t \in Singles \ L : single'[req[q].id][t] = single[req[q].id][t]
          /\ \A t \in Lists \ L : rows[req[q].id][t] \subseteq rows'[req[q].id][t]
    BY <2>2 DEF OneTableChanges
  <2> QED
    BY <2>2, <2>3, <2>4 DEF Spared
<1> QED
  BY <1>1, <1>2, <1>3 DEF RestSpared

-----------------------------------------------------------------------------
(* What a step does to the request that moves.                             *)

Mine(r) == Progress(req[r])' /\ Explained(req[r])'

LEMMA Locals ==
  ASSUME Fits, NEW r \in Requests
  PROVE  /\ \A pc \in {"slug", "insert", "tracking", "captcha", "store", "rows"} :
              LET n == At(r, pc) IN
              /\ n \in Request
              /\ n.pc = pc /\ n.op = req[r].op /\ n.id = req[r].id /\ n.slug = req[r].slug
              /\ n.data = req[r].data /\ n.table = req[r].table /\ n.item = req[r].item
              /\ n.seen = req[r].seen /\ n.result = req[r].result
              /\ n.clash = req[r].clash /\ n.lost = req[r].lost
         /\ \A result \in Results :
              LET n == Answer(r, result) IN
              /\ n.pc = "idle" /\ n.result = result /\ n.op = req[r].op /\ n.id = req[r].id
              /\ n.slug = req[r].slug /\ n.data = req[r].data
              /\ n.clash = req[r].clash /\ n.lost = req[r].lost
         /\ \A t \in Places :
              LET n == AtTable(r, t) IN
              /\ n \in Request
              /\ n.pc = "table" /\ n.table = NextTable(req[r].data, t) /\ n.op = req[r].op
              /\ n.id = req[r].id /\ n.slug = req[r].slug /\ n.data = req[r].data
              /\ n.result = req[r].result /\ n.clash = req[r].clash /\ n.lost = req[r].lost
<1>1. req[r] \in Request
  BY DEF Fits, TypeOK
<1>2. ASSUME NEW pc \in {"slug", "insert", "tracking", "captcha", "store", "rows"}
      PROVE  LET n == At(r, pc) IN
             /\ n \in Request
             /\ n.pc = pc /\ n.op = req[r].op /\ n.id = req[r].id /\ n.slug = req[r].slug
             /\ n.data = req[r].data /\ n.table = req[r].table /\ n.item = req[r].item
             /\ n.seen = req[r].seen /\ n.result = req[r].result
             /\ n.clash = req[r].clash /\ n.lost = req[r].lost
  BY <1>1, <1>2 DEF At, Request
<1>3. ASSUME NEW result \in Results
      PROVE  LET n == Answer(r, result) IN
             /\ n.pc = "idle" /\ n.result = result /\ n.op = req[r].op /\ n.id = req[r].id
             /\ n.slug = req[r].slug /\ n.data = req[r].data
             /\ n.clash = req[r].clash /\ n.lost = req[r].lost
  BY <1>1, <1>3 DEF Answer, Request
<1>4. ASSUME NEW t \in Places
      PROVE  LET n == AtTable(r, t) IN
             /\ n \in Request
             /\ n.pc = "table" /\ n.table = NextTable(req[r].data, t) /\ n.op = req[r].op
             /\ n.id = req[r].id /\ n.slug = req[r].slug /\ n.data = req[r].data
             /\ n.result = req[r].result /\ n.clash = req[r].clash /\ n.lost = req[r].lost
  <2> DEFINE p == NextTable(req[r].data, t)
  <2>1. p \in Places
    BY NextTableCarried
  <2>2. AtTable(r, t) = [req[r] EXCEPT !.pc = "table", !.table = p]
    BY DEF AtTable
  <2> DEFINE n == AtTable(r, t)
  <2> HIDE DEF p
  <2>3. /\ n \in Request
        /\ n.pc = "table" /\ n.table = p /\ n.op = req[r].op
        /\ n.id = req[r].id /\ n.slug = req[r].slug /\ n.data = req[r].data
        /\ n.result = req[r].result /\ n.clash = req[r].clash /\ n.lost = req[r].lost
    BY <1>1, <2>1, <2>2 DEF Request
  <2> QED
    BY <2>3 DEF p
<1> QED
  BY <1>2, <1>3, <1>4

\* A request that begins, or that ends with neither success nor an internal error.
LEMMA PlainMine ==
  ASSUME NEW r, req'[r].pc \in {"idle", "count", "slug"}, req'[r].result \notin {"ok", "error"},
         req'[r].pc # "idle" => req'[r].op = "create" /\ req'[r].result = "none"
  PROVE  Mine(r)
BY DEF Mine, Progress, Explained, Undisturbed, InSettings, InCreation

\* The tables before the one that a request writes hold what they held.
LEMMA EarlierTablesHold ==
  ASSUME Fits, NEW r \in Requests, Progress(req[r]), req[r].pc \in InSettings,
         req[r].table <= Len(Tables), NEW T, T = Tables[req[r].table],
         req'[r].id = req[r].id, req'[r].data = req[r].data, req[r].lost \ {T} \subseteq req'[r].lost,
         \A t \in Singles \ {T} : single'[req[r].id][t] = single[req[r].id][t],
         \A t \in Lists \ {T} : rows'[req[r].id][t] = rows[req[r].id][t],
         NEW u \in 1 .. Len(Tables), u < req[r].table, Carries(req[r].data, u),
         Tables[u] \notin req'[r].lost
  PROVE  Holds(req[r], Tables[u])'
<1> DEFINE q == req[r]
<1>1. /\ Len(Tables) = 7 /\ q.table \in 1 .. 7 /\ \A v \in 1 .. 7 : Tables[v] \in Singles \cup Lists
  BY TableNames DEF Fits, TypeOK, Request
<1>2. Tables[u] # T
  BY <1>1, TablesApart
<1>3. Holds(q, Tables[u])
  BY <1>2 DEF Progress
<1>4. PICK t : t = Tables[u]
  OBVIOUS
<1>5. /\ t \in Singles => single'[q.id][t] = single[q.id][t]
      /\ t \notin Singles => rows'[q.id][t] = rows[q.id][t]
  BY <1>1, <1>2, <1>4
<1>6. Holds(q, t) /\ req'[r].data = q.data /\ req'[r].id = q.id
  BY <1>3, <1>4
<1>7. Holds(req[r], t)'
  BY <1>5, <1>6 DEF Holds
<1> QED
  BY <1>4, <1>7 DEF Holds

\* A request that turns to the next table leaves none behind: what comes before was held,
\* the table it was at holds what it carried, and those between are not its own.
LEMMA NextTableMine ==
  ASSUME Fits, NEW r \in Requests, Progress(req[r]), Explained(req[r]),
         req[r].pc \in {"store", "rows"}, req[r].table <= Len(Tables),
         NEW T, T = Tables[req[r].table],
         UNCHANGED campaign,
         req'[r].pc = "table", req'[r].table = NextTable(req[r].data, req[r].table + 1),
         req'[r].op = req[r].op, req'[r].id = req[r].id, req'[r].slug = req[r].slug,
         req'[r].data = req[r].data, req'[r].result = req[r].result,
         req'[r].clash = req[r].clash,
         req[r].lost \ {T} \subseteq req'[r].lost,
         \A t \in Singles \ {T} : single'[req[r].id][t] = single[req[r].id][t],
         \A t \in Lists \ {T} : rows'[req[r].id][t] = rows[req[r].id][t],
         T \notin req'[r].lost => Holds(req[r], T)'
  PROVE  Mine(r)
<1> DEFINE q == req[r]
           n == req'[r]
<1>1. q \in Request /\ Works(q)
  BY DEF Fits, TypeOK
<1>2. /\ Len(Tables) = 7 /\ Places = 1 .. 8 /\ q.table \in 1 .. 7 /\ q.table + 1 \in Places
      /\ \A u \in 1 .. 7 : Tables[u] \in Singles \cup Lists
  BY <1>1, TableNames DEF Request
<1>3. q.result = "none" /\ n.result = "none"
  BY DEF Progress
<1>4. ASSUME NEW u \in 1 .. Len(Tables), u < n.table, Carries(n.data, u), Tables[u] \notin n.lost
      PROVE  Holds(req[r], Tables[u])'
  <2>1. CASE u < q.table
    BY <1>4, <2>1, EarlierTablesHold DEF InSettings
  <2>2. CASE u = q.table
    <3>1. T = Tables[u] /\ Holds(req[r], T)'
      BY <1>4, <2>2
    <3> QED
      BY <3>1 DEF Holds
  <2>3. CASE q.table + 1 <= u
    BY <1>2, <1>4, <2>3, NothingBefore
  <2> QED
    BY <1>2, <2>1, <2>2, <2>3
<1>5. Progress(req[r])'
  BY <1>3, <1>4 DEF Progress
<1>6. q.pc \in InSettings /\ (~q.clash => q.id \in Live)
  BY DEF Explained, Undisturbed, InSettings
<1>7. Explained(req[r])'
  BY <1>3, <1>6 DEF Explained, Undisturbed, InCreation, Live
<1> QED
  BY <1>5, <1>7 DEF Mine

AnswerGoal(r) == Mine(r) /\ RestSpared(r)

\* Requests that end with neither success nor an internal error.
LEMMA RefusesMine ==
  ASSUME Fits, NEW r \in Requests, UNCHANGED tables,
         NEW result \in {"forbidden", "conflict", "fault"}, Goes(r, Answer(r, result))
  PROVE  AnswerGoal(r)
<1>1. req'[r] = Answer(r, result) /\ RestSpared(r)
  BY GoesSpares
<1>2. result \in Results /\ result \notin {"ok", "error"}
  BY DEF Results
<1>3. req'[r].pc = "idle" /\ req'[r].result = result
  BY <1>1, <1>2, Locals
<1> QED
  BY <1>1, <1>2, <1>3, PlainMine DEF AnswerGoal

\* CreateCampaign up to the insertion: without others, the slug that CheckSlug found free
\* can only be that of a deleted campaign.
LEMMA CreationAnswers ==
  ASSUME Fits, NEW r \in Requests, Progress(req[r]), Explained(req[r]),
         BeginCreate(r) \/ CheckLimit(r) \/ CheckSlug(r)
  PROVE  AnswerGoal(r)
<1>1. UNCHANGED tables
  BY DEF BeginCreate, CheckLimit, CheckSlug
<1>2. req[r].pc # "idle" => req[r].result = "none"
  BY DEF Progress
<1>3. CASE BeginCreate(r)
  <2>1. PICK slug \in Slugs, d \in Payloads :
          Goes(r, [Idle EXCEPT !.op = "create", !.pc = "count", !.slug = slug, !.data = d,
                               !.limit = plan.limit])
    BY <1>3 DEF BeginCreate
  <2> DEFINE rec == [Idle EXCEPT !.op = "create", !.pc = "count", !.slug = slug, !.data = d,
                                 !.limit = plan.limit]
  <2>2. rec.pc = "count" /\ rec.op = "create" /\ rec.result = "none"
    BY DEF Idle
  <2> HIDE DEF rec
  <2>3. req'[r] = rec /\ RestSpared(r)
    BY <1>1, <2>1, GoesSpares DEF rec
  <2> QED
    BY <2>2, <2>3, PlainMine DEF AnswerGoal
<1>4. CASE CheckLimit(r)
  <2>1. CASE Goes(r, Answer(r, "forbidden"))
    BY <1>1, <2>1, RefusesMine
  <2>2. CASE Goes(r, At(r, "slug"))
    <3>1. req'[r] = At(r, "slug") /\ RestSpared(r)
      BY <1>1, <2>2, GoesSpares
    <3>2. req'[r].pc = "slug" /\ req'[r].op = req[r].op /\ req'[r].result = req[r].result
      BY <3>1, Locals
    <3>3. req[r].op = "create" /\ req[r].result = "none"
      BY <1>2, <1>4 DEF CheckLimit, Explained, InCreation
    <3> QED
      BY <3>1, <3>2, <3>3, PlainMine DEF AnswerGoal
  <2> QED
    BY <1>4, <2>1, <2>2 DEF CheckLimit
<1>5. CASE CheckSlug(r)
  <2>1. CASE Goes(r, Answer(r, "conflict"))
    BY <1>1, <2>1, RefusesMine
  <2>2. CASE LiveWithSlug(req[r].slug) = {} /\ Goes(r, At(r, "insert"))
    <3>1. req'[r] = At(r, "insert") /\ RestSpared(r)
      BY <1>1, <2>2, GoesSpares
    <3>2. /\ req'[r].pc = "insert" /\ req'[r].op = req[r].op /\ req'[r].result = req[r].result
          /\ req'[r].slug = req[r].slug
      BY <3>1, Locals
    <3>3. req[r].op = "create" /\ req[r].result = "none"
      BY <1>2, <1>5 DEF CheckSlug, Explained, InCreation
    <3>4. Progress(req[r])'
      BY <3>2, <3>3 DEF Progress, InSettings
    <3>5. Explained(req[r])'
      BY <1>1, <2>2, <3>2, <3>3 DEF Explained, Undisturbed, InSettings, tables, LiveWithSlug, Live
    <3> QED
      BY <3>1, <3>4, <3>5 DEF AnswerGoal, Mine
  <2> QED
    BY <1>5, <2>1, <2>2 DEF CheckSlug
<1> QED
  BY <1>3, <1>4, <1>5

\* CampaignsStay for the ways a campaign's row changes.
LEMMA RowsAreKept ==
  ASSUME Fits
  PROVE  /\ \A slug \in Slugs : campaign' = Append(campaign, NewCampaign(slug)) =>
              /\ CampaignsStay
              /\ Len(campaign') \in DOMAIN campaign' /\ ~campaign'[Len(campaign')].deleted
         /\ \A c \in DOMAIN campaign : \A status : SetStatus(c, status) =>
              CampaignsStay /\ Live' = Live
         /\ \A c \in DOMAIN campaign : SoftDelete(c) => CampaignsStay
<1>1. campaign \in Seq(Row) /\ \A c \in DOMAIN campaign : campaign[c] \in Row
  BY DEF Fits, TypeOK
<1>2. ASSUME NEW slug \in Slugs, campaign' = Append(campaign, NewCampaign(slug))
      PROVE  /\ CampaignsStay
             /\ Len(campaign') \in DOMAIN campaign' /\ ~campaign'[Len(campaign')].deleted
  <2> DEFINE new == NewCampaign(slug)
  <2>1. new \in Row /\ ~new.deleted
    BY DEF NewCampaign, Row, ValidStatuses
  <2> HIDE DEF new
  <2>2. campaign' = Append(campaign, new)
    BY <1>2 DEF new
  <2>3. /\ \A c \in DOMAIN campaign : c \in DOMAIN campaign' /\ campaign'[c] = campaign[c]
        /\ Len(campaign') = Len(campaign) + 1 /\ Len(campaign) \in Nat
        /\ Len(campaign) + 1 \in DOMAIN campaign' /\ campaign'[Len(campaign) + 1] = new
    BY <1>1, <2>1, <2>2
  <2>4. CampaignsStay
    BY <2>3 DEF CampaignsStay
  <2> QED
    BY <2>1, <2>3, <2>4
<1>3. ASSUME NEW c \in DOMAIN campaign, NEW status, SetStatus(c, status)
      PROVE  CampaignsStay /\ Live' = Live
  <2>1. CASE c \in Live
    <3> DEFINE new == [campaign[c] EXCEPT !.status = status]
    <3>1. campaign' = [campaign EXCEPT ![c] = new]
      BY <1>3, <2>1 DEF SetStatus
    <3>2. new.slug = campaign[c].slug /\ new.deleted = campaign[c].deleted
      BY <1>1 DEF Row
    <3> HIDE DEF new
    <3> QED
      BY <3>1, <3>2 DEF CampaignsStay, Live
  <2>2. CASE c \notin Live
    BY <1>3, <2>2 DEF SetStatus, CampaignsStay, Live
  <2> QED
    BY <2>1, <2>2
<1>4. ASSUME NEW c \in DOMAIN campaign, SoftDelete(c) PROVE CampaignsStay
  <2>1. CASE c \in Live
    <3> DEFINE new == [campaign[c] EXCEPT !.deleted = TRUE]
    <3>1. campaign' = [campaign EXCEPT ![c] = new]
      BY <1>4, <2>1 DEF SoftDelete
    <3>2. new.slug = campaign[c].slug /\ new.deleted = TRUE
      BY <1>1 DEF Row
    <3> HIDE DEF new
    <3> QED
      BY <3>1, <3>2 DEF CampaignsStay
  <2>2. CASE c \notin Live
    BY <1>4, <2>2 DEF SoftDelete, CampaignsStay
  <2> QED
    BY <2>1, <2>2
<1> QED
  BY <1>2, <1>3, <1>4

LEMMA InsertAnswers ==
  ASSUME Fits, NEW r \in Requests, Progress(req[r]), Explained(req[r]), InsertCampaign(r)
  PROVE  AnswerGoal(r)
<1> DEFINE q == req[r]
<1>1. /\ q.pc = "insert" /\ q.op = "create" /\ q.result = "none" /\ q.slug \in Slugs
      /\ ~q.clash => LiveWithSlug(q.slug) = {}
  BY DEF InsertCampaign, Progress, Explained, Undisturbed, InCreation, Fits, TypeOK, Works
<1>2. CASE SlugTaken(q.slug) /\ Goes(r, Answer(r, "error")) /\ UNCHANGED tables
  <2>1. req'[r] = Answer(r, "error") /\ RestSpared(r)
    BY <1>2, GoesSpares
  <2>2. /\ req'[r].pc = "idle" /\ req'[r].result = "error" /\ req'[r].op = q.op
        /\ req'[r].slug = q.slug /\ req'[r].clash = q.clash
    BY <2>1, Locals DEF Results
  <2>3. q.clash \/ \E c \in DOMAIN campaign : campaign[c].slug = q.slug /\ campaign[c].deleted
    <3>1. PICK c \in DOMAIN campaign : campaign[c].slug = q.slug
      BY <1>2 DEF SlugTaken
    <3>2. q.clash \/ c \notin LiveWithSlug(q.slug)
      BY <1>1
    <3>3. q.clash \/ campaign[c].deleted
      BY <3>1, <3>2 DEF LiveWithSlug, Live
    <3> QED
      BY <3>1, <3>3
  <2>4. Excused(req[r])'
    BY <1>1, <1>2, <2>2, <2>3 DEF Excused, tables
  <2>5. Mine(r)
    BY <2>2, <2>4 DEF Mine, Progress, Explained, InSettings, InCreation
  <2> QED
    BY <2>1, <2>5 DEF AnswerGoal
<1>3. CASE /\ campaign' = Append(campaign, NewCampaign(q.slug)) /\ UNCHANGED <<single, rows>>
           /\ Writes(r, [At(r, "tracking") EXCEPT !.id = Len(campaign')])
  <2> DEFINE i == Len(campaign')
             at == At(r, "tracking")
             rec == [at EXCEPT !.id = i]
  <2>1. CampaignsStay /\ i \in DOMAIN campaign' /\ ~campaign'[i].deleted
    BY <1>1, <1>3, RowsAreKept
  <2>2. req'[r] = rec /\ RestSpared(r)
    BY <1>3, <2>1, WritesSpares
  <2>3. /\ at \in Request /\ at.pc = "tracking" /\ at.result = q.result
    BY Locals
  <2> HIDE DEF at, i
  <2>4. rec.pc = "tracking" /\ rec.result = q.result /\ rec.id = i
    BY <2>3 DEF Request
  <2> HIDE DEF rec
  <2>5. i \in Live'
    BY <2>1 DEF Live
  <2>6. Mine(r)
    BY <1>1, <2>2, <2>4, <2>5 DEF Mine, Progress, Explained, Undisturbed, InSettings, InCreation
  <2> QED
    BY <2>2, <2>6 DEF AnswerGoal
<1> QED
  BY <1>2, <1>3 DEF InsertCampaign, tables

\* An update, a status or a deletion begins at a campaign that is there.
LEMMA BeginningAnswers ==
  ASSUME Fits, NEW r \in Requests, BeginUpdate(r) \/ UpdateCampaignStatus(r) \/ DeleteCampaign(r)
  PROVE  AnswerGoal(r)
<1> DEFINE idle == Idle
<1>1. /\ idle \in Request /\ idle.pc = "idle" /\ idle.result = "none" /\ idle.op = "none"
      /\ idle.data = NoPayload
  BY IdleFits DEF Idle
<1>2. DOMAIN campaign \subseteq Ids /\ Ids \subseteq Nat
  BY CampaignsAreIds DEF Ids
<1>3. DOMAIN NoPayload.single = {} /\ DOMAIN NoPayload.list = {}
  BY DEF NoPayload
<1>4. \A u \in 1 .. Len(Tables) : ~Carries(NoPayload, u)
  BY <1>3 DEF Carries
<1>5. Idle = idle
  OBVIOUS
<1> HIDE DEF idle
<1>6. CASE BeginUpdate(r)
  <2>1. PICK c \in DOMAIN campaign, d \in Payloads :
          LET new == [Idle EXCEPT !.op = "update", !.id = c, !.data = d]
          IN Goes(r, IF c \in Live THEN [new EXCEPT !.pc = "tracking"]
                     ELSE [new EXCEPT !.result = "not_found"])
    BY <1>6 DEF BeginUpdate
  <2> DEFINE new == [idle EXCEPT !.op = "update", !.id = c, !.data = d]
             found == [new EXCEPT !.pc = "tracking"]
             missed == [new EXCEPT !.result = "not_found"]
  <2>2. UNCHANGED tables
    BY <1>6 DEF BeginUpdate
  <2>3. new \in Request /\ new.pc = "idle" /\ new.id = c /\ new.result = "none"
    BY <1>1, <1>2 DEF Request
  <2>4. (c \in Live /\ Goes(r, found)) \/ Goes(r, missed)
    BY <1>5, <2>1
  <2> HIDE DEF new
  <2>5. /\ found.pc = "tracking" /\ found.id = c /\ found.result = "none"
        /\ missed.pc = "idle" /\ missed.result = "not_found"
    BY <2>3 DEF Request
  <2> HIDE DEF found, missed
  <2>6. CASE Goes(r, missed)
    BY <2>2, <2>5, <2>6, GoesSpares, PlainMine DEF AnswerGoal
  <2>7. CASE c \in Live /\ Goes(r, found)
    <3>1. req'[r] = found /\ RestSpared(r)
      BY <2>2, <2>7, GoesSpares
    <3>2. c \in Live'
      BY <2>2, <2>7 DEF tables, Live
    <3>3. Mine(r)
      BY <2>5, <3>1, <3>2 DEF Mine, Progress, Explained, Undisturbed, InSettings, InCreation
    <3> QED
      BY <3>1, <3>3 DEF AnswerGoal
  <2> QED
    BY <2>4, <2>6, <2>7
<1>7. CASE UpdateCampaignStatus(r)
  <2>1. PICK c \in DOMAIN campaign, status \in Statuses :
          LET new == [Idle EXCEPT !.op = "status", !.id = c]
          IN /\ SetStatus(c, status)
             /\ IF c \in Live THEN Writes(r, [new EXCEPT !.pc = "table", !.table = Len(Tables) + 1])
                ELSE Goes(r, [new EXCEPT !.result = "not_found"])
    BY <1>7 DEF UpdateCampaignStatus
  <2> DEFINE new == [idle EXCEPT !.op = "status", !.id = c]
             last == Len(Tables) + 1
             found == [new EXCEPT !.pc = "table", !.table = last]
             missed == [new EXCEPT !.result = "not_found"]
  <2>2. UNCHANGED <<single, rows>> /\ CampaignsStay /\ Live' = Live
    BY <1>7, <2>1, RowsAreKept DEF UpdateCampaignStatus
  <2>3. new \in Request /\ new.pc = "idle" /\ new.id = c /\ new.result = "none" /\ new.data = NoPayload
    BY <1>1, <1>2 DEF Request
  <2>4. (c \in Live /\ Writes(r, found)) \/ (c \notin Live /\ Goes(r, missed))
    BY <1>5, <2>1
  <2> HIDE DEF new, last
  <2>5. /\ found.pc = "table" /\ found.id = c /\ found.result = "none" /\ found.data = NoPayload
        /\ missed.pc = "idle" /\ missed.result = "not_found"
    BY <2>3 DEF Request
  <2> HIDE DEF found, missed
  <2>6. CASE c \notin Live /\ Goes(r, missed)
    <3>1. UNCHANGED tables
      BY <2>1, <2>2, <2>6 DEF SetStatus, tables
    <3> QED
      BY <2>5, <2>6, <3>1, GoesSpares, PlainMine DEF AnswerGoal
  <2>7. CASE c \in Live /\ Writes(r, found)
    <3>1. req'[r] = found /\ RestSpared(r)
      BY <2>2, <2>7, WritesSpares
    <3>2. c \in Live'
      BY <2>2, <2>7
    <3>3. Mine(r)
      BY <1>4, <2>5, <3>1, <3>2 DEF Mine, Progress, Explained, Undisturbed, InSettings, InCreation
    <3> QED
      BY <3>1, <3>3 DEF AnswerGoal
  <2> QED
    BY <2>4, <2>6, <2>7
<1>8. CASE DeleteCampaign(r)
  <2>1. PICK c \in DOMAIN campaign :
          LET new == [Idle EXCEPT !.op = "delete", !.id = c]
          IN /\ SoftDelete(c)
             /\ IF c \in Live THEN Writes(r, [new EXCEPT !.result = "ok"])
                ELSE Goes(r, [new EXCEPT !.result = "not_found"])
    BY <1>8 DEF DeleteCampaign
  <2> DEFINE new == [idle EXCEPT !.op = "delete", !.id = c]
             found == [new EXCEPT !.result = "ok"]
             missed == [new EXCEPT !.result = "not_found"]
  <2>2. UNCHANGED <<single, rows>> /\ CampaignsStay
    BY <1>8, <2>1, RowsAreKept DEF DeleteCampaign
  <2>3. new \in Request /\ new.pc = "idle" /\ new.id = c /\ new.result = "none" /\ new.data = NoPayload
    BY <1>1, <1>2 DEF Request
  <2>4. (c \in Live /\ Writes(r, found)) \/ (c \notin Live /\ Goes(r, missed))
    BY <1>5, <2>1
  <2> HIDE DEF new
  <2>5. /\ found.pc = "idle" /\ found.id = c /\ found.result = "ok" /\ found.data = NoPayload
        /\ missed.pc = "idle" /\ missed.result = "not_found"
    BY <2>3 DEF Request
  <2> HIDE DEF found, missed
  <2>6. CASE c \notin Live /\ Goes(r, missed)
    <3>1. UNCHANGED tables
      BY <2>1, <2>2, <2>6 DEF SoftDelete, tables
    <3> QED
      BY <2>5, <2>6, <3>1, GoesSpares, PlainMine DEF AnswerGoal
  <2>7. CASE c \in Live /\ Writes(r, found)
    <3>1. req'[r] = found /\ RestSpared(r)
      BY <2>2, <2>7, WritesSpares
    <3>2. Carried(found) = {}
      BY <1>3, <2>5 DEF Carried
    <3>3. c \in Ids
      BY <1>2
    <3>4. Mine(r)
      BY <2>5, <3>1, <3>2, <3>3
      DEF Mine, Progress, Explained, Undisturbed, InSettings, InCreation, Carried
    <3> QED
      BY <3>1, <3>4 DEF AnswerGoal
  <2> QED
    BY <2>4, <2>6, <2>7
<1> QED
  BY <1>6, <1>7, <1>8

\* A request that was not disturbed goes on with what it has read.
LEMMA GatesAnswer ==
  ASSUME Fits, NEW r \in Requests, Progress(req[r]), Explained(req[r]),
         CheckTracking(r) \/ CheckCaptcha(r)
  PROVE  AnswerGoal(r)
<1> DEFINE q == req[r]
<1>1. UNCHANGED tables /\ q.pc \in {"tracking", "captcha"}
  BY DEF CheckTracking, CheckCaptcha
<1>2. q.result = "none" /\ (~q.clash => q.id \in Live) /\ (~q.clash => q.id \in Live')
  BY <1>1 DEF Progress, Explained, Undisturbed, tables, Live
<1>3. CASE Goes(r, Answer(r, "forbidden"))
  BY <1>1, <1>3, RefusesMine
<1>4. CASE Goes(r, At(r, "captcha"))
  <2>1. req'[r] = At(r, "captcha") /\ RestSpared(r)
    BY <1>1, <1>4, GoesSpares
  <2>2. /\ req'[r].pc = "captcha" /\ req'[r].result = q.result /\ req'[r].id = q.id
        /\ req'[r].clash = q.clash
    BY <2>1, Locals
  <2>3. Mine(r)
    BY <1>2, <2>2 DEF Mine, Progress, Explained, Undisturbed, InSettings, InCreation
  <2> QED
    BY <2>1, <2>3 DEF AnswerGoal
<1>5. CASE Goes(r, AtTable(r, 1))
  <2>1. req'[r] = AtTable(r, 1) /\ RestSpared(r)
    BY <1>1, <1>5, GoesSpares
  <2>2. /\ req'[r].pc = "table" /\ req'[r].result = q.result /\ req'[r].id = q.id
        /\ req'[r].clash = q.clash /\ req'[r].data = q.data
        /\ req'[r].table = NextTable(q.data, 1)
    BY <2>1, Locals, TableNames
  <2>3. ASSUME NEW u \in 1 .. Len(Tables), u < req'[r].table PROVE ~Carries(req'[r].data, u)
    BY <2>2, <2>3, NothingBefore, TableNames
  <2>4. Mine(r)
    BY <1>2, <2>2, <2>3 DEF Mine, Progress, Explained, Undisturbed, InSettings, InCreation
  <2> QED
    BY <2>1, <2>4 DEF AnswerGoal
<1> QED
  BY <1>3, <1>4, <1>5 DEF CheckTracking, CheckCaptcha

LEMMA FaultAnswers ==
  ASSUME Fits, NEW r \in Requests, StatementFails(r)
  PROVE  AnswerGoal(r)
BY RefusesMine DEF StatementFails

\* Past the last table everything the request carried is held; and the campaign is gone
\* only if another request has deleted it.
LEMMA ReadBackAnswers ==
  ASSUME Fits, NEW r \in Requests, Progress(req[r]), Explained(req[r]), ReadBack(r)
  PROVE  AnswerGoal(r)
<1> DEFINE q == req[r]
<1>1. UNCHANGED tables /\ q.pc = "table" /\ q.table > Len(Tables) /\ q \in Request
  BY DEF ReadBack, Fits, TypeOK
<1>2. q.id \in Ids /\ (~q.clash => q.id \in Live)
  BY <1>1 DEF Fits, Works, InSettings, Explained, Undisturbed
<1>3. CASE q.id \in Live /\ Goes(r, Answer(r, "ok"))
  <2>1. req'[r] = Answer(r, "ok") /\ RestSpared(r)
    BY <1>1, <1>3, GoesSpares
  <2>2. /\ req'[r].pc = "idle" /\ req'[r].result = "ok" /\ req'[r].id = q.id
        /\ req'[r].data = q.data /\ req'[r].lost = q.lost
    BY <2>1, Locals DEF Results
  <2>3. ASSUME NEW t \in Carried(q), t \notin q.lost PROVE Holds(q, t)
    <3>1. t \in Singles \cup Lists
      BY <1>1, PayloadTables DEF Carried
    <3>2. PICK u \in 1 .. 7 : Tables[u] = t
      BY <3>1 DEF Tables, Singles, Lists
    <3>3. Len(Tables) = 7 /\ q.table \in Nat
      BY <1>1, TableNames DEF Request
    <3>4. Carries(q.data, u) /\ u < q.table
      BY <1>1, <2>3, <3>2, <3>3 DEF Carries, Carried
    <3> QED
      BY <1>1, <2>3, <3>2, <3>3, <3>4 DEF Progress, InSettings
  <2>4. \A t \in Carried(req'[r]) \ req'[r].lost : Holds(req[r], t)'
    BY <1>1, <2>2, <2>3 DEF Holds, Carried, tables
  <2>5. Mine(r)
    BY <1>2, <2>2, <2>4 DEF Mine, Progress, Explained, InSettings, InCreation, Carried
  <2> QED
    BY <2>1, <2>5 DEF AnswerGoal
<1>4. CASE q.id \notin Live /\ Goes(r, Answer(r, "error"))
  <2>1. req'[r] = Answer(r, "error") /\ RestSpared(r)
    BY <1>1, <1>4, GoesSpares
  <2>2. req'[r].pc = "idle" /\ req'[r].result = "error" /\ req'[r].clash = q.clash
    BY <2>1, Locals DEF Results
  <2>3. Mine(r)
    BY <1>2, <1>4, <2>2 DEF Mine, Progress, Explained, Excused, InSettings, InCreation
  <2> QED
    BY <2>1, <2>3 DEF AnswerGoal
<1> QED
  BY <1>3, <1>4 DEF ReadBack, Id

\* The settings row is there or not, as long as nobody else writes.
LEMMA ReadSettingsAnswers ==
  ASSUME Fits, NEW r \in Requests, NEW t \in Singles, Progress(req[r]), Explained(req[r]),
         ReadSettings(r, t)
  PROVE  AnswerGoal(r)
<1> DEFINE q == req[r]
           b == single[q.id][t].exists
           at == At(r, "store")
           rec == [at EXCEPT !.seen = b]
<1>1. /\ UNCHANGED tables /\ q.pc = "table" /\ q.table <= Len(Tables) /\ Tables[q.table] = t
      /\ q.result = "none" /\ Goes(r, rec)
  BY DEF ReadSettings, AtWork, Table, Id, Progress
<1>2. ~q.clash => q.id \in Live
  BY <1>1 DEF Explained, Undisturbed, InSettings
<1>3. /\ at \in Request /\ at.pc = "store" /\ at.result = q.result /\ at.id = q.id
      /\ at.data = q.data /\ at.table = q.table /\ at.clash = q.clash /\ at.lost = q.lost
  BY Locals
<1>4. b = single[q.id][t].exists
  OBVIOUS
<1> HIDE DEF at, b
<1>5. /\ rec.pc = "store" /\ rec.result = q.result /\ rec.id = q.id /\ rec.seen = b
      /\ rec.data = q.data /\ rec.table = q.table /\ rec.clash = q.clash /\ rec.lost = q.lost
  BY <1>3 DEF Request
<1> HIDE DEF rec
<1>6. req'[r] = rec /\ RestSpared(r)
  BY <1>1, GoesSpares
<1>7. Progress(req[r])'
  <2>1. ASSUME NEW u \in 1 .. Len(Tables), u < rec.table, Carries(rec.data, u), Tables[u] \notin rec.lost
        PROVE  Holds(req[r], Tables[u])'
    <3>1. Holds(q, Tables[u])
      BY <1>1, <1>5, <2>1 DEF Progress, InSettings
    <3> QED
      BY <1>1, <1>5, <1>6, <3>1 DEF Holds, tables
  <2> QED
    BY <1>1, <1>5, <1>6, <2>1 DEF Progress
<1>8. Explained(req[r])'
  BY <1>1, <1>2, <1>4, <1>5, <1>6 DEF Explained, Undisturbed, InCreation, Live, tables
<1> QED
  BY <1>6, <1>7, <1>8 DEF AnswerGoal, Mine

\* A settings row that appeared since the request read it was created by another request.
LEMMA StoreSettingsAnswers ==
  ASSUME Fits, NEW r \in Requests, NEW t \in Singles, Progress(req[r]), Explained(req[r]),
         StoreSettings(r, t)
  PROVE  AnswerGoal(r)
<1> DEFINE q == req[r]
           c == q.id
           old == single[c][t]
           new == q.data.single[t]
           row == IF q.seen THEN UpdateRow(old, new) ELSE CreateRow(old, new)
           lost == q.lost \ {t}
<1>1. /\ q.pc = "store" /\ q.table <= Len(Tables) /\ t = Tables[q.table] /\ q.result = "none"
      /\ q \in Request /\ c \in Ids /\ q.table + 1 \in Places
  BY TableNames DEF StoreSettings, AtWork, Table, Progress, Fits, TypeOK, Works, InSettings, Request
<1>2. CASE old.exists /\ ~q.seen /\ Goes(r, Answer(r, "error")) /\ UNCHANGED tables
  <2>1. req'[r] = Answer(r, "error") /\ RestSpared(r)
    BY <1>2, GoesSpares
  <2>2. req'[r].pc = "idle" /\ req'[r].result = "error" /\ req'[r].clash = q.clash
    BY <2>1, Locals DEF Results
  <2>3. q.clash
    BY <1>1, <1>2 DEF Explained, Undisturbed
  <2>4. Mine(r)
    BY <2>2, <2>3 DEF Mine, Progress, Explained, Excused, InSettings, InCreation
  <2> QED
    BY <2>1, <2>4 DEF AnswerGoal
<1>3. CASE /\ single' = [single EXCEPT ![c][t] = row] /\ UNCHANGED <<campaign, rows>>
           /\ Overwrites(r, AtTable(r, q.table + 1))
  <2>1. /\ row.exists /\ row.flag = new.flag /\ (new.opt # Absent => row.opt = new.opt)
    BY DEF UpdateRow, CreateRow
  <2> DEFINE at == AtTable(r, q.table + 1)
  <2>2. /\ at \in Request /\ at.pc = "table" /\ at.table = NextTable(q.data, q.table + 1)
        /\ at.op = q.op /\ at.id = q.id /\ at.slug = q.slug /\ at.data = q.data
        /\ at.result = q.result /\ at.clash = q.clash /\ at.lost = q.lost
    BY <1>1, Locals
  <2> HIDE DEF row, at, lost
  <2>3. /\ single'[c][t] = row
        /\ \A d \in Ids : \A s \in Singles : d # c \/ s # t => single'[d][s] = single[d][s]
    BY <1>1, <1>3 DEF Fits, TypeOK
  <2>4. OneTableChanges(Id(r), Table(r)) /\ Id(r) = c /\ Table(r) = t
    BY <1>1, <1>3, <2>3 DEF OneTableChanges, Id, Table
  <2>5. Overwrites(r, at)
    BY <1>3 DEF at
  <2>6. req'[r] = [at EXCEPT !.lost = at.lost \ {Table(r)}] /\ RestSpared(r)
    BY <2>4, <2>5, OverwritesSpares
  <2>7. at.lost \ {Table(r)} = lost
    BY <2>2, <2>4 DEF lost
  <2>8. req'[r] = [at EXCEPT !.lost = lost]
    BY <2>6, <2>7
  <2>9. /\ req'[r].pc = "table" /\ req'[r].table = NextTable(q.data, q.table + 1)
        /\ req'[r].op = q.op /\ req'[r].id = q.id /\ req'[r].slug = q.slug
        /\ req'[r].data = q.data /\ req'[r].result = q.result /\ req'[r].clash = q.clash
        /\ req'[r].lost = lost
    BY <2>2, <2>8 DEF Request
  <2>10. Holds(req[r], t)'
    BY <2>1, <2>3, <2>9 DEF Holds
  <2>11. Mine(r)
    <3>1. /\ \A s \in Singles \ {t} : single'[q.id][s] = single[q.id][s]
          /\ \A l \in Lists \ {t} : rows'[q.id][l] = rows[q.id][l]
          /\ q.lost \ {t} \subseteq req'[r].lost
      BY <1>1, <1>3, <2>3, <2>9 DEF lost
    <3>2. req'[r].data = q.data /\ req'[r].id = q.id
      BY <2>9
    <3> QED
      BY <1>1, <1>3, <2>9, <2>10, <3>1, <3>2, NextTableMine
  <2> QED
    BY <2>6, <2>11 DEF AnswerGoal
<1> QED
  BY <1>1, <1>2, <1>3 DEF StoreSettings, Id, tables

\* A list the request carries at the table it is at.
LEMMA ListAtWork ==
  ASSUME Fits, NEW r \in Requests, NEW t \in Lists, AtWork(r, t), req[r].pc \in InSettings
  PROVE  /\ req[r] \in Request /\ req[r].id \in Ids /\ req[r].table <= Len(Tables)
         /\ Tables[req[r].table] = t /\ t \notin Singles /\ t \in DOMAIN req[r].data.list
         /\ DOMAIN req[r].data.list[t] = 1 .. Len(req[r].data.list[t])
         /\ Len(req[r].data.list[t]) \in Nat \ {0}
         /\ req[r].table + 1 \in Places
<1>1. req[r] \in Request /\ Works(req[r])
  BY DEF Fits, TypeOK
<1>2. req[r].table <= Len(Tables) /\ Tables[req[r].table] = t /\ req[r].id \in Ids
  BY <1>1 DEF AtWork, Table, Works
<1>3. t \in DOMAIN req[r].data.single \cup DOMAIN req[r].data.list
  BY <1>1, <1>2 DEF Works, Carries
<1>4. t \notin Singles
  BY TableNames
<1>5. t \in DOMAIN req[r].data.list
  BY <1>1, <1>3, <1>4, PayloadTables
<1>6. req[r].table + 1 \in Places
  BY <1>1, <1>2, TableNames DEF Request
<1> QED
  BY <1>1, <1>2, <1>4, <1>5, <1>6, PayloadTables

\* Clearing overwrites what others wrote to the list; the filling begins at its first item.
LEMMA ClearListAnswers ==
  ASSUME Fits, NEW r \in Requests, NEW t \in Lists, Progress(req[r]), Explained(req[r]),
         ClearList(r, t)
  PROVE  AnswerGoal(r)
<1> DEFINE q == req[r]
           c == q.id
           at == At(r, "rows")
           rec == [at EXCEPT !.item = 1]
           lost == q.lost \ {t}
<1>1. q.pc = "table" /\ AtWork(r, t) /\ q.pc \in InSettings /\ q.result = "none"
  BY DEF ClearList, InSettings, Progress
<1>2. /\ q \in Request /\ c \in Ids /\ q.table <= Len(Tables) /\ Tables[q.table] = t
      /\ t \notin Singles /\ t \in DOMAIN q.data.list
      /\ DOMAIN q.data.list[t] = 1 .. Len(q.data.list[t]) /\ Len(q.data.list[t]) \in Nat \ {0}
  BY <1>1, ListAtWork
<1>3. /\ at \in Request /\ at.pc = "rows" /\ at.result = q.result /\ at.id = q.id /\ at.op = q.op
      /\ at.slug = q.slug
      /\ at.data = q.data /\ at.table = q.table /\ at.clash = q.clash /\ at.lost = q.lost
  BY Locals
<1>4. rows' = [rows EXCEPT ![c][t] = {}] /\ UNCHANGED <<campaign, single>> /\ Overwrites(r, rec)
  BY DEF ClearList, Id
<1> HIDE DEF at, lost
<1>5. /\ rows'[c][t] = {}
      /\ \A d \in Ids : \A l \in Lists : d # c \/ l # t => rows'[d][l] = rows[d][l]
  BY <1>2, <1>4 DEF Fits, TypeOK
<1>6. OneTableChanges(Id(r), Table(r)) /\ Table(r) = t
  BY <1>2, <1>4, <1>5 DEF OneTableChanges, Id, Table
<1>7. /\ rec.pc = "rows" /\ rec.item = 1 /\ rec.result = q.result /\ rec.id = q.id
      /\ rec.data = q.data /\ rec.table = q.table /\ rec.clash = q.clash /\ rec.lost = q.lost
      /\ rec \in Request
  BY <1>3 DEF Request
<1> HIDE DEF rec
<1>8. req'[r] = [rec EXCEPT !.lost = rec.lost \ {Table(r)}] /\ RestSpared(r)
  BY <1>4, <1>6, OverwritesSpares
<1>9. req'[r] = [rec EXCEPT !.lost = lost]
  BY <1>6, <1>7, <1>8 DEF lost
<1>10. /\ req'[r].pc = "rows" /\ req'[r].item = 1 /\ req'[r].result = q.result /\ req'[r].id = q.id
       /\ req'[r].data = q.data /\ req'[r].table = q.table /\ req'[r].clash = q.clash
       /\ req'[r].lost = lost
  BY <1>7, <1>9 DEF Request
<1>11. ASSUME NEW u \in 1 .. Len(Tables), u < req'[r].table, Carries(req'[r].data, u),
              Tables[u] \notin req'[r].lost
       PROVE  Holds(req[r], Tables[u])'
  <2>1. /\ \A s \in Singles \ {t} : single'[q.id][s] = single[q.id][s]
        /\ \A l \in Lists \ {t} : rows'[q.id][l] = rows[q.id][l]
        /\ q.lost \ {t} \subseteq req'[r].lost
    BY <1>2, <1>4, <1>5, <1>10 DEF lost
  <2>2. u < q.table /\ Carries(q.data, u)
    BY <1>10, <1>11
  <2> QED
    BY <1>1, <1>2, <1>10, <1>11, <2>1, <2>2, EarlierTablesHold
<1>12. AtRow(req[r])'
  BY <1>2, <1>10 DEF AtRow
<1>13. Progress(req[r])'
  BY <1>1, <1>10, <1>11, <1>12 DEF Progress
<1>14. Explained(req[r])'
  <2>1. ~q.clash => q.id \in Live
    BY <1>1 DEF Explained, Undisturbed
  <2> QED
    BY <1>1, <1>2, <1>4, <1>5, <1>10, <2>1 DEF Explained, Undisturbed, InCreation, InSettings, Live
<1> QED
  BY <1>8, <1>13, <1>14 DEF AnswerGoal, Mine

\* A row whose key is taken is another request's, or the list names the key twice.
LEMMA InsertRowAnswers ==
  ASSUME Fits, NEW r \in Requests, NEW t \in Lists, Progress(req[r]), Explained(req[r]),
         InsertRow(r, t)
  PROVE  AnswerGoal(r)
<1> DEFINE q == req[r]
           c == q.id
           list == q.data.list[t]
           row == list[q.item]
<1>1. q.pc = "rows" /\ AtWork(r, t) /\ q.pc \in InSettings /\ q.result = "none"
  BY DEF InsertRow, InSettings, Progress
<1>2. /\ q \in Request /\ c \in Ids /\ q.table <= Len(Tables) /\ Tables[q.table] = t
      /\ t \notin Singles /\ t \in DOMAIN q.data.list
      /\ DOMAIN list = 1 .. Len(list) /\ Len(list) \in Nat \ {0} /\ q.table + 1 \in Places
  BY <1>1, ListAtWork
<1>3. q.item \in 1 .. Len(list) /\ (t \notin q.lost => \A i \in 1 .. q.item - 1 : list[i] \in rows[c][t])
  BY <1>1, <1>2 DEF Progress, AtRow
<1>4. ~q.clash => q.id \in Live /\ \A old \in rows[c][t] : \E i \in 1 .. q.item - 1 : old = list[i]
  BY <1>1, <1>2 DEF Explained, Undisturbed
<1>5. ASSUME NEW old \in rows[c][t], old.key = row.key, UNCHANGED tables, Goes(r, Answer(r, "error"))
      PROVE  AnswerGoal(r)
  <2>1. req'[r] = Answer(r, "error") /\ RestSpared(r)
    BY <1>5, GoesSpares
  <2>2. /\ req'[r].pc = "idle" /\ req'[r].result = "error" /\ req'[r].clash = q.clash
        /\ req'[r].data = q.data
    BY <2>1, Locals DEF Results
  <2>3. q.clash \/ NamesKeyTwice(list)
    <3>1. ASSUME ~q.clash PROVE NamesKeyTwice(list)
      <4>1. PICK i \in 1 .. q.item - 1 : old = list[i]
        BY <1>4, <3>1
      <4>2. i \in DOMAIN list /\ q.item \in DOMAIN list /\ i # q.item
        BY <1>2, <1>3
      <4>3. list[i].key = list[q.item].key
        BY <1>5, <4>1
      <4> QED
        BY <4>2, <4>3 DEF NamesKeyTwice
    <3> QED
      BY <3>1
  <2>4. Excused(req[r])'
    BY <1>2, <2>2, <2>3 DEF Excused
  <2>5. Mine(r)
    BY <2>2, <2>4 DEF Mine, Progress, Explained, InSettings, InCreation
  <2> QED
    BY <2>1, <2>5 DEF AnswerGoal
<1>6. ASSUME NEW rec, Writes(r, rec), UNCHANGED <<campaign, single>>,
             rows' = [rows EXCEPT ![c][t] = rows[c][t] \cup {row}]
      PROVE  /\ req'[r] = rec /\ RestSpared(r) /\ rows'[c][t] = rows[c][t] \cup {row}
             /\ \A s \in Singles \ {t} : single'[c][s] = single[c][s]
             /\ \A l \in Lists \ {t} : rows'[c][l] = rows[c][l]
  <2> HIDE DEF row
  <2>1. /\ rows'[c][t] = rows[c][t] \cup {row}
        /\ \A d \in Ids : \A l \in Lists : d # c \/ l # t => rows'[d][l] = rows[d][l]
    BY <1>2, <1>6 DEF Fits, TypeOK
  <2>2. \A d \in Ids : \A l \in Lists : rows[d][l] \subseteq rows'[d][l]
    BY <2>1
  <2>3. CampaignsStay /\ UNCHANGED single
    BY <1>6 DEF CampaignsStay
  <2>4. req'[r] = rec /\ RestSpared(r)
    BY <1>6, <2>2, <2>3, WritesSpares
  <2> QED
    BY <1>2, <1>6, <2>1, <2>4
<1>7. CASE /\ rows' = [rows EXCEPT ![c][t] = rows[c][t] \cup {row}] /\ UNCHANGED <<campaign, single>>
           /\ q.item = Len(list) /\ Writes(r, AtTable(r, q.table + 1))
  <2>1. /\ req'[r] = AtTable(r, q.table + 1) /\ RestSpared(r)
        /\ rows'[c][t] = rows[c][t] \cup {row}
        /\ \A s \in Singles \ {t} : single'[c][s] = single[c][s]
        /\ \A l \in Lists \ {t} : rows'[c][l] = rows[c][l]
    BY <1>6, <1>7
  <2>2. /\ req'[r].pc = "table" /\ req'[r].table = NextTable(q.data, q.table + 1)
        /\ req'[r].op = q.op /\ req'[r].id = q.id /\ req'[r].slug = q.slug
        /\ req'[r].data = q.data /\ req'[r].result = q.result /\ req'[r].clash = q.clash
        /\ req'[r].lost = q.lost
    BY <1>2, <2>1, Locals
  <2>3. ASSUME t \notin q.lost PROVE Holds(req[r], t)'
    <3>1. \A i \in 1 .. Len(list) : list[i] \in rows'[c][t]
      BY <1>2, <1>3, <1>7, <2>1, <2>3
    <3>2. Range(list) \subseteq rows'[c][t]
      BY <1>2, <3>1 DEF Range
    <3> QED
      BY <1>2, <2>2, <3>2 DEF Holds
  <2>4. Mine(r)
    <3>1. t \notin req'[r].lost => Holds(req[r], t)'
      BY <2>2, <2>3
    <3>2. q.lost \ {t} \subseteq req'[r].lost
      BY <2>2
    <3> HIDE DEF list, row
    <3> QED
      BY <1>1, <1>2, <1>7, <2>1, <2>2, <3>1, <3>2, NextTableMine
  <2> QED
    BY <2>1, <2>4 DEF AnswerGoal
<1>8. CASE /\ rows' = [rows EXCEPT ![c][t] = rows[c][t] \cup {row}] /\ UNCHANGED <<campaign, single>>
           /\ q.item # Len(list) /\ Writes(r, [q EXCEPT !.item = q.item + 1])
  <2> DEFINE rec == [q EXCEPT !.item = q.item + 1]
  <2>1. /\ rec.pc = "rows" /\ rec.item = q.item + 1 /\ rec.result = q.result /\ rec.id = q.id
        /\ rec.data = q.data /\ rec.table = q.table /\ rec.clash = q.clash /\ rec.lost = q.lost
    BY <1>1, <1>2 DEF Request
  <2> HIDE DEF rec
  <2>2. Writes(r, rec)
    BY <1>8 DEF rec
  <2>3. /\ req'[r] = rec /\ RestSpared(r) /\ rows'[c][t] = rows[c][t] \cup {row}
        /\ \A s \in Singles \ {t} : single'[c][s] = single[c][s]
        /\ \A l \in Lists \ {t} : rows'[c][l] = rows[c][l]
    BY <1>6, <1>8, <2>2
  <2>4. ASSUME NEW u \in 1 .. Len(Tables), u < req'[r].table, Carries(req'[r].data, u),
               Tables[u] \notin req'[r].lost
        PROVE  Holds(req[r], Tables[u])'
    <3>1. u < q.table /\ Carries(q.data, u) /\ q.lost \ {t} \subseteq req'[r].lost
      BY <2>1, <2>3, <2>4
    <3>2. req'[r].id = q.id /\ req'[r].data = q.data
      BY <2>1, <2>3
    <3> QED
      BY <1>1, <1>2, <2>3, <2>4, <3>1, <3>2, EarlierTablesHold
  <2>5. AtRow(req[r])'
    <3>1. q.item + 1 \in 1 .. Len(list)
      BY <1>2, <1>3, <1>8
    <3>2. ASSUME t \notin q.lost, NEW i \in 1 .. (q.item + 1) - 1 PROVE list[i] \in rows'[c][t]
      <4>1. i \in 1 .. q.item - 1 \/ i = q.item
        BY <1>3
      <4>2. list[q.item] \in rows'[c][t]
        BY <2>3
      <4> HIDE DEF list, row
      <4>3. i \in 1 .. q.item - 1 => list[i] \in rows'[c][t]
        BY <1>3, <2>3, <3>2
      <4> QED
        BY <4>1, <4>2, <4>3
    <3> QED
      BY <1>2, <2>1, <2>3, <3>1, <3>2 DEF AtRow
  <2>6. Progress(req[r])'
    BY <1>1, <2>1, <2>3, <2>4, <2>5 DEF Progress
  <2>7. ASSUME ~q.clash, NEW old \in rows'[c][t]
        PROVE  \E i \in 1 .. (q.item + 1) - 1 : old = list[i]
    <3>1. CASE old = list[q.item]
      <4>1. q.item \in 1 .. (q.item + 1) - 1
        BY <1>3
      <4> QED
        BY <3>1, <4>1
    <3>2. CASE old # list[q.item]
      <4>1. old \in rows[c][t]
        BY <2>3, <2>7, <3>2
      <4>2. PICK i \in 1 .. q.item - 1 : old = list[i]
        BY <1>4, <2>7, <4>1
      <4>3. i \in 1 .. (q.item + 1) - 1
        BY <1>3
      <4> QED
        BY <4>2, <4>3
    <3> QED
      BY <3>1, <3>2
  <2>8. ASSUME ~req'[r].clash PROVE Undisturbed(req[r])'
    <3>1. req'[r].id \in Live'
      BY <1>4, <1>8, <2>1, <2>3, <2>8 DEF Live
    <3>2. /\ req'[r].pc = "rows" /\ req'[r].item = q.item + 1 /\ req'[r].id = c
          /\ req'[r].data.list = q.data.list /\ Tables[req'[r].table] = t
      BY <1>2, <2>1, <2>3
    <3>3. \A old \in rows'[c][t] : \E i \in 1 .. (q.item + 1) - 1 : old = q.data.list[t][i]
      BY <2>1, <2>3, <2>7, <2>8
    <3> HIDE DEF list, row
    <3> QED
      BY <3>1, <3>2, <3>3 DEF Undisturbed
  <2>9. Explained(req[r])'
    BY <1>1, <2>1, <2>3, <2>8 DEF Explained, InCreation
  <2> QED
    BY <2>3, <2>6, <2>9 DEF AnswerGoal, Mine
<1>9. \/ /\ \E old \in rows[c][t] : old.key = row.key
         /\ Goes(r, Answer(r, "error")) /\ UNCHANGED tables
      \/ /\ rows' = [rows EXCEPT ![c][t] = rows[c][t] \cup {row}] /\ UNCHANGED <<campaign, single>>
         /\ \/ q.item = Len(list) /\ Writes(r, AtTable(r, q.table + 1))
            \/ q.item # Len(list) /\ Writes(r, [q EXCEPT !.item = q.item + 1])
  BY DEF InsertRow, Id, tables
<1> HIDE DEF row, list
<1> QED
  BY <1>5, <1>7, <1>8, <1>9

LEMMA RequestAnswers ==
  ASSUME Fits, NEW r \in Requests, Progress(req[r]), Explained(req[r]), RequestStep(r)
  PROVE  AnswerGoal(r)
<1>1. CASE BeginCreate(r) \/ CheckLimit(r) \/ CheckSlug(r)
  BY <1>1, CreationAnswers
<1>2. CASE BeginUpdate(r) \/ UpdateCampaignStatus(r) \/ DeleteCampaign(r)
  BY <1>2, BeginningAnswers
<1>3. CASE InsertCampaign(r)
  BY <1>3, InsertAnswers
<1>4. CASE CheckTracking(r) \/ CheckCaptcha(r)
  BY <1>4, GatesAnswer
<1>5. ASSUME NEW t \in Singles, UpsertSettings(r, t) PROVE AnswerGoal(r)
  BY <1>5, ReadSettingsAnswers, StoreSettingsAnswers DEF UpsertSettings
<1>6. ASSUME NEW t \in Lists, ReplaceRows(r, t) PROVE AnswerGoal(r)
  BY <1>6, ClearListAnswers, InsertRowAnswers DEF ReplaceRows
<1>7. CASE \/ UpsertCampaignEmailSettings(r) \/ UpsertCampaignBrandingSettings(r)
           \/ UpsertCampaignFormSettings(r) \/ UpsertCampaignReferralSettings(r)
  BY <1>5, <1>7 DEF UpsertCampaignEmailSettings, UpsertCampaignBrandingSettings,
     UpsertCampaignFormSettings, UpsertCampaignReferralSettings, Singles
<1>8. CASE \/ ReplaceCampaignFormFields(r) \/ ReplaceCampaignShareMessages(r)
           \/ ReplaceCampaignTrackingIntegrations(r)
  BY <1>6, <1>8 DEF ReplaceCampaignFormFields, ReplaceCampaignShareMessages,
     ReplaceCampaignTrackingIntegrations, Lists
<1>9. CASE ReadBack(r) \/ StatementFails(r)
  BY <1>9, ReadBackAnswers, FaultAnswers
<1> QED
  BY <1>1, <1>2, <1>3, <1>4, <1>7, <1>8, <1>9 DEF RequestStep, Step

LEMMA NextKeepsAnswers == Fits /\ AnswerInv /\ [Next]_vars => AnswerInv'
<1> SUFFICES ASSUME Fits, AnswerInv, [Next]_vars PROVE AnswerInv'
  OBVIOUS
<1>1. ASSUME NEW r \in Requests, RequestStep(r) PROVE AnswerInv'
  <2>1. Mine(r) /\ RestSpared(r)
    BY <1>1, RequestAnswers DEF AnswerInv, AnswerGoal
  <2>2. ASSUME NEW q \in Requests PROVE Progress(req[q])' /\ Explained(req[q])'
    <3>1. CASE q = r
      BY <2>1, <3>1 DEF Mine
    <3>2. CASE q # r
      <4>1. CampaignsStay /\ Spared(req[q], req'[q])
        BY <2>1, <3>2 DEF RestSpared
      <4>2. Progress(req[q]) /\ Explained(req[q])
        BY DEF AnswerInv
      <4> QED
        BY <4>1, <4>2, SparedKeepsTrue
    <3> QED
      BY <3>1, <3>2
  <2> QED
    BY <2>2 DEF AnswerInv
<1>2. ASSUME UNCHANGED <<campaign, single, rows, req>> PROVE AnswerInv'
  <2>1. ASSUME NEW q \in Requests PROVE Progress(req[q])' /\ Explained(req[q])'
    <3>1. Progress(req[q]) /\ Explained(req[q])
      BY DEF AnswerInv
    <3>2. CampaignsStay /\ Spared(req[q], req'[q])
      BY <1>2 DEF CampaignsStay, Spared, tables
    <3> QED
      BY <3>1, <3>2, SparedKeepsTrue
  <2> QED
    BY <2>1 DEF AnswerInv
<1> QED
  BY <1>1, <1>2 DEF Next, RequestStep, ChangePlan, tables, vars

LEMMA InitAnswers == Init => AnswerInv
<1> SUFFICES ASSUME Init, NEW r \in Requests PROVE Progress(req[r]) /\ Explained(req[r])
  BY DEF AnswerInv
<1>1. req[r].pc = "idle" /\ req[r].result = "none"
  BY DEF Init, Idle
<1> QED
  BY <1>1 DEF Progress, Explained, InSettings, InCreation

\* An answer of success means the settings are stored in every table that no other request
\* has overwritten since; an internal error has one of three reasons, and what an earlier
\* request left half done is none of them (CreateCampaign, UpdateCampaign: separate
\* statements with no transaction around them).
THEOREM AnswersMeanWhatTheySay == Spec => []AnswersAreTrue
<1>1. ASSUME AnswerInv, NEW r \in Requests
      PROVE  /\ req[r].result = "ok" =>
                  \A t \in (DOMAIN req[r].data.single \cup DOMAIN req[r].data.list) \ req[r].lost :
                    Stored(r, t)
             /\ req[r].result = "error" => Excused(req[r])
  BY <1>1 DEF AnswerInv, Progress, Explained, Carried, Holds, Stored, Id
<1>2. AnswerInv => AnswersAreTrue
  BY <1>1 DEF AnswersAreTrue, Excused
<1> QED
  BY <1>2, InitAnswers, NextKeepsAnswers, CampaignTypeCorrect, PTL DEF Spec
=============================================================================
