------------------------------ MODULE Segments ------------------------------
(***************************************************************************)
(* Segments, their cached counts, and the recipients a blast takes from    *)
(* them (internal/segments, internal/store/segment.go and the first half   *)
(* of handleBlastStarted in internal/workers/blast).  What becomes of a    *)
(* blast that has recipients is in EmailBlast.                             *)
(*                                                                         *)
(* A segment stores criteria, here the set of statuses it admits; every    *)
(* reader selects the users anew, one segment after the other.  Nothing    *)
(* runs in a transaction but the insertion of the recipients.              *)
(***************************************************************************)
EXTENDS Integers, FiniteSets, Sequences

CONSTANTS
  Users,        \* rows of waitlist_users
  Campaign,     \* per user: its campaign
  Address,      \* per user: its address
  First,        \* per user: its status at first
  Statuses,     \* statuses of a user that is not deleted
  Criteria,     \* criteria in use: sets of statuses, none of them for all
  Requests,     \* API requests in flight at once
  Workers,      \* events handled at once
  MaxSegments, MaxBlasts, \* bounds: rows
  MaxActs       \* bound: later requests, changes of users and faults, in all

ASSUME SegmentsAssumption ==
  /\ \A u, v \in Users : Campaign[u] = Campaign[v] /\ Address[u] = Address[v] => u = v   \* UNIQUE (campaign_id, email)
  /\ IsFiniteSet(Users) /\ First \in [Users -> Statuses]
  /\ \A k \in Criteria : k \subseteq Statuses
  /\ {MaxSegments, MaxBlasts, MaxActs} \subseteq Nat

Campaigns == {Campaign[u] : u \in Users}
Deleted == "deleted"
NoRow == 0

VARIABLES
  user,     \* per user: its status
  segment,  \* rows of segments, in order of creation
  blast,    \* rows of email_blasts with their recipients
  pending,  \* per blast: deliveries of blast.started
  req,      \* per request: the statement it is at and its locals
  job,      \* per worker: the same; and, as history, what changed since it began
  acts,     \* later requests, changes and faults so far
  excused,  \* history: segments whose count is of other users or criteria
  rerun     \* history: blasts whose start was delivered again

rows == <<user, segment, blast, pending>>
vars == <<rows, req, job, acts, excused, rerun>>

Idle == [pc |-> "idle", campaign |-> "none", criteria |-> {}, segment |-> NoRow, of |-> <<>>, count |-> 0]
IdleJob == [pc |-> "idle", blast |-> NoRow, at |-> 1, criteria |-> {}, chosen |-> {}, moved |-> {}, touched |-> {}]

Init ==
  /\ user = First
  /\ segment = <<>> /\ blast = <<>> /\ pending = <<>>
  /\ req = [r \in Requests |-> Idle]
  /\ job = [w \in Workers |-> IdleJob]
  /\ acts = 0 /\ excused = {} /\ rerun = {}

Acts == acts < MaxActs /\ acts' = acts + 1

-----------------------------------------------------------------------------
(* Criteria and users.                                                     *)

\* Criteria that name no status leave it open; deleted users never match.
Matches(u, campaign, criteria) ==
  Campaign[u] = campaign /\ user[u] # Deleted /\ (criteria = {} \/ user[u] \in criteria)

GetUsersMatching(campaign, criteria) == {u \in Users : Matches(u, campaign, criteria)}
CountUsersMatchingCriteria(campaign, criteria) == Cardinality(GetUsersMatching(campaign, criteria))

GetSegmentByID(s) == s \in DOMAIN segment /\ ~segment[s].deleted
Members(s) == GetUsersMatching(segment[s].campaign, segment[s].criteria)

\* Requests that are about to change or to count a segment.
InFlight(s) == {r \in Requests : req[r].segment = s}

\* History: what a starting blast may have read before the change.
Moves(U) == job' = [w \in Workers |-> IF job[w].pc = "idle" THEN job[w] ELSE [job[w] EXCEPT !.moved = @ \cup U]]
Touches(s) == job' = [w \in Workers |-> IF job[w].pc = "idle" THEN job[w] ELSE [job[w] EXCEPT !.touched = @ \cup {s}]]

UsersChange(u, status) ==
  /\ Acts /\ user[u] \notin {status, Deleted}
  /\ user' = [user EXCEPT ![u] = status]
  /\ Moves({u})
  /\ excused' = DOMAIN segment
  /\ UNCHANGED <<segment, blast, pending, req, rerun>>

-----------------------------------------------------------------------------
(* Segments.                                                               *)

Answers(r) == req' = [req EXCEPT ![r] = Idle]
\* History: a count made while another request is under way may be of other criteria.
Counts(s) == excused' = IF InFlight(s) = {} THEN excused \ {s} ELSE excused \cup {s}

Room(rowsOf, pc, bound) == Len(rowsOf) + Cardinality({r \in Requests : req[r].pc = pc}) < bound

HandleCreateSegment(r, campaign, criteria) ==
  /\ req[r].pc = "idle" /\ Room(segment, "create", MaxSegments)
  /\ req' = [req EXCEPT ![r] = [Idle EXCEPT !.pc = "create", !.campaign = campaign, !.criteria = criteria]]
  /\ UNCHANGED <<rows, job, acts, excused, rerun>>

CreateSegment(r) ==
  /\ req[r].pc = "create"
  /\ segment' = Append(segment, [campaign |-> req[r].campaign, criteria |-> req[r].criteria, cached |-> 0, deleted |-> FALSE])
  /\ req' = [req EXCEPT ![r].pc = "count", ![r].segment = Len(segment) + 1]
  /\ UNCHANGED <<user, blast, pending, job, acts, excused, rerun>>

Begins(r, s, pc, criteria) ==
  /\ req[r].pc = "idle" /\ Acts /\ GetSegmentByID(s)
  /\ req' = [req EXCEPT ![r] =
               [Idle EXCEPT !.pc = pc, !.segment = s, !.campaign = segment[s].campaign, !.criteria = criteria]]
  /\ Counts(s)
  /\ UNCHANGED <<rows, job, rerun>>

HandleUpdateSegment(r, s, criteria) == Begins(r, s, "update", criteria)

\* The count is of the criteria the row has when the request begins.
HandleRefreshSegmentCount(r, s) == Begins(r, s, "count", segment[s].criteria)

StoreCriteria(s, criteria) ==
  /\ GetSegmentByID(s)
  /\ segment' = [segment EXCEPT ![s].criteria = criteria]
  /\ Touches(s)

\* Mutant: new criteria are stored, their users are not counted.
UpdateSegmentOnly(r) ==
  LET s == req[r].segment IN
  /\ req[r].pc = "update"
  /\ StoreCriteria(s, req[r].criteria) \/ (~GetSegmentByID(s) /\ UNCHANGED <<segment, job>>)
  /\ Answers(r)
  /\ UNCHANGED <<user, blast, pending, acts, excused, rerun>>

UpdateSegment(r) ==
  LET s == req[r].segment IN
  /\ req[r].pc = "update"
  /\ \/ StoreCriteria(s, req[r].criteria) /\ req' = [req EXCEPT ![r].pc = "count"]
     \/ ~GetSegmentByID(s) /\ Answers(r) /\ UNCHANGED <<segment, job>>
  /\ UNCHANGED <<user, blast, pending, acts, excused, rerun>>

CountsUsers(r) ==
  /\ req[r].pc = "count"
  /\ req' = [req EXCEPT ![r].pc = "cache", ![r].count = CountUsersMatchingCriteria(req[r].campaign, req[r].criteria)]
  /\ UNCHANGED <<rows, job, acts, excused, rerun>>

UpdateSegmentCachedCount(r) ==
  LET s == req[r].segment IN
  /\ req[r].pc = "cache"
  /\ IF GetSegmentByID(s) THEN segment' = [segment EXCEPT ![s].cached = req[r].count] ELSE UNCHANGED segment
  /\ Answers(r)
  /\ UNCHANGED <<user, blast, pending, job, acts, excused, rerun>>

DeleteSegment(s) ==
  /\ GetSegmentByID(s)
  /\ segment' = [segment EXCEPT ![s].deleted = TRUE]
  /\ Touches(s)

\* Blasts are not looked at: ErrSegmentInUse is never returned.
HandleDeleteSegment(s) ==
  /\ Acts /\ DeleteSegment(s)
  /\ UNCHANGED <<user, blast, pending, req, excused, rerun>>

\* A failed count is logged, or answered; the criteria stay.
RequestFails(r) ==
  /\ Acts /\ req[r].pc \in {"create", "update", "count", "cache", "blast"}
  /\ excused' = excused \cup ({req[r].segment} \cap DOMAIN segment)
  /\ Answers(r)
  /\ UNCHANGED <<rows, job, rerun>>

-----------------------------------------------------------------------------
(* Blasts over segments.                                                   *)

SegmentsExist(of) == of # <<>> /\ \A i \in DOMAIN of : GetSegmentByID(of[i])

\* Every segment is looked up before the blast is stored.
HandleCreateEmailBlast(r, of) ==
  /\ req[r].pc = "idle" /\ Room(blast, "blast", MaxBlasts)
  /\ SegmentsExist(of)
  /\ req' = [req EXCEPT ![r] = [Idle EXCEPT !.pc = "blast", !.of = of]]
  /\ UNCHANGED <<rows, job, acts, excused, rerun>>

CreateEmailBlast(r) ==
  /\ req[r].pc = "blast"
  /\ blast' = Append(blast, [of |-> req[r].of, status |-> "draft", recipients |-> {}, total |-> 0])
  /\ pending' = Append(pending, 0)
  /\ Answers(r)
  /\ UNCHANGED <<user, segment, job, acts, excused, rerun>>

SendBlastNow(b) ==
  /\ blast[b].status = "draft"
  /\ blast' = [blast EXCEPT ![b].status = "processing"]
  /\ pending' = [pending EXCEPT ![b] = @ + 1]
  /\ UNCHANGED <<user, segment, req, job, acts, excused, rerun>>

Ends(w) == job' = [job EXCEPT ![w] = IdleJob]
SetStatus(w, status) == blast' = [blast EXCEPT ![job[w].blast].status = status]
Of(w) == blast[job[w].blast].of

HandleBlastStarted(w, b) ==
  /\ job[w].pc = "idle" /\ pending[b] > 0
  /\ pending' = [pending EXCEPT ![b] = @ - 1]
  /\ IF blast[b].status = "processing" THEN job' = [job EXCEPT ![w] = [IdleJob EXCEPT !.pc = "segment", !.blast = b]]
                                       ELSE UNCHANGED job
  /\ UNCHANGED <<user, segment, blast, req, acts, excused, rerun>>

\* One segment that is gone fails the whole blast.
ReadsSegment(w) ==
  LET s == Of(w)[job[w].at] IN
  /\ job[w].pc = "segment"
  /\ IF GetSegmentByID(s)
     THEN job' = [job EXCEPT ![w].pc = "users", ![w].criteria = segment[s].criteria] /\ UNCHANGED blast
     ELSE SetStatus(w, "failed") /\ Ends(w)
  /\ UNCHANGED <<user, segment, pending, req, acts, excused, rerun>>

\* Mutant: users are told apart by their rows.
UnseenRows(chosen, users) == users \ chosen

\* The users whose address was not seen; addresses differ within a segment.
Unseen(chosen, users) == {u \in users : \A v \in chosen : Address[u] # Address[v]}

\* Mutant: the last segment is left out.
AfterFirst(w) == IF job[w].at < Len(Of(w)) - 1 THEN "segment" ELSE "insert"

AfterUsers(w) == IF job[w].at < Len(Of(w)) THEN "segment" ELSE "insert"

GetUsersForBlast(w) ==
  LET users == GetUsersMatching(segment[Of(w)[job[w].at]].campaign, job[w].criteria) IN
  /\ job[w].pc = "users"
  /\ job' = [job EXCEPT ![w].pc = AfterUsers(w), ![w].at = @ + 1, ![w].chosen = @ \cup Unseen(@, users)]
  /\ UNCHANGED <<rows, req, acts, excused, rerun>>

\* Rows that exist for the blast and the user are kept.
CreateBlastRecipients(w) ==
  /\ job[w].pc = "insert"
  /\ IF job[w].chosen = {} THEN SetStatus(w, "completed") /\ Ends(w)
     ELSE /\ blast' = [blast EXCEPT ![job[w].blast].recipients = @ \cup job[w].chosen]
          /\ job' = [job EXCEPT ![w].pc = "total"]
  /\ UNCHANGED <<user, segment, pending, req, acts, excused, rerun>>

UpdateTotalRecipients(w) ==
  /\ job[w].pc = "total"
  /\ blast' = [blast EXCEPT ![job[w].blast].total = Cardinality(job[w].chosen), ![job[w].blast].status = "sending"]
  /\ Ends(w)
  /\ UNCHANGED <<user, segment, pending, req, acts, excused, rerun>>

FailBlast(w) ==
  /\ Acts /\ job[w].pc # "idle"
  /\ SetStatus(w, "failed") /\ Ends(w)
  /\ UNCHANGED <<user, segment, pending, req, excused, rerun>>

Crash(w) ==
  /\ Acts /\ job[w].pc # "idle"
  /\ pending' = [pending EXCEPT ![job[w].blast] = @ + 1]
  /\ rerun' = rerun \cup {job[w].blast}
  /\ Ends(w)
  /\ UNCHANGED <<user, segment, blast, req, excused>>

\* Segments of a blast, in order: one or two different ones.
Lists == {<<s>> : s \in DOMAIN segment} \cup {of \in (DOMAIN segment) \X (DOMAIN segment) : of[1] # of[2]}

Next ==
  \/ \E u \in Users, status \in Statuses \cup {Deleted} : UsersChange(u, status)
  \/ \E r \in Requests :
       \/ \E campaign \in Campaigns, criteria \in Criteria : HandleCreateSegment(r, campaign, criteria)
       \/ \E s \in DOMAIN segment, criteria \in Criteria : HandleUpdateSegment(r, s, criteria)
       \/ \E s \in DOMAIN segment : HandleRefreshSegmentCount(r, s)
       \/ \E of \in Lists : HandleCreateEmailBlast(r, of)
       \/ CreateSegment(r) \/ UpdateSegment(r) \/ CountsUsers(r) \/ UpdateSegmentCachedCount(r)
       \/ CreateEmailBlast(r) \/ RequestFails(r)
  \/ \E s \in DOMAIN segment : HandleDeleteSegment(s)
  \/ \E b \in DOMAIN blast : SendBlastNow(b)
  \/ \E w \in Workers, b \in DOMAIN blast : HandleBlastStarted(w, b)
  \/ \E w \in Workers :
       \/ ReadsSegment(w) \/ GetUsersForBlast(w) \/ CreateBlastRecipients(w) \/ UpdateTotalRecipients(w)
       \/ FailBlast(w) \/ Crash(w)

Spec == Init /\ [][Next]_vars

-----------------------------------------------------------------------------
(* Properties.                                                             *)

\* When no request is under way, the count shown with a segment is that of the users
\* its criteria select, unless users changed since, a statement failed, or requests
\* for it overlapped (UpdateSegment, RefreshSegmentCount).
CachedCountCurrent ==
  \A s \in DOMAIN segment :
    GetSegmentByID(s) /\ s \notin excused /\ InFlight(s) = {} => segment[s].cached = Cardinality(Members(s))

\* A blast that was started once has one recipient per address, though users of
\* several campaigns share it and segments overlap, and its total is their number
\* (CreateBlastRecipientsFromMultipleSegments).
OneRecipientPerAddress ==
  \A b \in DOMAIN blast \ rerun :
    /\ \A u, v \in blast[b].recipients : Address[u] = Address[v] => u = v
    /\ blast[b].status = "sending" => blast[b].total = Cardinality(blast[b].recipients)

\* However users and segments change while a blast reads them: a user that stayed as it
\* was is reached, by itself or by its address, if it is in a segment that stayed as it
\* was, and is chosen only if a segment of the blast admits it or has changed.
MembersAreReached ==
  \A w \in Workers : job[w].pc = "insert" =>
    LET segments == {Of(w)[i] : i \in DOMAIN Of(w)} IN
    \A u \in Users \ job[w].moved :
      /\ (\E s \in segments \ job[w].touched : u \in Members(s)) => \E v \in job[w].chosen : Address[v] = Address[u]
      /\ u \in job[w].chosen => \E s \in segments : s \in job[w].touched \/ u \in Members(s)
=============================================================================
