--------------------------- MODULE SegmentsProofs ---------------------------
(***************************************************************************)
(* Proofs about segments and the recipients of blasts, for every set of    *)
(* users, campaigns, addresses and criteria, and every number of requests, *)
(* workers, segments, blasts and changes.                                  *)
(***************************************************************************)
EXTENDS Segments, FiniteSetTheorems, TLAPS

-----------------------------------------------------------------------------
(* Rows.                                                                   *)

\* A table with one row replaced (UPDATE ... WHERE id).
LEMMA RowReplaced ==
  ASSUME NEW S, NEW q \in Seq(S), NEW b \in DOMAIN q, NEW x \in S
  PROVE  /\ [q EXCEPT ![b] = x] \in Seq(S)
         /\ Len([q EXCEPT ![b] = x]) = Len(q) /\ DOMAIN [q EXCEPT ![b] = x] = DOMAIN q
         /\ [q EXCEPT ![b] = x][b] = x
         /\ \A c \in DOMAIN q : c # b => [q EXCEPT ![b] = x][c] = q[c]
OBVIOUS

\* A table with one row more (store/segment.go and store/email_blast.go only insert).
LEMMA RowAdded ==
  ASSUME NEW S, NEW q \in Seq(S), NEW x \in S
  PROVE  /\ Append(q, x) \in Seq(S) /\ Len(Append(q, x)) = Len(q) + 1
         /\ DOMAIN q = 1 .. Len(q) /\ Len(q) \in Nat
         /\ DOMAIN Append(q, x) = DOMAIN q \cup {Len(q) + 1} /\ Len(q) + 1 \notin DOMAIN q
         /\ Append(q, x)[Len(q) + 1] = x /\ \A c \in DOMAIN q : Append(q, x)[c] = q[c]
OBVIOUS

-----------------------------------------------------------------------------
(* Types.                                                                  *)

SegmentRow ==
  [campaign : Campaigns, criteria : SUBSET Statuses, cached : Nat, deleted : BOOLEAN]
BlastRow ==
  [of : Seq(Nat), status : {"draft", "processing", "sending", "completed", "failed"},
   recipients : SUBSET Users, total : Nat]
Request ==
  [pc : {"idle", "create", "update", "count", "cache", "blast"},
   campaign : Campaigns \cup {"none"}, criteria : SUBSET Statuses, segment : Nat, of : Seq(Nat),
   count : Nat]
Task ==
  [pc : {"idle", "segment", "users", "insert", "total"}, blast : Nat, at : Nat,
   criteria : SUBSET Statuses, chosen : SUBSET Users, moved : SUBSET Users, touched : SUBSET Nat]

\* The variables keep their types.
TypeOK ==
  /\ user \in [Users -> Statuses \cup {Deleted}]
  /\ segment \in Seq(SegmentRow)
  /\ blast \in Seq(BlastRow) /\ pending \in Seq(Nat) /\ Len(pending) = Len(blast)
  /\ req \in [Requests -> Request] /\ job \in [Workers -> Task]

OnSegment == {"update", "count", "cache"}

\* A request is at a segment there is, or at none.
RequestFits(q, rowsOf) ==
  /\ q.pc \in OnSegment =>
       q.segment \in DOMAIN rowsOf /\ q.campaign = rowsOf[q.segment].campaign
  /\ q.pc \notin OnSegment => q.segment = NoRow
  /\ q.pc = "create" => q.campaign \in Campaigns
  /\ q.pc = "blast" => q.of # <<>> /\ \A i \in DOMAIN q.of : q.of[i] \in DOMAIN rowsOf

\* A blast is over segments there are.
BlastFits(x, rowsOf) == x.of # <<>> /\ \A i \in DOMAIN x.of : x.of[i] \in DOMAIN rowsOf

\* A handler is at one of the segments of its blast, or has read them all.
JobFits(j, rowsOf) ==
  j.pc # "idle" =>
    /\ j.blast \in DOMAIN rowsOf
    /\ j.pc \in {"segment", "users"} => j.at \in 1 .. Len(rowsOf[j.blast].of)
    /\ j.pc = "insert" => j.at = Len(rowsOf[j.blast].of) + 1

Fits ==
  /\ TypeOK
  /\ \A r \in Requests : RequestFits(req[r], segment)
  /\ \A w \in Workers : JobFits(job[w], blast)
  /\ \A b \in DOMAIN blast : BlastFits(blast[b], segment)

\* A request and a worker with nothing to do have their types.
LEMMA IdleTypes == Idle \in Request /\ IdleJob \in Task
BY DEF Idle, IdleJob, Request, Task, NoRow

\* The empty tables and the idle requests and workers fit.
LEMMA InitFits == Init => Fits
<1> SUFFICES ASSUME Init PROVE Fits
  OBVIOUS
<1>1. TypeOK
  <2>1. First \in [Users -> Statuses]
    BY SegmentsAssumption
  <2> QED
    BY <2>1, IdleTypes DEF Init, TypeOK
<1>2. /\ \A r \in Requests : RequestFits(req[r], segment)
      /\ \A w \in Workers : JobFits(job[w], blast)
  BY DEF Init, RequestFits, JobFits, Idle, IdleJob, OnSegment, NoRow
<1>3. DOMAIN blast = {}
  BY DEF Init
<1> QED
  BY <1>1, <1>2, <1>3 DEF Fits

\* Steps of a request and of a worker.
RequestStep(r) ==
  \/ \E campaign \in Campaigns, criteria \in Criteria : HandleCreateSegment(r, campaign, criteria)
  \/ \E s \in DOMAIN segment, criteria \in Criteria : HandleUpdateSegment(r, s, criteria)
  \/ \E s \in DOMAIN segment : HandleRefreshSegmentCount(r, s)
  \/ \E of \in Lists : HandleCreateEmailBlast(r, of)
  \/ CreateSegment(r) \/ UpdateSegment(r) \/ CountsUsers(r) \/ UpdateSegmentCachedCount(r)
  \/ CreateEmailBlast(r) \/ RequestFails(r)

WorkerStep(w) ==
  \/ \E b \in DOMAIN blast : HandleBlastStarted(w, b)
  \/ ReadsSegment(w) \/ GetUsersForBlast(w) \/ CreateBlastRecipients(w) \/ UpdateTotalRecipients(w)
  \/ FailBlast(w) \/ Crash(w)

\* Only what a user's owner, or the owner of a segment or a blast, does besides.
OtherStep ==
  \/ \E u \in Users, status \in Statuses \cup {Deleted} : UsersChange(u, status)
  \/ \E s \in DOMAIN segment : HandleDeleteSegment(s)
  \/ \E b \in DOMAIN blast : SendBlastNow(b)

\* The next-state relation, by who takes the step.
LEMMA NextSteps ==
  Next <=> OtherStep \/ (\E r \in Requests : RequestStep(r)) \/ (\E w \in Workers : WorkerStep(w))
BY DEF Next, OtherStep, RequestStep, WorkerStep

\* Users selected are finitely many.
LEMMA UserSets == \A U \in SUBSET Users : IsFiniteSet(U) /\ Cardinality(U) \in Nat
BY SegmentsAssumption, FS_Subset, FS_CardinalityType

\* Segments are added and changed, never moved to another campaign or restored.
LEMMA NewSegments ==
  ASSUME Fits, [Next]_vars
  PROVE  /\ segment' \in Seq(SegmentRow)
         /\ \A s \in DOMAIN segment :
              /\ s \in DOMAIN segment' /\ segment'[s].campaign = segment[s].campaign
              /\ segment[s].deleted => segment'[s].deleted
<1>1. segment \in Seq(SegmentRow) /\ \A r \in Requests : req[r] \in Request /\ RequestFits(req[r], segment)
  BY DEF Fits, TypeOK
<1> DEFINE Goal == /\ segment' \in Seq(SegmentRow)
                   /\ \A s \in DOMAIN segment :
                        /\ s \in DOMAIN segment' /\ segment'[s].campaign = segment[s].campaign
                        /\ segment[s].deleted => segment'[s].deleted
<1>2. CASE segment' = segment
  BY <1>1, <1>2
<1>3. ASSUME NEW s \in DOMAIN segment, NEW x \in SegmentRow, segment' = [segment EXCEPT ![s] = x],
             x.campaign = segment[s].campaign, segment[s].deleted => x.deleted
      PROVE  Goal
  BY <1>1, <1>3, RowReplaced
<1>4. ASSUME NEW r \in Requests, CreateSegment(r) PROVE Goal
  <2> DEFINE x == [campaign |-> req[r].campaign, criteria |-> req[r].criteria, cached |-> 0,
                   deleted |-> FALSE]
  <2>1. x \in SegmentRow
    BY <1>1, <1>4 DEF CreateSegment, RequestFits, Request, SegmentRow
  <2>2. segment' = Append(segment, x)
    BY <1>4 DEF CreateSegment
  <2> HIDE DEF x
  <2> QED
    BY <1>1, <2>1, <2>2, RowAdded
<1>5. ASSUME NEW s, GetSegmentByID(s), NEW c \in SUBSET Statuses, StoreCriteria(s, c) PROVE Goal
  <2>1. s \in DOMAIN segment /\ segment[s] \in SegmentRow
    BY <1>1, <1>5 DEF GetSegmentByID
  <2> DEFINE x == [segment[s] EXCEPT !.criteria = c]
  <2>2. x \in SegmentRow /\ x.campaign = segment[s].campaign /\ x.deleted = segment[s].deleted
    BY <2>1 DEF SegmentRow
  <2>3. segment' = [segment EXCEPT ![s] = x]
    BY <1>5 DEF StoreCriteria
  <2> HIDE DEF x
  <2> QED
    BY <1>3, <2>1, <2>2, <2>3
<1>6. ASSUME NEW r \in Requests, UpdateSegment(r) PROVE Goal
  <2>1. req[r].criteria \in SUBSET Statuses
    BY <1>1 DEF Request
  <2> QED
    BY <1>2, <1>5, <1>6, <2>1 DEF UpdateSegment, StoreCriteria
<1>7. ASSUME NEW r \in Requests, UpdateSegmentCachedCount(r) PROVE Goal
  <2> DEFINE s == req[r].segment
             x == [segment[s] EXCEPT !.cached = req[r].count]
  <2>1. CASE GetSegmentByID(s)
    <3>1. s \in DOMAIN segment /\ segment[s] \in SegmentRow /\ req[r].count \in Nat
      BY <1>1, <2>1 DEF GetSegmentByID, Request
    <3>2. x \in SegmentRow /\ x.campaign = segment[s].campaign /\ x.deleted = segment[s].deleted
      BY <3>1 DEF SegmentRow
    <3>3. segment' = [segment EXCEPT ![s] = x]
      BY <1>7, <2>1 DEF UpdateSegmentCachedCount
    <3> HIDE DEF x
    <3> QED
      BY <1>3, <3>1, <3>2, <3>3
  <2>2. CASE ~GetSegmentByID(s)
    BY <1>2, <1>7, <2>2 DEF UpdateSegmentCachedCount
  <2> QED
    BY <2>1, <2>2
<1>8. ASSUME NEW s \in DOMAIN segment, HandleDeleteSegment(s) PROVE Goal
  <2> DEFINE x == [segment[s] EXCEPT !.deleted = TRUE]
  <2>1. segment[s] \in SegmentRow
    BY <1>1
  <2>2. x \in SegmentRow /\ x.campaign = segment[s].campaign /\ x.deleted
    BY <2>1 DEF SegmentRow
  <2>3. segment' = [segment EXCEPT ![s] = x]
    BY <1>8 DEF HandleDeleteSegment, DeleteSegment
  <2> HIDE DEF x
  <2> QED
    BY <1>3, <2>2, <2>3
<1>9. \/ segment' = segment
      \/ \E r \in Requests : CreateSegment(r) \/ UpdateSegment(r) \/ UpdateSegmentCachedCount(r)
      \/ \E s \in DOMAIN segment : HandleDeleteSegment(s)
  BY NextSteps DEF OtherStep, UsersChange, SendBlastNow, RequestStep, HandleCreateSegment,
                   HandleUpdateSegment, HandleRefreshSegmentCount, Begins, HandleCreateEmailBlast,
                   CountsUsers, CreateEmailBlast, RequestFails, WorkerStep, HandleBlastStarted,
                   ReadsSegment, GetUsersForBlast, CreateBlastRecipients, UpdateTotalRecipients,
                   FailBlast, Crash, rows, vars
<1> QED
  BY <1>2, <1>4, <1>6, <1>7, <1>8, <1>9

BlastRowsKept ==
  /\ blast' \in Seq(BlastRow) /\ Len(blast') = Len(blast) /\ DOMAIN blast' = DOMAIN blast
  /\ \A b \in DOMAIN blast : blast'[b].of = blast[b].of
StartsKept == pending' \in Seq(Nat) /\ Len(pending') = Len(pending)
BlastsGrow ==
  /\ blast' \in Seq(BlastRow) /\ pending' \in Seq(Nat) /\ Len(pending') = Len(blast')
  /\ \A b \in DOMAIN blast : b \in DOMAIN blast' /\ blast'[b].of = blast[b].of
  /\ \A b \in DOMAIN blast' \ DOMAIN blast : BlastFits(blast'[b], segment)

\* Blasts are added with segments there are, and keep them.
LEMMA NewBlasts ==
  ASSUME Fits, [Next]_vars
  PROVE  BlastsGrow
<1>1. /\ blast \in Seq(BlastRow) /\ pending \in Seq(Nat) /\ Len(pending) = Len(blast)
      /\ DOMAIN blast = 1 .. Len(blast) /\ DOMAIN pending = DOMAIN blast /\ Len(blast) \in Nat
      /\ \A b \in DOMAIN blast : blast[b] \in BlastRow
      /\ \A r \in Requests : req[r] \in Request /\ RequestFits(req[r], segment)
      /\ \A w \in Workers : job[w] \in Task /\ JobFits(job[w], blast)
  BY DEF Fits, TypeOK
<1>2. BlastRowsKept /\ StartsKept => BlastsGrow
  BY <1>1 DEF BlastRowsKept, StartsKept, BlastsGrow
<1>3. (blast' = blast => BlastRowsKept) /\ (pending' = pending => StartsKept)
  BY <1>1 DEF BlastRowsKept, StartsKept
<1>4. ASSUME NEW b \in DOMAIN blast, NEW x \in BlastRow, x.of = blast[b].of,
             blast' = [blast EXCEPT ![b] = x]
      PROVE  BlastRowsKept
  BY <1>1, <1>4, RowReplaced DEF BlastRowsKept
<1>5. ASSUME NEW b \in DOMAIN blast, NEW n \in Nat, pending' = [pending EXCEPT ![b] = n]
      PROVE  StartsKept
  BY <1>1, <1>5, RowReplaced DEF StartsKept
<1>6. ASSUME NEW b \in DOMAIN blast, NEW st \in {"processing", "failed", "completed"},
             blast' = [blast EXCEPT ![b].status = st]
      PROVE  BlastRowsKept
  <2> DEFINE x == [blast[b] EXCEPT !.status = st]
  <2>1. x \in BlastRow /\ x.of = blast[b].of
    BY <1>1 DEF BlastRow
  <2>2. blast' = [blast EXCEPT ![b] = x]
    BY <1>6
  <2> HIDE DEF x
  <2> QED
    BY <1>4, <2>1, <2>2
<1>7. ASSUME NEW w \in Workers, job[w].pc # "idle" PROVE job[w].blast \in DOMAIN blast
  BY <1>1, <1>7 DEF JobFits
<1>8. ASSUME NEW b \in DOMAIN blast, SendBlastNow(b) PROVE BlastsGrow
  <2>1. pending[b] + 1 \in Nat /\ pending' = [pending EXCEPT ![b] = pending[b] + 1]
    BY <1>1, <1>8 DEF SendBlastNow
  <2>2. blast' = [blast EXCEPT ![b].status = "processing"]
    BY <1>8 DEF SendBlastNow
  <2> QED
    BY <1>2, <1>5, <1>6, <2>1, <2>2
<1>9. ASSUME NEW r \in Requests, CreateEmailBlast(r) PROVE BlastsGrow
  <2> DEFINE x == [of |-> req[r].of, status |-> "draft", recipients |-> {}, total |-> 0]
  <2>1. blast' = Append(blast, x) /\ pending' = Append(pending, 0) /\ segment' = segment
    BY <1>9 DEF CreateEmailBlast
  <2>2. x \in BlastRow /\ BlastFits(x, segment)
    BY <1>1, <1>9 DEF CreateEmailBlast, BlastRow, BlastFits, Request, RequestFits
  <2> HIDE DEF x
  <2>3. /\ blast' \in Seq(BlastRow) /\ Len(blast') = Len(blast) + 1
        /\ \A b \in DOMAIN blast : b \in DOMAIN blast' /\ blast'[b].of = blast[b].of
        /\ \A b \in DOMAIN blast' \ DOMAIN blast : blast'[b] = x
    BY <1>1, <2>1, <2>2, RowAdded
  <2>4. pending' \in Seq(Nat) /\ Len(pending') = Len(pending) + 1
    BY <1>1, <2>1, RowAdded
  <2> QED
    BY <1>1, <2>1, <2>2, <2>3, <2>4 DEF BlastsGrow, BlastFits
<1>10. ASSUME NEW w \in Workers, NEW b \in DOMAIN blast, HandleBlastStarted(w, b) PROVE BlastsGrow
  <2>1. pending[b] \in Nat /\ pending[b] > 0 /\ blast' = blast
        /\ pending' = [pending EXCEPT ![b] = pending[b] - 1]
    BY <1>1, <1>10 DEF HandleBlastStarted
  <2>2. pending[b] - 1 \in Nat
    BY <2>1
  <2> QED
    BY <1>2, <1>3, <1>5, <2>1, <2>2
<1>11. ASSUME NEW w \in Workers, ReadsSegment(w) \/ FailBlast(w) PROVE BlastsGrow
  <2>1. job[w].pc # "idle" /\ pending' = pending
        /\ (blast' = blast \/ SetStatus(w, "failed"))
    BY <1>11 DEF ReadsSegment, FailBlast
  <2>2. BlastRowsKept
    <3>1. SetStatus(w, "failed") => BlastRowsKept
          BY <1>6, <1>7, <2>1 DEF SetStatus
    <3> QED
      BY <1>3, <2>1, <3>1
  <2> QED
    BY <1>2, <1>3, <2>1, <2>2
<1>12. ASSUME NEW w \in Workers, CreateBlastRecipients(w) PROVE BlastsGrow
  <2> DEFINE b == job[w].blast
             x == [blast[b] EXCEPT !.recipients = blast[b].recipients \cup job[w].chosen]
  <2>1. job[w].pc # "idle" /\ pending' = pending
        /\ (SetStatus(w, "completed") \/ blast' = [blast EXCEPT ![b] = x])
    BY <1>12 DEF CreateBlastRecipients
  <2>2. b \in DOMAIN blast /\ blast[b] \in BlastRow /\ job[w].chosen \subseteq Users
    BY <1>1, <1>7, <2>1 DEF Task
  <2>3. x \in BlastRow /\ x.of = blast[b].of
    BY <2>2 DEF BlastRow
  <2>4. SetStatus(w, "completed") => BlastRowsKept
      BY <1>6, <2>2 DEF SetStatus
  <2> HIDE DEF x, b
  <2> QED
    BY <1>2, <1>3, <1>4, <2>1, <2>2, <2>3, <2>4
<1>13. ASSUME NEW w \in Workers, UpdateTotalRecipients(w) PROVE BlastsGrow
  <2> DEFINE b == job[w].blast
             n == Cardinality(job[w].chosen)
             x == [blast[b] EXCEPT !.total = n, !.status = "sending"]
  <2>1. job[w].pc # "idle" /\ pending' = pending /\ blast' = [blast EXCEPT ![b] = x]
    BY <1>13 DEF UpdateTotalRecipients
  <2>2. b \in DOMAIN blast /\ blast[b] \in BlastRow
    BY <1>1, <1>7, <2>1
  <2>3. n \in Nat
    BY <1>1, UserSets DEF Task
  <2> HIDE DEF n
  <2>4. x \in BlastRow /\ x.of = blast[b].of
    BY <2>2, <2>3 DEF BlastRow
  <2> HIDE DEF x, b
  <2> QED
    BY <1>2, <1>3, <1>4, <2>1, <2>2, <2>4
<1>14. ASSUME NEW w \in Workers, Crash(w) PROVE BlastsGrow
  <2>1. job[w].pc # "idle" /\ blast' = blast
        /\ pending' = [pending EXCEPT ![job[w].blast] = pending[job[w].blast] + 1]
    BY <1>14 DEF Crash
  <2>2. job[w].blast \in DOMAIN blast /\ pending[job[w].blast] + 1 \in Nat
    BY <1>1, <1>7, <2>1
  <2> QED
    BY <1>2, <1>3, <1>5, <2>1, <2>2
<1>15. CASE UNCHANGED <<blast, pending>>
  <2> QED
    BY <1>2, <1>3, <1>15
<1>16. \/ UNCHANGED <<blast, pending>>
       \/ \E r \in Requests : CreateEmailBlast(r)
       \/ \E b \in DOMAIN blast : SendBlastNow(b)
       \/ \E w \in Workers :
            \/ \E b \in DOMAIN blast : HandleBlastStarted(w, b)
            \/ ReadsSegment(w) \/ CreateBlastRecipients(w) \/ UpdateTotalRecipients(w)
            \/ FailBlast(w) \/ Crash(w)
  BY NextSteps DEF OtherStep, UsersChange, HandleDeleteSegment, RequestStep, HandleCreateSegment,
                   HandleUpdateSegment, HandleRefreshSegmentCount, Begins, HandleCreateEmailBlast,
                   CreateSegment, UpdateSegment, CountsUsers, UpdateSegmentCachedCount, RequestFails,
                   WorkerStep, GetUsersForBlast, rows, vars
<1> QED
  BY <1>8, <1>9, <1>10, <1>11, <1>12, <1>13, <1>14, <1>15, <1>16

\* What a request may do to itself, in one step of its own.
LEMMA NewRequest ==
  ASSUME Fits, NEW r \in Requests, RequestStep(r)
  PROVE  /\ req' = [req EXCEPT ![r] = req'[r]]
         /\ req'[r] \in Request /\ RequestFits(req'[r], segment')
<1> DEFINE q == req[r]
<1>1. /\ req \in [Requests -> Request] /\ q \in Request /\ RequestFits(q, segment)
      /\ segment \in Seq(SegmentRow) /\ DOMAIN segment = 1 .. Len(segment) /\ Len(segment) \in Nat
  BY DEF Fits, TypeOK
<1>2. \A s \in DOMAIN segment : s \in DOMAIN segment' /\ segment'[s].campaign = segment[s].campaign
  BY NewSegments, NextSteps
<1>3. Idle \in Request /\ RequestFits(Idle, segment')
  BY IdleTypes DEF Idle, RequestFits, OnSegment, NoRow
<1> DEFINE Goal == /\ req' = [req EXCEPT ![r] = req'[r]]
                   /\ req'[r] \in Request /\ RequestFits(req'[r], segment')
<1>4. ASSUME NEW x \in Request, RequestFits(x, segment'), req' = [req EXCEPT ![r] = x] PROVE Goal
  BY <1>1, <1>4
<1>5. ASSUME Answers(r) PROVE Goal
  BY <1>3, <1>4, <1>5 DEF Answers
<1>6. ASSUME NEW campaign \in Campaigns, NEW criteria \in Criteria,
             HandleCreateSegment(r, campaign, criteria)
      PROVE  Goal
  <2> DEFINE x == [Idle EXCEPT !.pc = "create", !.campaign = campaign, !.criteria = criteria]
  <2>1. criteria \in SUBSET Statuses
    BY SegmentsAssumption
  <2>2. x \in Request /\ x.pc = "create" /\ x.campaign = campaign
    BY <2>1, IdleTypes DEF Request
  <2>3. x.segment = NoRow
    BY DEF Idle
  <2>4. req' = [req EXCEPT ![r] = x]
    BY <1>6 DEF HandleCreateSegment
  <2> HIDE DEF x
  <2>5. RequestFits(x, segment')
    BY <2>2, <2>3 DEF RequestFits, OnSegment
  <2> QED
    BY <1>4, <2>2, <2>4, <2>5
<1>7. ASSUME NEW s \in DOMAIN segment, NEW pc \in {"update", "count"}, NEW c \in SUBSET Statuses,
             Begins(r, s, pc, c)
      PROVE  Goal
  <2> DEFINE k == segment[s].campaign
             x == [Idle EXCEPT !.pc = pc, !.segment = s, !.campaign = k, !.criteria = c]
  <2>1. segment[s] \in SegmentRow /\ s \in Nat
    BY <1>1
  <2>2. k \in Campaigns /\ s \in DOMAIN segment' /\ segment'[s].campaign = k
    BY <1>2, <2>1 DEF SegmentRow
  <2>3. req' = [req EXCEPT ![r] = x]
    BY <1>7 DEF Begins
  <2> HIDE DEF k
  <2>4. x \in Request /\ x.pc = pc /\ x.segment = s /\ x.campaign = k
    BY <2>1, <2>2, IdleTypes DEF Request
  <2> HIDE DEF x
  <2>5. RequestFits(x, segment')
    BY <2>2, <2>4 DEF RequestFits, OnSegment
  <2> QED
    BY <1>4, <2>3, <2>4, <2>5
<1>8. ASSUME NEW s \in DOMAIN segment, NEW criteria \in Criteria, HandleUpdateSegment(r, s, criteria)
      PROVE  Goal
  <2>1. criteria \in SUBSET Statuses
    BY SegmentsAssumption
  <2> QED
    BY <1>7, <1>8, <2>1 DEF HandleUpdateSegment
<1>9. ASSUME NEW s \in DOMAIN segment, HandleRefreshSegmentCount(r, s) PROVE Goal
  <2>1. segment[s].criteria \in SUBSET Statuses
    <3>1. segment[s] \in SegmentRow
      BY <1>1
    <3> QED
      BY <3>1 DEF SegmentRow
  <2> QED
    BY <1>7, <1>9, <2>1 DEF HandleRefreshSegmentCount
<1>10. ASSUME NEW of \in Lists, HandleCreateEmailBlast(r, of) PROVE Goal
  <2> DEFINE x == [Idle EXCEPT !.pc = "blast", !.of = of]
  <2>1. of \in Seq(Nat) /\ of # <<>> /\ \A i \in DOMAIN of : of[i] \in DOMAIN segment
    <3>1. CASE \E s \in DOMAIN segment : of = <<s>>
      BY <1>1, <3>1
    <3>2. CASE of \in (DOMAIN segment) \X (DOMAIN segment)
      <4>1. PICK s \in DOMAIN segment, u \in DOMAIN segment : of = <<s, u>>
        BY <3>2
      <4>2. s \in Nat /\ u \in Nat
        BY <1>1
      <4> QED
        BY <4>1, <4>2
    <3> QED
      BY <1>10, <3>1, <3>2 DEF Lists
  <2>2. x \in Request /\ RequestFits(x, segment')
    BY <1>2, <2>1 DEF Idle, Request, RequestFits, OnSegment, NoRow
  <2>3. req' = [req EXCEPT ![r] = x]
    BY <1>10 DEF HandleCreateEmailBlast
  <2> HIDE DEF x
  <2> QED
    BY <1>4, <2>2, <2>3
<1>11. ASSUME CreateSegment(r) PROVE Goal
  <2> DEFINE n == Len(segment) + 1
             x == [q EXCEPT !.pc = "count", !.segment = n]
  <2>1. n \in DOMAIN segment' /\ segment'[n].campaign = q.campaign /\ n \in Nat
    <3> DEFINE y == [campaign |-> q.campaign, criteria |-> q.criteria, cached |-> 0, deleted |-> FALSE]
    <3>1. segment' = Append(segment, y) /\ y.campaign = q.campaign
      BY <1>11 DEF CreateSegment
    <3> HIDE DEF y
    <3> QED
      BY <1>1, <3>1
  <2>2. x \in Request /\ x.pc = "count" /\ x.segment = n /\ x.campaign = q.campaign
    BY <1>1, <2>1 DEF Request
  <2>3. RequestFits(x, segment')
    BY <2>1, <2>2 DEF RequestFits, OnSegment
  <2>4. req' = [req EXCEPT ![r] = x]
    BY <1>11 DEF CreateSegment
  <2> HIDE DEF x
  <2> QED
    BY <1>4, <2>2, <2>3, <2>4
<1>12. ASSUME UpdateSegment(r), ~Answers(r) PROVE Goal
  <2> DEFINE x == [q EXCEPT !.pc = "count"]
  <2>1. q.pc = "update" /\ req' = [req EXCEPT ![r] = x]
    BY <1>12 DEF UpdateSegment
  <2>2. x \in Request /\ RequestFits(x, segment')
    BY <1>1, <1>2, <2>1 DEF Request, RequestFits, OnSegment
  <2> HIDE DEF x
  <2> QED
    BY <1>4, <2>1, <2>2
<1>13. ASSUME CountsUsers(r) PROVE Goal
  <2> DEFINE n == CountUsersMatchingCriteria(q.campaign, q.criteria)
             x == [q EXCEPT !.pc = "cache", !.count = n]
  <2>1. q.pc = "count" /\ req' = [req EXCEPT ![r] = x]
    BY <1>13 DEF CountsUsers
  <2>2. n \in Nat
    BY UserSets DEF CountUsersMatchingCriteria, GetUsersMatching
  <2> HIDE DEF n
  <2>3. x \in Request /\ RequestFits(x, segment')
    BY <1>1, <1>2, <2>1, <2>2 DEF Request, RequestFits, OnSegment
  <2> HIDE DEF x
  <2> QED
    BY <1>4, <2>1, <2>3
<1> QED
  BY <1>5, <1>6, <1>8, <1>9, <1>10, <1>11, <1>12, <1>13
    DEF RequestStep, UpdateSegmentCachedCount, CreateEmailBlast, RequestFails

\* A worker's locals as they were, but for what has changed under it since.
TaskKept(w) ==
  /\ job'[w] \in Task
  /\ job'[w].pc = job[w].pc /\ job'[w].blast = job[w].blast /\ job'[w].at = job[w].at
  /\ job'[w].criteria = job[w].criteria /\ job'[w].chosen = job[w].chosen
Marked(w, U, S) ==
  job[w].pc # "idle" =>
    job'[w].moved = job[w].moved \cup U /\ job'[w].touched = job[w].touched \cup S

\* Changes of users and of segments are noted by the workers that read them.
LEMMA JobsMarked ==
  ASSUME Fits
  PROVE  /\ \A U \in SUBSET Users :
              Moves(U) => job' \in [Workers -> Task] /\ \A w \in Workers : TaskKept(w) /\ Marked(w, U, {})
         /\ \A s \in DOMAIN segment :
              Touches(s) => job' \in [Workers -> Task] /\ \A w \in Workers : TaskKept(w) /\ Marked(w, {}, {s})
         /\ job' = job =>
              job' \in [Workers -> Task] /\ \A w \in Workers : TaskKept(w) /\ Marked(w, {}, {})
<1>1. /\ job \in [Workers -> Task] /\ \A w \in Workers : job[w] \in Task
      /\ segment \in Seq(SegmentRow) /\ DOMAIN segment \subseteq Nat
  BY DEF Fits, TypeOK
<1>2. ASSUME NEW U \in SUBSET Users, Moves(U)
      PROVE  job' \in [Workers -> Task] /\ \A w \in Workers : TaskKept(w) /\ Marked(w, U, {})
  <2>1. ASSUME NEW w \in Workers PROVE job'[w] \in Task /\ TaskKept(w) /\ Marked(w, U, {})
    <3>1. CASE job[w].pc = "idle"
      BY <1>1, <1>2, <3>1 DEF Moves, TaskKept, Marked
    <3>2. CASE job[w].pc # "idle"
      <4>1. job'[w] = [job[w] EXCEPT !.moved = job[w].moved \cup U]
        BY <1>2, <3>2 DEF Moves
      <4>2. job[w] \in Task
        BY <1>1
      <4> QED
        BY <4>1, <4>2 DEF TaskKept, Marked, Task
    <3> QED
      BY <3>1, <3>2
  <2> QED
    BY <1>2, <2>1 DEF Moves
<1>3. ASSUME NEW s \in DOMAIN segment, Touches(s)
      PROVE  job' \in [Workers -> Task] /\ \A w \in Workers : TaskKept(w) /\ Marked(w, {}, {s})
  <2>1. ASSUME NEW w \in Workers PROVE job'[w] \in Task /\ TaskKept(w) /\ Marked(w, {}, {s})
    <3>1. CASE job[w].pc = "idle"
      BY <1>1, <1>3, <3>1 DEF Touches, TaskKept, Marked
    <3>2. CASE job[w].pc # "idle"
      <4>1. job'[w] = [job[w] EXCEPT !.touched = job[w].touched \cup {s}]
        BY <1>3, <3>2 DEF Touches
      <4>2. job[w] \in Task /\ s \in Nat
        BY <1>1
      <4> QED
        BY <4>1, <4>2 DEF TaskKept, Marked, Task
    <3> QED
      BY <3>1, <3>2
  <2> QED
    BY <1>3, <2>1 DEF Touches
<1>4. ASSUME job' = job PROVE \A w \in Workers : TaskKept(w) /\ Marked(w, {}, {})
  BY <1>1, <1>4 DEF TaskKept, Marked
<1> QED
  BY <1>1, <1>2, <1>3, <1>4

\* The steps of the workers' surroundings.
LEMMA JobsKept ==
  ASSUME Fits, OtherStep \/ (\E r \in Requests : RequestStep(r)) \/ UNCHANGED vars
  PROVE  job' \in [Workers -> Task] /\ \A w \in Workers : TaskKept(w)
<1>1. \/ job' = job
      \/ \E u \in Users : Moves({u})
      \/ \E s \in DOMAIN segment : Touches(s)
  BY DEF OtherStep, UsersChange, HandleDeleteSegment, DeleteSegment, SendBlastNow, RequestStep,
         HandleCreateSegment, HandleUpdateSegment, HandleRefreshSegmentCount, Begins,
         HandleCreateEmailBlast, CreateSegment, UpdateSegment, StoreCriteria, GetSegmentByID,
         CountsUsers, UpdateSegmentCachedCount, CreateEmailBlast, RequestFails, vars
<1> QED
  BY <1>1, JobsMarked

\* What a worker may do to its task, in one step of its own.
LEMMA NewTask ==
  ASSUME Fits, NEW w \in Workers, WorkerStep(w)
  PROVE  /\ job' = [job EXCEPT ![w] = job'[w]]
         /\ job'[w] \in Task /\ JobFits(job'[w], blast')
<1> DEFINE j == job[w]
           l == Len(blast[j.blast].of)
<1>1. /\ job \in [Workers -> Task] /\ j \in Task /\ JobFits(j, blast)
      /\ \A b \in DOMAIN blast : blast[b] \in BlastRow /\ BlastFits(blast[b], segment)
  BY DEF Fits, TypeOK
<1>2. \A b \in DOMAIN blast : b \in DOMAIN blast' /\ blast'[b].of = blast[b].of
  BY NewBlasts, NextSteps DEF BlastsGrow
<1>3. IdleJob \in Task /\ JobFits(IdleJob, blast')
  BY IdleTypes DEF IdleJob, JobFits
<1> DEFINE Goal == /\ job' = [job EXCEPT ![w] = job'[w]]
                   /\ job'[w] \in Task /\ JobFits(job'[w], blast')
<1>4. ASSUME NEW x \in Task, JobFits(x, blast'), job' = [job EXCEPT ![w] = x] PROVE Goal
  BY <1>1, <1>4
<1>5. ASSUME Ends(w) PROVE Goal
  BY <1>3, <1>4, <1>5 DEF Ends
<1>6. ASSUME NEW b \in DOMAIN blast, HandleBlastStarted(w, b) PROVE Goal
  <2>1. CASE job' = job
    <3>1. j.pc = "idle"
      BY <1>6 DEF HandleBlastStarted
    <3>2. JobFits(j, blast')
      BY <3>1 DEF JobFits
    <3> QED
      BY <1>1, <2>1, <3>2
  <2>2. CASE job' = [job EXCEPT ![w] = [IdleJob EXCEPT !.pc = "segment", !.blast = b]]
    <3> DEFINE x == [IdleJob EXCEPT !.pc = "segment", !.blast = b]
    <3>1. b \in Nat /\ Len(blast[b].of) \in Nat /\ Len(blast[b].of) >= 1
      <4>1. blast \in Seq(BlastRow) /\ blast[b].of \in Seq(Nat) /\ blast[b].of # <<>>
        BY <1>1 DEF Fits, TypeOK, BlastRow, BlastFits
      <4> QED
        BY <4>1
    <3>2. x \in Task /\ x.pc = "segment" /\ x.blast = b
      BY <3>1, IdleTypes DEF Task
    <3>3. x.at = 1
      BY DEF IdleJob
    <3>4. job' = [job EXCEPT ![w] = x]
      BY <2>2
    <3> HIDE DEF x
    <3>5. JobFits(x, blast')
      BY <1>2, <3>1, <3>2, <3>3 DEF JobFits
    <3> QED
      BY <1>4, <3>2, <3>4, <3>5
  <2> QED
    BY <1>6, <2>1, <2>2 DEF HandleBlastStarted
<1>7. ASSUME ReadsSegment(w), ~Ends(w) PROVE Goal
  <2> DEFINE c == segment[Of(w)[j.at]].criteria
             x == [j EXCEPT !.pc = "users", !.criteria = c]
  <2>1. j.pc = "segment" /\ job' = [job EXCEPT ![w] = x] /\ GetSegmentByID(Of(w)[j.at])
    BY <1>7 DEF ReadsSegment
  <2>2. c \in SUBSET Statuses
    <3>1. segment[Of(w)[j.at]] \in SegmentRow
      BY <2>1 DEF GetSegmentByID, Fits, TypeOK
    <3> QED
      BY <3>1 DEF SegmentRow
  <2> HIDE DEF c
  <2>3. x \in Task /\ x.pc = "users" /\ x.blast = j.blast /\ x.at = j.at
    BY <1>1, <2>2 DEF Task
  <2> HIDE DEF x
  <2>4. JobFits(x, blast')
    BY <1>1, <1>2, <2>1, <2>3 DEF JobFits
  <2> QED
    BY <1>4, <2>1, <2>3, <2>4
<1>8. ASSUME GetUsersForBlast(w) PROVE Goal
  <2> DEFINE users == GetUsersMatching(segment[Of(w)[j.at]].campaign, j.criteria)
             n == j.at + 1
             U == j.chosen \cup Unseen(j.chosen, users)
             x == [j EXCEPT !.pc = AfterUsers(w), !.at = n, !.chosen = U]
  <2>1. j.pc = "users" /\ job' = [job EXCEPT ![w] = x]
    BY <1>8 DEF GetUsersForBlast
  <2>2. U \in SUBSET Users /\ n \in Nat /\ AfterUsers(w) \in {"segment", "insert"}
    BY <1>1 DEF Task, Unseen, GetUsersMatching, AfterUsers
  <2>3. AfterUsers(w) = IF j.at < l THEN "segment" ELSE "insert"
    BY DEF AfterUsers, Of
  <2>4. j.blast \in DOMAIN blast /\ j.at \in 1 .. l /\ l \in Nat
    BY <1>1, <2>1 DEF JobFits, BlastRow
  <2> HIDE DEF U, users
  <2>5. x \in Task /\ x.pc = AfterUsers(w) /\ x.blast = j.blast /\ x.at = n
    BY <1>1, <2>2 DEF Task
  <2> HIDE DEF x
  <2>6. Len(blast'[j.blast].of) = l
    BY <1>2, <2>4
  <2>7. JobFits(x, blast')
    BY <1>2, <2>3, <2>4, <2>5, <2>6 DEF JobFits
  <2> QED
    BY <1>4, <2>1, <2>5, <2>7
<1>9. ASSUME CreateBlastRecipients(w), ~Ends(w) PROVE Goal
  <2> DEFINE x == [j EXCEPT !.pc = "total"]
  <2>1. j.pc = "insert" /\ job' = [job EXCEPT ![w] = x]
    BY <1>9 DEF CreateBlastRecipients
  <2>2. x \in Task /\ JobFits(x, blast')
    BY <1>1, <1>2, <2>1 DEF Task, JobFits
  <2> HIDE DEF x
  <2> QED
    BY <1>4, <2>1, <2>2
<1> QED
  BY <1>5, <1>6, <1>7, <1>8, <1>9 DEF WorkerStep, UpdateTotalRecipients, FailBlast, Crash

\* The types, and where requests and workers are, survive every step.
LEMMA StepFits == Fits /\ [Next]_vars => Fits'
<1> SUFFICES ASSUME Fits, [Next]_vars PROVE Fits'
  OBVIOUS
<1>1. /\ user \in [Users -> Statuses \cup {Deleted}]
      /\ req \in [Requests -> Request] /\ job \in [Workers -> Task]
      /\ \A r \in Requests : RequestFits(req[r], segment)
      /\ \A w \in Workers : JobFits(job[w], blast)
      /\ \A b \in DOMAIN blast : BlastFits(blast[b], segment)
  BY DEF Fits, TypeOK
<1>2. /\ segment' \in Seq(SegmentRow)
      /\ \A s \in DOMAIN segment : s \in DOMAIN segment' /\ segment'[s].campaign = segment[s].campaign
  BY NewSegments
<1>3. BlastsGrow
  BY NewBlasts
<1>4. ASSUME NEW x, RequestFits(x, segment) PROVE RequestFits(x, segment')
  BY <1>2, <1>4 DEF RequestFits
<1>5. ASSUME NEW x, NEW y, JobFits(x, blast), y.pc = x.pc, y.blast = x.blast, y.at = x.at
      PROVE  JobFits(y, blast')
  BY <1>3, <1>5 DEF JobFits, BlastsGrow
<1>6. ASSUME NEW b \in DOMAIN blast' PROVE BlastFits(blast'[b], segment')
  BY <1>1, <1>2, <1>3 DEF BlastFits, BlastsGrow
<1>7. user' \in [Users -> Statuses \cup {Deleted}]
  <2>1. \/ user' = user
        \/ \E u \in Users, status \in Statuses \cup {Deleted} : user' = [user EXCEPT ![u] = status]
    BY NextSteps
      DEF OtherStep, UsersChange, HandleDeleteSegment, SendBlastNow, RequestStep, HandleCreateSegment,
          HandleUpdateSegment, HandleRefreshSegmentCount, Begins, HandleCreateEmailBlast, CreateSegment,
          UpdateSegment, CountsUsers, UpdateSegmentCachedCount, CreateEmailBlast, RequestFails,
          WorkerStep, HandleBlastStarted, ReadsSegment, GetUsersForBlast, CreateBlastRecipients,
          UpdateTotalRecipients, FailBlast, Crash, rows, vars
  <2> QED
    BY <1>1, <2>1
<1>8. req' \in [Requests -> Request] /\ \A r \in Requests : RequestFits(req'[r], segment')
  <2>1. CASE req' = req
    BY <1>1, <1>4, <2>1
  <2>2. CASE \E r \in Requests : RequestStep(r)
    <3>1. PICK r \in Requests : RequestStep(r)
      BY <2>2
    <3>2. /\ req' = [req EXCEPT ![r] = req'[r]]
          /\ req'[r] \in Request /\ RequestFits(req'[r], segment')
      BY <3>1, NewRequest
    <3>3. ASSUME NEW t \in Requests \ {r} PROVE req'[t] = req[t]
      BY <1>1, <3>2
    <3> QED
      BY <1>1, <1>4, <3>2, <3>3
  <2>3. req' = req \/ \E r \in Requests : RequestStep(r)
    BY NextSteps
      DEF OtherStep, UsersChange, HandleDeleteSegment, SendBlastNow, WorkerStep, HandleBlastStarted,
          ReadsSegment, GetUsersForBlast, CreateBlastRecipients, UpdateTotalRecipients, FailBlast, Crash,
          rows, vars
  <2> QED
    BY <2>1, <2>2, <2>3
<1>9. job' \in [Workers -> Task] /\ \A w \in Workers : JobFits(job'[w], blast')
  <2>1. CASE \E w \in Workers : WorkerStep(w)
    <3>1. PICK w \in Workers : WorkerStep(w)
      BY <2>1
    <3>2. /\ job' = [job EXCEPT ![w] = job'[w]]
          /\ job'[w] \in Task /\ JobFits(job'[w], blast')
      BY <3>1, NewTask
    <3>3. ASSUME NEW v \in Workers \ {w} PROVE job'[v] = job[v]
      BY <1>1, <3>2
    <3>4. \A v \in Workers \ {w} : JobFits(job'[v], blast')
      BY <1>1, <1>5, <3>3
    <3> QED
      BY <1>1, <3>2, <3>4
  <2>2. CASE OtherStep \/ (\E r \in Requests : RequestStep(r)) \/ UNCHANGED vars
    BY <1>1, <1>5, <2>2, JobsKept DEF TaskKept
  <2> QED
    BY <2>1, <2>2, NextSteps
<1> QED
  BY <1>2, <1>3, <1>6, <1>7, <1>8, <1>9 DEF Fits, TypeOK, BlastsGrow

\* In every reachable state the variables have their types, requests are at
\* segments there are, and workers at segments of blasts there are
\* (segments/processor/processor.go, workers/blast/processor.go).
THEOREM SegmentsTypeCorrect == Spec => []Fits
BY InitFits, StepFits, PTL DEF Spec

-----------------------------------------------------------------------------
(* Cached counts.                                                          *)

\* One request at most is at a segment that is not excused, it counts by the criteria
\* of the row, and what it has counted, or what is stored when none is at it, is current.
Cached(s) ==
  /\ \A r \in InFlight(s) :
       /\ InFlight(s) = {r}
       /\ req[r].pc \in {"count", "cache"} => req[r].criteria = segment[s].criteria
       /\ req[r].pc = "cache" => req[r].count = Cardinality(Members(s))
  /\ GetSegmentByID(s) /\ InFlight(s) = {} => segment[s].cached = Cardinality(Members(s))

CachedInv == \A s \in DOMAIN segment \ excused : Cached(s)

\* Members are selected by the campaign and the criteria of the row, and by the users.
LEMMA SameMembers ==
  ASSUME NEW s, user' = user, segment'[s].campaign = segment[s].campaign,
         segment'[s].criteria = segment[s].criteria
  PROVE  Members(s)' = Members(s)
BY DEF Members, GetUsersMatching, Matches

\* A segment no request moves to or from.
LEMMA CachedKept ==
  ASSUME NEW s, Cached(s), user' = user, segment'[s].campaign = segment[s].campaign,
         segment'[s].criteria = segment[s].criteria,
         GetSegmentByID(s)' => GetSegmentByID(s) /\ segment'[s].cached = segment[s].cached,
         \A r \in Requests : /\ req'[r].segment = s <=> req[r].segment = s
                             /\ req[r].segment = s => req'[r] = req[r]
  PROVE  Cached(s)'
<1>1. InFlight(s)' = InFlight(s) /\ \A r \in InFlight(s) : req'[r] = req[r]
  BY DEF InFlight
<1>2. Members(s)' = Members(s)
  BY SameMembers
<1>3. \A r \in InFlight(s)' :
        /\ InFlight(s)' = {r}
        /\ req'[r].pc \in {"count", "cache"} => req'[r].criteria = segment'[s].criteria
        /\ req'[r].pc = "cache" => req'[r].count = Cardinality(Members(s)')
  BY <1>1, <1>2 DEF Cached
<1>4. GetSegmentByID(s)' /\ InFlight(s)' = {} => segment'[s].cached = Cardinality(Members(s)')
  BY <1>1, <1>2 DEF Cached
<1> QED
  BY <1>3, <1>4 DEF Cached

\* A segment only one request is at, after that request's step.
LEMMA CachedAlone ==
  ASSUME NEW r \in Requests, NEW s, InFlight(s)' = {r},
         req'[r].pc \in {"count", "cache"} => req'[r].criteria = segment'[s].criteria,
         req'[r].pc = "cache" => req'[r].count = Cardinality(Members(s)')
  PROVE  Cached(s)'
BY DEF Cached

\* Counts stay current through every step of requests, users and workers
\* (segments/processor/processor.go:56-105, 190-290, 384-420).
LEMMA CachedStep == Fits /\ CachedInv /\ [Next]_vars => CachedInv'
<1> SUFFICES ASSUME Fits, CachedInv, [Next]_vars PROVE CachedInv'
  OBVIOUS
<1>1. /\ req \in [Requests -> Request] /\ \A r \in Requests : RequestFits(req[r], segment)
      /\ segment \in Seq(SegmentRow) /\ DOMAIN segment = 1 .. Len(segment) /\ Len(segment) \in Nat
      /\ NoRow \notin DOMAIN segment
  BY DEF Fits, TypeOK, NoRow
<1>2. CASE UNCHANGED <<user, segment, req, excused>>
  <2> SUFFICES ASSUME NEW s \in DOMAIN segment' \ excused' PROVE Cached(s)'
    BY DEF CachedInv
  <2>1. Cached(s)
    BY <1>2 DEF CachedInv
  <2> QED
    BY <1>2, <2>1, CachedKept DEF GetSegmentByID
<1>3. CASE \E u \in Users, status \in Statuses \cup {Deleted} : UsersChange(u, status)
  BY <1>3 DEF UsersChange, CachedInv
<1>4. CASE \E s \in DOMAIN segment : HandleDeleteSegment(s)
  <2>1. PICK d \in DOMAIN segment : HandleDeleteSegment(d)
    BY <1>4
  <2>2. /\ segment' = [segment EXCEPT ![d].deleted = TRUE]
        /\ user' = user /\ req' = req /\ excused' = excused
    BY <2>1 DEF HandleDeleteSegment, DeleteSegment
  <2> SUFFICES ASSUME NEW s \in DOMAIN segment' \ excused' PROVE Cached(s)'
    BY DEF CachedInv
  <2>3. s \in DOMAIN segment /\ Cached(s) /\ segment[s] \in SegmentRow
    BY <1>1, <2>2 DEF CachedInv
  <2>4. segment'[s] = IF s = d THEN [segment[s] EXCEPT !.deleted = TRUE] ELSE segment[s]
    BY <1>1, <2>2, <2>3
  <2>5. /\ segment'[s].campaign = segment[s].campaign /\ segment'[s].criteria = segment[s].criteria
        /\ segment'[s].cached = segment[s].cached /\ (~segment'[s].deleted => ~segment[s].deleted)
    BY <2>3, <2>4 DEF SegmentRow
  <2>6. GetSegmentByID(s)' => GetSegmentByID(s) /\ segment'[s].cached = segment[s].cached
    BY <2>3, <2>5 DEF GetSegmentByID
  <2> QED
    BY <2>2, <2>3, <2>5, <2>6, CachedKept
<1>5. CASE \E r \in Requests : RequestStep(r)
  <2>1. PICK r \in Requests : RequestStep(r)
    BY <1>5
  <2> DEFINE q == req[r]
  <2>2. /\ req' = [req EXCEPT ![r] = req'[r]] /\ req'[r] \in Request /\ q \in Request
        /\ RequestFits(q, segment)
    BY <1>1, <2>1, NewRequest
  <2>3. \A t \in Requests \ {r} : req'[t] = req[t]
    BY <1>1, <2>2
  <2>4. user' = user /\ segment' \in Seq(SegmentRow)
    <3>1. user' = user
      BY <2>1 DEF RequestStep, HandleCreateSegment, HandleUpdateSegment, HandleRefreshSegmentCount, Begins,
         HandleCreateEmailBlast, CreateSegment, UpdateSegment, CountsUsers, UpdateSegmentCachedCount,
         CreateEmailBlast, RequestFails, rows
    <3> QED
      BY <3>1, NewSegments
  <2>5. \* A segment r is at neither before nor after its step.
        ASSUME NEW s \in DOMAIN segment \ excused, q.segment # s, req'[r].segment # s,
               segment'[s] = segment[s], s \in DOMAIN segment'
        PROVE  Cached(s)'
    <3>1. Cached(s)
      BY <2>5 DEF CachedInv
    <3>2. \A t \in Requests : /\ req'[t].segment = s <=> req[t].segment = s
                              /\ req[t].segment = s => req'[t] = req[t]
      BY <2>3, <2>5
    <3>3. GetSegmentByID(s)' => GetSegmentByID(s) /\ segment'[s].cached = segment[s].cached
      BY <2>5 DEF GetSegmentByID
    <3> QED
      BY <2>4, <2>5, <3>1, <3>2, <3>3, CachedKept
  <2>6. \* The segment r is at, alone, if it is not excused.
        ASSUME NEW s \in DOMAIN segment \ excused, q.segment = s
        PROVE  /\ Cached(s) /\ InFlight(s) = {r}
               /\ q.pc \in {"count", "cache"} => q.criteria = segment[s].criteria
               /\ q.pc = "cache" => q.count = Cardinality(Members(s))
               /\ InFlight(s)' = IF req'[r].segment = s THEN {r} ELSE {}
    <3>1. Cached(s) /\ r \in InFlight(s)
      BY <2>6 DEF CachedInv, InFlight
    <3>2. \A t \in Requests : req[t].segment = s => t = r
      BY <3>1 DEF Cached, InFlight
    <3>3. \A t \in Requests : req'[t].segment = s => t = r
      BY <2>3, <3>2
    <3> QED
      BY <3>1, <3>3 DEF Cached, InFlight
  <2> SUFFICES ASSUME NEW s \in DOMAIN segment' \ excused' PROVE Cached(s)'
    BY DEF CachedInv
  <2>7. CASE /\ UNCHANGED <<segment, excused>> /\ q.segment = NoRow /\ req'[r].segment = NoRow
    BY <1>1, <2>5, <2>7
  <2>8. CASE CreateSegment(r)
    <3>1. /\ q.segment = NoRow /\ excused' = excused /\ req'[r].segment = Len(segment) + 1
          /\ req'[r].pc = "count" /\ req'[r].criteria = q.criteria
      BY <1>1, <2>2, <2>8 DEF CreateSegment, RequestFits, OnSegment, Request
    <3>2. /\ DOMAIN segment' = DOMAIN segment \cup {Len(segment) + 1} /\ Len(segment) + 1 \notin DOMAIN segment
          /\ \A d \in DOMAIN segment : segment'[d] = segment[d]
          /\ segment'[Len(segment) + 1].criteria = q.criteria
      <4> DEFINE x == [campaign |-> q.campaign, criteria |-> q.criteria, cached |-> 0, deleted |-> FALSE]
      <4>1. segment' = Append(segment, x) /\ x.criteria = q.criteria /\ x \in SegmentRow
        BY <2>2, <2>8 DEF CreateSegment, RequestFits, Request, SegmentRow
      <4> HIDE DEF x
      <4> QED
        BY <1>1, <4>1, RowAdded
    <3>3. CASE s = Len(segment) + 1
      <4>1. \A t \in Requests : req[t].segment # s
        BY <1>1, <3>2, <3>3 DEF RequestFits, NoRow
      <4>2. InFlight(s)' = {r}
        BY <2>3, <3>1, <3>3, <4>1 DEF InFlight
      <4> QED
        BY <3>1, <3>2, <3>3, <4>2, CachedAlone
    <3>4. CASE s # Len(segment) + 1
      <4>1. s \in DOMAIN segment \ excused /\ segment'[s] = segment[s] /\ q.segment # s /\ req'[r].segment # s
        BY <1>1, <3>1, <3>2, <3>4
      <4> QED
        BY <2>5, <4>1
    <3> QED
      BY <3>3, <3>4
  <2>9. ASSUME NEW d \in DOMAIN segment, NEW pc \in {"update", "count"}, NEW c, Begins(r, d, pc, c),
               pc = "count" => c = segment[d].criteria
        PROVE  Cached(s)'
    <3>1. q.segment = NoRow /\ segment' = segment /\ Counts(d)
      BY <2>2, <2>9 DEF Begins, RequestFits, OnSegment, rows
    <3>2. req'[r].segment = d /\ req'[r].pc = pc /\ req'[r].criteria = c
      <4>1. req'[r] = [Idle EXCEPT !.pc = pc, !.segment = d, !.campaign = segment[d].campaign, !.criteria = c]
        BY <1>1, <2>9 DEF Begins
      <4> QED
        BY <4>1 DEF Idle
    <3>3. CASE s = d
      <4>1. InFlight(d) = {}
        BY <3>1, <3>3 DEF Counts
      <4>2. InFlight(s)' = {r}
        BY <2>3, <3>2, <3>3, <4>1 DEF InFlight
      <4> QED
        BY <2>9, <3>1, <3>2, <3>3, <4>2, CachedAlone
    <3>4. CASE s # d
      <4>1. s \in DOMAIN segment \ excused
        BY <3>1, <3>4 DEF Counts
      <4> QED
        BY <1>1, <2>5, <3>1, <3>2, <3>4, <4>1
    <3> QED
      BY <3>3, <3>4
  <2>10. CASE UpdateSegment(r)
    <3> DEFINE d == q.segment
    <3>1. q.pc = "update" /\ d \in DOMAIN segment /\ excused' = excused
      BY <2>2, <2>10 DEF UpdateSegment, RequestFits, OnSegment
    <3>2. CASE StoreCriteria(d, q.criteria) /\ req' = [req EXCEPT ![r].pc = "count"]
      <4>1. segment' = [segment EXCEPT ![d].criteria = q.criteria]
        BY <3>2 DEF StoreCriteria
      <4>2. req'[r].pc = "count" /\ req'[r].segment = d /\ req'[r].criteria = q.criteria
        BY <1>1, <2>2, <3>2 DEF Request
      <4>3. s \in DOMAIN segment \ excused /\ segment[s] \in SegmentRow
        BY <1>1, <3>1, <4>1
      <4>4. CASE s = d
        <5>1. segment'[s].criteria = q.criteria
          BY <1>1, <4>1, <4>3, <4>4 DEF SegmentRow
        <5> QED
          BY <2>6, <4>2, <4>3, <4>4, <5>1, CachedAlone
      <4>5. CASE s # d
        BY <1>1, <2>5, <4>1, <4>2, <4>3, <4>5
      <4> QED
        BY <4>4, <4>5
    <3>3. CASE ~GetSegmentByID(d) /\ Answers(r) /\ segment' = segment
      <4>1. req'[r].segment = NoRow
        BY <1>1, <3>3 DEF Answers, Idle
      <4>2. CASE s = d
        <5>1. InFlight(s)' = {} /\ ~GetSegmentByID(s)'
          BY <1>1, <2>6, <3>1, <3>3, <4>1, <4>2 DEF GetSegmentByID
        <5> QED
          BY <5>1 DEF Cached
      <4>3. CASE s # d
        BY <1>1, <2>5, <3>1, <3>3, <4>1, <4>3
      <4> QED
        BY <4>2, <4>3
    <3> QED
      BY <2>10, <3>2, <3>3 DEF UpdateSegment
  <2>11. CASE CountsUsers(r)
    <3> DEFINE d == q.segment
               n == CountUsersMatchingCriteria(q.campaign, q.criteria)
    <3>1. q.pc = "count" /\ d \in DOMAIN segment /\ q.campaign = segment[d].campaign
          /\ excused' = excused /\ segment' = segment
      BY <2>2, <2>11 DEF CountsUsers, RequestFits, OnSegment, rows
    <3>2. /\ req'[r].pc = "cache" /\ req'[r].segment = d /\ req'[r].criteria = q.criteria
          /\ req'[r].count = n
      <4>1. req'[r] = [q EXCEPT !.pc = "cache", !.count = n]
        BY <1>1, <2>11 DEF CountsUsers
      <4> HIDE DEF n
      <4> QED
        BY <2>2, <4>1 DEF Request
    <3>3. CASE s = d
      <4>1. q.criteria = segment[s].criteria /\ InFlight(s)' = {r}
        BY <2>6, <3>1, <3>2, <3>3
      <4>2. n = Cardinality(Members(s)) /\ Members(s)' = Members(s)
        BY <2>4, <3>1, <3>3, <4>1, SameMembers DEF Members, CountUsersMatchingCriteria
      <4> HIDE DEF n
      <4> QED
        BY <3>1, <3>2, <4>1, <4>2, CachedAlone
    <3>4. CASE s # d
      <4> HIDE DEF n
      <4> QED
        BY <2>5, <3>1, <3>2, <3>4
    <3> QED
      BY <3>3, <3>4
  <2>12. CASE UpdateSegmentCachedCount(r)
    <3> DEFINE d == q.segment
    <3>1. q.pc = "cache" /\ d \in DOMAIN segment /\ excused' = excused /\ req'[r].segment = NoRow
      BY <1>1, <2>2, <2>12 DEF UpdateSegmentCachedCount, RequestFits, OnSegment, Answers, Idle
    <3>2. segment' = IF GetSegmentByID(d) THEN [segment EXCEPT ![d].cached = q.count] ELSE segment
      BY <2>12 DEF UpdateSegmentCachedCount
    <3>3. s \in DOMAIN segment \ excused /\ segment[s] \in SegmentRow
      BY <1>1, <3>1, <3>2
    <3>4. CASE s = d
      <4>1. q.count = Cardinality(Members(s)) /\ InFlight(s)' = {}
        BY <1>1, <2>6, <3>1, <3>3, <3>4
      <4>2. /\ segment'[s].campaign = segment[s].campaign /\ segment'[s].criteria = segment[s].criteria
            /\ GetSegmentByID(s)' => segment'[s].cached = q.count
        <5>1. CASE GetSegmentByID(d)
          <6>1. segment'[s] = [segment[s] EXCEPT !.cached = q.count]
            BY <1>1, <3>2, <3>3, <3>4, <5>1
          <6> QED
            BY <3>3, <6>1 DEF SegmentRow
        <5>2. CASE ~GetSegmentByID(d)
          BY <3>2, <3>4, <5>2 DEF GetSegmentByID
        <5> QED
          BY <5>1, <5>2
      <4>3. Members(s)' = Members(s)
        BY <2>4, <4>2, SameMembers
      <4> QED
        BY <4>1, <4>2, <4>3 DEF Cached
    <3>5. CASE s # d
      <4>1. segment'[s] = segment[s]
        BY <1>1, <3>2, <3>3, <3>5
      <4> QED
        BY <1>1, <2>5, <3>1, <3>3, <3>5, <4>1
    <3> QED
      BY <3>4, <3>5
  <2>13. CASE RequestFails(r)
    <3>1. segment' = segment /\ excused' = excused \cup ({q.segment} \cap DOMAIN segment)
          /\ req'[r].segment = NoRow
      BY <1>1, <2>13 DEF RequestFails, rows, Answers, Idle
    <3> QED
      BY <1>1, <2>5, <3>1
  <2> QED
    <3>1. CASE \E campaign \in Campaigns, criteria \in Criteria : HandleCreateSegment(r, campaign, criteria)
      <4>1. PICK campaign, criteria : HandleCreateSegment(r, campaign, criteria)
        BY <3>1
      <4>2. req'[r] = [Idle EXCEPT !.pc = "create", !.campaign = campaign, !.criteria = criteria]
        BY <1>1, <4>1 DEF HandleCreateSegment
      <4>3. UNCHANGED <<segment, excused>> /\ q.segment = NoRow
        BY <2>2, <4>1 DEF HandleCreateSegment, rows, RequestFits, OnSegment
      <4> QED
        BY <2>7, <4>2, <4>3 DEF Idle
    <3>2. CASE \E of \in Lists : HandleCreateEmailBlast(r, of)
      <4>1. PICK of : HandleCreateEmailBlast(r, of)
        BY <3>2
      <4>2. req'[r] = [Idle EXCEPT !.pc = "blast", !.of = of]
        BY <1>1, <4>1 DEF HandleCreateEmailBlast
      <4>3. UNCHANGED <<segment, excused>> /\ q.segment = NoRow
        BY <2>2, <4>1 DEF HandleCreateEmailBlast, rows, RequestFits, OnSegment
      <4> QED
        BY <2>7, <4>2, <4>3 DEF Idle
    <3>3. CASE CreateEmailBlast(r)
      <4>1. UNCHANGED <<segment, excused>> /\ q.segment = NoRow /\ req'[r] = Idle
        BY <1>1, <2>2, <3>3 DEF CreateEmailBlast, RequestFits, OnSegment, Answers
      <4> QED
        BY <2>7, <4>1 DEF Idle
    <3>4. CASE \E d \in DOMAIN segment, criteria \in Criteria : HandleUpdateSegment(r, d, criteria)
      BY <2>9, <3>4 DEF HandleUpdateSegment
    <3>5. CASE \E d \in DOMAIN segment : HandleRefreshSegmentCount(r, d)
      BY <2>9, <3>5 DEF HandleRefreshSegmentCount
    <3> QED
      BY <2>1, <2>8, <2>10, <2>11, <2>12, <2>13, <3>1, <3>2, <3>3, <3>4, <3>5 DEF RequestStep
<1>6. \/ UNCHANGED <<user, segment, req, excused>>
      \/ \E u \in Users, status \in Statuses \cup {Deleted} : UsersChange(u, status)
      \/ \E s \in DOMAIN segment : HandleDeleteSegment(s)
      \/ \E r \in Requests : RequestStep(r)
  BY NextSteps DEF OtherStep, SendBlastNow, WorkerStep, HandleBlastStarted, ReadsSegment, GetUsersForBlast,
                   CreateBlastRecipients, UpdateTotalRecipients, FailBlast, Crash, rows, vars
<1> QED
  BY <1>2, <1>3, <1>4, <1>5, <1>6

\* When no request is at a segment, the count shown with it is that of the users its
\* criteria select, unless users changed since, a statement failed or requests for it
\* overlapped (segments/processor/processor.go, UpdateSegment and RefreshSegmentCount).
THEOREM CountsStayCurrent == Spec => []CachedCountCurrent
<1>1. Init => CachedInv
  BY DEF Init, CachedInv
<1>2. CachedInv => CachedCountCurrent
  BY DEF CachedInv, Cached, CachedCountCurrent
<1> QED
  BY <1>1, <1>2, SegmentsTypeCorrect, CachedStep, PTL DEF Spec

-----------------------------------------------------------------------------
(* Recipients.                                                             *)

Apart(U) == \A u, v \in U : Address[u] = Address[v] => u = v
At(w, b) == job[w].pc # "idle" /\ job[w].blast = b

\* A blast whose start was delivered once is with one worker at most; until that worker
\* has stored what it chose it has no recipients, and its total is stored last.
Started(b) ==
  /\ pending[b] \in {0, 1}
  /\ pending[b] = 1 \/ blast[b].status = "draft" =>
       blast[b].recipients = {} /\ \A w \in Workers : ~At(w, b)
  /\ blast[b].status \in {"draft", "sending"} => pending[b] = 0
  /\ blast[b].status = "sending" =>
       blast[b].total = Cardinality(blast[b].recipients) /\ \A w \in Workers : ~At(w, b)
  /\ \A w \in Workers : At(w, b) =>
       /\ \A v \in Workers : At(v, b) => v = w
       /\ blast[b].recipients = IF job[w].pc = "total" THEN job[w].chosen ELSE {}
  /\ Apart(blast[b].recipients)

ChosenInv == \A w \in Workers : Apart(job[w].chosen)
StartedInv == \A b \in DOMAIN blast \ rerun : Started(b)

\* Users of one segment have different addresses, and the later ones are unseen.
LEMMA UnseenApart ==
  ASSUME NEW U \in SUBSET Users, Apart(U), NEW k, NEW c
  PROVE  Apart(U \cup Unseen(U, GetUsersMatching(k, c)))
<1>1. Apart(Unseen(U, GetUsersMatching(k, c)))
  BY SegmentsAssumption DEF Apart, Unseen, GetUsersMatching, Matches
<1> QED
  BY <1>1 DEF Apart, Unseen

\* A worker's own step: what it starts from, and what it leaves the others.
LEMMA OneWorker ==
  ASSUME Fits, NEW w \in Workers, WorkerStep(w)
  PROVE  /\ job \in [Workers -> Task] /\ job[w] \in Task
         /\ \A v \in Workers \ {w} : job'[v] = job[v]
         /\ job[w].pc # "idle" => job[w].blast \in DOMAIN blast /\ blast[job[w].blast] \in BlastRow
         /\ blast \in Seq(BlastRow) /\ DOMAIN pending = DOMAIN blast /\ pending \in Seq(Nat)
         /\ user' = user /\ segment' = segment
<1>1. user' = user /\ segment' = segment
  BY DEF WorkerStep, HandleBlastStarted, ReadsSegment, GetUsersForBlast, CreateBlastRecipients,
         UpdateTotalRecipients, FailBlast, Crash, rows
<1> QED
  BY <1>1, NewTask DEF Fits, TypeOK, JobFits

\* No worker ever holds two users of one address (store/email_blast.go,
\* CreateBlastRecipientsFromMultipleSegments).
LEMMA ChosenStep == Fits /\ ChosenInv /\ [Next]_vars => ChosenInv'
<1> SUFFICES ASSUME Fits, ChosenInv, [Next]_vars, NEW v \in Workers PROVE Apart(job[v].chosen)'
  BY DEF ChosenInv
<1>1. Apart(job[v].chosen)
  BY DEF ChosenInv
<1>2. CASE OtherStep \/ (\E r \in Requests : RequestStep(r)) \/ UNCHANGED vars
  BY <1>1, <1>2, JobsKept DEF TaskKept, Apart
<1>3. CASE \E w \in Workers : WorkerStep(w)
  <2>1. PICK w \in Workers : WorkerStep(w)
    BY <1>3
  <2>2. CASE v # w
    BY <1>1, <2>1, <2>2, OneWorker DEF Apart
  <2>3. CASE v = w /\ GetUsersForBlast(w)
    <3> DEFINE k == segment[Of(w)[job[w].at]].campaign
               U == job[w].chosen \cup Unseen(job[w].chosen, GetUsersMatching(k, job[w].criteria))
    <3>1. job[w].chosen \in SUBSET Users /\ job[w] \in Task
      BY <2>1, OneWorker DEF Task
    <3>2. Apart(U)
      BY <1>1, <2>3, <3>1, UnseenApart
    <3>3. job'[w] = [job[w] EXCEPT !.pc = AfterUsers(w), !.at = job[w].at + 1, !.chosen = U]
      BY <2>1, <2>3, OneWorker DEF GetUsersForBlast
    <3> HIDE DEF U
    <3>4. job'[w].chosen = U
      BY <3>1, <3>3 DEF Task
    <3> QED
      BY <2>3, <3>2, <3>4 DEF Apart
  <2>4. CASE v = w /\ ~GetUsersForBlast(w)
    <3>1. job'[w].chosen \in {{}, job[w].chosen}
      <4>1. job \in [Workers -> Task] /\ job[w] \in Task
        BY <2>1, OneWorker
      <4>2. CASE job'[w] = job[w]
        BY <4>2
      <4>3. CASE Ends(w)
        BY <4>1, <4>3 DEF Ends, IdleJob
      <4>4. ASSUME NEW b \in DOMAIN blast, HandleBlastStarted(w, b), job' # job
            PROVE  job'[w].chosen = {}
        BY <4>1, <4>4 DEF HandleBlastStarted, IdleJob
      <4>5. CASE ReadsSegment(w) /\ ~Ends(w)
        <5> DEFINE c == segment[Of(w)[job[w].at]].criteria
        <5>1. job'[w] = [job[w] EXCEPT !.pc = "users", !.criteria = c]
          BY <4>1, <4>5 DEF ReadsSegment
        <5> QED
          BY <4>1, <5>1 DEF Task
      <4>6. CASE CreateBlastRecipients(w) /\ ~Ends(w)
        <5>1. job'[w] = [job[w] EXCEPT !.pc = "total"]
          BY <4>1, <4>6 DEF CreateBlastRecipients
        <5> QED
          BY <4>1, <5>1 DEF Task
      <4> QED
        BY <2>1, <2>4, <4>2, <4>3, <4>4, <4>5, <4>6
          DEF WorkerStep, UpdateTotalRecipients, FailBlast, Crash
    <3> QED
      BY <1>1, <2>4, <3>1 DEF Apart
  <2> QED
    BY <2>2, <2>3, <2>4
<1> QED
  BY <1>2, <1>3, NextSteps

\* A blast no worker starts, ends or stores for.
LEMMA StartedKept ==
  ASSUME NEW b, Started(b), blast'[b] = blast[b], pending'[b] = pending[b],
         \A w \in Workers :
           /\ At(w, b)' <=> At(w, b)
           /\ At(w, b) => /\ job'[w].pc = "total" <=> job[w].pc = "total"
                          /\ job[w].pc = "total" => job'[w].chosen = job[w].chosen
  PROVE  Started(b)'
<1>1. \A w \in Workers : At(w, b)' =>
        /\ \A v \in Workers : At(v, b)' => v = w
        /\ blast'[b].recipients = IF job'[w].pc = "total" THEN job'[w].chosen ELSE {}
  BY DEF Started
<1>2. Apart(blast[b].recipients)'
  BY DEF Started, Apart
<1> QED
  BY <1>1, <1>2 DEF Started

\* Steps that leave blasts and their starts alone.
LEMMA StartedSurroundings ==
  ASSUME Fits, OtherStep \/ (\E r \in Requests : RequestStep(r)) \/ UNCHANGED vars,
         NEW b \in DOMAIN blast, Started(b), blast'[b] = blast[b], pending'[b] = pending[b]
  PROVE  Started(b)'
<1>1. \A w \in Workers : TaskKept(w)
  BY JobsKept
<1> QED
  BY <1>1, StartedKept DEF TaskKept, At

\* Blasts started once stay with one worker, and get its choice whole
\* (workers/blast/processor.go, handleBlastStarted).
LEMMA StartedStep == Fits /\ StartedInv /\ ChosenInv /\ [Next]_vars => StartedInv'
<1> SUFFICES ASSUME Fits, StartedInv, ChosenInv, [Next]_vars, NEW b \in DOMAIN blast' \ rerun'
             PROVE  Started(b)'
  BY DEF StartedInv
<1>1. /\ blast \in Seq(BlastRow) /\ pending \in Seq(Nat) /\ Len(pending) = Len(blast)
      /\ DOMAIN blast = 1 .. Len(blast) /\ DOMAIN pending = DOMAIN blast /\ Len(blast) \in Nat
      /\ job \in [Workers -> Task] /\ \A w \in Workers : JobFits(job[w], blast)
  BY DEF Fits, TypeOK
<1>2. rerun \subseteq rerun'
  BY NextSteps DEF OtherStep, UsersChange, HandleDeleteSegment, SendBlastNow, RequestStep,
         HandleCreateSegment, HandleUpdateSegment, HandleRefreshSegmentCount, Begins,
         HandleCreateEmailBlast, CreateSegment, UpdateSegment, CountsUsers, UpdateSegmentCachedCount,
         CreateEmailBlast, RequestFails, WorkerStep, HandleBlastStarted, ReadsSegment, GetUsersForBlast,
         CreateBlastRecipients, UpdateTotalRecipients, FailBlast, Crash, vars
<1>3. b \in DOMAIN blast => Started(b)
  BY <1>2 DEF StartedInv
<1>4. CASE \E r \in Requests : CreateEmailBlast(r)
  <2>1. PICK r \in Requests : CreateEmailBlast(r)
    BY <1>4
  <2> DEFINE x == [of |-> req[r].of, status |-> "draft", recipients |-> {}, total |-> 0]
  <2>2. blast' = Append(blast, x) /\ pending' = Append(pending, 0) /\ job' = job
    BY <2>1 DEF CreateEmailBlast
  <2>3. x.status = "draft" /\ x.recipients = {}
    OBVIOUS
  <2> HIDE DEF x
  <2>4. CASE b \in DOMAIN blast
    <3>1. blast'[b] = blast[b] /\ pending'[b] = pending[b]
      BY <1>1, <2>2, <2>4
    <3> QED
      BY <1>3, <2>1, <2>4, <3>1, StartedSurroundings DEF RequestStep
  <2>5. CASE b \notin DOMAIN blast
    <3>1. blast'[b] = x /\ pending'[b] = 0
      BY <1>1, <2>2, <2>5
    <3>2. \A w \in Workers : ~At(w, b)'
      BY <1>1, <2>2, <2>5 DEF At, JobFits
    <3> QED
      BY <2>3, <3>1, <3>2 DEF Started, Apart
  <2> QED
    BY <2>4, <2>5
<1>5. CASE \E d \in DOMAIN blast : SendBlastNow(d)
  <2>1. PICK d \in DOMAIN blast : SendBlastNow(d)
    BY <1>5
  <2>2. /\ blast[d].status = "draft" /\ blast' = [blast EXCEPT ![d].status = "processing"]
        /\ pending' = [pending EXCEPT ![d] = pending[d] + 1] /\ job' = job
    BY <2>1 DEF SendBlastNow
  <2>3. b \in DOMAIN blast
    BY <1>1, <2>2
  <2>4. CASE b # d
    BY <1>1, <1>3, <2>1, <2>2, <2>3, <2>4, StartedSurroundings DEF OtherStep
  <2>5. CASE b = d
    <3>1. blast[b] \in BlastRow /\ blast'[b] = [blast[b] EXCEPT !.status = "processing"]
      BY <1>1, <2>2, <2>3, <2>5
    <3>2. blast'[b].status = "processing" /\ blast'[b].recipients = blast[b].recipients
      BY <3>1 DEF BlastRow
    <3>3. pending[b] = 0 /\ blast[b].recipients = {} /\ \A w \in Workers : ~At(w, b)
      BY <1>3, <2>2, <2>3, <2>5 DEF Started
    <3>4. pending'[b] = 1
      BY <1>1, <2>2, <2>3, <2>5, <3>3
    <3>5. \A w \in Workers : ~At(w, b)'
      BY <2>2, <3>3 DEF At
    <3> QED
      BY <3>2, <3>3, <3>4, <3>5 DEF Started, Apart
  <2> QED
    BY <2>4, <2>5
<1>6. CASE UNCHANGED <<blast, pending>> /\ (OtherStep \/ (\E r \in Requests : RequestStep(r)) \/ UNCHANGED vars)
  BY <1>3, <1>6, StartedSurroundings
<1>7. CASE \E w \in Workers : WorkerStep(w)
  <2>1. PICK w \in Workers : WorkerStep(w)
    BY <1>7
  <2> DEFINE j == job[w]
             d == j.blast
  <2>2. /\ j \in Task /\ \A v \in Workers \ {w} : job'[v] = job[v]
        /\ j.pc # "idle" => d \in DOMAIN blast /\ blast[d] \in BlastRow
    BY <2>1, OneWorker
  <2>3. b \in DOMAIN blast /\ Started(b) /\ blast[b] \in BlastRow
    <3>1. DOMAIN blast' = DOMAIN blast
      BY <2>1 DEF WorkerStep, HandleBlastStarted, ReadsSegment, GetUsersForBlast, CreateBlastRecipients,
                  UpdateTotalRecipients, FailBlast, Crash, SetStatus, rows
    <3> QED
      BY <1>1, <1>3, <3>1
  <2>4. \A v \in Workers \ {w} : At(v, b)' <=> At(v, b)
    BY <2>2 DEF At
  <2>5. \* A blast the worker is not at, before and after.
        ASSUME ~At(w, b), ~At(w, b)', blast'[b] = blast[b], pending'[b] = pending[b]
        PROVE  Started(b)'
    BY <2>2, <2>3, <2>4, <2>5, StartedKept
  <2>6. \* The worker goes on with the blast.
        ASSUME At(w, b), At(w, b)', j.pc # "total", job'[w].pc # "total", blast' = blast, pending' = pending
        PROVE  Started(b)'
    BY <2>2, <2>3, <2>4, <2>6, StartedKept
  <2>7. \* The worker is done with the blast.
        ASSUME At(w, b), Ends(w), pending' = pending,
               blast'[b].recipients = blast[b].recipients, blast'[b].status # "draft",
               blast'[b].status = "sending" => blast'[b].total = Cardinality(blast[b].recipients)
        PROVE  Started(b)'
    <3>1. ~At(w, b)'
      BY <1>1, <2>7 DEF Ends, At, IdleJob
    <3>2. \A v \in Workers : ~At(v, b)'
      BY <2>3, <2>4, <2>7, <3>1 DEF Started
    <3>3. pending[b] = 0
      BY <2>3, <2>7 DEF Started
    <3> QED
      BY <2>3, <2>7, <3>2, <3>3 DEF Started, Apart
  <2>8. \* A status is set at the end.
        ASSUME NEW status \in {"failed", "completed"}, j.pc # "idle", SetStatus(w, status), Ends(w),
               pending' = pending
        PROVE  Started(b)'
    <3>1. blast' = [blast EXCEPT ![d].status = status]
      BY <2>8 DEF SetStatus
    <3>2. ~At(w, b)'
      BY <1>1, <2>8 DEF Ends, At, IdleJob
    <3>3. CASE b = d
      <4>1. blast'[b] = [blast[b] EXCEPT !.status = status]
        BY <1>1, <2>3, <3>1, <3>3
      <4>2. blast'[b].status = status /\ blast'[b].recipients = blast[b].recipients
        BY <2>3, <4>1 DEF BlastRow
      <4>3. At(w, b)
        BY <2>8, <3>3 DEF At
      <4> QED
        BY <2>7, <2>8, <4>2, <4>3
    <3>4. CASE b # d
      <4>1. blast'[b] = blast[b] /\ ~At(w, b)
        BY <1>1, <2>3, <3>1, <3>4 DEF At
      <4> QED
        BY <2>5, <2>8, <3>2, <4>1
    <3> QED
      BY <3>3, <3>4
  <2>9. ASSUME NEW e \in DOMAIN blast, HandleBlastStarted(w, e) PROVE Started(b)'
    <3>1. /\ j.pc = "idle" /\ pending[e] > 0 /\ pending' = [pending EXCEPT ![e] = pending[e] - 1]
          /\ blast' = blast
      BY <2>9 DEF HandleBlastStarted
    <3>2. ~At(w, b)
      BY <3>1 DEF At
    <3>3. CASE b # e
      <4>1. ~At(w, b)'
        <5>1. CASE job' = job
          BY <3>2, <5>1 DEF At
        <5>2. CASE job' = [job EXCEPT ![w] = [IdleJob EXCEPT !.pc = "segment", !.blast = e]]
          <6>1. job'[w] = [IdleJob EXCEPT !.pc = "segment", !.blast = e]
            BY <1>1, <5>2
          <6> QED
            BY <3>3, <6>1 DEF At, IdleJob
        <5> QED
          BY <2>9, <5>1, <5>2 DEF HandleBlastStarted
      <4> QED
        BY <1>1, <2>3, <2>5, <3>1, <3>2, <3>3, <4>1
    <3>4. CASE b = e
      <4>1. /\ pending[b] = 1 /\ blast[b].recipients = {} /\ \A v \in Workers : ~At(v, b)
            /\ blast[b].status \notin {"draft", "sending"}
        BY <1>1, <2>3, <3>1, <3>4 DEF Started
      <4>2. pending'[b] = 0
        BY <1>1, <2>3, <3>1, <3>4, <4>1
      <4>3. job'[w].pc # "total"
        <5>1. CASE job' = job
          BY <3>1, <5>1
        <5>2. CASE job' = [job EXCEPT ![w] = [IdleJob EXCEPT !.pc = "segment", !.blast = e]]
          <6>1. job'[w] = [IdleJob EXCEPT !.pc = "segment", !.blast = e]
            BY <1>1, <5>2
          <6> QED
            BY <6>1 DEF IdleJob
        <5> QED
          BY <2>9, <5>1, <5>2 DEF HandleBlastStarted
      <4>4. \A v \in Workers : At(v, b)' => v = w
        BY <2>4, <4>1
      <4> QED
        BY <3>1, <4>1, <4>2, <4>3, <4>4 DEF Started, Apart
    <3> QED
      BY <3>3, <3>4
  <2>10. CASE ReadsSegment(w)
    <3>1. CASE ~GetSegmentByID(Of(w)[j.at])
      BY <2>8, <2>10, <3>1 DEF ReadsSegment
    <3>2. CASE GetSegmentByID(Of(w)[j.at])
      <4> DEFINE c == segment[Of(w)[j.at]].criteria
      <4>1. j.pc = "segment" /\ blast' = blast /\ pending' = pending
        BY <2>10, <3>2 DEF ReadsSegment
      <4>2. job'[w] = [j EXCEPT !.pc = "users", !.criteria = c]
        BY <1>1, <2>10, <3>2 DEF ReadsSegment
      <4> HIDE DEF c
      <4>3. job'[w].pc = "users" /\ job'[w].blast = j.blast
        BY <2>2, <4>2 DEF Task
      <4>4. At(w, b)' <=> At(w, b)
        BY <4>1, <4>3 DEF At
      <4> QED
        BY <2>5, <2>6, <4>1, <4>3, <4>4
    <3> QED
      BY <3>1, <3>2
  <2>11. CASE GetUsersForBlast(w)
    <3> DEFINE users == GetUsersMatching(segment[Of(w)[j.at]].campaign, j.criteria)
               U == j.chosen \cup Unseen(j.chosen, users)
    <3>1. j.pc = "users" /\ blast' = blast /\ pending' = pending
      BY <2>11 DEF GetUsersForBlast, rows
    <3>2. job'[w] = [j EXCEPT !.pc = AfterUsers(w), !.at = j.at + 1, !.chosen = U]
      BY <1>1, <2>11 DEF GetUsersForBlast
    <3> HIDE DEF U
    <3>3. job'[w].pc = AfterUsers(w) /\ job'[w].blast = j.blast
      BY <2>2, <3>2 DEF Task
    <3>4. job'[w].pc \in {"segment", "insert"}
      BY <3>3 DEF AfterUsers
    <3>5. At(w, b)' <=> At(w, b)
      BY <3>1, <3>3, <3>4 DEF At
    <3> QED
      BY <2>5, <2>6, <3>1, <3>4, <3>5
  <2>12. CASE CreateBlastRecipients(w)
    <3>1. CASE j.chosen = {}
      BY <2>8, <2>12, <3>1 DEF CreateBlastRecipients
    <3>2. CASE j.chosen # {}
      <4>1. /\ j.pc = "insert" /\ pending' = pending /\ job'[w] = [j EXCEPT !.pc = "total"]
            /\ blast' = [blast EXCEPT ![d].recipients = blast[d].recipients \cup j.chosen]
        BY <1>1, <2>12, <3>2 DEF CreateBlastRecipients
      <4>2. job'[w].pc = "total" /\ job'[w].blast = d /\ job'[w].chosen = j.chosen
        BY <2>2, <4>1 DEF Task
      <4>3. CASE b = d
        <5>1. blast'[b] = [blast[b] EXCEPT !.recipients = blast[d].recipients \cup j.chosen]
          BY <1>1, <2>3, <4>1, <4>3
        <5>2. /\ blast'[b].recipients = blast[b].recipients \cup j.chosen
              /\ blast'[b].status = blast[b].status
          BY <2>3, <4>3, <5>1 DEF BlastRow
        <5>3. At(w, b) /\ At(w, b)'
          BY <4>1, <4>2, <4>3 DEF At
        <5>4. /\ blast[b].recipients = {} /\ pending[b] = 0
              /\ blast[b].status \notin {"draft", "sending"} /\ \A v \in Workers : At(v, b) => v = w
          BY <2>3, <4>1, <5>3 DEF Started
        <5>5. \A v \in Workers : At(v, b)' => v = w
          BY <2>4, <5>4
        <5>6. Apart(j.chosen)
          BY DEF ChosenInv
        <5>7. blast'[b].recipients = j.chosen /\ pending'[b] = 0 /\ blast'[b].status \notin {"draft", "sending"}
          BY <4>1, <5>2, <5>4
        <5>8. \A v \in Workers : At(v, b)' =>
                /\ \A x \in Workers : At(x, b)' => x = v
                /\ blast'[b].recipients = IF job'[v].pc = "total" THEN job'[v].chosen ELSE {}
          BY <4>2, <5>5, <5>7
        <5>9. Apart(blast[b].recipients)'
          BY <5>6, <5>7 DEF Apart
        <5> QED
          BY <5>7, <5>8, <5>9 DEF Started
      <4>4. CASE b # d
        <5>1. blast'[b] = blast[b] /\ ~At(w, b) /\ ~At(w, b)'
          BY <1>1, <2>3, <4>1, <4>2, <4>4 DEF At
        <5> QED
          BY <2>5, <4>1, <5>1
      <4> QED
        BY <4>3, <4>4
    <3> QED
      BY <3>1, <3>2
  <2>13. CASE UpdateTotalRecipients(w)
    <3>1. /\ j.pc = "total" /\ Ends(w) /\ pending' = pending
          /\ blast' = [blast EXCEPT ![d].total = Cardinality(j.chosen), ![d].status = "sending"]
      BY <2>13 DEF UpdateTotalRecipients
    <3>2. ~At(w, b)'
      BY <1>1, <3>1 DEF Ends, At, IdleJob
    <3>3. CASE b = d
      <4>1. blast'[b] = [blast[b] EXCEPT !.total = Cardinality(j.chosen), !.status = "sending"]
        BY <1>1, <2>3, <3>1, <3>3
      <4>2. /\ blast'[b].status = "sending" /\ blast'[b].recipients = blast[b].recipients
            /\ blast'[b].total = Cardinality(j.chosen)
        BY <2>3, <4>1 DEF BlastRow
      <4>3. At(w, b)
        BY <3>1, <3>3 DEF At
      <4>4. blast[b].recipients = j.chosen
        BY <2>3, <3>1, <4>3 DEF Started
      <4> QED
        BY <2>7, <3>1, <4>2, <4>3, <4>4
    <3>4. CASE b # d
      <4>1. blast'[b] = blast[b] /\ ~At(w, b)
        BY <1>1, <2>3, <3>1, <3>4 DEF At
      <4> QED
        BY <2>5, <3>1, <3>2, <4>1
    <3> QED
      BY <3>3, <3>4
  <2>14. CASE FailBlast(w)
    BY <2>8, <2>14 DEF FailBlast
  <2>15. CASE Crash(w)
    <3>1. /\ j.pc # "idle" /\ blast' = blast /\ Ends(w) /\ rerun' = rerun \cup {d}
          /\ pending' = [pending EXCEPT ![d] = pending[d] + 1]
      BY <2>15 DEF Crash
    <3>2. b # d
      BY <3>1
    <3>3. ~At(w, b) /\ ~At(w, b)' /\ pending'[b] = pending[b]
      BY <1>1, <2>3, <3>1, <3>2 DEF Ends, At, IdleJob
    <3> QED
      BY <2>5, <3>1, <3>3
  <2> QED
    BY <2>1, <2>9, <2>10, <2>11, <2>12, <2>13, <2>14, <2>15 DEF WorkerStep
<1>8. \/ \E r \in Requests : CreateEmailBlast(r)
      \/ \E d \in DOMAIN blast : SendBlastNow(d)
      \/ UNCHANGED <<blast, pending>> /\ (OtherStep \/ (\E r \in Requests : RequestStep(r)) \/ UNCHANGED vars)
      \/ \E w \in Workers : WorkerStep(w)
  <2>1. CASE OtherStep
    BY <2>1 DEF OtherStep, UsersChange, HandleDeleteSegment
  <2>2. CASE \E r \in Requests : RequestStep(r)
    BY <2>2 DEF RequestStep, HandleCreateSegment, HandleUpdateSegment, HandleRefreshSegmentCount, Begins,
         HandleCreateEmailBlast, CreateSegment, UpdateSegment, CountsUsers, UpdateSegmentCachedCount,
         RequestFails, rows
  <2>3. CASE UNCHANGED vars
    BY <2>3 DEF vars, rows
  <2> QED
    BY <2>1, <2>2, <2>3, NextSteps
<1> QED
  BY <1>4, <1>5, <1>6, <1>7, <1>8

\* A blast that was started once has one recipient per address, and its total is their
\* number (store/email_blast.go, CreateBlastRecipientsFromMultipleSegments;
\* workers/blast/processor.go, handleBlastStarted).
THEOREM RecipientsStayApart == Spec => []OneRecipientPerAddress
<1>1. Init => StartedInv /\ ChosenInv
  BY DEF Init, StartedInv, ChosenInv, IdleJob, Apart
<1>2. StartedInv => OneRecipientPerAddress
  BY DEF StartedInv, Started, OneRecipientPerAddress, Apart
<1> QED
  BY <1>1, <1>2, SegmentsTypeCorrect, StartedStep, ChosenStep, PTL DEF Spec

-----------------------------------------------------------------------------
(* Users reached.                                                          *)

\* The segments a worker has read.
Seen(w) == {Of(w)[i] : i \in 1 .. job[w].at - 1}

\* Users of the segments read that did not change are chosen, or somebody of their address is.
Reached(w) ==
  \A u \in Users \ job[w].moved, s \in Seen(w) \ job[w].touched :
    u \in Members(s) => \E v \in job[w].chosen : Address[v] = Address[u]

\* Users chosen that did not change are of a segment read, unless that has changed.
Chosen(w) ==
  \A u \in job[w].chosen \ job[w].moved : \E s \in Seen(w) : s \in job[w].touched \/ u \in Members(s)

\* Between a segment and its users: the criteria are the segment's, unless it has changed.
Selects(w) ==
  job[w].pc = "users" =>
    LET s == Of(w)[job[w].at] IN s \in job[w].touched \/ job[w].criteria = segment[s].criteria

Reads(w) == job[w].pc \in {"segment", "users", "insert"} => Reached(w) /\ Chosen(w) /\ Selects(w)
ReadsInv == \A w \in Workers : Reads(w)

\* What a worker is at is of a blast there is, and its segments are there.
LEMMA AtSegments ==
  ASSUME Fits, NEW w \in Workers, job[w].pc # "idle"
  PROVE  /\ job[w] \in Task /\ job[w].blast \in DOMAIN blast
         /\ Of(w) \in Seq(Nat) /\ \A i \in DOMAIN Of(w) : Of(w)[i] \in DOMAIN segment
         /\ job[w].pc \in {"segment", "users"} => job[w].at \in 1 .. Len(Of(w))
         /\ job[w].pc = "insert" => job[w].at = Len(Of(w)) + 1
         /\ job[w].pc \in {"segment", "users", "insert"} => Seen(w) \subseteq DOMAIN segment
<1>1. /\ job[w] \in Task /\ job[w].blast \in DOMAIN blast /\ JobFits(job[w], blast)
      /\ blast[job[w].blast] \in BlastRow /\ BlastFits(blast[job[w].blast], segment)
  BY DEF Fits, TypeOK, JobFits
<1>2. Of(w) \in Seq(Nat) /\ \A i \in DOMAIN Of(w) : Of(w)[i] \in DOMAIN segment
  BY <1>1 DEF Of, BlastRow, BlastFits
<1>3. /\ job[w].pc \in {"segment", "users"} => job[w].at \in 1 .. Len(Of(w))
      /\ job[w].pc = "insert" => job[w].at = Len(Of(w)) + 1
  BY <1>1 DEF Of, JobFits
<1>4. ASSUME job[w].pc \in {"segment", "users", "insert"}, NEW i \in 1 .. job[w].at - 1
      PROVE  Of(w)[i] \in DOMAIN segment
  <2>1. i \in DOMAIN Of(w)
    BY <1>2, <1>3, <1>4
  <2> QED
    BY <1>2, <2>1
<1> QED
  BY <1>1, <1>2, <1>3, <1>4 DEF Seen

\* Whatever else moves, a worker's reading stays right.
LEMMA ReadsKept ==
  ASSUME Fits, [Next]_vars, NEW w \in Workers, Reads(w), TaskKept(w), NEW U, NEW S, Marked(w, U, S),
         \A u \in Users \ U : user'[u] = user[u],
         \A s \in DOMAIN segment \ S : segment'[s].criteria = segment[s].criteria
  PROVE  Reads(w)'
<1> SUFFICES ASSUME job'[w].pc \in {"segment", "users", "insert"}
             PROVE  Reached(w)' /\ Chosen(w)' /\ Selects(w)'
  BY DEF Reads
<1>1. /\ job[w].pc \in {"segment", "users", "insert"} /\ job'[w].pc = job[w].pc
      /\ job'[w].blast = job[w].blast /\ job'[w].at = job[w].at /\ job'[w].criteria = job[w].criteria
      /\ job'[w].chosen = job[w].chosen
      /\ job'[w].moved = job[w].moved \cup U /\ job'[w].touched = job[w].touched \cup S
  BY DEF TaskKept, Marked
<1>2. Of(w)' = Of(w)
  BY <1>1, AtSegments, NewBlasts DEF Of, BlastsGrow
<1>3. Seen(w)' = Seen(w) /\ Seen(w) \subseteq DOMAIN segment /\ job[w].chosen \subseteq Users
  BY <1>1, <1>2, AtSegments DEF Seen, Task
<1>4. Reached(w) /\ Chosen(w) /\ Selects(w)
  BY <1>1 DEF Reads
<1>5. ASSUME NEW u \in Users \ U, NEW s \in DOMAIN segment \ S
      PROVE  u \in Members(s)' <=> u \in Members(s)
  BY <1>5, NewSegments DEF Members, GetUsersMatching, Matches
<1>6. Reached(w)'
  BY <1>1, <1>3, <1>4, <1>5 DEF Reached
<1>7. Chosen(w)'
  <2> SUFFICES ASSUME NEW u \in job[w].chosen \ (job[w].moved \cup U)
               PROVE  \E s \in Seen(w) : s \in job[w].touched \cup S \/ u \in Members(s)'
    BY <1>1, <1>3 DEF Chosen
  <2>1. PICK s \in Seen(w) : s \in job[w].touched \/ u \in Members(s)
    BY <1>4 DEF Chosen
  <2> QED
    BY <1>3, <1>5, <2>1
<1>8. Selects(w)'
  <2> SUFFICES ASSUME job[w].pc = "users"
               PROVE  \/ Of(w)[job[w].at] \in job[w].touched \cup S
                      \/ job[w].criteria = segment'[Of(w)[job[w].at]].criteria
    BY <1>1, <1>2 DEF Selects
  <2>1. Of(w)[job[w].at] \in DOMAIN segment
    BY AtSegments
  <2> QED
    BY <1>4, <2>1 DEF Selects
<1> QED
  BY <1>6, <1>7, <1>8

\* A worker takes the users of one more segment.
LEMMA ReadsUsers ==
  ASSUME Fits, NEW w \in Workers, Reads(w), GetUsersForBlast(w)
  PROVE  Reads(w)'
<1> DEFINE j == job[w]
           s == Of(w)[j.at]
           users == GetUsersMatching(segment[s].campaign, j.criteria)
           new == Unseen(j.chosen, users)
<1>1. /\ j.pc = "users" /\ user' = user /\ segment' = segment /\ blast' = blast
      /\ job' = [job EXCEPT ![w].pc = AfterUsers(w), ![w].at = j.at + 1, ![w].chosen = j.chosen \cup new]
  BY DEF GetUsersForBlast, rows
<1>2. j \in Task /\ j.at \in 1 .. Len(Of(w)) /\ Of(w) \in Seq(Nat) /\ job \in [Workers -> Task]
  BY <1>1, AtSegments DEF Fits, TypeOK
<1>3. /\ job'[w].pc = AfterUsers(w) /\ job'[w].at = j.at + 1 /\ job'[w].chosen = j.chosen \cup new
      /\ job'[w].blast = j.blast /\ job'[w].moved = j.moved /\ job'[w].touched = j.touched
  <2> HIDE DEF new
  <2>1. job'[w] = [j EXCEPT !.pc = AfterUsers(w), !.at = j.at + 1, !.chosen = j.chosen \cup new]
    BY <1>1, <1>2
  <2> QED
    BY <1>2, <2>1 DEF Task
<1>4. Of(w)' = Of(w) /\ \A t : Members(t)' = Members(t)
  BY <1>1, <1>3 DEF Of, Members, GetUsersMatching, Matches
<1>5. Seen(w)' = Seen(w) \cup {s}
  <2>1. 1 .. (j.at + 1) - 1 = (1 .. j.at - 1) \cup {j.at}
    BY <1>2
  <2> QED
    BY <1>3, <1>4, <2>1 DEF Seen
<1>6. Reached(w) /\ Chosen(w) /\ (s \in j.touched \/ users = Members(s))
  BY <1>1 DEF Reads, Selects, Members
<1>7. Reached(w)'
  <2> SUFFICES ASSUME NEW u \in Users \ j.moved, NEW t \in (Seen(w) \cup {s}) \ j.touched, u \in Members(t)
               PROVE  \E v \in j.chosen \cup new : Address[v] = Address[u]
    BY <1>3, <1>4, <1>5 DEF Reached
  <2>1. CASE t \in Seen(w)
    BY <1>6, <2>1 DEF Reached
  <2>2. CASE t = s
    <3>1. u \in users
      BY <1>6, <2>2
    <3>2. u \in new \/ \E v \in j.chosen : Address[v] = Address[u]
      BY <3>1 DEF Unseen
    <3> QED
      BY <3>2
  <2> QED
    BY <2>1, <2>2
<1>8. Chosen(w)'
  <2> SUFFICES ASSUME NEW u \in (j.chosen \cup new) \ j.moved
               PROVE  \E t \in Seen(w) \cup {s} : t \in j.touched \/ u \in Members(t)
    BY <1>3, <1>4, <1>5 DEF Chosen
  <2>1. CASE u \in j.chosen
    BY <1>6, <2>1 DEF Chosen
  <2>2. CASE u \in new
    BY <1>6, <2>2 DEF Unseen
  <2> QED
    BY <2>1, <2>2
<1>9. Selects(w)'
  BY <1>3 DEF Selects, AfterUsers
<1> QED
  BY <1>7, <1>8, <1>9 DEF Reads

\* What a worker has chosen stays right for the segments it has read, through every step
\* (workers/blast/processor.go, handleBlastStarted).
LEMMA ReadsStep == Fits /\ ReadsInv /\ [Next]_vars => ReadsInv'
<1> SUFFICES ASSUME Fits, ReadsInv, [Next]_vars, NEW v \in Workers PROVE Reads(v)'
  BY DEF ReadsInv
<1>1. Reads(v) /\ segment \in Seq(SegmentRow) /\ \A s \in DOMAIN segment : segment[s] \in SegmentRow
  BY DEF ReadsInv, Fits, TypeOK
<1>2. ASSUME NEW u \in Users, NEW status \in Statuses \cup {Deleted}, UsersChange(u, status)
      PROVE  Reads(v)'
  <2>1. Moves({u}) /\ segment' = segment /\ \A t \in Users \ {u} : user'[t] = user[t]
    BY <1>2 DEF UsersChange, Fits, TypeOK
  <2>2. TaskKept(v) /\ Marked(v, {u}, {})
    BY <2>1, JobsMarked
  <2> QED
    BY <1>1, <2>1, <2>2, ReadsKept
<1>3. ASSUME NEW d \in DOMAIN segment, Touches(d), user' = user,
             \A s \in DOMAIN segment \ {d} : segment'[s] = segment[s]
      PROVE  Reads(v)'
  <2>1. TaskKept(v) /\ Marked(v, {}, {d})
    BY <1>3, JobsMarked
  <2> QED
    BY <1>1, <1>3, <2>1, ReadsKept
<1>4. ASSUME job'[v] = job[v], user' = user,
             \A s \in DOMAIN segment : segment'[s].criteria = segment[s].criteria
      PROVE  Reads(v)'
  <2>1. TaskKept(v) /\ Marked(v, {}, {})
    BY <1>4 DEF TaskKept, Marked, Fits, TypeOK
  <2> QED
    BY <1>1, <1>4, <2>1, ReadsKept
<1>5. ASSUME NEW d \in DOMAIN segment, HandleDeleteSegment(d) PROVE Reads(v)'
  BY <1>1, <1>3, <1>5 DEF HandleDeleteSegment, DeleteSegment
<1>6. ASSUME NEW r \in Requests, RequestStep(r) PROVE Reads(v)'
  <2>1. user' = user
    BY <1>6 DEF RequestStep, HandleCreateSegment, HandleUpdateSegment, HandleRefreshSegmentCount, Begins,
         HandleCreateEmailBlast, CreateSegment, UpdateSegment, CountsUsers, UpdateSegmentCachedCount,
         CreateEmailBlast, RequestFails, rows
  <2>2. CASE UpdateSegment(r)
    <3> DEFINE d == req[r].segment
    <3>1. CASE StoreCriteria(d, req[r].criteria)
      BY <1>1, <1>3, <2>1, <3>1 DEF StoreCriteria, GetSegmentByID
    <3>2. CASE UNCHANGED <<segment, job>>
      BY <1>4, <2>1, <3>2
    <3> QED
      BY <2>2, <3>1, <3>2 DEF UpdateSegment
  <2>3. CASE CreateSegment(r)
    <3> DEFINE x == [campaign |-> req[r].campaign, criteria |-> req[r].criteria, cached |-> 0,
                     deleted |-> FALSE]
    <3>1. segment' = Append(segment, x) /\ job' = job
      BY <2>3 DEF CreateSegment
    <3> HIDE DEF x
    <3>2. \A s \in DOMAIN segment : segment'[s] = segment[s]
      BY <1>1, <3>1
    <3> QED
      BY <1>4, <2>1, <3>1, <3>2
  <2>4. CASE UpdateSegmentCachedCount(r)
    <3> DEFINE d == req[r].segment
    <3>1. job' = job /\ (segment' = segment \/ segment' = [segment EXCEPT ![d].cached = req[r].count])
      BY <2>4 DEF UpdateSegmentCachedCount
    <3>2. ASSUME NEW s \in DOMAIN segment PROVE segment'[s].criteria = segment[s].criteria
      <4>1. segment'[s] = segment[s] \/ segment'[s] = [segment[s] EXCEPT !.cached = req[r].count]
        BY <1>1, <3>1
      <4> QED
        BY <1>1, <4>1 DEF SegmentRow
    <3> QED
      BY <1>4, <2>1, <3>1, <3>2
  <2>5. CASE UNCHANGED <<segment, job>>
    BY <1>4, <2>1, <2>5
  <2> QED
    BY <1>6, <2>2, <2>3, <2>4, <2>5
      DEF RequestStep, HandleCreateSegment, HandleUpdateSegment, HandleRefreshSegmentCount, Begins,
          HandleCreateEmailBlast, CountsUsers, CreateEmailBlast, RequestFails, rows
<1>7. ASSUME NEW w \in Workers, WorkerStep(w) PROVE Reads(v)'
  <2> DEFINE j == job[w]
  <2>1. /\ job \in [Workers -> Task] /\ j \in Task /\ user' = user /\ segment' = segment
        /\ \A t \in Workers \ {w} : job'[t] = job[t]
    BY <1>7, OneWorker
  <2>2. CASE job'[v] = job[v]
    BY <1>4, <2>1, <2>2
  <2>3. CASE v = w /\ Ends(w)
    <3>1. job'[w].pc = "idle"
      BY <2>1, <2>3 DEF Ends, IdleJob
    <3> QED
      BY <2>3, <3>1 DEF Reads
  <2>4. CASE v = w /\ \E b \in DOMAIN blast : HandleBlastStarted(w, b) /\ job' # job
    <3>1. PICK b \in DOMAIN blast : job' = [job EXCEPT ![w] = [IdleJob EXCEPT !.pc = "segment", !.blast = b]]
      BY <2>4 DEF HandleBlastStarted
    <3>2. job'[w] = [IdleJob EXCEPT !.pc = "segment", !.blast = b]
      BY <2>1, <3>1
    <3>3. job'[w].pc = "segment" /\ job'[w].at = 1 /\ job'[w].chosen = {}
      BY <3>2 DEF IdleJob
    <3>4. Seen(w)' = {}
      <4>1. 1 .. 1 - 1 = {}
        OBVIOUS
      <4> QED
        BY <3>3, <4>1 DEF Seen
    <3> QED
      BY <2>4, <3>3, <3>4 DEF Reads, Reached, Chosen, Selects
  <2>5. CASE v = w /\ ReadsSegment(w) /\ GetSegmentByID(Of(w)[j.at])
    <3> DEFINE s == Of(w)[j.at]
               c == segment[s].criteria
    <3>1. j.pc = "segment" /\ blast' = blast
      BY <2>5 DEF ReadsSegment
    <3>2. job'[w] = [j EXCEPT !.pc = "users", !.criteria = c]
      BY <2>1, <2>5 DEF ReadsSegment
    <3> HIDE DEF c
    <3>3. /\ job'[w].pc = "users" /\ job'[w].criteria = c /\ job'[w].at = j.at /\ job'[w].blast = j.blast
          /\ job'[w].chosen = j.chosen /\ job'[w].moved = j.moved /\ job'[w].touched = j.touched
      BY <2>1, <3>2 DEF Task
    <3>4. Of(w)' = Of(w) /\ Seen(w)' = Seen(w) /\ \A t : Members(t)' = Members(t)
      BY <2>1, <3>1, <3>3 DEF Of, Seen, Members, GetUsersMatching, Matches
    <3>5. Reached(w) /\ Chosen(w)
      BY <1>1, <2>5, <3>1 DEF Reads
    <3>6. Reached(w)' /\ Chosen(w)'
      BY <3>3, <3>4, <3>5 DEF Reached, Chosen
    <3>7. Selects(w)'
      BY <2>1, <3>3, <3>4 DEF Selects, c
    <3> QED
      BY <2>5, <3>6, <3>7 DEF Reads
  <2>6. CASE v = w /\ GetUsersForBlast(w)
    BY <1>1, <2>6, ReadsUsers
  <2>7. CASE v = w /\ CreateBlastRecipients(w) /\ j.chosen # {}
    <3>1. job'[w] = [j EXCEPT !.pc = "total"]
      BY <2>1, <2>7 DEF CreateBlastRecipients
    <3>2. job'[w].pc = "total"
      BY <2>1, <3>1 DEF Task
    <3> QED
      BY <2>7, <3>2 DEF Reads
  <2> QED
    BY <1>7, <2>1, <2>2, <2>3, <2>4, <2>5, <2>6, <2>7
      DEF WorkerStep, ReadsSegment, CreateBlastRecipients, UpdateTotalRecipients, FailBlast, Crash
<1>8. CASE \E b \in DOMAIN blast : SendBlastNow(b)
  BY <1>4, <1>8 DEF SendBlastNow
<1>9. CASE UNCHANGED vars
  BY <1>4, <1>9 DEF vars, rows
<1> QED
  BY <1>2, <1>5, <1>6, <1>7, <1>8, <1>9, NextSteps DEF OtherStep

\* However users and segments change while a blast reads them: a user that stayed as it
\* was is reached, by itself or by its address, if it is in a segment that stayed as it
\* was, and is chosen only if a segment of the blast admits it or has changed
\* (workers/blast/processor.go, handleBlastStarted; store/email_blast.go).
THEOREM ReadersReachMembers == Spec => []MembersAreReached
<1>1. Init => ReadsInv
  BY DEF Init, ReadsInv, Reads, IdleJob
<1>2. Fits /\ ReadsInv => MembersAreReached
  <2> SUFFICES ASSUME Fits, ReadsInv, NEW w \in Workers, job[w].pc = "insert"
               PROVE  LET segments == {Of(w)[i] : i \in DOMAIN Of(w)} IN
                      \A u \in Users \ job[w].moved :
                        /\ (\E s \in segments \ job[w].touched : u \in Members(s)) =>
                             \E v \in job[w].chosen : Address[v] = Address[u]
                        /\ u \in job[w].chosen => \E s \in segments : s \in job[w].touched \/ u \in Members(s)
    BY DEF MembersAreReached
  <2>1. Reached(w) /\ Chosen(w)
    BY DEF ReadsInv, Reads
  <2>2. Of(w) \in Seq(Nat) /\ job[w].at = Len(Of(w)) + 1
    BY AtSegments
  <2>3. 1 .. job[w].at - 1 = DOMAIN Of(w)
    BY <2>2
  <2>4. Seen(w) = {Of(w)[i] : i \in DOMAIN Of(w)}
    BY <2>3 DEF Seen
  <2> QED
    BY <2>1, <2>4 DEF Reached, Chosen
<1> QED
  BY <1>1, <1>2, SegmentsTypeCorrect, ReadsStep, PTL DEF Spec
=============================================================================
