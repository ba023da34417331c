------------------------------- MODULE Leads -------------------------------
(***************************************************************************)
(* The users of one active campaign: sign-up, import, verification,        *)
(* changes by the account, lists, and the detection of spam, which reads   *)
(* the events of new users side by side with all of that                   *)
(* (internal/waitlist, internal/spam).  Positions, counters of referrals   *)
(* and the limit of sign-ups are in Waitlist.                              *)
(*                                                                         *)
(* No request runs in a transaction.  An update and a deletion by the      *)
(* account decide nothing from what they read first, so each is one step.  *)
(***************************************************************************)
EXTENDS Integers, FiniteSets, SequencesExt

CONSTANTS
  Emails,          \* addresses
  Disposable,      \* those at providers of disposable addresses
  Similar(_, _),   \* checkEmailSimilarity above 0.8
  Ips,             \* IP addresses
  Features,        \* features of the account's plan
  Written,         \* statuses the account writes
  LeadsLimit,      \* limit 'leads' of the plan
  Low, High,       \* velocityThresholdLow and velocityThresholdHigh
  Requests,        \* API requests in flight at once
  Analysts,        \* events analysed at once
  MaxLeads,        \* bound: rows
  MaxActs          \* bound: requests, changes and faults, in all

NoIp == "no address"   \* imported users have none
Statuses == {"pending", "verified", "converted", "removed", "blocked"}

ASSUME LeadsAssumption ==
  /\ Disposable \subseteq Emails /\ Written \subseteq Statuses
  /\ NoIp \notin Ips
  /\ {LeadsLimit, Low, High, MaxLeads, MaxActs} \subseteq Nat /\ 0 < Low /\ Low <= High

NoOne == 0
NoToken == 0
isValidUserStatus(status) == status \in Statuses
Sources == {"direct", "referral", "social", "ad"}   \* the enum user_source
isValidUserSource(source) == source \in Sources
NoCode == [form |-> "none", of |-> NoOne]

VARIABLES
  lead,      \* rows of waitlist_users, in order of creation
  old,       \* how many of them are older than the window of the velocity check
  detection, \* rows of fraud_detections, without their repetitions
  tokens,    \* verification tokens generated so far
  mailed,    \* tokens that went out with the event of a sign-up
  pending,   \* per user: deliveries of its user.created event to the spam consumer
  req,       \* per request: the statement it is at and its locals
  job,       \* per worker: the check it is at and its locals
  acts,      \* requests, changes and faults so far
  decided,   \* history: users whose status the account wrote last
  excused,   \* history: users an analysis of whom failed, was skipped or lost
  interrupted, \* history: users whose detection was recorded by a process that ended then
  last,      \* history: the import that counted the users last
  apart      \* history: users added since then, not by that import

tables == <<lead, old, detection, tokens, mailed, pending>>
excuses == <<excused, interrupted>>
imports == <<last, apart>>
history == <<decided, excuses, imports>>
leadsVars == <<tables, req, job, acts, history>>

Idle == [pc |-> "idle", email |-> "none", ip |-> NoIp, code |-> NoCode, by |-> NoOne, source |-> "direct",
         quota |-> -1, lead |-> NoOne]
IdleJob == [pc |-> "idle", lead |-> NoOne, found |-> <<>>]

LeadsInit ==
  /\ lead = <<>> /\ old = 0 /\ detection = {} /\ tokens = 0 /\ mailed = {} /\ pending = <<>>
  /\ req = [r \in Requests |-> Idle]
  /\ job = [w \in Analysts |-> IdleJob]
  /\ acts = 0 /\ decided = {} /\ excused = {} /\ interrupted = {} /\ last = "none" /\ apart = {}

Acts == acts < MaxActs /\ acts' = acts + 1

-----------------------------------------------------------------------------
(* The statements of the store.                                            *)

Live(u) == u \in DOMAIN lead /\ ~lead[u].deleted
LiveLeads == {u \in DOMAIN lead : Live(u)}
GetWaitlistUserByEmail(email) == {u \in LiveLeads : lead[u].email = email}
GetWaitlistUserByVerificationToken(t) == {u \in LiveLeads : lead[u].token = t}
CountWaitlistUsersByCampaign == Cardinality(LiveLeads)
CountRecentSignupsByIP(ip) == Cardinality({u \in LiveLeads : lead[u].ip = ip /\ u > old})
\* UNIQUE (campaign_id, email): deleted users count.
EmailTaken(email) == \E u \in DOMAIN lead : lead[u].email = email

CreateWaitlistUser(email, ip, by, source) ==
  /\ lead' = Append(lead, [email |-> email, ip |-> ip, by |-> by, source |-> source, status |-> "pending",
                           verified |-> FALSE, token |-> tokens + 1, deleted |-> FALSE])
  /\ tokens' = tokens + 1
UpdateWaitlistUser(u, status) == lead' = [lead EXCEPT ![u].status = status]
BlockWaitlistUser(u) == lead' = [lead EXCEPT ![u].status = "blocked"]
DeleteWaitlistUser(u) == lead' = [lead EXCEPT ![u].deleted = TRUE]
UpdateVerificationToken(u, t) == lead' = [lead EXCEPT ![u].token = t]

\* Mutant: the status says verified too.
VerifyStatusToo(u) == lead' = [lead EXCEPT ![u].verified = TRUE, ![u].token = NoToken, ![u].status = "verified"]

VerifyWaitlistUserEmail(u) == lead' = [lead EXCEPT ![u].verified = TRUE, ![u].token = NoToken]
CreateFraudDetection(u, result) == detection' = detection \cup {[lead |-> u, type |-> result.type, score |-> result.score]}

-----------------------------------------------------------------------------
(* Sign-up and import.                                                     *)

Answers(r) == req' = [req EXCEPT ![r] = Idle]
\* A row of an import that is not added is passed over.
NextRow(r, quota) == [Idle EXCEPT !.pc = "rows", !.quota = quota]
Refused(r) == req' = [req EXCEPT ![r] = IF @.quota < 0 THEN Idle ELSE NextRow(r, @.quota)]
Begins(r, new) ==
  /\ req[r].pc = "idle" /\ Acts
  /\ req' = [req EXCEPT ![r] = new]
  /\ UNCHANGED <<tables, job, decided, excuses>>

HandleSignupUser(r, email, ip, code) ==
  /\ Begins(r, IF GetWaitlistUserByEmail(email) # {} THEN Idle
               ELSE [Idle EXCEPT !.pc = "refer", !.email = email, !.ip = ip, !.code = code])
  /\ UNCHANGED imports

\* The code of a channel, or the code of a user: one that leads nowhere is ignored.
GetUserByChannelCode(code) == {u \in LiveLeads : code.form = "channel" /\ code.of = u}
GetWaitlistUserByReferralCode(code) == {u \in LiveLeads : code.form = "user" /\ code.of = u}

FindsReferrer(r) ==
  LET code == req[r].code
      Found(by, source) == req' = [req EXCEPT ![r].pc = "insert", ![r].code = NoCode, ![r].by = by, ![r].source = source]
  IN /\ req[r].pc = "refer"
     /\ \/ \E u \in GetUserByChannelCode(code) : Found(u, "twitter")
        \/ \E u \in GetWaitlistUserByReferralCode(code) : Found(u, "referral")
        \/ /\ GetUserByChannelCode(code) \cup GetWaitlistUserByReferralCode(code) = {}
           /\ Found(NoOne, "direct")
     /\ UNCHANGED <<tables, job, acts, history>>

\* The row, then the event, which carries it, token and all, to the consumers.
\* The event may be lost.
SignupUser(r) ==
  LET new == Len(lead) + 1  IN
  /\ req[r].pc = "insert"
  /\ IF EmailTaken(req[r].email) \/ req[r].source \notin Sources
     THEN Refused(r) /\ UNCHANGED <<tables, acts, history>>
     ELSE /\ new <= MaxLeads
          /\ CreateWaitlistUser(req[r].email, req[r].ip, req[r].by, req[r].source)
          /\ req' = [req EXCEPT ![r] = IF @.quota < 0 THEN Idle ELSE NextRow(r, @.quota - 1)]
          /\ apart' = IF req[r].quota < 0 \/ r # last THEN apart \cup {new} ELSE apart
          /\ \/ /\ pending' = Append(pending, 1) /\ mailed' = mailed \cup {tokens + 1}
                /\ UNCHANGED <<acts, excused>>
             \/ Acts /\ pending' = Append(pending, 0) /\ excused' = excused \cup {new} /\ UNCHANGED mailed
          /\ UNCHANGED <<old, detection, decided, interrupted, last>>
  /\ UNCHANGED job

\* CheckLeadsLimit: what the plan leaves, read once before the file is.
CanAdd == LeadsLimit - CountWaitlistUsersByCampaign

\* Mutant: the file may hold as many rows as the plan allows in all.
ImportUpToLimit(r) ==
  /\ CanAdd > 0
  /\ Begins(r, NextRow(r, LeadsLimit))
  /\ last' = r /\ apart' = {}

HandleImportUsers(r) ==
  /\ CanAdd > 0
  /\ Begins(r, NextRow(r, CanAdd))
  /\ last' = r /\ apart' = {}

\* A row signs up without an address and without a code, whatever it holds.
ImportsRow(r, email) ==
  /\ req[r].pc = "rows" /\ req[r].quota > 0
  /\ GetWaitlistUserByEmail(email) = {}
  /\ req' = [req EXCEPT ![r].pc = "insert", ![r].email = email]
  /\ UNCHANGED <<tables, job, acts, history>>

EndsImport(r) == req[r].pc = "rows" /\ Answers(r) /\ UNCHANGED <<tables, job, acts, history>>

-----------------------------------------------------------------------------
(* Verification, by the link in the mail or by the account.                *)

Unverified(u) == Live(u) /\ ~lead[u].verified

\* The token leads to a user; one that is verified already is refused.
VerifyUserByToken(r, t) ==
  \E u \in GetWaitlistUserByVerificationToken(t) :
    Unverified(u) /\ Begins(r, [Idle EXCEPT !.pc = "verify", !.lead = u])

\* The token of a link somebody was given.
HandleVerifyEmail(r, t) == t \in mailed /\ VerifyUserByToken(r, t) /\ UNCHANGED imports

HandleVerifyUser(r, u) ==
  /\ "email_verification" \in Features /\ Unverified(u)
  /\ Begins(r, [Idle EXCEPT !.pc = "verify", !.lead = u])
  /\ UNCHANGED imports

\* The row is written whatever became of it since, unless it is deleted.
VerifyUser(r) ==
  LET u == req[r].lead IN
  /\ req[r].pc = "verify"
  /\ IF Live(u) THEN VerifyWaitlistUserEmail(u) ELSE UNCHANGED lead
  /\ Answers(r)
  /\ UNCHANGED <<old, detection, tokens, mailed, pending, job, acts, history>>

HandleResendVerification(r, u) ==
  /\ "email_verification" \in Features /\ Unverified(u)
  /\ Begins(r, [Idle EXCEPT !.pc = "resend", !.lead = u])
  /\ UNCHANGED imports

\* The handler drops the token: no event, no mail.
ResendVerificationToken(r) ==
  LET u == req[r].lead IN
  /\ req[r].pc = "resend"
  /\ tokens' = tokens + 1
  /\ IF Live(u) THEN UpdateVerificationToken(u, tokens + 1) ELSE UNCHANGED lead
  /\ Answers(r)
  /\ UNCHANGED <<old, detection, mailed, pending, job, acts, history>>

-----------------------------------------------------------------------------
(* Changes by the account, and time.                                       *)

UpdateUser(u, status) ==
  /\ Live(u) /\ isValidUserStatus(status)
  /\ UpdateWaitlistUser(u, status)
  /\ decided' = decided \cup {u}

\* A request that writes what is there changes nothing.
HandleUpdateUser(u, status) ==
  /\ Acts /\ UpdateUser(u, status) /\ status # lead[u].status
  /\ UNCHANGED <<old, detection, tokens, mailed, pending, req, job, excuses, imports>>

DeleteUser(u) == Live(u) /\ DeleteWaitlistUser(u)

HandleDeleteUser(u) ==
  /\ Acts /\ DeleteUser(u)
  /\ UNCHANGED <<old, detection, tokens, mailed, pending, req, job, history>>

WindowPasses ==
  /\ Acts /\ old < Len(lead) /\ old' = Len(lead)
  /\ UNCHANGED <<lead, detection, tokens, mailed, pending, req, job, history>>

-----------------------------------------------------------------------------
(* The spam consumer.                                                      *)

Score(type, score) == [type |-> type, score |-> score]
Ends(w) == job' = [job EXCEPT ![w] = IdleJob]
Step(w, pc, found) == job' = [job EXCEPT ![w].pc = pc, ![w].found = found]
\* The next result, if there is one.
Proceeds(w, found) == IF found = <<>> THEN Ends(w) ELSE Step(w, "record", found)
Excuse(u) == excused' = excused \cup {u} /\ UNCHANGED <<decided, interrupted, imports>>

\* A deleted user is an error, a blocked one is passed over.
HandleUserCreated(w, u) ==
  /\ job[w].pc = "idle" /\ pending[u] > 0
  /\ pending' = [pending EXCEPT ![u] = @ - 1]
  /\ IF Live(u) /\ lead[u].status # "blocked"
     THEN job' = [job EXCEPT ![w] = [pc |-> "self", lead |-> u, found |-> <<>>]] /\ UNCHANGED history
     ELSE Excuse(u) /\ UNCHANGED job
  /\ UNCHANGED <<lead, old, detection, tokens, mailed, req, acts>>

\* The address of the referrer, or one that is alike; sign-ups have no
\* fingerprint.  A deleted referrer is an error, which leaves the check out.
CheckSelfReferral(w) ==
  LET u == job[w].lead
      by == lead[u].by
      found == CASE ~Live(by) -> <<>>
                 [] Live(by) /\ lead[u].ip = lead[by].ip /\ lead[u].ip # NoIp -> <<Score("self_referral", 95)>>
                 [] Live(by) /\ (lead[u].ip # lead[by].ip \/ lead[u].ip = NoIp) ->
                      IF Similar(lead[u].email, lead[by].email) THEN <<Score("self_referral", 70)>> ELSE <<>>
  IN /\ job[w].pc = "self"
     /\ Step(w, "velocity", found)
     /\ UNCHANGED <<tables, req, acts, history>>

\* Mutant: a burst has to be one larger.
VelocityAbove(n) == IF n > High THEN <<Score("velocity", 95)>> ELSE IF n > Low THEN <<Score("velocity", 70)>> ELSE <<>>

\* The thresholds 3, 6 and 10; the one in the middle blocks as little as the low one.
Velocity(n) == IF n >= High THEN <<Score("velocity", 95)>> ELSE IF n >= Low THEN <<Score("velocity", 70)>> ELSE <<>>

IsDisposableDomain(u) == IF lead[u].email \in Disposable THEN <<Score("fake_email", 95)>> ELSE <<>>

\* The others from the address so far, without the user itself, deleted or not.
CheckVelocity(w) ==
  LET u == job[w].lead
      others == LET n == CountRecentSignupsByIP(lead[u].ip) IN IF n > 0 THEN n - 1 ELSE 0
  IN /\ job[w].pc = "velocity"
     /\ Proceeds(w, job[w].found \o (IF lead[u].ip = NoIp THEN <<>> ELSE Velocity(others)) \o IsDisposableDomain(u))
     /\ UNCHANGED <<tables, req, acts, history>>

AutoBlockThreshold == 90

ProcessResult(w) ==
  LET result == Head(job[w].found) IN
  /\ job[w].pc = "record"
  /\ CreateFraudDetection(job[w].lead, result)
  /\ IF result.score >= AutoBlockThreshold THEN Step(w, "block", job[w].found)
     ELSE Proceeds(w, Tail(job[w].found))
  /\ UNCHANGED <<lead, old, tokens, mailed, pending, req, acts, history>>

BlocksUser(w) ==
  LET u == job[w].lead IN
  /\ job[w].pc = "block"
  /\ IF Live(u) THEN BlockWaitlistUser(u) /\ decided' = decided \ {u} ELSE UNCHANGED <<lead, decided>>
  /\ Proceeds(w, Tail(job[w].found))
  /\ UNCHANGED <<old, detection, tokens, mailed, pending, req, acts, excuses, imports>>

\* A statement fails: the check, or the result, is left out.
StatementFails(w) ==
  LET found == job[w].found IN
  /\ Acts /\ job[w].pc # "idle"
  /\ CASE job[w].pc = "self" -> Step(w, "velocity", <<>>)
       [] job[w].pc = "velocity" -> Proceeds(w, found \o IsDisposableDomain(job[w].lead))
       [] job[w].pc \in {"record", "block"} -> Proceeds(w, Tail(found))
  /\ Excuse(job[w].lead)
  /\ UNCHANGED <<tables, req>>

\* The process ends with its event uncommitted.  It is delivered again, but what was
\* recorded and not yet blocked may not be found a second time.
Crash(w) ==
  /\ Acts /\ job[w].pc # "idle"
  /\ pending' = [pending EXCEPT ![job[w].lead] = @ + 1]
  /\ Ends(w)
  /\ interrupted' = IF job[w].pc = "block" THEN interrupted \cup {job[w].lead} ELSE interrupted
  /\ UNCHANGED <<lead, old, detection, tokens, mailed, req, decided, excused, imports>>

RequestStep(r) ==
  \/ FindsReferrer(r) \/ SignupUser(r) \/ EndsImport(r) \/ VerifyUser(r) \/ ResendVerificationToken(r)
  \/ \E email \in Emails : ImportsRow(r, email)
JobStep(w) == CheckSelfReferral(w) \/ CheckVelocity(w) \/ ProcessResult(w) \/ BlocksUser(w)

Codes == {NoCode} \cup [form : {"user", "channel"}, of : DOMAIN lead]

LeadsNext ==
  \/ \E r \in Requests, email \in Emails, ip \in Ips, code \in Codes : HandleSignupUser(r, email, ip, code)
  \/ \E r \in Requests : HandleImportUsers(r) \/ RequestStep(r)
  \/ \E r \in Requests, t \in 1 .. tokens : HandleVerifyEmail(r, t)
  \/ \E r \in Requests, u \in DOMAIN lead : HandleVerifyUser(r, u) \/ HandleResendVerification(r, u)
  \/ \E u \in DOMAIN lead, status \in Written : HandleUpdateUser(u, status)
  \/ \E u \in DOMAIN lead : HandleDeleteUser(u)
  \/ WindowPasses
  \/ \E w \in Analysts, u \in DOMAIN lead : HandleUserCreated(w, u)
  \/ \E w \in Analysts : JobStep(w) \/ StatementFails(w) \/ Crash(w)

LeadsSpec == LeadsInit /\ [][LeadsNext]_leadsVars

-----------------------------------------------------------------------------
(* Lists.  Pages are cut out of the order in which the rows were created.  *)

\* referral_count, as long as no counting failed.
Referrals(u) == Cardinality({v \in DOMAIN lead : lead[v].by = u})
NoneOrIn(x, S) == S = {} \/ x \in S
InOrder(S, order) ==
  LET rows == SelectSeq([u \in DOMAIN lead |-> u], LAMBDA u : u \in S)
  IN IF order = "desc" THEN Reverse(rows) ELSE rows
Page(rows, offset, limit) == SubSeq(rows, offset + 1, Min({offset + limit, Len(rows)}))

Filtered(f) ==
  {u \in LiveLeads : /\ NoneOrIn(lead[u].status, f.statuses) /\ NoneOrIn(lead[u].source, f.sources)
                     /\ f.referrals => Referrals(u) > 0}
ListWaitlistUsers(f, offset, limit) == Page(InOrder(Filtered(f), f.order), offset, limit)
CountWaitlistUsers(f) == Cardinality(Filtered(f))

\* Mutant: a last page that is not full is not counted.
FullPages(n, limit) == n \div limit

TotalPages(n, limit) == (n + limit - 1) \div limit

\* The users beyond the limit of the plan are cut off, in whatever order and filter.
ListUsers(f, page, limit) ==
  LET offset == (page - 1) * limit
      users == ListWaitlistUsers(f, offset, limit)
      total == CountWaitlistUsers(f)
  IN [users |-> IF total <= LeadsLimit \/ offset + Len(users) <= LeadsLimit THEN users
                ELSE IF offset >= LeadsLimit THEN <<>> ELSE SubSeq(users, 1, LeadsLimit - offset),
      pages |-> TotalPages(total, limit)]

ValidPage(page) == IF page < 1 THEN 1 ELSE page
ValidLimit(limit) == IF limit < 1 THEN 25 ELSE Min({limit, 10000})

HandleListUsers(f, page, limit) ==
  IF (\A s \in f.statuses : isValidUserStatus(s)) /\ (\A s \in f.sources : isValidUserSource(s))
  THEN ListUsers(f, ValidPage(page), ValidLimit(limit))
  ELSE [users |-> <<>>, pages |-> 0]

SearchWaitlistUsers(f, offset, limit) ==
  Page(InOrder({u \in LiveLeads : NoneOrIn(lead[u].status, f.statuses) /\ NoneOrIn(lead[u].verified, f.verified)}, "asc"),
       offset, limit)

\* A full page estimates the total as what was seen so far, another one as itself.
SearchUsers(f, page, limit) ==
  LET users == SearchWaitlistUsers(f, (page - 1) * limit, limit)
  IN [users |-> users, pages |-> TotalPages(IF Len(users) = limit THEN page * limit ELSE Len(users), limit)]

HandleSearchUsers(f, page, limit) == SearchUsers(f, ValidPage(page), ValidLimit(limit))

-----------------------------------------------------------------------------
(* Properties.                                                             *)

Analysing(u) == \E w \in Analysts : job[w].lead = u
Frauds(u) == {d \in detection : d.lead = u /\ d.score >= AutoBlockThreshold}

\* Unless the account wrote the status since, a user is blocked if and only if a
\* detection of high confidence is recorded and its analysis is over: neither a
\* verification nor another analysis running beside it lifts or forges a block
\* (processResult, VerifyWaitlistUserEmail).  Only a process that ends between the two
\* may leave a user recorded and not blocked, as a new analysis may find nothing.
BlockedForFraud ==
  \A u \in LiveLeads \ decided :
    /\ lead[u].status = "blocked" => Frauds(u) # {}
    /\ Frauds(u) # {} /\ u \notin excused \cup interrupted /\ ~Analysing(u)
         => lead[u].status = "blocked"

\* Of a burst of users from one address the last is caught when it is analysed,
\* however the analyses and the sign-ups ran beside one another (checkVelocity).
BurstsAreCaught ==
  \A ip \in Ips :
    LET burst == {u \in LiveLeads : lead[u].ip = ip /\ u > old}
        newest == Max(burst)
    IN Cardinality(burst) > High /\ newest \notin excused /\ ~Analysing(newest) /\ pending[newest] = 0
       => \E d \in Frauds(newest) : d.type = "velocity"

\* What the import that counted last found and added is within the limit of the
\* plan; whatever exceeds it was added beside it (CheckLeadsLimit, importFromCSV).
ImportsWithinLimit == Cardinality(LiveLeads \ apart) <= LeadsLimit

Unfiltered == [statuses |-> {}, sources |-> {}, referrals |-> FALSE, order |-> "asc"]
Filters == {Unfiltered, [Unfiltered EXCEPT !.statuses = {"verified"}, !.order = "desc"],
            [Unfiltered EXCEPT !.sources = {"referral"}, !.referrals = TRUE]}
Searches == {[statuses |-> {"blocked"}, verified |-> {}], [statuses |-> {}, verified |-> {TRUE}]}
Sizes == {0, 2}

\* The pages of a list, from the first to the last it announces, are all users the
\* filters select, each once and in order, as far as the plan shows them; those of a
\* search, up to the first that is not full, are all it finds (ListUsers, SearchUsers).
PagesShowEveryLead ==
  \A size \in Sizes :
    /\ \A f \in Filters :
         FlattenSeq([page \in 1 .. HandleListUsers(f, 0, size).pages |-> HandleListUsers(f, page, size).users])
           = Page(InOrder(Filtered(f), f.order), 0, LeadsLimit)
    /\ \A f \in Searches :
         LET more == {page \in 1 .. Len(lead) : HandleSearchUsers(f, page, size).pages = page}
         IN FlattenSeq([page \in 1 .. Cardinality(more) + 1 |-> HandleSearchUsers(f, page, size).users])
              = SearchWaitlistUsers(f, 0, Len(lead))
=============================================================================
