------------------------------ MODULE Waitlist ------------------------------
(***************************************************************************)
(* The waitlist of one campaign: sign-up, verification and deletion of     *)
(* internal/waitlist/processor, the referral counters they keep, and the   *)
(* position calculation that user.created and user.verified events set off *)
(* in the workers of internal/workers/position.                            *)
(*                                                                         *)
(* A request runs several statements with no transaction around them, so   *)
(* each statement is a step.  Positions are computed from a snapshot and   *)
(* written back in one UPDATE; a mutex per campaign, in the one server     *)
(* process, keeps two calculations apart.  A refused request changes       *)
(* nothing and shows only as a request that ends.                          *)
(***************************************************************************)
EXTENDS Integers, FiniteSets

CONSTANTS
  NumUsers,     \* bound: e-mail addresses that may sign up, in order of row id
  Requests,     \* concurrent API requests
  Calculators,  \* workers of the position consumer
  SignupLimits, \* bound: the values campaigns.max_signups may have
  MaxOps,       \* bound: API requests made
  MaxFaults     \* bound: failed statements, lost events, requests cut short

Users == 1 .. NumUsers
NoUser == 0
Unranked == -1
Free == "free"

ASSUME WaitlistAssumption ==
  /\ NumUsers \in Nat /\ SignupLimits \subseteq Nat
  /\ MaxOps \in Nat /\ MaxFaults \in Nat
  /\ IsFiniteSet(Requests) /\ Requests # {} /\ Calculators # {}
  /\ Free \notin Calculators

VARIABLES
  maxSignups, \* campaigns.max_signups
  row,        \* per user: no row, a live one, or a soft-deleted one
  createdAt,  \* time of the insertion; two insertions may share it
  referrer,   \* referred_by_id
  verified,   \* email_verified
  refs,       \* referral_count
  verRefs,    \* verified_referral_count
  position,   \* the position shown to the user
  request,    \* per API request: where it is, and its locals
  events,     \* user.created and user.verified events not taken yet
  calc,       \* per calculator: where it is, and the positions it computed
  lock,       \* the campaign's mutex: its holder, or Free
  ops, faults,  \* counters of the bounds
  silent      \* history: the ranking may have changed without an event

userRow == <<maxSignups, row, createdAt, referrer>>
counters == <<refs, verRefs>>
calculation == <<position, calc, lock>>
vars == <<maxSignups, row, createdAt, referrer, verified, refs, verRefs, position, request,
          events, calc, lock, ops, faults, silent>>

Idle == [op |-> "none", pc |-> "idle", user |-> NoUser, by |-> NoUser, seats |-> FALSE]
IdleCalc == [pc |-> "idle", ranks |-> [u \in Users |-> 0]]

Init ==
  /\ maxSignups \in SignupLimits
  /\ row = [u \in Users |-> "none"]
  /\ createdAt = [u \in Users |-> 0]
  /\ referrer = [u \in Users |-> NoUser]
  /\ verified = [u \in Users |-> FALSE]
  /\ refs = [u \in Users |-> 0] /\ verRefs = [u \in Users |-> 0]
  /\ position = [u \in Users |-> Unranked]
  /\ request = [r \in Requests |-> Idle]
  /\ events = 0
  /\ calc = [w \in Calculators |-> IdleCalc]
  /\ lock = Free
  /\ ops = 0 /\ faults = 0 /\ silent = FALSE

Live == {u \in Users : row[u] = "live"}

-----------------------------------------------------------------------------
(* The ranking.                                                            *)

Score(u, s) ==
  (IF s.verifiedOnly THEN verRefs[u] ELSE refs[u]) * s.referrerJump
    + (IF referrer[u] # NoUser THEN s.jump ELSE 0)

Before(u, v, s) ==
  \/ Score(u, s) > Score(v, s)
  \/ /\ Score(u, s) = Score(v, s)
     /\ createdAt[u] < createdAt[v] \/ (createdAt[u] = createdAt[v] /\ u < v)

Rank(u, s) == 1 + Cardinality({v \in Live : Before(v, u, s)})

\* The settings the calculator gets to see: GetCampaignByID reads the campaigns
\* table only, so the pointers to the settings are nil and the defaults apply.
LoadedSettings == [verifiedOnly |-> FALSE, jump |-> 0, referrerJump |-> 1]

-----------------------------------------------------------------------------
(* SignupUser.                                                             *)

NewRequest == ops < MaxOps /\ ops' = ops + 1
Start(r, q) ==
  NewRequest /\ request[r].pc = "idle" /\ request' = [request EXCEPT ![r] = q]
Goto(r, pc) == request' = [request EXCEPT ![r].pc = pc]
End(r) == request' = [request EXCEPT ![r] = Idle]
Fault == faults < MaxFaults /\ faults' = faults + 1

\* Mutant: the limit is checked with > instead of >=.
SignupReadsCampaignLax(r) ==
  /\ Start(r, [Idle EXCEPT !.op = "signup", !.pc = "lookup",
                           !.seats = Cardinality(Live) <= maxSignups])
  /\ UNCHANGED <<userRow, verified, counters, events, calculation, faults, silent>>

\* GetCampaignByID counts the live rows as it reads the campaign.
SignupReadsCampaign(r) ==
  /\ Start(r, [Idle EXCEPT !.op = "signup", !.pc = "lookup",
                           !.seats = Cardinality(Live) < maxSignups])
  /\ UNCHANGED <<userRow, verified, counters, events, calculation, faults, silent>>

\* The address is looked up as typed but inserted in lower case, so the lookup
\* may miss a live row; a referral code that names no live row is ignored.
SignupLooksUp(r) ==
  /\ request[r].pc = "lookup"
  /\ \E u \in Users, v \in Live \cup {NoUser}, asStored \in BOOLEAN :
       IF request[r].seats /\ ~(asStored /\ row[u] = "live")
       THEN request' = [request EXCEPT ![r].pc = "create", ![r].user = u, ![r].by = v]
       ELSE End(r)
  /\ UNCHANGED <<userRow, verified, counters, events, calculation, faults, silent, ops>>

\* UNIQUE (campaign_id, email) counts deleted rows too: the insertion fails.  Since
\* the last insertion the clock may have moved on.
SignupCreates(r) ==
  /\ request[r].pc = "create"
  /\ LET u == request[r].user IN
       IF row[u] = "none"
       THEN /\ UNCHANGED maxSignups
            /\ row' = [row EXCEPT ![u] = "live"]
            /\ \E now \in {createdAt[v] : v \in Users} :
                 /\ \A v \in Users : createdAt[v] <= now
                 /\ \E t \in {now, now + 1} : createdAt' = [createdAt EXCEPT ![u] = t]
            /\ referrer' = [referrer EXCEPT ![u] = request[r].by]
            /\ Goto(r, IF request[r].by = NoUser THEN "dispatch" ELSE "count")
       ELSE End(r) /\ UNCHANGED userRow
  /\ UNCHANGED <<verified, counters, events, calculation, faults, silent, ops>>

\* Mutant: an error of the increment is not survived by the request, whose
\* event is then missing.
SignupCountsOrEnds(r) ==
  /\ request[r].op = "signup" /\ request[r].pc = "count"
  /\ \/ /\ refs' = [refs EXCEPT ![request[r].by] = @ + 1]
        /\ Goto(r, "dispatch") /\ UNCHANGED faults
     \/ Fault /\ UNCHANGED refs /\ End(r)
  /\ UNCHANGED <<userRow, verified, verRefs, events, calculation, silent, ops>>

\* IncrementReferralCount; an error is logged and the sign-up goes on.
SignupCounts(r) ==
  /\ request[r].op = "signup" /\ request[r].pc = "count"
  /\ \/ refs' = [refs EXCEPT ![request[r].by] = @ + 1] /\ UNCHANGED faults
     \/ Fault /\ UNCHANGED refs
  /\ Goto(r, "dispatch")
  /\ UNCHANGED <<userRow, verified, verRefs, events, calculation, silent, ops>>

-----------------------------------------------------------------------------
(* VerifyUserByToken and VerifyUser.                                       *)

VerifyReads(r) ==
  /\ \E u \in Live, op \in {"token", "manual"} :
       /\ ~verified[u]
       /\ Start(r, [Idle EXCEPT !.op = op, !.pc = "verify", !.user = u, !.by = referrer[u]])
  /\ UNCHANGED <<userRow, verified, counters, events, calculation, faults, silent>>

\* Only the verification by token tells anybody.
AfterVerify(q) == IF q.op = "token" THEN [q EXCEPT !.pc = "dispatch"] ELSE Idle

\* Mutant: a verification by hand ends right after the UPDATE.
VerifyWritesOnly(r) ==
  /\ request[r].pc = "verify"
  /\ LET u == request[r].user IN
       IF row[u] = "live"
       THEN /\ verified' = [verified EXCEPT ![u] = TRUE]
            /\ request' = [request EXCEPT
                 ![r] = IF @.by = NoUser \/ @.op = "manual" THEN AfterVerify(@)
                        ELSE [@ EXCEPT !.pc = "count"]]
       ELSE End(r) /\ UNCHANGED verified
  /\ UNCHANGED <<userRow, counters, events, calculation, faults, silent, ops>>

\* The UPDATE asks for a live row, not for an unverified one.
VerifyWrites(r) ==
  /\ request[r].pc = "verify"
  /\ LET u == request[r].user IN
       IF row[u] = "live"
       THEN /\ verified' = [verified EXCEPT ![u] = TRUE]
            /\ request' = [request EXCEPT ![r] = IF @.by = NoUser THEN AfterVerify(@)
                                                 ELSE [@ EXCEPT !.pc = "count"]]
       ELSE End(r) /\ UNCHANGED verified
  /\ UNCHANGED <<userRow, counters, events, calculation, faults, silent, ops>>

VerifyCounts(r) ==
  /\ request[r].op \in {"token", "manual"} /\ request[r].pc = "count"
  /\ \/ verRefs' = [verRefs EXCEPT ![request[r].by] = @ + 1] /\ UNCHANGED faults
     \/ Fault /\ UNCHANGED verRefs
  /\ request' = [request EXCEPT ![r] = AfterVerify(@)]
  /\ UNCHANGED <<userRow, verified, refs, events, calculation, silent, ops>>

-----------------------------------------------------------------------------
(* The end of a request, and what may go wrong with it.                    *)

Dispatches(r) ==
  /\ request[r].pc = "dispatch"
  /\ events' = events + 1
  /\ End(r)
  /\ UNCHANGED <<userRow, verified, counters, calculation, faults, silent, ops>>

\* The server stops in the middle of a request that changed something, or the
\* asynchronous producer loses its event.
RequestDies(r) ==
  /\ Fault
  /\ request[r].pc \in {"count", "dispatch"}
  /\ End(r)
  /\ silent' = TRUE
  /\ UNCHANGED <<userRow, verified, counters, events, calculation, ops>>

\* DeleteUser sends no event, and the counters of the referrer stay.
DeleteUser ==
  /\ NewRequest
  /\ \E u \in Live : row' = [row EXCEPT ![u] = "deleted"]
  /\ silent' = TRUE
  /\ UNCHANGED <<maxSignups, createdAt, referrer, verified, counters, request, events,
                 calculation, faults>>

-----------------------------------------------------------------------------
(* CalculatePositionsForCampaign.                                          *)

CalcTakes(w) ==
  /\ calc[w].pc = "idle" /\ events > 0
  /\ events' = events - 1
  /\ calc' = [calc EXCEPT ![w].pc = "lock"]
  /\ UNCHANGED <<userRow, verified, counters, position, request, lock, faults, silent,
                 ops>>

\* Mutant: no mutex.
CalcReadsUnlocked(w) ==
  /\ calc[w].pc = "lock"
  /\ IF Live = {} THEN calc' = [calc EXCEPT ![w] = IdleCalc]
     ELSE calc' = [calc EXCEPT ![w] =
            [pc |-> "write", ranks |-> [u \in Users |-> IF u \in Live
                                          THEN Rank(u, LoadedSettings) ELSE 0]]]
  /\ UNCHANGED <<userRow, verified, counters, position, request, events, lock, faults, silent,
                 ops>>

\* The snapshot, under the lock, and the positions computed from it.
CalcReads(w) ==
  /\ calc[w].pc = "lock" /\ lock = Free
  /\ IF Live = {} THEN calc' = [calc EXCEPT ![w] = IdleCalc] /\ UNCHANGED lock
     ELSE /\ lock' = w
          /\ calc' = [calc EXCEPT ![w] =
               [pc |-> "write", ranks |-> [u \in Users |-> IF u \in Live
                                             THEN Rank(u, LoadedSettings) ELSE 0]]]
  /\ UNCHANGED <<userRow, verified, counters, position, request, events, faults, silent, ops>>

\* Mutant: the mutex stays locked.
CalcWritesLocked(w) ==
  /\ calc[w].pc = "write"
  /\ position' = [u \in Users |-> IF calc[w].ranks[u] > 0 THEN calc[w].ranks[u]
                                  ELSE position[u]]
  /\ calc' = [calc EXCEPT ![w] = IdleCalc]
  /\ UNCHANGED <<userRow, verified, counters, request, events, lock, faults, silent, ops>>

\* BulkUpdateWaitlistUserPositions, deleted rows included.
CalcWrites(w) ==
  /\ calc[w].pc = "write"
  /\ position' = [u \in Users |-> IF calc[w].ranks[u] > 0 THEN calc[w].ranks[u]
                                  ELSE position[u]]
  /\ calc' = [calc EXCEPT ![w] = IdleCalc]
  /\ lock' = Free
  /\ UNCHANGED <<userRow, verified, counters, request, events, faults, silent, ops>>

\* A failed statement: the event is not committed, and is delivered again
\* unless a later commit passed over it.
CalcFails(w) ==
  /\ Fault
  /\ calc[w].pc # "idle"
  /\ calc' = [calc EXCEPT ![w] = IdleCalc]
  /\ lock' = IF lock = w THEN Free ELSE lock
  /\ \/ events' = events + 1 /\ UNCHANGED silent
     \/ silent' = TRUE /\ UNCHANGED events
  /\ UNCHANGED <<userRow, verified, counters, position, request, ops>>

-----------------------------------------------------------------------------
RequestStep(r) ==
  \/ SignupLooksUp(r)
  \/ SignupCreates(r)
  \/ SignupCounts(r)
  \/ VerifyWrites(r)
  \/ VerifyCounts(r)
  \/ Dispatches(r)

CalcStep(w) == CalcTakes(w) \/ CalcReads(w) \/ CalcWrites(w)

Next ==
  \/ \E r \in Requests :
       SignupReadsCampaign(r) \/ VerifyReads(r) \/ RequestStep(r) \/ RequestDies(r)
  \/ DeleteUser
  \/ \E w \in Calculators : CalcStep(w) \/ CalcFails(w)

Spec == Init /\ [][Next]_vars

\* A handler that started runs on, and so does a worker; nobody has to sign up.
Fairness ==
  /\ \A r \in Requests : WF_vars(RequestStep(r))
  /\ \A w \in Calculators : WF_vars(CalcStep(w))

FairSpec == Spec /\ Fairness

-----------------------------------------------------------------------------
(* Properties.                                                             *)

\* No two users of the waitlist are ever shown the same position, although
\* calculations start from snapshots that others outdate
\* (waitlist/processor/position_calculator.go:36-38).
PositionsDistinct ==
  \A u, v \in Live : u # v /\ position[u] > 0 => position[u] # position[v]

Settled ==
  /\ events = 0
  /\ \A r \in Requests : request[r].pc = "idle"
  /\ \A w \in Calculators : calc[w].pc = "idle"

\* Once the events are processed the positions are the ranking of the current
\* rows: no snapshot that matters was taken too early, and only a deletion or
\* a lost event leaves them stale (waitlist/processor/processor.go:308-361).
SettledPositionsAreRanking ==
  Settled /\ ~silent => \A u \in Live : position[u] = Rank(u, LoadedSettings)

Counting(op, v) ==
  {r \in Requests : request[r].op \in op /\ request[r].pc = "count" /\ request[r].by = v}

\* A referrer's count is the number of rows that name the referrer, short of
\* the requests about to count theirs and of one per fault: nobody is credited
\* twice or for a sign-up that failed.  A verified referral is counted, too, except
\* where a fault cut the request short; two verifications that race may count it
\* twice (waitlist/processor/processor.go:302-314, 936-953, 1129-1144).
ReferralsCounted ==
  \A v \in Users :
    LET referred == {u \in Users : row[u] # "none" /\ referrer[u] = v} IN
    /\ Cardinality(referred) - refs[v] - Cardinality(Counting({"signup"}, v)) \in 0 .. faults
    /\ Cardinality({u \in referred : verified[u]})
         <= verRefs[v] + Cardinality(Counting({"token", "manual"}, v)) + faults

\* The check of max_signups races the insertion, but overruns the limit by less
\* than the requests under way (waitlist/processor/processor.go:149-178, 302).
OverrunBounded ==
  Cardinality(Live) < maxSignups + Cardinality(Requests)

\* As long as events are not lost, the waitlist comes again and again to a state
\* where everybody on it has a position (workers/position/processor.go:36-73).
EverybodyRankedAgain ==
  []<>(silent \/ \A u \in Live : position[u] > 0)
=============================================================================
