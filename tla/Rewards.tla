------------------------------- MODULE Rewards -------------------------------
(***************************************************************************)
(* Rewards of one campaign and their manual grants: internal/rewards over  *)
(* the rows of rewards and user_rewards.  A grant is five statements with  *)
(* no transaction: the reward is read and checked, the user's rewards are  *)
(* counted, the grant is inserted and the claimed count of the reward is   *)
(* incremented, whose failure is only logged.  No constraint of the tables *)
(* repeats a limit.  Kinds, texts, configuration and the campaign, which   *)
(* never changes, are left out; so are starts_at and expires_at, which no  *)
(* grant looks at.                                                         *)
(***************************************************************************)
EXTENDS Integers, FiniteSets

CONSTANTS
  Rewards,      \* rewards that may be created
  Users,        \* users of the waitlist
  Requests,     \* requests in flight at once
  Limits,       \* total_available of a reward, if it has one
  UserLimits,   \* user_limit as administrators give it; 0 stands for 1
  NoLimit,      \* no total_available
  MaxOps,       \* bound: requests made
  MaxFaults     \* bound: failed statements

ASSUME RewardsAssumption ==
  /\ IsFiniteSet(Requests) /\ Requests # {} /\ Users # {}
  /\ Limits \subseteq Nat /\ UserLimits \subseteq Nat /\ NoLimit \notin Int
  /\ MaxOps \in Nat /\ MaxFaults \in Nat

VARIABLES
  reward,     \* rows of rewards
  granted,    \* per reward and user: rows of user_rewards
  req,        \* per request: the statement it is at and its locals
  ops, faults,  \* counters of the bounds
  total,      \* history: per reward, the rows of user_rewards
  missed,     \* history: per reward, the increments that failed
  late,       \* history: per reward, the grants it got when it was not active
  window      \* history: per reward, the grants under way whenever it was stopped

tables == <<reward, granted>>
history == <<total, missed, late, window>>
vars == <<reward, granted, req, ops, faults, total, missed, late, window>>

Statuses == {"active", "paused", "expired"}
Absent == "absent"   \* no status in an update
NoReward == [status |-> "none", limit |-> NoLimit, userLimit |-> 1, claimed |-> 0, deleted |-> FALSE]
Idle == [pc |-> "idle"]
Zero == [w \in Rewards |-> 0]

Init ==
  /\ reward = [w \in Rewards |-> NoReward]
  /\ granted = [w \in Rewards |-> [u \in Users |-> 0]]
  /\ req = [r \in Requests |-> Idle]
  /\ ops = 0 /\ faults = 0
  /\ total = Zero /\ missed = Zero /\ late = Zero /\ window = Zero

-----------------------------------------------------------------------------
(* The statements of the store and the checks of the processor.            *)

\* GetRewardByID: deleted rewards are not found.
GetRewardByID(w) == reward[w].status # "none" /\ ~reward[w].deleted
\* The campaign of the request is the reward's.
GetReward(w) == GetRewardByID(w)
Grantable(w) == GetReward(w) /\ reward[w].status = "active"

\* A row begins active; a user limit of 0 is a limit that was not given.
InsertReward(w, limit, userLimit) ==
  reward' = [reward EXCEPT ![w] = [status |-> "active", limit |-> limit, userLimit |-> userLimit,
                                   claimed |-> 0, deleted |-> FALSE]]
NewReward(w, limit, userLimit) ==
  InsertReward(w, limit, IF userLimit = 0 THEN 1 ELSE userLimit)

\* A field the request does not have keeps its value.
WithStatus(row, status) == [row EXCEPT !.status = IF status = Absent THEN @ ELSE status]
SoftDeleted(row) == [row EXCEPT !.deleted = TRUE]

\* Mutant: one claim more than available passes.
AvailableLax(w) == reward[w].limit # NoLimit => reward[w].claimed <= reward[w].limit

Available(w) == reward[w].limit # NoLimit => reward[w].claimed < reward[w].limit

\* The grants of w that have passed its check and are not inserted yet.
Passed(w) == {r \in Requests : req[r].pc \in {"count", "insert"} /\ req[r].reward = w}
\* Those that are inserted and not counted yet.
Claiming(w) == {r \in Requests : req[r].pc = "claim" /\ req[r].reward = w}
\* The grants of w to u whose claims have been counted.
Counted(w, u) == {r \in Requests : req[r].pc = "insert" /\ req[r].reward = w /\ req[r].user = u}

Goes(r, rec) == req' = [req EXCEPT ![r] = rec]
Begins(r) == req[r].pc = "idle" /\ ops < MaxOps /\ ops' = ops + 1

-----------------------------------------------------------------------------
(* Administration                                                          *)

CreateReward(r, w) ==
  /\ Begins(r) /\ reward[w].status = "none"
  /\ \E limit \in Limits \cup {NoLimit}, userLimit \in UserLimits :
       NewReward(w, limit, userLimit)
  /\ UNCHANGED <<granted, req, faults, history>>

\* UpdateReward and DeleteReward read the reward first ...
BeginUpdate(r, w) ==
  /\ Begins(r)
  /\ \E status \in Statuses \cup {Absent} :
       Goes(r, IF GetReward(w) THEN [pc |-> "update", reward |-> w, status |-> status] ELSE Idle)
  /\ UNCHANGED <<tables, faults, history>>

BeginDelete(r, w) ==
  /\ Begins(r)
  /\ Goes(r, IF GetReward(w) THEN [pc |-> "delete", reward |-> w] ELSE Idle)
  /\ UNCHANGED <<tables, faults, history>>

\* The reward may stop being grantable: the grants under way may still come.
Changes(w, row) ==
  /\ reward' = [reward EXCEPT ![w] = row]
  /\ window' = IF Grantable(w) /\ ~(row.status = "active" /\ ~row.deleted)
               THEN [window EXCEPT ![w] = @ + Cardinality(Passed(w))] ELSE window

\* ... and write it when it is still there.
UpdateReward(r) ==
  LET w == req[r].reward IN
  /\ req[r].pc = "update"
  /\ IF GetRewardByID(w) THEN Changes(w, WithStatus(reward[w], req[r].status))
     ELSE UNCHANGED <<reward, window>>
  /\ Goes(r, Idle)
  /\ UNCHANGED <<granted, ops, faults, total, missed, late>>

DeleteReward(r) ==
  LET w == req[r].reward IN
  /\ req[r].pc = "delete"
  /\ IF GetRewardByID(w) THEN Changes(w, SoftDeleted(reward[w]))
     ELSE UNCHANGED <<reward, window>>
  /\ Goes(r, Idle)
  /\ UNCHANGED <<granted, ops, faults, total, missed, late>>

-----------------------------------------------------------------------------
(* GrantReward                                                             *)

\* Mutant: the status is not looked at.
BeginGrantAnyStatus(r, w, u) ==
  /\ Begins(r)
  /\ Goes(r, IF GetReward(w) /\ Available(w)
             THEN [pc |-> "count", reward |-> w, user |-> u, limit |-> reward[w].userLimit]
             ELSE Idle)
  /\ UNCHANGED <<tables, faults, history>>

\* The reward is read; its status and its claimed count are checked.
MayGrant(w) == Grantable(w) /\ Available(w)

BeginGrant(r, w, u) ==
  /\ Begins(r)
  /\ Goes(r, IF MayGrant(w)
             THEN [pc |-> "count", reward |-> w, user |-> u, limit |-> reward[w].userLimit]
             ELSE Idle)
  /\ UNCHANGED <<tables, faults, history>>

GetUserRewardsByUser(u) == [w \in Rewards |-> granted[w][u]]

\* The user's claims of this reward are counted.
CountClaims(r) ==
  /\ req[r].pc = "count"
  /\ Goes(r, IF GetUserRewardsByUser(req[r].user)[req[r].reward] >= req[r].limit THEN Idle
             ELSE [req[r] EXCEPT !.pc = "insert"])
  /\ UNCHANGED <<tables, ops, faults, history>>

InsertUserReward(w, u) == granted' = [granted EXCEPT ![w][u] = @ + 1]

CreateUserReward(r) ==
  LET w == req[r].reward IN
  /\ req[r].pc = "insert"
  /\ InsertUserReward(w, req[r].user)
  /\ total' = [total EXCEPT ![w] = @ + 1]
  /\ late' = IF Grantable(w) THEN late ELSE [late EXCEPT ![w] = @ + 1]
  /\ Goes(r, [pc |-> "claim", reward |-> w])
  /\ UNCHANGED <<reward, ops, faults, missed, window>>

\* Mutant: the count is written from the value read at the check.
ClaimOnce(r) ==
  LET w == req[r].reward IN
  /\ req[r].pc = "claim"
  /\ reward' = [reward EXCEPT ![w].claimed = 1]
  /\ Goes(r, Idle)
  /\ UNCHANGED <<granted, ops, faults, history>>

\* Deleted rewards are counted too.
AddClaim(w) == reward' = [reward EXCEPT ![w].claimed = @ + 1]

IncrementRewardClaimed(r) ==
  /\ req[r].pc = "claim"
  /\ AddClaim(req[r].reward)
  /\ Goes(r, Idle)
  /\ UNCHANGED <<granted, ops, faults, history>>

\* A statement fails, or the server dies in front of it.
StatementFails(r) ==
  /\ req[r].pc # "idle" /\ faults < MaxFaults
  /\ faults' = faults + 1
  /\ missed' = IF req[r].pc = "claim" THEN [missed EXCEPT ![req[r].reward] = @ + 1] ELSE missed
  /\ Goes(r, Idle)
  /\ UNCHANGED <<tables, ops, total, late, window>>

Next ==
  \E r \in Requests :
    \/ \E w \in Rewards : CreateReward(r, w) \/ BeginUpdate(r, w) \/ BeginDelete(r, w)
    \/ \E w \in Rewards, u \in Users : BeginGrant(r, w, u)
    \/ UpdateReward(r) \/ DeleteReward(r)
    \/ CountClaims(r) \/ CreateUserReward(r) \/ IncrementRewardClaimed(r)
    \/ StatementFails(r)

Spec == Init /\ [][Next]_vars

-----------------------------------------------------------------------------
(* Properties.                                                             *)

Row == [status : Statuses \cup {"none"}, limit : Limits \cup {NoLimit}, userLimit : Nat,
        claimed : Nat, deleted : BOOLEAN]
Locals ==
  [pc : {"idle"}] \cup [pc : {"update"}, reward : Rewards, status : Statuses \cup {Absent}]
  \cup [pc : {"delete", "claim"}, reward : Rewards]
  \cup [pc : {"count", "insert"}, reward : Rewards, user : Users, limit : Nat]

\* The variables keep their types.
TypeOK ==
  /\ reward \in [Rewards -> Row]
  /\ granted \in [Rewards -> [Users -> Nat]]
  /\ req \in [Requests -> Locals]
  /\ ops \in 0 .. MaxOps /\ faults \in 0 .. MaxFaults
  /\ {total, missed, late, window} \subseteq [Rewards -> Nat]

\* GrantReward compares before it inserts: concurrent grants pass the limits of the
\* reward and of the user, but by no more than the other requests in flight and the
\* claims whose count was lost.
OverGrantBounded ==
  \A w \in Rewards :
    /\ reward[w].limit # NoLimit =>
         total[w] <= reward[w].limit + Cardinality(Requests) - 1 + missed[w]
    /\ \A u \in Users : granted[w][u] <= reward[w].userLimit + Cardinality(Requests) - 1

\* total_claimed is the number of grants, but for those being counted and those
\* whose count failed, whatever was updated or deleted meanwhile.
ClaimedTrue ==
  \A w \in Rewards : total[w] = reward[w].claimed + Cardinality(Claiming(w)) + missed[w]

\* A reward that is paused, expired or deleted is granted no more, except by the
\* requests that had read it before.
StoppedIsFinal == \A w \in Rewards : late[w] <= window[w]
=============================================================================
