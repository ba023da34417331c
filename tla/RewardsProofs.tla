---------------------------- MODULE RewardsProofs ----------------------------
(***************************************************************************)
(* Proofs about rewards, for every number of requests in flight, rewards,  *)
(* users, limits and bounds.  A limit is overrun by requests that have     *)
(* passed its check and are still in flight: the invariant counts them.    *)
(***************************************************************************)
EXTENDS Rewards, FiniteSetTheorems, TLAPS

-----------------------------------------------------------------------------
(* Sets of requests.                                                       *)

\* A set of requests is finite, and no larger than all of them.
LEMMA RequestSets ==
  ASSUME NEW S \in SUBSET Requests
  PROVE  /\ IsFiniteSet(S) /\ Cardinality(S) \in Nat
         /\ Cardinality(Requests) \in Nat /\ Cardinality(Requests) > 0
         /\ Cardinality(S) <= Cardinality(Requests)
<1>1. IsFiniteSet(Requests) /\ Requests # {}
  BY RewardsAssumption
<1>2. IsFiniteSet(S) /\ Cardinality(S) <= Cardinality(Requests)
  BY <1>1, FS_Subset
<1>3. Cardinality(S) \in Nat /\ Cardinality(Requests) \in Nat
  BY <1>1, <1>2, FS_CardinalityType
<1>4. Cardinality(Requests) # 0
  BY <1>1, FS_EmptySet
<1> QED
  BY <1>2, <1>3, <1>4

\* When one request goes from a statement to another, a set of requests at some
\* statements gains it, loses it or stays as it is.
LEMMA OneMoves ==
  ASSUME NEW r \in Requests, NEW S \in SUBSET Requests, NEW T \in SUBSET Requests,
         T \ {r} = S \ {r}
  PROVE  /\ r \notin S /\ r \in T => Cardinality(T) = Cardinality(S) + 1
         /\ r \in S /\ r \notin T => Cardinality(T) = Cardinality(S) - 1
         /\ (r \in S <=> r \in T) => T = S
<1>1. IsFiniteSet(S) /\ Cardinality(S) \in Nat
  BY RequestSets
<1>2. ASSUME r \notin S, r \in T PROVE Cardinality(T) = Cardinality(S) + 1
  <2>1. T = S \cup {r}
    BY <1>2
  <2> QED
    BY <1>1, <1>2, <2>1, FS_AddElement
<1>3. ASSUME r \in S, r \notin T PROVE Cardinality(T) = Cardinality(S) - 1
  <2>1. T = S \ {r}
    BY <1>3
  <2> QED
    BY <1>1, <1>3, <2>1, FS_RemoveElement
<1>4. ASSUME r \in S <=> r \in T PROVE T = S
  BY <1>4
<1> QED
  BY <1>2, <1>3, <1>4

-----------------------------------------------------------------------------
(* The invariant.                                                          *)

\* The grants of w that have passed its checks and are not counted in it yet.
InFlight(w) ==
  {r \in Requests : req[r].pc \in {"count", "insert", "claim"} /\ req[r].reward = w}

\* A request works on a reward there is, with its limit per user; a reward that
\* was not created has no claims.
RequestsFit ==
  /\ \A r \in Requests : req[r].pc # "idle" => reward[req[r].reward].status # "none"
  /\ \A r \in Requests :
       req[r].pc \in {"count", "insert"} => req[r].limit = reward[req[r].reward].userLimit
  /\ \A w \in Rewards : reward[w].status = "none" =>
       /\ reward[w].claimed = 0
       /\ \A u \in Users : granted[w][u] = 0


-----------------------------------------------------------------------------
(* How a step of one request changes the sets that are counted.            *)

Bit(b) == IF b THEN 1 ELSE 0
Passes(l, w) == l.pc \in {"count", "insert"} /\ l.reward = w
Flies(l, w) == l.pc \in {"count", "insert", "claim"} /\ l.reward = w
Claims(l, w) == l.pc = "claim" /\ l.reward = w
Counts(l, w, u) == l.pc = "insert" /\ l.reward = w /\ l.user = u

\* The numbers of grants at each statement when a request goes from one to another.
NumbersGo(from, to, w, u) ==
  /\ Cardinality(Passed(w)') = Cardinality(Passed(w)) + Bit(Passes(to, w)) - Bit(Passes(from, w))
  /\ Cardinality(InFlight(w)') = Cardinality(InFlight(w)) + Bit(Flies(to, w)) - Bit(Flies(from, w))
  /\ Cardinality(Claiming(w)') = Cardinality(Claiming(w)) + Bit(Claims(to, w)) - Bit(Claims(from, w))
  /\ Cardinality(Counted(w, u)') =
       Cardinality(Counted(w, u)) + Bit(Counts(to, w, u)) - Bit(Counts(from, w, u))

LEMMA NumbersMove ==
  ASSUME req \in [Requests -> Locals],
         NEW r \in Requests, NEW rec, req' = [req EXCEPT ![r] = rec],
         NEW w, NEW u
  PROVE  NumbersGo(req[r], rec, w, u)
<1>1. \A x \in Requests : req'[x] = IF x = r THEN rec ELSE req[x]
  OBVIOUS
<1>2. Cardinality(Passed(w)') = Cardinality(Passed(w)) + Bit(Passes(rec, w)) - Bit(Passes(req[r], w))
  <2> DEFINE S == Passed(w)
             T == Passed(w)'
  <2>1. /\ S \in SUBSET Requests /\ T \in SUBSET Requests /\ S \ {r} = T \ {r}
        /\ r \in S <=> Passes(req[r], w)
        /\ r \in T <=> Passes(rec, w)
    BY <1>1 DEF Passed, Passes
  <2> HIDE DEF S, T
  <2>2. Cardinality(S) \in Nat
    BY <2>1, RequestSets
  <2>3. Cardinality(T) = Cardinality(S) + Bit(Passes(rec, w)) - Bit(Passes(req[r], w))
    BY <2>1, <2>2, OneMoves DEF Bit
  <2> QED
    BY <2>3 DEF S, T
<1>3. Cardinality(InFlight(w)') = Cardinality(InFlight(w)) + Bit(Flies(rec, w)) - Bit(Flies(req[r], w))
  <2> DEFINE S == InFlight(w)
             T == InFlight(w)'
  <2>1. /\ S \in SUBSET Requests /\ T \in SUBSET Requests /\ S \ {r} = T \ {r}
        /\ r \in S <=> Flies(req[r], w)
        /\ r \in T <=> Flies(rec, w)
    BY <1>1 DEF InFlight, Flies
  <2> HIDE DEF S, T
  <2>2. Cardinality(S) \in Nat
    BY <2>1, RequestSets
  <2>3. Cardinality(T) = Cardinality(S) + Bit(Flies(rec, w)) - Bit(Flies(req[r], w))
    BY <2>1, <2>2, OneMoves DEF Bit
  <2> QED
    BY <2>3 DEF S, T
<1>4. Cardinality(Claiming(w)') = Cardinality(Claiming(w)) + Bit(Claims(rec, w)) - Bit(Claims(req[r], w))
  <2> DEFINE S == Claiming(w)
             T == Claiming(w)'
  <2>1. /\ S \in SUBSET Requests /\ T \in SUBSET Requests /\ S \ {r} = T \ {r}
        /\ r \in S <=> Claims(req[r], w)
        /\ r \in T <=> Claims(rec, w)
    BY <1>1 DEF Claiming, Claims
  <2> HIDE DEF S, T
  <2>2. Cardinality(S) \in Nat
    BY <2>1, RequestSets
  <2>3. Cardinality(T) = Cardinality(S) + Bit(Claims(rec, w)) - Bit(Claims(req[r], w))
    BY <2>1, <2>2, OneMoves DEF Bit
  <2> QED
    BY <2>3 DEF S, T
<1>5. Cardinality(Counted(w, u)') =
        Cardinality(Counted(w, u)) + Bit(Counts(rec, w, u)) - Bit(Counts(req[r], w, u))
  <2> DEFINE S == Counted(w, u)
             T == Counted(w, u)'
  <2>1. /\ S \in SUBSET Requests /\ T \in SUBSET Requests /\ S \ {r} = T \ {r}
        /\ r \in S <=> Counts(req[r], w, u)
        /\ r \in T <=> Counts(rec, w, u)
    BY <1>1 DEF Counted, Counts
  <2> HIDE DEF S, T
  <2>2. Cardinality(S) \in Nat
    BY <2>1, RequestSets
  <2>3. Cardinality(T) = Cardinality(S) + Bit(Counts(rec, w, u)) - Bit(Counts(req[r], w, u))
    BY <2>1, <2>2, OneMoves DEF Bit
  <2> QED
    BY <2>3 DEF S, T
<1> QED
  BY <1>2, <1>3, <1>4, <1>5 DEF NumbersGo

\* The numbers are numbers, and one request fewer when that request is idle.
LEMMA Numbers ==
  ASSUME NEW w, NEW u
  PROVE  /\ Cardinality(Requests) \in Nat /\ Cardinality(Requests) > 0
         /\ Cardinality(Passed(w)) \in Nat /\ Cardinality(InFlight(w)) \in Nat
         /\ Cardinality(Claiming(w)) \in Nat /\ Cardinality(Counted(w, u)) \in Nat
         /\ Cardinality(Claiming(w)) <= Cardinality(InFlight(w))
         /\ \A r \in Requests : ~Flies(req[r], w) => Cardinality(InFlight(w)) <= Cardinality(Requests) - 1
         /\ \A r \in Requests : ~Counts(req[r], w, u) =>
              Cardinality(Counted(w, u)) <= Cardinality(Requests) - 1
<1>1. /\ Passed(w) \in SUBSET Requests /\ InFlight(w) \in SUBSET Requests
      /\ Claiming(w) \in SUBSET Requests /\ Counted(w, u) \in SUBSET Requests
  BY DEF Passed, InFlight, Claiming, Counted
<1>2. /\ Cardinality(Requests) \in Nat /\ Cardinality(Requests) > 0
      /\ Cardinality(Passed(w)) \in Nat /\ Cardinality(InFlight(w)) \in Nat
      /\ Cardinality(Claiming(w)) \in Nat /\ Cardinality(Counted(w, u)) \in Nat
      /\ IsFiniteSet(InFlight(w))
  BY <1>1, RequestSets
<1>3. Cardinality(Claiming(w)) <= Cardinality(InFlight(w))
  <2>1. Claiming(w) \subseteq InFlight(w)
    BY DEF Claiming, InFlight
  <2> QED
    BY <1>2, <2>1, FS_Subset
<1>4. ASSUME NEW r \in Requests, NEW S \in SUBSET Requests, r \notin S
      PROVE  Cardinality(S) <= Cardinality(Requests) - 1
  <2>1. S \cup {r} \in SUBSET Requests
    BY <1>4
  <2>2. Cardinality(S \cup {r}) = Cardinality(S) + 1
    BY <1>4, RequestSets, FS_AddElement
  <2> QED
    BY <2>1, <2>2, RequestSets
<1>5. ASSUME NEW r \in Requests, ~Flies(req[r], w)
      PROVE  Cardinality(InFlight(w)) <= Cardinality(Requests) - 1
  BY <1>1, <1>4, <1>5 DEF InFlight, Flies
<1>6. ASSUME NEW r \in Requests, ~Counts(req[r], w, u)
      PROVE  Cardinality(Counted(w, u)) <= Cardinality(Requests) - 1
  BY <1>1, <1>4, <1>6 DEF Counted, Counts
<1> QED
  BY <1>2, <1>3, <1>5, <1>6

-----------------------------------------------------------------------------
(* Types.                                                                  *)

\* An empty database without requests is well typed.
LEMMA TypeInit == Init => TypeOK
<1> SUFFICES ASSUME Init PROVE TypeOK
  OBVIOUS
<1>1. NoReward \in Row
  BY DEF NoReward, Row
<1>2. Idle \in Locals
  BY DEF Idle, Locals
<1> QED
  BY <1>1, <1>2, RewardsAssumption DEF Init, TypeOK, Zero

\* What a request is at is known from its program counter.
LEMMA LocalsAt ==
  ASSUME NEW l \in Locals
  PROVE  /\ l.pc \in {"idle", "update", "delete", "claim", "count", "insert"}
         /\ l.pc # "idle" => l.reward \in Rewards
         /\ l.pc = "update" => l.status \in Statuses \cup {Absent}
         /\ l.pc \in {"count", "insert"} => l \in [pc : {"count", "insert"}, reward : Rewards, user : Users, limit : Nat]
BY DEF Locals

\* A status that was validated keeps a row a row.
LEMMA RowKept ==
  ASSUME NEW row \in Row
  PROVE  /\ \A status \in Statuses \cup {Absent} : WithStatus(row, status) \in Row
         /\ SoftDeleted(row) \in Row
         /\ [row EXCEPT !.claimed = @ + 1] \in Row
<1>1. ASSUME NEW status \in Statuses \cup {Absent} PROVE WithStatus(row, status) \in Row
  <2>1. CASE status = Absent
    <3>1. WithStatus(row, status) = [row EXCEPT !.status = row.status]
      BY <2>1 DEF WithStatus
    <3>2. [row EXCEPT !.status = row.status] \in Row
      BY DEF Row
    <3> QED
      BY <3>1, <3>2
  <2>2. CASE status # Absent
    <3>1. WithStatus(row, status) = [row EXCEPT !.status = status]
      BY <2>2 DEF WithStatus
    <3>2. [row EXCEPT !.status = status] \in Row
      BY <2>2 DEF Row
    <3> QED
      BY <3>1, <3>2
  <2> QED
    BY <2>1, <2>2
<1>2. SoftDeleted(row) \in Row
  BY DEF Row, SoftDeleted
<1>3. [row EXCEPT !.claimed = @ + 1] \in Row
  BY DEF Row
<1> QED
  BY <1>1, <1>2, <1>3

\* Every statement keeps the types.
LEMMA TypeStep == TypeOK /\ [Next]_vars => TypeOK'
<1> SUFFICES ASSUME TypeOK, [Next]_vars PROVE TypeOK'
  OBVIOUS
<1> USE RewardsAssumption DEF TypeOK
<1>0. Idle \in Locals
  BY DEF Idle, Locals
<1>1. ASSUME NEW r \in Requests, NEW w \in Rewards, CreateReward(r, w) PROVE TypeOK'
  <2>1. ASSUME NEW limit \in Limits \cup {NoLimit}, NEW userLimit \in UserLimits,
               NewReward(w, limit, userLimit)
        PROVE  reward' \in [Rewards -> Row]
    <3>1. (IF userLimit = 0 THEN 1 ELSE userLimit) \in Nat
      OBVIOUS
    <3> QED
      BY <2>1, <3>1 DEF NewReward, InsertReward, Row, Statuses
  <2> QED
    BY <1>1, <2>1 DEF CreateReward, Begins, history
<1>2. ASSUME NEW r \in Requests, NEW w \in Rewards, BeginUpdate(r, w) PROVE TypeOK'
  <2>1. \A status \in Statuses \cup {Absent} : [pc |-> "update", reward |-> w, status |-> status] \in Locals
    BY DEF Locals
  <2> QED
    BY <1>0, <1>2, <2>1 DEF BeginUpdate, Begins, Goes, tables, history
<1>3. ASSUME NEW r \in Requests, NEW w \in Rewards, BeginDelete(r, w) PROVE TypeOK'
  <2>1. [pc |-> "delete", reward |-> w] \in Locals
    BY DEF Locals
  <2> QED
    BY <1>0, <1>3, <2>1 DEF BeginDelete, Begins, Goes, tables, history
<1>4. ASSUME NEW r \in Requests, NEW w \in Rewards, NEW u \in Users, BeginGrant(r, w, u) PROVE TypeOK'
  <2>1. reward[w].userLimit \in Nat
    BY DEF Row
  <2>2. [pc |-> "count", reward |-> w, user |-> u, limit |-> reward[w].userLimit] \in Locals
    BY <2>1 DEF Locals
  <2> QED
    BY <1>0, <1>4, <2>2 DEF BeginGrant, Begins, Goes, tables, history
<1>5. ASSUME NEW w \in Rewards, NEW row \in Row, Changes(w, row)
      PROVE  reward' \in [Rewards -> Row] /\ window' \in [Rewards -> Nat]
  <2>1. Cardinality(Passed(w)) \in Nat
    BY Numbers
  <2> QED
    BY <1>5, <2>1 DEF Changes
<1>6. ASSUME NEW r \in Requests, UpdateReward(r) PROVE TypeOK'
  <2>1. req[r].reward \in Rewards /\ req[r].status \in Statuses \cup {Absent}
    BY <1>6, LocalsAt DEF UpdateReward
  <2>2. WithStatus(reward[req[r].reward], req[r].status) \in Row
    BY <2>1, RowKept
  <2> QED
    BY <1>0, <1>5, <1>6, <2>1, <2>2 DEF UpdateReward, Goes
<1>7. ASSUME NEW r \in Requests, DeleteReward(r) PROVE TypeOK'
  <2>1. req[r].reward \in Rewards
    BY <1>7, LocalsAt DEF DeleteReward
  <2>2. SoftDeleted(reward[req[r].reward]) \in Row
    BY <2>1, RowKept
  <2> QED
    BY <1>0, <1>5, <1>7, <2>1, <2>2 DEF DeleteReward, Goes
<1>8. ASSUME NEW r \in Requests, CountClaims(r) PROVE TypeOK'
  <2>1. [req[r] EXCEPT !.pc = "insert"] \in Locals
    BY <1>8, LocalsAt DEF CountClaims, Locals
  <2> QED
    BY <1>0, <1>8, <2>1 DEF CountClaims, Goes, tables, history
<1>9. ASSUME NEW r \in Requests, CreateUserReward(r) PROVE TypeOK'
  <2>1. req[r].reward \in Rewards /\ req[r].user \in Users
    BY <1>9, LocalsAt DEF CreateUserReward
  <2>2. [pc |-> "claim", reward |-> req[r].reward] \in Locals
    BY <2>1 DEF Locals
  <2>3. granted' \in [Rewards -> [Users -> Nat]]
    BY <1>9, <2>1 DEF CreateUserReward, InsertUserReward
  <2>4. total' \in [Rewards -> Nat] /\ late' \in [Rewards -> Nat]
    BY <1>9, <2>1 DEF CreateUserReward
  <2>5. req' \in [Requests -> Locals]
    BY <1>9, <2>2 DEF CreateUserReward, Goes
  <2> QED
    BY <1>9, <2>3, <2>4, <2>5 DEF CreateUserReward
<1>10. ASSUME NEW r \in Requests, IncrementRewardClaimed(r) PROVE TypeOK'
  <2>1. req[r].reward \in Rewards
    BY <1>10, LocalsAt DEF IncrementRewardClaimed
  <2>2. reward' \in [Rewards -> Row]
    <3>1. [reward[req[r].reward] EXCEPT !.claimed = @ + 1] \in Row
      BY <2>1, RowKept
    <3>2. reward' = [reward EXCEPT ![req[r].reward] = [reward[req[r].reward] EXCEPT !.claimed = @ + 1]]
      BY <1>10, <2>1 DEF IncrementRewardClaimed, AddClaim
    <3> QED
      BY <2>1, <3>1, <3>2
  <2> QED
    BY <1>0, <1>10, <2>2 DEF IncrementRewardClaimed, Goes, history
<1>11. ASSUME NEW r \in Requests, StatementFails(r) PROVE TypeOK'
  <2>1. missed' \in [Rewards -> Nat]
    BY <1>11, LocalsAt DEF StatementFails
  <2> QED
    BY <1>0, <1>11, <2>1 DEF StatementFails, Goes, tables
<1>12. CASE UNCHANGED vars
  BY <1>12 DEF vars
<1> QED
  BY <1>1, <1>2, <1>3, <1>4, <1>6, <1>7, <1>8, <1>9, <1>10, <1>11, <1>12 DEF Next

-----------------------------------------------------------------------------
(* The invariant of grants.                                                *)

\* What the invariant says of one reward and one user, from the numbers of requests.
Balanced(w, u) ==
  /\ reward[w].limit # NoLimit =>
       reward[w].claimed + Cardinality(InFlight(w)) <= reward[w].limit + Cardinality(Requests) - 1
  /\ granted[w][u] + Cardinality(Counted(w, u)) <= reward[w].userLimit + Cardinality(Requests) - 1
  /\ total[w] = reward[w].claimed + Cardinality(Claiming(w)) + missed[w]
  /\ late[w] <= window[w]
  /\ ~Grantable(w) => late[w] + Cardinality(Passed(w)) <= window[w]

AllBalanced == RequestsFit /\ \A w \in Rewards, u \in Users : Balanced(w, u)

\* A request that begins an update or a deletion, or ends, moves no grant.
NoGrant(l) == l.pc \in {"idle", "update", "delete"}

\* Such a request is in none of the sets that are counted.
LEMMA NoGrantMoves ==
  ASSUME NEW l, NoGrant(l), NEW w, NEW u
  PROVE  ~Passes(l, w) /\ ~Flies(l, w) /\ ~Claims(l, w) /\ ~Counts(l, w, u)
BY DEF NoGrant, Passes, Flies, Claims, Counts

\* The types of what is added and compared.
LEMMA Amounts ==
  ASSUME TypeOK, NEW w \in Rewards, NEW u \in Users
  PROVE  /\ reward[w] \in Row
         /\ reward[w].claimed \in Nat /\ reward[w].userLimit \in Nat
         /\ reward[w].limit # NoLimit => reward[w].limit \in Nat
         /\ granted[w][u] \in Nat /\ total[w] \in Nat /\ missed[w] \in Nat
         /\ late[w] \in Nat /\ window[w] \in Nat
<1>1. /\ reward[w] \in Row /\ granted[w][u] \in Nat /\ total[w] \in Nat /\ missed[w] \in Nat
      /\ late[w] \in Nat /\ window[w] \in Nat
  BY DEF TypeOK
<1>2. /\ reward[w].claimed \in Nat /\ reward[w].userLimit \in Nat
      /\ reward[w].limit # NoLimit => reward[w].limit \in Nat
  BY <1>1, RewardsAssumption DEF Row
<1> QED
  BY <1>1, <1>2

\* A step that only moves requests that hold no grant keeps the balance.
LEMMA QuietStep ==
  ASSUME TypeOK, AllBalanced, NEW r \in Requests, NEW rec, NoGrant(req[r]), NoGrant(rec),
         req' = [req EXCEPT ![r] = rec],
         UNCHANGED <<reward, granted, total, missed, late, window>>,
         rec.pc # "idle" => reward[rec.reward].status # "none"
  PROVE  AllBalanced'
<1>1. RequestsFit'
  BY DEF AllBalanced, RequestsFit, NoGrant, TypeOK
<1>2. ASSUME NEW w \in Rewards, NEW u \in Users PROVE Balanced(w, u)'
  <2>1. /\ ~Passes(rec, w) /\ ~Flies(rec, w) /\ ~Claims(rec, w) /\ ~Counts(rec, w, u)
        /\ ~Passes(req[r], w) /\ ~Flies(req[r], w) /\ ~Claims(req[r], w) /\ ~Counts(req[r], w, u)
    BY NoGrantMoves
  <2>2. /\ Cardinality(Passed(w)') = Cardinality(Passed(w))
        /\ Cardinality(InFlight(w)') = Cardinality(InFlight(w))
        /\ Cardinality(Claiming(w)') = Cardinality(Claiming(w))
        /\ Cardinality(Counted(w, u)') = Cardinality(Counted(w, u))
    <3>1. NumbersGo(req[r], rec, w, u)
      BY NumbersMove DEF TypeOK
    <3> QED
      BY <2>1, <3>1, Numbers DEF NumbersGo, Bit
  <2> QED
    BY <2>2 DEF AllBalanced, Balanced, Grantable, GetReward, GetRewardByID
<1> QED
  BY <1>1, <1>2 DEF AllBalanced

\* A grant that goes on or ends without a claim: the numbers may only fall.
LEMMA GrantEnds ==
  ASSUME TypeOK, AllBalanced, NEW r \in Requests, req[r].pc \in {"count", "insert"},
         req' = [req EXCEPT ![r] = Idle],
         UNCHANGED <<reward, granted, total, missed, late, window>>
  PROVE  AllBalanced'
<1>1. RequestsFit'
  BY DEF AllBalanced, RequestsFit, Idle, TypeOK
<1>2. ASSUME NEW w \in Rewards, NEW u \in Users PROVE Balanced(w, u)'
  <2>1. ~Passes(Idle, w) /\ ~Flies(Idle, w) /\ ~Claims(Idle, w) /\ ~Counts(Idle, w, u)
    BY DEF Idle, Passes, Flies, Claims, Counts
  <2>2. ~Claims(req[r], w)
    BY DEF Claims
  <2>3. /\ Cardinality(Passed(w)') <= Cardinality(Passed(w)) /\ Cardinality(Passed(w)') \in Nat
        /\ Cardinality(InFlight(w)') <= Cardinality(InFlight(w)) /\ Cardinality(InFlight(w)') \in Int
        /\ Cardinality(Claiming(w)') = Cardinality(Claiming(w))
        /\ Cardinality(Counted(w, u)') <= Cardinality(Counted(w, u)) /\ Cardinality(Counted(w, u)') \in Int
    <3>1. /\ Cardinality(Passed(w)') = Cardinality(Passed(w)) - Bit(Passes(req[r], w))
          /\ Cardinality(InFlight(w)') = Cardinality(InFlight(w)) - Bit(Flies(req[r], w))
          /\ Cardinality(Claiming(w)') = Cardinality(Claiming(w))
          /\ Cardinality(Counted(w, u)') = Cardinality(Counted(w, u)) - Bit(Counts(req[r], w, u))
      <4>1. NumbersGo(req[r], Idle, w, u)
        BY NumbersMove DEF TypeOK
      <4> QED
        BY <2>1, <2>2, <4>1, Numbers DEF NumbersGo, Bit
    <3>2. Passed(w)' \in SUBSET Requests
      BY DEF Passed
    <3> QED
      BY <3>1, <3>2, Numbers, RequestSets DEF Bit
  <2> QED
    BY <2>3, Amounts, Numbers DEF AllBalanced, Balanced, Grantable, GetReward, GetRewardByID
<1> QED
  BY <1>1, <1>2 DEF AllBalanced

\* A new reward has no claims and no limit that could be exceeded.
LEMMA CreateStep ==
  ASSUME TypeOK, AllBalanced, NEW r \in Requests, NEW v \in Rewards, CreateReward(r, v)
  PROVE  AllBalanced'
<1>1. /\ reward[v].status = "none" /\ UNCHANGED <<granted, req, total, missed, late, window>>
  BY DEF CreateReward, history
<1>2. PICK limit \in Limits \cup {NoLimit}, n \in Nat :
        reward' = [reward EXCEPT ![v] = [status |-> "active", limit |-> limit, userLimit |-> n,
                                         claimed |-> 0, deleted |-> FALSE]]
  <2>1. \A n \in UserLimits : (IF n = 0 THEN 1 ELSE n) \in Nat
    BY RewardsAssumption
  <2> QED
    BY <2>1 DEF CreateReward, NewReward, InsertReward
<1>3. /\ reward'[v].status = "active" /\ reward'[v].limit = limit /\ reward'[v].userLimit = n
      /\ reward'[v].claimed = 0 /\ ~reward'[v].deleted
      /\ \A w \in Rewards : w # v => reward'[w] = reward[w]
  BY <1>2 DEF TypeOK
<1>4. \A x \in Requests : req[x].pc # "idle" => req[x].reward # v
  BY <1>1 DEF AllBalanced, RequestsFit
<1>5. RequestsFit'
  <2>1. \A x \in Requests : req[x].pc # "idle" => reward'[req[x].reward] = reward[req[x].reward]
    BY <1>3, <1>4, LocalsAt DEF TypeOK
  <2>2. \A w \in Rewards : reward'[w].status = "none" => w # v
    BY <1>3
  <2> QED
    BY <1>1, <1>3, <2>1, <2>2 DEF AllBalanced, RequestsFit
<1>6. ASSUME NEW w \in Rewards, NEW u \in Users PROVE Balanced(w, u)'
  <2>1. /\ Passed(w)' = Passed(w) /\ InFlight(w)' = InFlight(w)
        /\ Claiming(w)' = Claiming(w) /\ Counted(w, u)' = Counted(w, u)
    BY <1>1 DEF Passed, InFlight, Claiming, Counted
  <2>2. CASE w # v
    BY <1>1, <1>3, <2>1, <2>2 DEF AllBalanced, Balanced, Grantable, GetReward, GetRewardByID
  <2>3. CASE w = v
    <3>1. InFlight(v) = {} /\ Counted(v, u) = {}
      BY <1>4 DEF InFlight, Counted
    <3>2. Cardinality(InFlight(v)) = 0 /\ Cardinality(Counted(v, u)) = 0
      BY <3>1, FS_EmptySet
    <3>3. reward[v].claimed = 0 /\ granted[v][u] = 0
      BY <1>1 DEF AllBalanced, RequestsFit
    <3>4. limit # NoLimit => limit \in Nat
      BY RewardsAssumption
    <3>5. Grantable(v)'
      BY <1>3 DEF Grantable, GetReward, GetRewardByID
    <3> QED
      BY <1>1, <1>3, <2>1, <2>3, <3>2, <3>3, <3>4, <3>5, Numbers DEF AllBalanced, Balanced
  <2> QED
    BY <2>2, <2>3
<1> QED
  BY <1>5, <1>6 DEF AllBalanced

\* A reward is granted only while its claims leave room; the other requests may
\* all be ahead.
LEMMA BeginGrantStep ==
  ASSUME TypeOK, AllBalanced, NEW r \in Requests, NEW v \in Rewards, NEW a \in Users,
         BeginGrant(r, v, a), MayGrant(v)
  PROVE  AllBalanced'
<1> DEFINE rec == [pc |-> "count", reward |-> v, user |-> a, limit |-> reward[v].userLimit]
<1>1. /\ req[r].pc = "idle" /\ req' = [req EXCEPT ![r] = rec]
      /\ UNCHANGED <<reward, granted, total, missed, late, window>>
  BY DEF BeginGrant, Begins, Goes, tables, history
<1>2. /\ reward[v].status = "active" /\ Grantable(v)
      /\ reward[v].limit # NoLimit => reward[v].claimed < reward[v].limit
  BY DEF MayGrant, Grantable, Available
<1>3. RequestsFit'
  BY <1>1, <1>2 DEF AllBalanced, RequestsFit, TypeOK
<1>4. ASSUME NEW w \in Rewards, NEW u \in Users PROVE Balanced(w, u)'
  <2>1. /\ Passes(rec, w) <=> w = v
        /\ Flies(rec, w) <=> w = v
        /\ ~Claims(rec, w) /\ ~Counts(rec, w, u)
    BY DEF Passes, Flies, Claims, Counts
  <2>2. ~Passes(req[r], w) /\ ~Flies(req[r], w) /\ ~Claims(req[r], w) /\ ~Counts(req[r], w, u)
    BY <1>1, NoGrantMoves DEF NoGrant
  <2>3. NumbersGo(req[r], rec, w, u)
    BY <1>1, NumbersMove DEF TypeOK
  <2> HIDE DEF rec
  <2>4. CASE w # v
    <3>1. /\ Cardinality(Passed(w)') = Cardinality(Passed(w))
          /\ Cardinality(InFlight(w)') = Cardinality(InFlight(w))
          /\ Cardinality(Claiming(w)') = Cardinality(Claiming(w))
          /\ Cardinality(Counted(w, u)') = Cardinality(Counted(w, u))
      BY <2>1, <2>2, <2>3, <2>4, Numbers DEF NumbersGo, Bit
    <3> QED
      BY <1>1, <3>1 DEF AllBalanced, Balanced, Grantable, GetReward, GetRewardByID
  <2>5. CASE w = v
    <3>1. /\ Cardinality(InFlight(w)') = Cardinality(InFlight(w)) + 1
          /\ Cardinality(Claiming(w)') = Cardinality(Claiming(w))
          /\ Cardinality(Counted(w, u)') = Cardinality(Counted(w, u))
      BY <2>1, <2>2, <2>3, <2>5, Numbers DEF NumbersGo, Bit
    <3>2. Cardinality(InFlight(w)) <= Cardinality(Requests) - 1
      BY <2>2, Numbers
    <3>3. Grantable(w)'
      BY <1>1, <1>2, <2>5 DEF Grantable, GetReward, GetRewardByID
    <3> QED
      BY <1>1, <1>2, <2>5, <3>1, <3>2, <3>3, Amounts, Numbers DEF AllBalanced, Balanced
  <2> QED
    BY <2>4, <2>5
<1> QED
  BY <1>3, <1>4 DEF AllBalanced

\* A reward that is stopped leaves at most the grants that have passed its check.
LEMMA ChangeStep ==
  ASSUME TypeOK, AllBalanced, NEW r \in Requests, NEW v \in Rewards, NEW row \in Row,
         NoGrant(req[r]), req' = [req EXCEPT ![r] = Idle],
         reward[v].status # "none", row.status # "none",
         row.limit = reward[v].limit, row.userLimit = reward[v].userLimit,
         row.claimed = reward[v].claimed,
         Changes(v, row), UNCHANGED <<granted, total, missed, late>>
  PROVE  AllBalanced'
<1>1. /\ reward' = [reward EXCEPT ![v] = row] /\ reward'[v] = row
      /\ \A w \in Rewards : w # v => reward'[w] = reward[w] /\ window'[w] = window[w]
  BY DEF TypeOK, Changes
<1>2. /\ \A x \in Requests : req'[x] = IF x = r THEN Idle ELSE req[x]
      /\ Idle.pc = "idle"
  BY DEF TypeOK, Idle
<1>3. RequestsFit'
  <2>1. \A w \in Rewards : /\ reward'[w].status = "none" <=> reward[w].status = "none"
                           /\ reward'[w].userLimit = reward[w].userLimit
                           /\ reward'[w].claimed = reward[w].claimed
    BY <1>1
  <2>2. \A x \in Requests : req[x].pc # "idle" => req[x].reward \in Rewards
    BY LocalsAt DEF TypeOK
  <2> QED
    BY <1>2, <2>1, <2>2 DEF AllBalanced, RequestsFit
<1>4. ASSUME NEW w \in Rewards, NEW u \in Users PROVE Balanced(w, u)'
  <2>1. /\ Cardinality(Passed(w)') = Cardinality(Passed(w))
        /\ Cardinality(InFlight(w)') = Cardinality(InFlight(w))
        /\ Cardinality(Claiming(w)') = Cardinality(Claiming(w))
        /\ Cardinality(Counted(w, u)') = Cardinality(Counted(w, u))
    <3>1. NoGrant(Idle)
      BY <1>2 DEF NoGrant
    <3>2. /\ ~Passes(Idle, w) /\ ~Flies(Idle, w) /\ ~Claims(Idle, w) /\ ~Counts(Idle, w, u)
          /\ ~Passes(req[r], w) /\ ~Flies(req[r], w) /\ ~Claims(req[r], w) /\ ~Counts(req[r], w, u)
      BY <3>1, NoGrantMoves
    <3>3. NumbersGo(req[r], Idle, w, u)
      BY NumbersMove DEF TypeOK
    <3> QED
      BY <3>2, <3>3, Numbers DEF NumbersGo, Bit
  <2>2. CASE w # v
    BY <1>1, <2>1, <2>2 DEF AllBalanced, Balanced, Grantable, GetReward, GetRewardByID
  <2>3. CASE w = v
    <3>1. /\ reward'[v].limit = reward[v].limit /\ reward'[v].userLimit = reward[v].userLimit
          /\ reward'[v].claimed = reward[v].claimed
      BY <1>1
    <3>2. /\ window'[v] \in Nat /\ late[v] <= window'[v]
          /\ ~Grantable(v)' => late[v] + Cardinality(Passed(v)) <= window'[v]
      <4>1. Balanced(v, u) /\ late[v] \in Nat /\ window[v] \in Nat /\ Cardinality(Passed(v)) \in Nat
        BY <2>3, Amounts, Numbers DEF AllBalanced
      <4>2. CASE Grantable(v) /\ ~(row.status = "active" /\ ~row.deleted)
        <5>1. window'[v] = window[v] + Cardinality(Passed(v))
          BY <4>2 DEF Changes, TypeOK
        <5> QED
          BY <4>1, <5>1 DEF Balanced
      <4>3. CASE ~Grantable(v)
        BY <4>1, <4>3 DEF Changes, Balanced
      <4>4. CASE row.status = "active" /\ ~row.deleted
        <5>1. Grantable(v)'
          BY <1>1, <4>4 DEF Grantable, GetReward, GetRewardByID
        <5> QED
          BY <4>1, <4>4, <5>1 DEF Changes, Balanced
      <4> QED
        BY <4>2, <4>3, <4>4
    <3> QED
      BY <2>1, <2>3, <3>1, <3>2 DEF AllBalanced, Balanced
  <2> QED
    BY <2>2, <2>3
<1> QED
  BY <1>3, <1>4 DEF AllBalanced

\* Only users below their limit go on to the insertion.
LEMMA CountStep ==
  ASSUME TypeOK, AllBalanced, NEW r \in Requests, CountClaims(r),
         ~(granted[req[r].reward][req[r].user] >= req[r].limit)
  PROVE  AllBalanced'
<1> DEFINE v == req[r].reward
           a == req[r].user
           rec == [req[r] EXCEPT !.pc = "insert"]
<1>1. /\ req[r].pc = "count" /\ v \in Rewards /\ a \in Users /\ req[r].limit \in Nat
      /\ rec.pc = "insert" /\ rec.reward = v /\ rec.user = a /\ rec.limit = req[r].limit
  BY LocalsAt DEF CountClaims, TypeOK
<1>2. /\ req' = [req EXCEPT ![r] = rec]
      /\ UNCHANGED <<reward, granted, total, missed, late, window>>
  BY <1>1 DEF CountClaims, Goes, GetUserRewardsByUser, tables, history
<1>3. reward[v].userLimit = req[r].limit
  BY <1>1 DEF AllBalanced, RequestsFit
<1>4. RequestsFit'
  BY <1>1, <1>2 DEF AllBalanced, RequestsFit, TypeOK
<1>5. ASSUME NEW w \in Rewards, NEW u \in Users PROVE Balanced(w, u)'
  <2>1. /\ Passes(rec, w) <=> Passes(req[r], w)
        /\ Flies(rec, w) <=> Flies(req[r], w)
        /\ ~Claims(rec, w) /\ ~Claims(req[r], w)
        /\ Counts(rec, w, u) <=> w = v /\ u = a
        /\ ~Counts(req[r], w, u)
    BY <1>1 DEF Passes, Flies, Claims, Counts
  <2>2. NumbersGo(req[r], rec, w, u)
    BY <1>2, NumbersMove DEF TypeOK
  <2> HIDE DEF rec, v, a
  <2>3. /\ Cardinality(Passed(w)') = Cardinality(Passed(w))
        /\ Cardinality(InFlight(w)') = Cardinality(InFlight(w))
        /\ Cardinality(Claiming(w)') = Cardinality(Claiming(w))
    BY <2>1, <2>2, Numbers DEF NumbersGo, Bit
  <2>4. CASE ~(w = v /\ u = a)
    <3>1. Cardinality(Counted(w, u)') = Cardinality(Counted(w, u))
      BY <2>1, <2>2, <2>4, Numbers DEF NumbersGo, Bit
    <3> QED
      BY <1>2, <2>3, <3>1 DEF AllBalanced, Balanced, Grantable, GetReward, GetRewardByID
  <2>5. CASE w = v /\ u = a
    <3>1. Cardinality(Counted(w, u)') = Cardinality(Counted(w, u)) + 1
      BY <2>1, <2>2, <2>5, Numbers DEF NumbersGo, Bit
    <3>2. Cardinality(Counted(w, u)) <= Cardinality(Requests) - 1
      BY <2>1, Numbers
    <3>3. granted[w][u] < reward[w].userLimit
      BY <1>1, <1>3, <2>5, Amounts DEF v, a
    <3> QED
      BY <1>2, <2>3, <3>1, <3>2, <3>3, Amounts, Numbers
         DEF AllBalanced, Balanced, Grantable, GetReward, GetRewardByID
  <2> QED
    BY <2>4, <2>5
<1> QED
  BY <1>4, <1>5 DEF AllBalanced

\* The grant that is inserted was counted as one to come.
LEMMA InsertStep ==
  ASSUME TypeOK, AllBalanced, NEW r \in Requests, CreateUserReward(r)
  PROVE  AllBalanced'
<1> DEFINE v == req[r].reward
           a == req[r].user
           rec == [pc |-> "claim", reward |-> v]
<1>1. req[r].pc = "insert" /\ v \in Rewards /\ a \in Users
  BY LocalsAt DEF CreateUserReward, TypeOK
<1>2. /\ req' = [req EXCEPT ![r] = rec]
      /\ granted' = [granted EXCEPT ![v][a] = @ + 1]
      /\ total' = [total EXCEPT ![v] = @ + 1]
      /\ late' = IF Grantable(v) THEN late ELSE [late EXCEPT ![v] = @ + 1]
      /\ UNCHANGED <<reward, missed, window>>
  BY DEF CreateUserReward, Goes, InsertUserReward
<1>3. RequestsFit'
  <2>1. reward[v].status # "none"
    BY <1>1 DEF AllBalanced, RequestsFit
  <2>2. \A w \in Rewards, u \in Users : w # v => granted'[w][u] = granted[w][u]
    BY <1>1, <1>2 DEF TypeOK
  <2>3. \A x \in Requests : req'[x] = IF x = r THEN rec ELSE req[x]
    BY <1>2 DEF TypeOK
  <2> QED
    BY <1>1, <1>2, <2>1, <2>2, <2>3 DEF AllBalanced, RequestsFit
<1>4. ASSUME NEW w \in Rewards, NEW u \in Users PROVE Balanced(w, u)'
  <2>1. /\ ~Passes(rec, w)
        /\ Passes(req[r], w) <=> w = v
        /\ Flies(rec, w) <=> Flies(req[r], w)
        /\ Claims(rec, w) <=> w = v
        /\ ~Claims(req[r], w)
        /\ ~Counts(rec, w, u)
        /\ Counts(req[r], w, u) <=> w = v /\ u = a
    BY <1>1 DEF Passes, Flies, Claims, Counts
  <2>2. NumbersGo(req[r], rec, w, u)
    BY <1>2, NumbersMove DEF TypeOK
  <2>3. granted'[w][u] = IF w = v /\ u = a THEN granted[w][u] + 1 ELSE granted[w][u]
    BY <1>1, <1>2 DEF TypeOK
  <2>4. total'[w] = IF w = v THEN total[w] + 1 ELSE total[w]
    BY <1>1, <1>2 DEF TypeOK
  <2>5. late'[w] = IF w = v /\ ~Grantable(v) THEN late[w] + 1 ELSE late[w]
    BY <1>1, <1>2 DEF TypeOK
  <2>6. Grantable(w)' <=> Grantable(w)
    BY <1>2 DEF Grantable, GetReward, GetRewardByID
  <2> HIDE DEF rec, v, a
  <2>7. /\ Cardinality(Passed(w)') = IF w = v THEN Cardinality(Passed(w)) - 1 ELSE Cardinality(Passed(w))
        /\ Cardinality(InFlight(w)') = Cardinality(InFlight(w))
        /\ Cardinality(Claiming(w)') = IF w = v THEN Cardinality(Claiming(w)) + 1 ELSE Cardinality(Claiming(w))
        /\ Cardinality(Counted(w, u)') = IF w = v /\ u = a THEN Cardinality(Counted(w, u)) - 1
                                         ELSE Cardinality(Counted(w, u))
    BY <2>1, <2>2, Numbers DEF NumbersGo, Bit
  <2>8. w = v => Cardinality(Passed(w)) > 0
    <3>1. Passed(w)' \in SUBSET Requests
      BY DEF Passed
    <3>2. Cardinality(Passed(w)') \in Nat
      BY <3>1, RequestSets
    <3> QED
      BY <2>7, <3>2, Numbers
  <2>9. Balanced(w, u)
    BY DEF AllBalanced
  <2> QED
    BY <1>2, <2>3, <2>4, <2>5, <2>6, <2>7, <2>8, <2>9, Amounts, Numbers DEF Balanced
<1> QED
  BY <1>3, <1>4 DEF AllBalanced

\* A claim, counted or missed, was in flight.
LEMMA ClaimStep ==
  ASSUME TypeOK, AllBalanced, NEW r \in Requests, req[r].pc = "claim",
         req' = [req EXCEPT ![r] = Idle], UNCHANGED <<granted, total, late, window>>,
         \/ AddClaim(req[r].reward) /\ UNCHANGED missed
         \/ missed' = [missed EXCEPT ![req[r].reward] = @ + 1] /\ UNCHANGED reward
  PROVE  AllBalanced'
<1> DEFINE v == req[r].reward
<1>1. v \in Rewards /\ reward[v].status # "none"
  BY LocalsAt DEF TypeOK, AllBalanced, RequestsFit
<1>2. ASSUME NEW w \in Rewards
      PROVE  /\ reward'[w].status = reward[w].status /\ reward'[w].limit = reward[w].limit
             /\ reward'[w].userLimit = reward[w].userLimit /\ reward'[w].deleted = reward[w].deleted
             /\ reward'[w].claimed = reward[w].claimed \/ reward'[w].claimed = reward[w].claimed + 1
             /\ reward'[w].claimed + missed'[w] =
                  IF w = v THEN reward[w].claimed + missed[w] + 1 ELSE reward[w].claimed + missed[w]
             /\ w # v => reward'[w].claimed = reward[w].claimed
  <2>1. CASE AddClaim(v) /\ UNCHANGED missed
    <3>1. reward' = [reward EXCEPT ![v] = [reward[v] EXCEPT !.claimed = @ + 1]]
      BY <1>1, <2>1 DEF AddClaim
    <3>2. /\ reward[v] \in Row /\ reward[w] \in Row
          /\ reward[w].claimed \in Nat /\ missed[w] \in Nat
      BY <1>1 DEF TypeOK, Row
    <3>3. CASE w = v
      <4>1. reward'[v] = [reward[v] EXCEPT !.claimed = @ + 1]
        BY <1>1, <3>1 DEF TypeOK
      <4>2. /\ reward'[v].status = reward[v].status /\ reward'[v].limit = reward[v].limit
            /\ reward'[v].userLimit = reward[v].userLimit /\ reward'[v].deleted = reward[v].deleted
            /\ reward'[v].claimed = reward[v].claimed + 1
        BY <3>2, <4>1 DEF Row
      <4> QED
        BY <2>1, <3>2, <3>3, <4>2
    <3>4. CASE w # v
      BY <1>1, <2>1, <3>1, <3>2, <3>4 DEF TypeOK
    <3> QED
      BY <3>3, <3>4
  <2>2. CASE missed' = [missed EXCEPT ![v] = @ + 1] /\ UNCHANGED reward
    <3>1. reward[w].claimed \in Nat /\ missed \in [Rewards -> Nat]
      BY DEF TypeOK, Row
    <3> QED
      BY <1>1, <2>2, <3>1
  <2> QED
    BY <2>1, <2>2
<1>3. RequestsFit'
  <2>1. \A x \in Requests : req'[x] = IF x = r THEN Idle ELSE req[x]
    BY DEF TypeOK
  <2>2. \A x \in Requests : req[x].pc # "idle" => req[x].reward \in Rewards
    BY LocalsAt DEF TypeOK
  <2>3. Idle.pc = "idle"
    BY DEF Idle
  <2> QED
    BY <1>1, <1>2, <2>1, <2>2, <2>3 DEF AllBalanced, RequestsFit
<1>4. ASSUME NEW w \in Rewards, NEW u \in Users PROVE Balanced(w, u)'
  <2>1. /\ ~Passes(Idle, w) /\ ~Flies(Idle, w) /\ ~Claims(Idle, w) /\ ~Counts(Idle, w, u)
        /\ ~Passes(req[r], w) /\ ~Counts(req[r], w, u)
        /\ Flies(req[r], w) <=> w = v
        /\ Claims(req[r], w) <=> w = v
    BY DEF Idle, Passes, Flies, Claims, Counts
  <2>2. NumbersGo(req[r], Idle, w, u)
    BY NumbersMove DEF TypeOK
  <2>3. Grantable(w)' <=> Grantable(w)
    BY <1>2 DEF Grantable, GetReward, GetRewardByID
  <2> HIDE DEF v
  <2>4. /\ Cardinality(Passed(w)') = Cardinality(Passed(w))
        /\ Cardinality(InFlight(w)') = IF w = v THEN Cardinality(InFlight(w)) - 1 ELSE Cardinality(InFlight(w))
        /\ Cardinality(Claiming(w)') = IF w = v THEN Cardinality(Claiming(w)) - 1 ELSE Cardinality(Claiming(w))
        /\ Cardinality(Counted(w, u)') = Cardinality(Counted(w, u))
    BY <2>1, <2>2, Numbers DEF NumbersGo, Bit
  <2>5. Balanced(w, u) /\ missed'[w] \in Nat
    BY <1>1 DEF AllBalanced, TypeOK
  <2> QED
    BY <1>2, <2>3, <2>4, <2>5, Amounts, Numbers DEF Balanced
<1> QED
  BY <1>3, <1>4 DEF AllBalanced

-----------------------------------------------------------------------------
(* The theorems.                                                           *)

LEMMA BalanceInit == Init => AllBalanced
<1> SUFFICES ASSUME Init PROVE AllBalanced
  OBVIOUS
<1>1. /\ \A w \in Rewards : reward[w] = NoReward /\ total[w] = 0 /\ missed[w] = 0 /\ late[w] = 0 /\ window[w] = 0
      /\ \A w \in Rewards, u \in Users : granted[w][u] = 0
      /\ \A r \in Requests : req[r].pc = "idle"
  BY DEF Init, Zero, Idle
<1>2. NoReward.limit = NoLimit /\ NoReward.userLimit = 1 /\ NoReward.claimed = 0
  BY DEF NoReward
<1>3. RequestsFit
  BY <1>1, <1>2 DEF RequestsFit
<1>4. ASSUME NEW w \in Rewards, NEW u \in Users PROVE Balanced(w, u)
  <2>1. Passed(w) = {} /\ Claiming(w) = {} /\ Counted(w, u) = {}
    BY <1>1 DEF Passed, Claiming, Counted
  <2>2. Cardinality(Passed(w)) = 0 /\ Cardinality(Claiming(w)) = 0 /\ Cardinality(Counted(w, u)) = 0
    BY <2>1, FS_EmptySet
  <2> QED
    BY <1>1, <1>2, <2>2, Numbers DEF Balanced
<1> QED
  BY <1>3, <1>4 DEF AllBalanced

\* Every statement of every request keeps the balance.
LEMMA BalanceStep == TypeOK /\ AllBalanced /\ [Next]_vars => AllBalanced'
<1> SUFFICES ASSUME TypeOK, AllBalanced, [Next]_vars PROVE AllBalanced'
  OBVIOUS
<1>0. NoGrant(Idle) /\ Idle.pc = "idle"
  BY DEF NoGrant, Idle
<1>1. ASSUME NEW r \in Requests, NEW w \in Rewards, CreateReward(r, w) PROVE AllBalanced'
  BY <1>1, CreateStep
<1>2. ASSUME NEW r \in Requests, NEW w \in Rewards, BeginUpdate(r, w) PROVE AllBalanced'
  <2>1. PICK status : req' = [req EXCEPT ![r] = IF GetReward(w)
                                                THEN [pc |-> "update", reward |-> w, status |-> status]
                                                ELSE Idle]
    BY <1>2 DEF BeginUpdate, Goes
  <2>2. NoGrant(req[r]) /\ UNCHANGED <<reward, granted, total, missed, late, window>>
    BY <1>2 DEF BeginUpdate, Begins, NoGrant, tables, history
  <2>3. CASE GetReward(w)
    <3>1. NoGrant([pc |-> "update", reward |-> w, status |-> status]) /\ reward[w].status # "none"
      BY <2>3 DEF NoGrant, GetReward, GetRewardByID
    <3> QED
      BY <2>1, <2>2, <2>3, <3>1, QuietStep
  <2>4. CASE ~GetReward(w)
    BY <1>0, <2>1, <2>2, <2>4, QuietStep
  <2> QED
    BY <2>3, <2>4
<1>3. ASSUME NEW r \in Requests, NEW w \in Rewards, BeginDelete(r, w) PROVE AllBalanced'
  <2>1. req' = [req EXCEPT ![r] = IF GetReward(w) THEN [pc |-> "delete", reward |-> w] ELSE Idle]
    BY <1>3 DEF BeginDelete, Goes
  <2>2. NoGrant(req[r]) /\ UNCHANGED <<reward, granted, total, missed, late, window>>
    BY <1>3 DEF BeginDelete, Begins, NoGrant, tables, history
  <2>3. CASE GetReward(w)
    <3>1. NoGrant([pc |-> "delete", reward |-> w]) /\ reward[w].status # "none"
      BY <2>3 DEF NoGrant, GetReward, GetRewardByID
    <3> QED
      BY <2>1, <2>2, <2>3, <3>1, QuietStep
  <2>4. CASE ~GetReward(w)
    BY <1>0, <2>1, <2>2, <2>4, QuietStep
  <2> QED
    BY <2>3, <2>4
<1>4. ASSUME NEW r \in Requests, NEW w \in Rewards, NEW u \in Users, BeginGrant(r, w, u) PROVE AllBalanced'
  <2>1. CASE MayGrant(w)
    BY <1>4, <2>1, BeginGrantStep
  <2>2. CASE ~MayGrant(w)
    <3>1. /\ NoGrant(req[r]) /\ req' = [req EXCEPT ![r] = Idle]
          /\ UNCHANGED <<reward, granted, total, missed, late, window>>
      BY <1>4, <2>2 DEF BeginGrant, Begins, Goes, NoGrant, tables, history
    <3> QED
      BY <1>0, <3>1, QuietStep
  <2> QED
    BY <2>1, <2>2
<1>5. ASSUME NEW r \in Requests, UpdateReward(r) PROVE AllBalanced'
  <2> DEFINE v == req[r].reward
  <2>1. /\ v \in Rewards /\ req[r].status \in Statuses \cup {Absent} /\ NoGrant(req[r])
        /\ req' = [req EXCEPT ![r] = Idle]
        /\ UNCHANGED <<granted, total, missed, late>>
    BY <1>5, LocalsAt DEF UpdateReward, TypeOK, Goes, NoGrant
  <2>2. CASE GetRewardByID(v)
    <3> DEFINE row == WithStatus(reward[v], req[r].status)
    <3>1. reward[v] \in Row /\ row \in Row /\ reward[v].status # "none"
      BY <2>1, <2>2, RowKept DEF TypeOK, GetRewardByID
    <3>2. /\ row.limit = reward[v].limit /\ row.userLimit = reward[v].userLimit
          /\ row.claimed = reward[v].claimed
          /\ row.status = IF req[r].status = Absent THEN reward[v].status ELSE req[r].status
      BY <3>1 DEF WithStatus, Row
    <3>3. row.status # "none"
      BY <2>1, <3>1, <3>2 DEF Statuses, Absent
    <3>4. Changes(v, row)
      BY <1>5, <2>2 DEF UpdateReward
    <3> HIDE DEF row
    <3> QED
      BY <2>1, <3>1, <3>2, <3>3, <3>4, ChangeStep
  <2>3. CASE ~GetRewardByID(v)
    <3>1. UNCHANGED <<reward, window>>
      BY <1>5, <2>3 DEF UpdateReward
    <3> QED
      BY <1>0, <2>1, <3>1, QuietStep
  <2> QED
    BY <2>2, <2>3
<1>6. ASSUME NEW r \in Requests, DeleteReward(r) PROVE AllBalanced'
  <2> DEFINE v == req[r].reward
  <2>1. /\ v \in Rewards /\ NoGrant(req[r]) /\ req' = [req EXCEPT ![r] = Idle]
        /\ UNCHANGED <<granted, total, missed, late>>
    BY <1>6, LocalsAt DEF DeleteReward, TypeOK, Goes, NoGrant
  <2>2. CASE GetRewardByID(v)
    <3> DEFINE row == SoftDeleted(reward[v])
    <3>1. reward[v] \in Row /\ row \in Row /\ reward[v].status # "none"
      BY <2>1, <2>2, RowKept DEF TypeOK, GetRewardByID
    <3>2. /\ row.limit = reward[v].limit /\ row.userLimit = reward[v].userLimit
          /\ row.claimed = reward[v].claimed /\ row.status = reward[v].status
      BY <3>1 DEF SoftDeleted, Row
    <3>3. Changes(v, row)
      BY <1>6, <2>2 DEF DeleteReward
    <3> HIDE DEF row
    <3> QED
      BY <2>1, <3>1, <3>2, <3>3, ChangeStep
  <2>3. CASE ~GetRewardByID(v)
    <3>1. UNCHANGED <<reward, window>>
      BY <1>6, <2>3 DEF DeleteReward
    <3> QED
      BY <1>0, <2>1, <3>1, QuietStep
  <2> QED
    BY <2>2, <2>3
<1>7. ASSUME NEW r \in Requests, CountClaims(r) PROVE AllBalanced'
  <2>1. CASE granted[req[r].reward][req[r].user] >= req[r].limit
    <3>1. GetUserRewardsByUser(req[r].user)[req[r].reward] = granted[req[r].reward][req[r].user]
      BY <1>7, LocalsAt DEF GetUserRewardsByUser, CountClaims, TypeOK
    <3>2. /\ req[r].pc = "count" /\ req' = [req EXCEPT ![r] = Idle]
          /\ UNCHANGED <<reward, granted, total, missed, late, window>>
      BY <1>7, <2>1, <3>1 DEF CountClaims, Goes, tables, history
    <3> QED
      BY <3>2, GrantEnds
  <2>2. CASE ~(granted[req[r].reward][req[r].user] >= req[r].limit)
    BY <1>7, <2>2, CountStep
  <2> QED
    BY <2>1, <2>2
<1>8. ASSUME NEW r \in Requests, CreateUserReward(r) PROVE AllBalanced'
  BY <1>8, InsertStep
<1>9. ASSUME NEW r \in Requests, IncrementRewardClaimed(r) PROVE AllBalanced'
  BY <1>9, ClaimStep DEF IncrementRewardClaimed, Goes, history
<1>10. ASSUME NEW r \in Requests, StatementFails(r) PROVE AllBalanced'
  <2>1. req' = [req EXCEPT ![r] = Idle] /\ UNCHANGED <<reward, granted, total, late, window>>
    BY <1>10 DEF StatementFails, Goes, tables
  <2>2. CASE req[r].pc = "claim"
    BY <1>10, <2>1, <2>2, ClaimStep DEF StatementFails
  <2>3. CASE req[r].pc \in {"count", "insert"}
    BY <1>10, <2>1, <2>3, GrantEnds DEF StatementFails
  <2>4. CASE req[r].pc \in {"update", "delete"}
    <3>1. NoGrant(req[r]) /\ UNCHANGED missed
      BY <1>10, <2>4 DEF StatementFails, NoGrant
    <3> QED
      BY <1>0, <2>1, <3>1, QuietStep
  <2> QED
    BY <1>10, <2>2, <2>3, <2>4, LocalsAt DEF StatementFails, TypeOK
<1>11. CASE UNCHANGED vars
  BY <1>11 DEF vars, AllBalanced, RequestsFit, Balanced, InFlight, Counted, Claiming, Passed,
               Grantable, GetReward, GetRewardByID
<1> QED
  BY <1>1, <1>2, <1>3, <1>4, <1>5, <1>6, <1>7, <1>8, <1>9, <1>10, <1>11 DEF Next

\* What holds after every step, whatever the other requests are at.
LEMMA Invariant == Spec => [](TypeOK /\ AllBalanced)
<1> QED
  BY TypeInit, TypeStep, BalanceInit, BalanceStep, PTL DEF Spec

\* No sequence of requests, in any order and with any failures, breaks the types.
THEOREM TypeCorrect == Spec => []TypeOK
<1> QED
  BY TypeInit, TypeStep, PTL DEF Spec

\* The balance bounds the grants by the limit, the other requests and missed counts.
LEMMA BalanceBounds == TypeOK /\ AllBalanced => OverGrantBounded
<1> SUFFICES ASSUME TypeOK, AllBalanced, NEW w \in Rewards, NEW u \in Users
             PROVE  /\ reward[w].limit # NoLimit =>
                         total[w] <= reward[w].limit + Cardinality(Requests) - 1 + missed[w]
                    /\ granted[w][u] <= reward[w].userLimit + Cardinality(Requests) - 1
  BY RewardsAssumption DEF OverGrantBounded
<1>1. Balanced(w, u)
  BY DEF AllBalanced
<1> QED
  BY <1>1, Amounts, Numbers DEF Balanced

\* However many requests GrantReward serves at once, a limit is overrun by no more
\* than the other requests in flight and the counts that failed.
THEOREM GrantsBounded == Spec => []OverGrantBounded
<1> QED
  BY Invariant, BalanceBounds, PTL

\* The count of IncrementRewardClaimed is the number of rows of CreateUserReward,
\* but for the claims under way and those that failed.
THEOREM ClaimsCounted == Spec => []ClaimedTrue
<1>1. AllBalanced => ClaimedTrue
  <2> SUFFICES ASSUME AllBalanced, NEW w \in Rewards
               PROVE  total[w] = reward[w].claimed + Cardinality(Claiming(w)) + missed[w]
    BY DEF ClaimedTrue
  <2>1. PICK u \in Users : TRUE
    BY RewardsAssumption
  <2> QED
    BY <2>1 DEF AllBalanced, Balanced
<1> QED
  BY <1>1, Invariant, PTL

\* A reward that UpdateReward or DeleteReward has stopped is granted only by the
\* requests that had read it before.
THEOREM StoppedRewards == Spec => []StoppedIsFinal
<1>1. AllBalanced => StoppedIsFinal
  <2> SUFFICES ASSUME AllBalanced, NEW w \in Rewards PROVE late[w] <= window[w]
    BY DEF StoppedIsFinal
  <2>1. PICK u \in Users : TRUE
    BY RewardsAssumption
  <2> QED
    BY <2>1 DEF AllBalanced, Balanced
<1> QED
  BY <1>1, Invariant, PTL
=============================================================================
