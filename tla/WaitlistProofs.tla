--------------------------- MODULE WaitlistProofs ---------------------------
(***************************************************************************)
(* Proofs about the waitlist of a campaign, for every number of users,     *)
(* requests and calculators, every limit of sign-ups and every number of   *)
(* failures.                                                               *)
(***************************************************************************)
EXTENDS Waitlist, FiniteSetTheorems, TLAPS

-----------------------------------------------------------------------------
(* Sets of users and of requests.                                          *)

\* Sets of users, and of requests, are finite.
LEMMA Finite ==
  /\ \A S \in SUBSET Users : IsFiniteSet(S) /\ Cardinality(S) \in Nat
  /\ \A S \in SUBSET Requests :
       IsFiniteSet(S) /\ Cardinality(S) \in Nat /\ Cardinality(S) <= Cardinality(Requests)
  /\ Cardinality(Requests) \in Nat
<1>1. IsFiniteSet(Users) /\ IsFiniteSet(Requests)
  BY WaitlistAssumption, FS_Interval DEF Users
<1>2. ASSUME NEW S \in SUBSET Users PROVE IsFiniteSet(S) /\ Cardinality(S) \in Nat
  BY <1>1, FS_Subset, FS_CardinalityType
<1>3. ASSUME NEW S \in SUBSET Requests
      PROVE  IsFiniteSet(S) /\ Cardinality(S) \in Nat /\ Cardinality(S) <= Cardinality(Requests)
  BY <1>1, FS_Subset, FS_CardinalityType
<1> QED
  BY <1>1, <1>2, <1>3, FS_CardinalityType

\* When one member moves, a finite set gains it, loses it or stays as it is.
LEMMA OneMoves ==
  ASSUME NEW S, NEW T, NEW x, IsFiniteSet(S), T \ {x} = S \ {x}
  PROVE  /\ x \notin S /\ x \in T => Cardinality(T) = Cardinality(S) + 1
         /\ x \in S /\ x \notin T => Cardinality(T) = Cardinality(S) - 1
         /\ (x \in S <=> x \in T) => T = S
<1>1. ASSUME x \notin S, x \in T PROVE Cardinality(T) = Cardinality(S) + 1
  <2>1. T = S \cup {x}
    BY <1>1
  <2> QED
    BY <1>1, <2>1, FS_AddElement
<1>2. ASSUME x \in S, x \notin T PROVE Cardinality(T) = Cardinality(S) - 1
  <2>1. T = S \ {x}
    BY <1>2
  <2> QED
    BY <1>2, <2>1, FS_RemoveElement
<1>3. ASSUME x \in S <=> x \in T PROVE T = S
  BY <1>3
<1> QED
  BY <1>1, <1>2, <1>3

-----------------------------------------------------------------------------
(* Types.                                                                  *)

Request ==
  [op : {"none", "signup", "token", "manual"},
   pc : {"idle", "lookup", "create", "count", "verify", "dispatch"},
   user : Users \cup {NoUser}, by : Users \cup {NoUser}, seats : BOOLEAN]
Calculation == [pc : {"idle", "lock", "write"}, ranks : [Users -> Nat]]

\* The variables keep their types.
TypeOK ==
  /\ maxSignups \in Nat
  /\ row \in [Users -> {"none", "live", "deleted"}]
  /\ createdAt \in [Users -> Nat] /\ referrer \in [Users -> Users \cup {NoUser}]
  /\ verified \in [Users -> BOOLEAN] /\ refs \in [Users -> Nat] /\ verRefs \in [Users -> Nat]
  /\ position \in [Users -> Int]
  /\ request \in [Requests -> Request]
  /\ events \in Nat
  /\ calc \in [Calculators -> Calculation] /\ lock \in Calculators \cup {Free}
  /\ faults \in Nat

\* What a request holds at its statement.
RequestFits(q) ==
  /\ q.pc \in {"lookup", "create"} => q.op = "signup"
  /\ q.pc = "create" => q.seats /\ q.user \in Users
  /\ q.pc = "verify" => /\ q.op \in {"token", "manual"} /\ q.user \in Users
                        /\ q.by = referrer[q.user] /\ row[q.user] # "none"
  /\ q.pc = "count" => q.op \in {"signup", "token", "manual"} /\ q.by \in Users

\* Only rows that were inserted are verified, and have a position.
RowsFit ==
  \A u \in Users : row[u] = "none" => ~verified[u] /\ position[u] <= 0

\* A calculator computes positions of rows that were inserted.
RanksFit ==
  \A w \in Calculators : calc[w].pc = "write" =>
    \A u \in Users : row[u] = "none" => calc[w].ranks[u] = 0

Fits == TypeOK /\ RowsFit /\ RanksFit /\ \A r \in Requests : RequestFits(request[r])

LEMMA RankType ==
  ASSUME NEW u, NEW s PROVE Rank(u, s) \in Nat /\ Rank(u, s) > 0
<1>1. {v \in Live : Before(v, u, s)} \in SUBSET Users
  BY DEF Live
<1> QED
  BY <1>1, Finite DEF Rank

LEMMA InitFits == Init => Fits
<1> SUFFICES ASSUME Init PROVE Fits
  OBVIOUS
<1>1. Idle \in Request /\ IdleCalc \in Calculation
  BY DEF Idle, IdleCalc, Request, Calculation
<1>2. RowsFit
  BY DEF Init, RowsFit, Unranked
<1>3. TypeOK
  BY <1>1, WaitlistAssumption DEF Init, TypeOK, Unranked
<1>4. \A r \in Requests : RequestFits(request[r])
  BY DEF Init, Idle, RequestFits
<1>5. RanksFit
  BY DEF Init, IdleCalc, RanksFit
<1> QED
  BY <1>2, <1>3, <1>4, <1>5 DEF Fits

\* What a request is to hold at the statement it goes to.
FitsNext(q) ==
  /\ q.pc \in {"lookup", "create"} => q.op = "signup"
  /\ q.pc = "create" => q.seats /\ q.user \in Users
  /\ q.pc = "verify" => /\ q.op \in {"token", "manual"} /\ q.user \in Users
                        /\ q.by = referrer'[q.user] /\ row'[q.user] # "none"
  /\ q.pc = "count" => q.op \in {"signup", "token", "manual"} /\ q.by \in Users

\* A step of a request moves that request only.
LEMMA OneRequest ==
  ASSUME request \in [Requests -> Request], NEW r \in Requests,
         SignupReadsCampaign(r) \/ VerifyReads(r) \/ RequestStep(r) \/ RequestDies(r)
  PROVE  request' = [request EXCEPT ![r] = request'[r]]
<1> USE DEF Request, Start, Goto, End
<1>1. CASE SignupReadsCampaign(r) \/ VerifyReads(r)
  BY <1>1 DEF SignupReadsCampaign, VerifyReads
<1>2. CASE SignupLooksUp(r)
  BY <1>2 DEF SignupLooksUp
<1>3. CASE SignupCreates(r)
  BY <1>3 DEF SignupCreates
<1>4. CASE SignupCounts(r)
  BY <1>4 DEF SignupCounts
<1>5. CASE VerifyWrites(r)
  BY <1>5 DEF VerifyWrites
<1>6. CASE VerifyCounts(r)
  BY <1>6 DEF VerifyCounts
<1>7. CASE Dispatches(r) \/ RequestDies(r)
  BY <1>7 DEF Dispatches, RequestDies
<1> QED
  BY <1>1, <1>2, <1>3, <1>4, <1>5, <1>6, <1>7 DEF RequestStep

\* A request ends or goes to another statement; the rows that exist stay.
LEMMA RequestMoves ==
  ASSUME Fits, NEW r \in Requests, request' = [request EXCEPT ![r] = request'[r]],
         request'[r] \in Request, FitsNext(request'[r]),
         \A u \in Users : row[u] # "none" => row'[u] # "none" /\ referrer'[u] = referrer[u]
  PROVE  request' \in [Requests -> Request] /\ \A p \in Requests : RequestFits(request[p])'
<1>1. request \in [Requests -> Request]
  BY DEF Fits, TypeOK
<1>2. ASSUME NEW p \in Requests PROVE RequestFits(request[p])'
  <2>1. CASE p = r
    BY <1>1, <2>1 DEF FitsNext, RequestFits
  <2>2. CASE p # r
    BY <1>1, <2>2 DEF Fits, RequestFits
  <2> QED
    BY <2>1, <2>2
<1> QED
  BY <1>1, <1>2

\* The new statement of a request.
LEMMA NewStatement ==
  ASSUME Fits, NEW r \in Requests,
         SignupReadsCampaign(r) \/ VerifyReads(r) \/ RequestStep(r) \/ RequestDies(r)
  PROVE  request'[r] \in Request /\ FitsNext(request'[r])
<1> DEFINE q == request[r]
           p == request'[r]
<1>1. /\ q \in Request /\ RequestFits(q) /\ request \in [Requests -> Request]
      /\ referrer \in [Users -> Users \cup {NoUser}]
  BY DEF Fits, TypeOK
<1>2. CASE p = Idle
  BY <1>2 DEF Idle, Request, FitsNext
<1>3. CASE SignupReadsCampaign(r)
  <2>1. p = [op |-> "signup", pc |-> "lookup", user |-> NoUser, by |-> NoUser,
             seats |-> Cardinality(Live) < maxSignups]
    BY <1>1, <1>3 DEF SignupReadsCampaign, Start, Idle
  <2>2. (Cardinality(Live) < maxSignups) \in BOOLEAN
    OBVIOUS
  <2>3. p.op = "signup" /\ p.pc = "lookup"
    BY <2>1
  <2> QED
    BY <2>1, <2>2, <2>3 DEF Request, FitsNext
<1>4. CASE SignupLooksUp(r)
  <2>1. PICK u \in Users, v \in Users \cup {NoUser} :
          \/ q.seats /\ p = [q EXCEPT !.pc = "create", !.user = u, !.by = v]
          \/ p = Idle
    BY <1>1, <1>4 DEF SignupLooksUp, End, Live
  <2>2. CASE q.seats /\ p = [q EXCEPT !.pc = "create", !.user = u, !.by = v]
    <3>1. q.op = "signup"
      BY <1>1, <1>4 DEF SignupLooksUp, RequestFits
    <3>2. p \in Request /\ p.pc = "create" /\ p.op = "signup" /\ p.seats = q.seats /\ p.user = u
      BY <1>1, <2>2, <3>1 DEF Request
    <3> QED
      BY <2>2, <3>2 DEF FitsNext
  <2> QED
    BY <1>2, <2>1, <2>2
<1>5. CASE SignupCreates(r)
  <2>1. p = Idle \/ p = [q EXCEPT !.pc = IF q.by = NoUser THEN "dispatch" ELSE "count"]
    BY <1>1, <1>5 DEF SignupCreates, Goto, End
  <2>2. CASE p = [q EXCEPT !.pc = IF q.by = NoUser THEN "dispatch" ELSE "count"]
    <3>1. q.op = "signup"
      BY <1>1, <1>5 DEF SignupCreates, RequestFits
    <3> QED
      BY <1>1, <2>2, <3>1 DEF Request, FitsNext
  <2> QED
    BY <1>2, <2>1, <2>2
<1>6. CASE SignupCounts(r)
  <2>1. p = [q EXCEPT !.pc = "dispatch"]
    BY <1>1, <1>6 DEF SignupCounts, Goto
  <2> QED
    BY <1>1, <2>1 DEF Request, FitsNext
<1>7. CASE VerifyReads(r)
  <2>1. PICK u \in Live, op \in {"token", "manual"} :
          p = [Idle EXCEPT !.op = op, !.pc = "verify", !.user = u, !.by = referrer[u]]
    BY <1>1, <1>7 DEF VerifyReads, Start
  <2>2. u \in Users /\ row[u] = "live" /\ row' = row /\ referrer' = referrer
    BY <1>7 DEF Live, VerifyReads, userRow
  <2>3. /\ p.op = op /\ p.pc = "verify" /\ p.user = u /\ p.by = referrer[u] /\ p \in Request
    BY <1>1, <2>1, <2>2 DEF Idle, Request
  <2> QED
    BY <2>2, <2>3 DEF FitsNext
<1>8. CASE VerifyWrites(r) \/ VerifyCounts(r)
  <2>1. \/ p = Idle \/ p = [q EXCEPT !.pc = "dispatch"]
        \/ q.by # NoUser /\ q.op \in {"token", "manual"} /\ p = [q EXCEPT !.pc = "count"]
    BY <1>1, <1>8 DEF VerifyWrites, VerifyCounts, AfterVerify, End, RequestFits
  <2>2. CASE p = [q EXCEPT !.pc = "dispatch"]
    BY <1>1, <2>2 DEF Request, FitsNext
  <2>3. CASE q.by # NoUser /\ q.op \in {"token", "manual"} /\ p = [q EXCEPT !.pc = "count"]
    BY <1>1, <2>3 DEF Request, FitsNext
  <2> QED
    BY <1>2, <2>1, <2>2, <2>3
<1>9. CASE Dispatches(r) \/ RequestDies(r)
  BY <1>1, <1>2, <1>9 DEF Dispatches, RequestDies, End
<1> QED
  BY <1>3, <1>4, <1>5, <1>6, <1>7, <1>8, <1>9 DEF RequestStep

\* The rows and the counters after a step of a request.
LEMMA NewRows ==
  ASSUME Fits, NEW r \in Requests,
         SignupReadsCampaign(r) \/ VerifyReads(r) \/ RequestStep(r) \/ RequestDies(r)
  PROVE  /\ maxSignups' \in Nat /\ row' \in [Users -> {"none", "live", "deleted"}]
         /\ createdAt' \in [Users -> Nat] /\ referrer' \in [Users -> Users \cup {NoUser}]
         /\ verified' \in [Users -> BOOLEAN] /\ refs' \in [Users -> Nat]
         /\ verRefs' \in [Users -> Nat] /\ events' \in Nat /\ faults' \in Nat
         /\ UNCHANGED calculation /\ RowsFit'
         /\ \A u \in Users : row[u] # "none" => row'[u] # "none" /\ referrer'[u] = referrer[u]
<1>1. TypeOK /\ RowsFit /\ request[r] \in Request /\ RequestFits(request[r])
  BY DEF Fits, TypeOK
<1> USE DEF TypeOK, RowsFit, userRow, counters, calculation
<1>2. CASE SignupReadsCampaign(r) \/ SignupLooksUp(r) \/ VerifyReads(r)
  BY <1>1, <1>2 DEF SignupReadsCampaign, SignupLooksUp, VerifyReads
<1>3. CASE SignupCreates(r)
  <2> DEFINE u == request[r].user
  <2>1. u \in Users
    BY <1>1, <1>3 DEF SignupCreates, RequestFits
  <2>2. CASE row[u] = "none"
    <3>1. /\ row' = [row EXCEPT ![u] = "live"] /\ maxSignups' = maxSignups
          /\ referrer' = [referrer EXCEPT ![u] = request[r].by]
      BY <1>3, <2>2 DEF SignupCreates
    <3>2. createdAt' \in [Users -> Nat]
      <4>1. PICK v \in Users : \E t \in {createdAt[v], createdAt[v] + 1} :
              createdAt' = [createdAt EXCEPT ![u] = t]
        BY <1>3, <2>2 DEF SignupCreates
      <4>2. createdAt[v] \in Nat /\ createdAt[v] + 1 \in Nat
        BY <1>1
      <4> QED
        BY ZenonT(40), <1>1, <4>1, <4>2
    <3>3. request[r].by \in Users \cup {NoUser}
      BY <1>1 DEF Request
    <3> QED
      BY <1>1, <1>3, <2>1, <2>2, <3>1, <3>2, <3>3 DEF SignupCreates
  <2>3. CASE row[u] # "none"
    BY <1>1, <1>3, <2>3 DEF SignupCreates
  <2> QED
    BY <2>2, <2>3
<1>4. CASE SignupCounts(r)
  <2>1. request[r].by \in Users
    BY <1>1, <1>4 DEF SignupCounts, RequestFits
  <2> QED
    BY <1>1, <1>4, <2>1 DEF SignupCounts, Fault
<1>5. CASE VerifyWrites(r)
  <2>1. request[r].user \in Users /\ row[request[r].user] # "none"
    BY <1>1, <1>5 DEF VerifyWrites, RequestFits
  <2> QED
    BY <1>1, <1>5, <2>1 DEF VerifyWrites
<1>6. CASE VerifyCounts(r)
  <2>1. request[r].by \in Users
    BY <1>1, <1>6 DEF VerifyCounts, RequestFits
  <2> QED
    BY <1>1, <1>6, <2>1 DEF VerifyCounts, Fault
<1>7. CASE Dispatches(r) \/ RequestDies(r)
  BY <1>1, <1>7 DEF Dispatches, RequestDies, Fault
<1> QED
  BY <1>2, <1>3, <1>4, <1>5, <1>6, <1>7 DEF RequestStep

\* A step of a calculator moves that calculator only, and a calculator about to
\* write has just read, or was about to already.
LEMMA CalcMoves ==
  ASSUME TypeOK, NEW w \in Calculators, CalcStep(w) \/ CalcFails(w)
  PROVE  /\ \A v \in Calculators \ {w} : calc'[v] = calc[v]
         /\ calc'[w].pc = "write" =>
              CalcReads(w) /\ Live # {} /\ lock' = w
              /\ calc'[w].ranks =
                   [u \in Users |-> IF u \in Live THEN Rank(u, LoadedSettings) ELSE 0]
<1>1. calc \in [Calculators -> Calculation]
  BY DEF TypeOK
<1>2. CASE CalcTakes(w)
  BY <1>1, <1>2 DEF CalcTakes, Calculation
<1>3. CASE CalcReads(w)
  <2>1. CASE Live = {}
    BY <1>1, <1>3, <2>1 DEF CalcReads, IdleCalc
  <2>2. CASE Live # {}
    BY <1>1, <1>3, <2>2 DEF CalcReads
  <2> QED
    BY <2>1, <2>2
<1>4. CASE CalcWrites(w) \/ CalcFails(w)
  BY <1>1, <1>4 DEF CalcWrites, CalcFails, IdleCalc
<1> QED
  BY <1>2, <1>3, <1>4 DEF CalcStep

LEMMA StepFits == Fits /\ [Next]_vars => Fits'
<1> SUFFICES ASSUME Fits, [Next]_vars PROVE Fits'
  OBVIOUS
<1>1. /\ TypeOK /\ RowsFit /\ RanksFit /\ \A r \in Requests : RequestFits(request[r])
      /\ request \in [Requests -> Request] /\ row \in [Users -> {"none", "live", "deleted"}]
  BY DEF Fits, TypeOK
<1>2. ASSUME NEW r \in Requests,
             SignupReadsCampaign(r) \/ VerifyReads(r) \/ RequestStep(r) \/ RequestDies(r)
      PROVE  Fits'
  <2>1. request' \in [Requests -> Request] /\ \A p \in Requests : RequestFits(request[p])'
    BY <1>1, <1>2, OneRequest, NewStatement, NewRows, RequestMoves
  <2>2. position' = position /\ calc' = calc /\ lock' = lock
    BY <1>2, NewRows DEF calculation
  <2>3. TypeOK'
    BY <1>1, <1>2, <2>1, <2>2, NewRows DEF TypeOK
  <2>4. RowsFit'
    BY <1>2, NewRows
  <2>5. RanksFit'
    BY <1>1, <1>2, <2>2, NewRows DEF RanksFit
  <2> QED
    BY <2>1, <2>3, <2>4, <2>5 DEF Fits
<1> USE DEF userRow, counters, calculation
<1>3. CASE DeleteUser
  <2>1. PICK u \in Live : row' = [row EXCEPT ![u] = "deleted"]
    BY <1>3 DEF DeleteUser
  <2>2. u \in Users /\ row[u] = "live"
    BY DEF Live
  <2>3. RowsFit' /\ row' \in [Users -> {"none", "live", "deleted"}]
    BY <1>1, <1>3, <2>1, <2>2 DEF DeleteUser, RowsFit
  <2>4. \A r \in Requests : RequestFits(request[r])'
    BY <1>1, <1>3, <2>1, <2>2 DEF DeleteUser, RequestFits
  <2>5. RanksFit'
    BY <1>1, <1>3, <2>1, <2>2 DEF DeleteUser, RanksFit
  <2> QED
    BY <1>1, <1>3, <2>3, <2>4, <2>5 DEF DeleteUser, Fits, TypeOK
<1>4. ASSUME NEW w \in Calculators, CalcStep(w) \/ CalcFails(w)
       PROVE  Fits'
  <2>1. calc' \in [Calculators -> Calculation] /\ lock' \in Calculators \cup {Free}
    <3>1. IdleCalc \in Calculation
      BY DEF IdleCalc, Calculation
    <3>2. [pc |-> "write", ranks |-> [u \in Users |-> IF u \in Live THEN Rank(u, LoadedSettings) ELSE 0]]
            \in Calculation
      BY RankType DEF Calculation
    <3>3. CASE CalcTakes(w)
      BY <1>1, <3>3 DEF CalcTakes, TypeOK, Calculation
    <3>4. CASE CalcReads(w)
      BY <1>1, <3>1, <3>2, <3>4 DEF CalcReads, TypeOK
    <3>5. CASE CalcWrites(w) \/ CalcFails(w)
      BY <1>1, <3>1, <3>5 DEF CalcWrites, CalcFails, TypeOK
    <3> QED
      BY <1>4, <3>3, <3>4, <3>5 DEF CalcStep
  <2>2. events' \in Nat /\ faults' \in Nat
    BY <1>1, <1>4 DEF CalcStep, CalcTakes, CalcReads, CalcWrites, CalcFails, Fault, TypeOK
  <2>3. UNCHANGED <<userRow, verified, counters, request>>
    BY <1>4 DEF CalcStep, CalcTakes, CalcReads, CalcWrites, CalcFails
  <2>4. \A r \in Requests : RequestFits(request[r])'
    BY <1>1, <2>3 DEF RequestFits
  <2>5. /\ position' \in [Users -> Int]
        /\ \A u \in Users : row[u] = "none" => position'[u] = position[u]
    <3>1. CASE position' = position
      BY <1>1, <3>1 DEF TypeOK
    <3>2. CASE CalcWrites(w)
      <4>1. calc[w].ranks \in [Users -> Nat] /\ position \in [Users -> Int]
        BY <1>1 DEF TypeOK, Calculation
      <4> QED
        BY <1>1, <3>2, <4>1 DEF CalcWrites, RanksFit
    <3> QED
      BY <1>4, <3>1, <3>2 DEF CalcStep, CalcTakes, CalcReads, CalcFails
  <2>6. TypeOK'
    BY <1>1, <2>1, <2>2, <2>3, <2>5 DEF TypeOK
  <2>7. RowsFit'
    BY <1>1, <2>3, <2>5 DEF RowsFit
  <2>8. RanksFit'
    <3>1. ASSUME NEW v \in Calculators, calc'[v].pc = "write", NEW u \in Users, row'[u] = "none"
          PROVE  calc'[v].ranks[u] = 0
      <4>1. row[u] = "none" /\ u \notin Live
        BY <2>3, <3>1 DEF Live
      <4>2. CASE v = w
        BY <1>1, <1>4, <3>1, <4>1, <4>2, CalcMoves
      <4>3. CASE v # w
        <5>1. calc'[v] = calc[v]
          BY <1>1, <1>4, <4>3, CalcMoves
        <5> QED
          BY <1>1, <3>1, <4>1, <5>1 DEF RanksFit
      <4> QED
        BY <4>2, <4>3
    <3> QED
      BY <3>1 DEF RanksFit
  <2> QED
    BY <2>4, <2>6, <2>7, <2>8 DEF Fits
<1>5. CASE UNCHANGED vars
  BY <1>1, <1>5 DEF vars, Fits, TypeOK, RowsFit, RanksFit, RequestFits
<1> QED
  BY <1>2, <1>3, <1>4, <1>5 DEF Next

-----------------------------------------------------------------------------
(* Types, as a theorem of the specification.                               *)

\* In every reachable state the variables have their types, a request holds
\* what its next statement needs (a seat and an address before the insertion,
\* a row and its referrer before the UPDATE of a verification), and only rows
\* that were inserted are verified, ranked or shown a position
\* (waitlist/processor/processor.go:149-361, 925-953).
THEOREM WaitlistTypeCorrect == Spec => []Fits
<1>1. Init => Fits
  BY InitFits
<1>2. Fits /\ [Next]_vars => Fits'
  BY StepFits
<1> QED
  BY <1>1, <1>2, PTL DEF Spec

-----------------------------------------------------------------------------
(* The limit of sign-ups.                                                  *)

\* The sign-ups under way that were told there is room.
Seated == {r \in Requests : request[r].pc \in {"lookup", "create"} /\ request[r].seats}

\* The rows and the sign-ups still to insert theirs: each of the latter was told
\* there is room when the other requests, at most, were not inserted yet.
SeatsBounded ==
  Cardinality(Live) + Cardinality(Seated) < maxSignups + Cardinality(Requests)

LEMMA SeatsStep == Fits /\ SeatsBounded /\ [Next]_vars => SeatsBounded'
<1> SUFFICES ASSUME Fits, SeatsBounded, [Next]_vars PROVE SeatsBounded'
  OBVIOUS
<1>1. /\ TypeOK /\ request \in [Requests -> Request] /\ maxSignups \in Nat
      /\ row \in [Users -> {"none", "live", "deleted"}]
      /\ \A r \in Requests : request[r] \in Request /\ RequestFits(request[r])
  BY DEF Fits, TypeOK
<1>2. /\ Seated \in SUBSET Requests /\ Seated' \in SUBSET Requests
      /\ Live \in SUBSET Users /\ Live' \in SUBSET Users
  BY DEF Seated, Live
<1>3. /\ IsFiniteSet(Seated) /\ IsFiniteSet(Live) /\ Cardinality(Requests) \in Nat
      /\ Cardinality(Seated) \in Nat /\ Cardinality(Seated') \in Nat
      /\ Cardinality(Live) \in Nat /\ Cardinality(Live') \in Nat
      /\ Cardinality(Seated') <= Cardinality(Requests)
  BY <1>2, Finite
<1>4. ASSUME NEW r \in Requests,
             SignupReadsCampaign(r) \/ VerifyReads(r) \/ RequestStep(r) \/ RequestDies(r)
      PROVE  SeatsBounded'
  <2>1. Seated' \ {r} = Seated \ {r}
    <3>1. \A p \in Requests \ {r} : request'[p] = request[p]
      BY <1>1, <1>4, OneRequest
    <3> QED
      BY <3>1 DEF Seated
  <2>2. /\ r \notin Seated /\ r \in Seated' => Cardinality(Seated') = Cardinality(Seated) + 1
        /\ r \in Seated /\ r \notin Seated' => Cardinality(Seated') = Cardinality(Seated) - 1
        /\ (r \in Seated <=> r \in Seated') => Seated' = Seated
    BY <1>3, <2>1, OneMoves
  <2>3. CASE SignupReadsCampaign(r)
    <3>1. Live' = Live /\ maxSignups' = maxSignups /\ r \notin Seated
      BY <1>3 , <2>3 DEF SignupReadsCampaign, Start, userRow, Live, Seated
    <3>2. r \in Seated' => Cardinality(Live) < maxSignups
      BY <1>1, <2>3 DEF SignupReadsCampaign, Start, Seated, Idle
    <3> QED
      BY <1>1, <1>3, <2>2, <3>1, <3>2 DEF SeatsBounded
  <2>4. CASE SignupCreates(r)
    <3> DEFINE u == request[r].user
    <3>1. r \in Seated /\ u \in Users
      BY <1>1, <2>4 DEF SignupCreates, RequestFits, Seated
    <3>2. r \notin Seated'
      BY <1>1, <2>4 DEF SignupCreates, Goto, End, Idle, Seated, Request
    <3>3. CASE row[u] = "none"
      <4>1. Live' \ {u} = Live \ {u} /\ u \notin Live /\ maxSignups' = maxSignups
        BY <1>1, <2>4, <3>3 DEF SignupCreates, Live
      <4>2. u \in Live'
        BY <1>1, <2>4, <3>1, <3>3 DEF SignupCreates, Live
      <4>3. Cardinality(Live') = Cardinality(Live) + 1
        BY <1>3, <4>1, <4>2, OneMoves
      <4> QED
        BY <1>1, <1>3, <2>2, <3>1, <3>2, <4>1, <4>3 DEF SeatsBounded
    <3>4. CASE row[u] # "none"
      <4>1. Live' = Live /\ maxSignups' = maxSignups
        BY <2>4, <3>4 DEF SignupCreates, Live, userRow
      <4> QED
        BY <1>1, <1>3, <2>2, <3>1, <3>2, <4>1 DEF SeatsBounded
    <3> QED
      BY <3>3, <3>4
  <2>5. CASE \/ SignupLooksUp(r) \/ SignupCounts(r) \/ VerifyReads(r) \/ VerifyWrites(r)
             \/ VerifyCounts(r) \/ Dispatches(r) \/ RequestDies(r)
    <3>1. Live' = Live /\ maxSignups' = maxSignups
      BY <2>5 DEF SignupLooksUp, SignupCounts, VerifyReads, VerifyWrites, VerifyCounts, Dispatches,
                  RequestDies, userRow, Live
    <3>2. r \in Seated' => r \in Seated
      <4>1. CASE SignupLooksUp(r)
        BY <1>1, <4>1 DEF SignupLooksUp, End, Idle, Seated, Request
      <4>2. CASE SignupCounts(r) \/ Dispatches(r) \/ RequestDies(r)
        BY <1>1, <4>2 DEF SignupCounts, Dispatches, RequestDies, Goto, End, Idle, Seated, Request
      <4>3. CASE VerifyReads(r)
        <5>1. request'[r].pc = "verify"
          BY <1>1, <4>3 DEF VerifyReads, Start, Idle
        <5> QED
          BY <5>1 DEF Seated
      <4>4. CASE VerifyWrites(r) \/ VerifyCounts(r)
        BY <1>1, <4>4 DEF VerifyWrites, VerifyCounts, AfterVerify, End, Idle, Seated, Request
      <4> QED
        BY <2>5, <4>1, <4>2, <4>3, <4>4
    <3> QED
      BY <1>1, <1>3, <2>2, <3>1, <3>2 DEF SeatsBounded
  <2> QED
    BY <1>4, <2>3, <2>4, <2>5 DEF RequestStep
<1>5. CASE DeleteUser
  <2>1. PICK u \in Live : row' = [row EXCEPT ![u] = "deleted"]
    BY <1>5 DEF DeleteUser
  <2>2. Live' = Live \ {u}
    BY <1>1, <2>1 DEF Live
  <2>3. Cardinality(Live') = Cardinality(Live) - 1
    BY <1>3, <2>1, <2>2, FS_RemoveElement
  <2>4. Seated' = Seated /\ maxSignups' = maxSignups
    BY <1>5 DEF DeleteUser, Seated
  <2> QED
    BY <1>1, <1>3, <2>3, <2>4 DEF SeatsBounded
<1>6. CASE (\E w \in Calculators : CalcStep(w) \/ CalcFails(w)) \/ UNCHANGED vars
  <2>1. UNCHANGED <<maxSignups, row, request>>
    BY <1>6 DEF CalcStep, CalcTakes, CalcReads, CalcWrites, CalcFails, userRow, vars
  <2> QED
    BY <2>1 DEF SeatsBounded, Seated, Live
<1> QED
  BY <1>4, <1>5, <1>6 DEF Next

\* Sign-ups overrun campaigns.max_signups by less than the requests the server
\* has under way, whatever the order of the count of rows and the insertions
\* (waitlist/processor/processor.go:149-178, 302).
THEOREM LimitOverrun == Spec => []OverrunBounded
<1>1. Init => SeatsBounded
  <2> SUFFICES ASSUME Init PROVE SeatsBounded
    OBVIOUS
  <2>1. Live = {} /\ Seated = {} /\ maxSignups \in Nat
    BY WaitlistAssumption DEF Init, Live, Seated, Idle
  <2>2. Cardinality(Requests) > 0
    BY WaitlistAssumption, FS_EmptySet, Finite
  <2> QED
    BY <2>1, <2>2, Finite, FS_EmptySet DEF SeatsBounded
<1>2. Fits /\ SeatsBounded => OverrunBounded
  <2> SUFFICES ASSUME Fits, SeatsBounded PROVE OverrunBounded
    OBVIOUS
  <2>1. Live \in SUBSET Users /\ Seated \in SUBSET Requests /\ maxSignups \in Nat
    BY DEF Live, Seated, Fits, TypeOK
  <2> QED
    BY <2>1, Finite DEF SeatsBounded, OverrunBounded
<1> QED
  BY <1>1, <1>2, SeatsStep, WaitlistTypeCorrect, PTL DEF Spec

-----------------------------------------------------------------------------
(* The counters of referrals.                                              *)

Referred(v) == {u \in Users : row[u] # "none" /\ referrer[u] = v}
VerifiedReferred(v) == {u \in Referred(v) : verified[u]}

\* The sign-ups and the verifications about to count for a user.
SignupsCounting(v) == Counting({"signup"}, v)
VerificationsCounting(v) == Counting({"token", "manual"}, v)

ReferralsOf(v) ==
  /\ Cardinality(Referred(v)) - refs[v] - Cardinality(SignupsCounting(v)) \in 0 .. faults
  /\ Cardinality(VerifiedReferred(v))
       <= verRefs[v] + Cardinality(VerificationsCounting(v)) + faults

LEMMA ReferralsOfAll == ReferralsCounted <=> \A v \in Users : ReferralsOf(v)
BY DEF ReferralsCounted, ReferralsOf, Referred, VerifiedReferred, SignupsCounting,
       VerificationsCounting

\* The sets that are counted are finite.
LEMMA ReferralSets ==
  ASSUME NEW v
  PROVE  /\ IsFiniteSet(Referred(v)) /\ IsFiniteSet(VerifiedReferred(v))
         /\ IsFiniteSet(SignupsCounting(v)) /\ IsFiniteSet(VerificationsCounting(v))
         /\ Cardinality(Referred(v)) \in Nat /\ Cardinality(VerifiedReferred(v)) \in Nat
         /\ Cardinality(SignupsCounting(v)) \in Nat
         /\ Cardinality(VerificationsCounting(v)) \in Nat
<1>1. /\ Referred(v) \in SUBSET Users /\ VerifiedReferred(v) \in SUBSET Users
      /\ SignupsCounting(v) \in SUBSET Requests /\ VerificationsCounting(v) \in SUBSET Requests
  BY DEF Referred, VerifiedReferred, SignupsCounting, VerificationsCounting, Counting
<1> QED
  BY <1>1, Finite

\* A step of a request moves no other request into or out of the counting ones.
LEMMA OneCounts ==
  ASSUME Fits, NEW v \in Users, NEW r \in Requests,
         request' = [request EXCEPT ![r] = request'[r]]
  PROVE  /\ SignupsCounting(v)' \ {r} = SignupsCounting(v) \ {r}
         /\ VerificationsCounting(v)' \ {r} = VerificationsCounting(v) \ {r}
<1>1. \A p \in Requests \ {r} : request'[p] = request[p]
  BY DEF Fits, TypeOK
<1> QED
  BY <1>1 DEF SignupsCounting, VerificationsCounting, Counting

\* What a request counts for, before and after its step.
LEMMA CountingRequest ==
  ASSUME NEW v \in Users, NEW r \in Requests
  PROVE  /\ r \in SignupsCounting(v) <=>
              request[r].op = "signup" /\ request[r].pc = "count" /\ request[r].by = v
         /\ r \in VerificationsCounting(v) <=>
              request[r].op \in {"token", "manual"} /\ request[r].pc = "count"
                /\ request[r].by = v
         /\ r \in SignupsCounting(v)' <=>
              request'[r].op = "signup" /\ request'[r].pc = "count" /\ request'[r].by = v
         /\ r \in VerificationsCounting(v)' <=>
              request'[r].op \in {"token", "manual"} /\ request'[r].pc = "count"
                /\ request'[r].by = v
BY DEF SignupsCounting, VerificationsCounting, Counting

LEMMA RequestCounts ==
  ASSUME Fits, NEW r \in Requests, NEW v \in Users, ReferralsOf(v),
         SignupReadsCampaign(r) \/ VerifyReads(r) \/ RequestStep(r) \/ RequestDies(r)
  PROVE  ReferralsOf(v)'
<1> DEFINE q == request[r]
           nr == Cardinality(Referred(v))
           nv == Cardinality(VerifiedReferred(v))
           ns == Cardinality(SignupsCounting(v))
           nc == Cardinality(VerificationsCounting(v))
           S == r \in SignupsCounting(v)
           C == r \in VerificationsCounting(v)
<1>1. /\ TypeOK /\ RowsFit /\ q \in Request /\ RequestFits(q) /\ request \in [Requests -> Request]
      /\ row \in [Users -> {"none", "live", "deleted"}] /\ verified \in [Users -> BOOLEAN]
      /\ referrer \in [Users -> Users \cup {NoUser}]
      /\ refs \in [Users -> Nat] /\ verRefs \in [Users -> Nat] /\ faults \in Nat
  BY DEF Fits, TypeOK
<1>2. /\ nr \in Nat /\ nv \in Nat /\ ns \in Nat /\ nc \in Nat
      /\ nr' \in Nat /\ nv' \in Nat /\ ns' \in Nat /\ nc' \in Nat
      /\ IsFiniteSet(Referred(v)) /\ IsFiniteSet(VerifiedReferred(v))
  <2>1. /\ Referred(v)' \in SUBSET Users /\ VerifiedReferred(v)' \in SUBSET Users
        /\ SignupsCounting(v)' \in SUBSET Requests /\ VerificationsCounting(v)' \in SUBSET Requests
    BY DEF Referred, VerifiedReferred, SignupsCounting, VerificationsCounting, Counting
  <2> QED
    BY <2>1, ReferralSets, Finite
<1>3. /\ (~S /\ S') => ns' = ns + 1
      /\ (S /\ ~S') => ns' = ns - 1
      /\ (S <=> S') => ns' = ns
      /\ (~C /\ C') => nc' = nc + 1
      /\ (C /\ ~C') => nc' = nc - 1
      /\ (C <=> C') => nc' = nc
  <2>1. /\ SignupsCounting(v)' \ {r} = SignupsCounting(v) \ {r}
        /\ VerificationsCounting(v)' \ {r} = VerificationsCounting(v) \ {r}
    BY <1>1, OneRequest, OneCounts
  <2> QED
    BY <2>1, ReferralSets, OneMoves
<1>4. /\ nr - refs[v] - ns \in 0 .. faults /\ nv <= verRefs[v] + nc + faults
      /\ refs[v] \in Nat /\ verRefs[v] \in Nat
  BY <1>1 DEF ReferralsOf
<1>5. /\ S <=> (q.op = "signup" /\ q.pc = "count" /\ q.by = v)
      /\ C <=> (q.op \in {"token", "manual"} /\ q.pc = "count" /\ q.by = v)
      /\ S' <=> (request'[r].op = "signup" /\ request'[r].pc = "count" /\ request'[r].by = v)
      /\ C' <=> (request'[r].op \in {"token", "manual"} /\ request'[r].pc = "count"
                   /\ request'[r].by = v)
  BY CountingRequest
<1>6. (row' = row /\ referrer' = referrer) => nr' = nr
  BY DEF Referred
<1>7. (row' = row /\ referrer' = referrer /\ verified' = verified) => nr' = nr /\ nv' = nv
  BY DEF Referred, VerifiedReferred
<1>8. CASE SignupReadsCampaign(r) \/ SignupLooksUp(r) \/ VerifyReads(r) \/ Dispatches(r)
  <2>1. ~S /\ ~C
    BY <1>5, <1>8 DEF SignupReadsCampaign, SignupLooksUp, VerifyReads, Dispatches, Start
  <2>2. ~S' /\ ~C'
    <3>1. request'[r].pc \in {"lookup", "create", "idle", "verify"}
      <4>1. CASE SignupReadsCampaign(r) \/ VerifyReads(r)
        BY <1>1, <4>1 DEF SignupReadsCampaign, VerifyReads, Start, Idle
      <4>2. CASE SignupLooksUp(r)
        <5>1. PICK u \in Users, by \in Users \cup {NoUser} :
                \/ request'[r] = [q EXCEPT !.pc = "create", !.user = u, !.by = by]
                \/ request'[r] = Idle
          BY ZenonT(40), <1>1, <4>2 DEF SignupLooksUp, End, Live
        <5>2. CASE request'[r] = [q EXCEPT !.pc = "create", !.user = u, !.by = by]
          <6>1. request'[r].pc = "create"
            BY <1>1, <5>2 DEF Request
          <6> QED
            BY <6>1
        <5>3. CASE request'[r] = Idle
          BY <5>3 DEF Idle
        <5> QED
          BY <5>1, <5>2, <5>3
      <4>3. CASE Dispatches(r)
        BY <1>1, <4>3 DEF Dispatches, End, Idle
      <4> QED
        BY <1>8, <4>1, <4>2, <4>3
    <3> QED
      BY <1>5, <3>1
  <2>3. UNCHANGED <<row, referrer, verified, refs, verRefs, faults>>
    BY <1>8 DEF SignupReadsCampaign, SignupLooksUp, VerifyReads, Dispatches, userRow, counters
  <2> QED
    BY <1>2, <1>3, <1>4, <1>7, <2>1, <2>2, <2>3 DEF ReferralsOf
<1>9. CASE SignupCreates(r)
  <2> DEFINE u == q.user
  <2>1. ~S /\ ~C /\ q.op = "signup" /\ u \in Users
    BY <1>1, <1>5, <1>9 DEF SignupCreates, RequestFits
  <2>2. UNCHANGED <<verified, refs, verRefs, faults>>
    BY <1>9 DEF SignupCreates, counters
  <2>3. CASE row[u] # "none"
    <3>1. request'[r] = Idle /\ UNCHANGED <<row, referrer>>
      BY <1>1, <1>9, <2>3 DEF SignupCreates, End, userRow
    <3>2. ~S' /\ ~C'
      BY <1>5, <3>1 DEF Idle
    <3> QED
      BY <1>2, <1>3, <1>4, <1>7, <2>1, <2>2, <3>1, <3>2 DEF ReferralsOf
  <2>4. CASE row[u] = "none"
    <3>1. /\ row' = [row EXCEPT ![u] = "live"] /\ referrer' = [referrer EXCEPT ![u] = q.by]
          /\ request'[r] = [q EXCEPT !.pc = IF q.by = NoUser THEN "dispatch" ELSE "count"]
      BY <1>1, <1>9, <2>4 DEF SignupCreates, Goto
    <3>2. ~verified[u] /\ u \notin Referred(v)
      BY <1>1, <2>1, <2>4 DEF RowsFit, Referred
    <3>3. Referred(v)' \ {u} = Referred(v) \ {u} /\ (u \in Referred(v)' <=> q.by = v)
      BY <1>1, <2>1, <3>1 DEF Referred
    <3>4. VerifiedReferred(v)' = VerifiedReferred(v)
      BY <2>2, <3>2, <3>3 DEF VerifiedReferred
    <3>5. (S' <=> q.by = v) /\ ~C'
      <4>1. q.by = v => q.by # NoUser
        BY DEF Users, NoUser
      <4> QED
        BY <1>1, <1>5, <2>1, <3>1, <4>1 DEF Request
    <3>6. q.by = v => nr' = nr + 1
      BY <1>2, <3>2, <3>3, OneMoves
    <3>7. q.by # v => nr' = nr
      BY <1>2, <3>2, <3>3, OneMoves
    <3>8. nv' = nv
      BY <3>4
    <3> HIDE DEF nr, nv, ns, nc, S, C
    <3>9. nr' - refs[v] - ns' \in 0 .. faults /\ nv' <= verRefs[v] + nc' + faults
      BY <1>2, <1>3, <1>4, <2>1, <3>5, <3>6, <3>7, <3>8, <1>1
    <3> QED
      BY <2>2, <3>9 DEF ReferralsOf, nr, nv, ns, nc
  <2> QED
    BY <2>3, <2>4
<1>10. CASE SignupCounts(r)
  <2>1. /\ ~C /\ (S <=> q.by = v) /\ q.by \in Users
    BY <1>1, <1>5, <1>10 DEF SignupCounts, RequestFits
  <2>2. ~S' /\ ~C'
    BY <1>1, <1>5, <1>10 DEF SignupCounts, Goto, Request
  <2>3. UNCHANGED <<row, referrer, verified, verRefs>>
    BY <1>10 DEF SignupCounts, userRow
  <2>4. \/ refs' = [refs EXCEPT ![q.by] = @ + 1] /\ faults' = faults
        \/ refs' = refs /\ faults' = faults + 1
    BY <1>10 DEF SignupCounts, Fault
  <2>5. nr' = nr /\ nv' = nv /\ nc' = nc /\ (q.by = v => ns' = ns - 1) /\ (q.by # v => ns' = ns)
    BY <1>3, <1>7, <2>1, <2>2, <2>3
  <2>6. \/ refs'[v] = refs[v] + (IF q.by = v THEN 1 ELSE 0) /\ faults' = faults
        \/ refs'[v] = refs[v] /\ faults' = faults + 1
    BY <1>1, <2>1, <2>4
  <2> HIDE DEF nr, nv, ns, nc, S, C
  <2>7. nr' - refs'[v] - ns' \in 0 .. faults' /\ nv' <= verRefs[v] + nc' + faults'
    BY <1>1, <1>2, <1>4, <2>5, <2>6
  <2> QED
    BY <2>3, <2>7 DEF ReferralsOf, nr, nv, ns, nc
<1>11. CASE VerifyWrites(r)
  <2> DEFINE u == q.user
  <2>1. /\ ~S /\ ~C /\ u \in Users /\ q.op \in {"token", "manual"} /\ q.by = referrer[u]
    BY <1>1, <1>5, <1>11 DEF VerifyWrites, RequestFits
  <2>2. UNCHANGED <<row, referrer, refs, verRefs, faults>>
    BY <1>11 DEF VerifyWrites, userRow, counters
  <2>3. CASE row[u] # "live"
    <3>1. request'[r] = Idle /\ verified' = verified
      BY <1>1, <1>11, <2>3 DEF VerifyWrites, End
    <3>2. ~S' /\ ~C'
      BY <1>5, <3>1 DEF Idle
    <3> QED
      BY <1>2, <1>3, <1>4, <1>7, <2>1, <2>2, <3>1, <3>2 DEF ReferralsOf
  <2>4. CASE row[u] = "live"
    <3>1. /\ verified' = [verified EXCEPT ![u] = TRUE]
          /\ request'[r] = IF q.by = NoUser THEN AfterVerify(q) ELSE [q EXCEPT !.pc = "count"]
      BY <1>1, <1>11, <2>4 DEF VerifyWrites
    <3>2. VerifiedReferred(v)' \ {u} = VerifiedReferred(v) \ {u}
      BY <1>1, <2>1, <2>2, <3>1 DEF VerifiedReferred, Referred
    <3>3. q.by # v => (u \notin VerifiedReferred(v) /\ u \notin VerifiedReferred(v)')
      BY <2>1, <2>2 DEF VerifiedReferred, Referred
    <3>4. nv' <= nv + 1 /\ (q.by # v => nv' = nv)
      BY <1>2, <3>2, <3>3, OneMoves
    <3>5. q.by = v => C'
      <4>1. q.by = v => q.by # NoUser
        BY DEF Users, NoUser
      <4> QED
        BY <1>1, <1>5, <2>1, <3>1, <4>1 DEF Request
    <3>6. ~S' /\ (q.by # v => ~C')
      <4>1. CASE q.by = NoUser
        BY <1>1, <1>5, <2>1, <3>1, <4>1 DEF AfterVerify, Idle, Request
      <4>2. CASE q.by # NoUser
        BY <1>1, <1>5, <2>1, <3>1, <4>2 DEF Request
      <4> QED
        BY <4>1, <4>2
    <3>7. nr' = nr /\ ns' = ns /\ (q.by = v => nc' = nc + 1) /\ (q.by # v => nc' = nc)
      BY <1>3, <1>6, <2>1, <2>2, <3>5, <3>6
    <3> HIDE DEF nr, nv, ns, nc, S, C
    <3>8. nr' - refs[v] - ns' \in 0 .. faults /\ nv' <= verRefs[v] + nc' + faults
      BY <1>1, <1>2, <1>4, <3>4, <3>7
    <3> QED
      BY <2>2, <3>8 DEF ReferralsOf, nr, nv, ns, nc
  <2> QED
    BY <2>3, <2>4
<1>12. CASE VerifyCounts(r)
  <2>1. /\ ~S /\ (C <=> q.by = v) /\ q.by \in Users
    BY <1>1, <1>5, <1>12 DEF VerifyCounts, RequestFits
  <2>2. ~S' /\ ~C'
    BY <1>1, <1>5, <1>12 DEF VerifyCounts, AfterVerify, Idle, Request
  <2>3. UNCHANGED <<row, referrer, verified, refs>>
    BY <1>12 DEF VerifyCounts, userRow
  <2>4. \/ verRefs' = [verRefs EXCEPT ![q.by] = @ + 1] /\ faults' = faults
        \/ verRefs' = verRefs /\ faults' = faults + 1
    BY <1>12 DEF VerifyCounts, Fault
  <2>5. nr' = nr /\ nv' = nv /\ ns' = ns /\ (q.by = v => nc' = nc - 1) /\ (q.by # v => nc' = nc)
    BY <1>3, <1>7, <2>1, <2>2, <2>3
  <2>6. \/ verRefs'[v] = verRefs[v] + (IF q.by = v THEN 1 ELSE 0) /\ faults' = faults
        \/ verRefs'[v] = verRefs[v] /\ faults' = faults + 1
    BY <1>1, <2>1, <2>4
  <2> HIDE DEF nr, nv, ns, nc, S, C
  <2>7. nr' - refs[v] - ns' \in 0 .. faults' /\ nv' <= verRefs'[v] + nc' + faults'
    BY <1>1, <1>2, <1>4, <2>5, <2>6
  <2> QED
    BY <2>3, <2>7 DEF ReferralsOf, nr, nv, ns, nc
<1>13. CASE RequestDies(r)
  <2>1. ~S' /\ ~C' /\ ~(S /\ C)
    BY <1>1, <1>5, <1>13 DEF RequestDies, End, Idle
  <2>2. UNCHANGED <<row, referrer, verified, refs, verRefs>> /\ faults' = faults + 1
    BY <1>13 DEF RequestDies, Fault, userRow, counters
  <2>3. nr' = nr /\ nv' = nv /\ ns' \in {ns, ns - 1} /\ nc' \in {nc, nc - 1}
    BY <1>3, <1>7, <2>1, <2>2
  <2> HIDE DEF nr, nv, ns, nc, S, C
  <2>4. nr' - refs[v] - ns' \in 0 .. faults' /\ nv' <= verRefs[v] + nc' + faults'
    BY <1>1, <1>2, <1>4, <2>2, <2>3
  <2> QED
    BY <2>2, <2>4 DEF ReferralsOf, nr, nv, ns, nc
<1> QED
  BY <1>8, <1>9, <1>10, <1>11, <1>12, <1>13 DEF RequestStep

LEMMA CountsStep == Fits /\ ReferralsCounted /\ [Next]_vars => ReferralsCounted'
<1> SUFFICES ASSUME Fits, ReferralsCounted, [Next]_vars, NEW v \in Users PROVE ReferralsOf(v)'
  BY ReferralsOfAll DEF ReferralsCounted, ReferralsOf, Referred, VerifiedReferred,
                        SignupsCounting, VerificationsCounting
<1>1. ReferralsOf(v) /\ TypeOK
  BY ReferralsOfAll DEF Fits
<1>2. ASSUME NEW r \in Requests,
             SignupReadsCampaign(r) \/ VerifyReads(r) \/ RequestStep(r) \/ RequestDies(r)
      PROVE  ReferralsOf(v)'
  BY <1>1, <1>2, RequestCounts
<1>3. CASE DeleteUser \/ (\E w \in Calculators : CalcStep(w) \/ CalcFails(w)) \/ UNCHANGED vars
  <2>1. /\ UNCHANGED <<referrer, verified, refs, verRefs, request>>
        /\ faults' \in {faults, faults + 1}
        /\ \A u \in Users : row'[u] # "none" <=> row[u] # "none"
    <3>1. CASE DeleteUser
      <4>1. PICK u \in Live : row' = [row EXCEPT ![u] = "deleted"]
        BY <3>1 DEF DeleteUser
      <4>2. u \in Users /\ row[u] = "live" /\ row \in [Users -> {"none", "live", "deleted"}]
        BY <1>1 DEF Live, TypeOK
      <4> QED
        BY <3>1, <4>1, <4>2 DEF DeleteUser, counters
    <3>2. CASE \E w \in Calculators : CalcStep(w) \/ CalcFails(w)
      BY <3>2 DEF CalcStep, CalcTakes, CalcReads, CalcWrites, CalcFails, Fault, userRow, counters
    <3>3. CASE UNCHANGED vars
      BY <3>3 DEF vars
    <3> QED
      BY <1>3, <3>1, <3>2, <3>3
  <2>2. /\ Referred(v)' = Referred(v) /\ VerifiedReferred(v)' = VerifiedReferred(v)
        /\ SignupsCounting(v)' = SignupsCounting(v)
        /\ VerificationsCounting(v)' = VerificationsCounting(v)
    BY <2>1 DEF Referred, VerifiedReferred, SignupsCounting, VerificationsCounting, Counting
  <2>3. refs[v] \in Nat /\ verRefs[v] \in Nat /\ faults \in Nat
    BY <1>1 DEF TypeOK
  <2> QED
    BY <1>1, <2>1, <2>2, <2>3, ReferralSets DEF ReferralsOf
<1> QED
  BY <1>2, <1>3 DEF Next

\* A referrer's count is the number of rows that name the referrer, short of
\* the sign-ups about to count and of one per failure, and verified referrals are
\* counted up to one per failure, whatever requests overlap
\* (waitlist/processor/processor.go:302-314, 936-953, 1129-1144).
THEOREM ReferralsAreCounted == Spec => []ReferralsCounted
<1>1. Init => ReferralsCounted
  <2> SUFFICES ASSUME Init, NEW v \in Users PROVE ReferralsOf(v)
    BY ReferralsOfAll
  <2>1. Referred(v) = {} /\ VerifiedReferred(v) = {} /\ SignupsCounting(v) = {}
    BY DEF Init, Referred, VerifiedReferred, SignupsCounting, Counting, Idle
  <2>2. refs[v] = 0 /\ verRefs[v] = 0 /\ faults = 0
    BY DEF Init
  <2> QED
    BY <2>1, <2>2, FS_EmptySet, ReferralSets DEF ReferralsOf
<1> QED
  BY <1>1, CountsStep, WaitlistTypeCorrect, PTL DEF Spec

-----------------------------------------------------------------------------
(* The ranking.                                                            *)

\* What the ranking compares with the settings the calculator gets to see.
LEMMA BeforeIs ==
  ASSUME TypeOK, NEW u \in Users, NEW v \in Users
  PROVE  Before(u, v, LoadedSettings) <=>
           \/ refs[u] > refs[v]
           \/ /\ refs[u] = refs[v]
              /\ createdAt[u] < createdAt[v] \/ (createdAt[u] = createdAt[v] /\ u < v)
<1>1. refs[u] \in Nat /\ refs[v] \in Nat
  BY DEF TypeOK
<1>2. Score(u, LoadedSettings) = refs[u] /\ Score(v, LoadedSettings) = refs[v]
  BY <1>1 DEF Score, LoadedSettings
<1> QED
  BY <1>2 DEF Before

\* Two users of the waitlist never have the same rank.
LEMMA RanksDiffer ==
  ASSUME TypeOK, NEW u \in Live, NEW v \in Live, u # v
  PROVE  Rank(u, LoadedSettings) # Rank(v, LoadedSettings)
<1> DEFINE Ahead(x) == {y \in Live : Before(y, x, LoadedSettings)}
<1>1. Live \in SUBSET Users /\ u \in Users /\ v \in Users
  BY DEF Live
<1>2. \A x \in Users : x \in Int /\ refs[x] \in Nat /\ createdAt[x] \in Nat
  BY WaitlistAssumption DEF TypeOK, Users
<1>3. ASSUME NEW x \in Live, NEW y \in Live, Before(x, y, LoadedSettings)
      PROVE  Rank(x, LoadedSettings) < Rank(y, LoadedSettings)
  <2>1. x \in Users /\ y \in Users
    BY <1>1
  <2>2. x \notin Ahead(x)
    BY <1>2, <2>1, BeforeIs
  <2>3. ASSUME NEW z \in Ahead(x) PROVE z \in Ahead(y)
    <3>1. z \in Live /\ z \in Users /\ Before(z, x, LoadedSettings)
      BY <1>1
    <3>2. Before(z, y, LoadedSettings)
      BY <1>2, <1>3, <2>1, <3>1, BeforeIs
    <3> QED
      BY <3>1, <3>2
  <2>4. x \in Ahead(y)
    BY <1>3
  <2>5. Ahead(x) \in SUBSET Users /\ Ahead(y) \in SUBSET Users
    BY <1>1
  <2>6. /\ IsFiniteSet(Ahead(y)) /\ Ahead(x) \subseteq Ahead(y) /\ Ahead(x) # Ahead(y)
        /\ Cardinality(Ahead(x)) \in Nat /\ Cardinality(Ahead(y)) \in Nat
    BY <2>2, <2>3, <2>4, <2>5, Finite
  <2>7. Cardinality(Ahead(x)) < Cardinality(Ahead(y))
    BY <2>6, FS_Subset
  <2> QED
    BY <2>6, <2>7 DEF Rank
<1>4. Before(u, v, LoadedSettings) \/ Before(v, u, LoadedSettings)
  BY <1>1, <1>2, BeforeIs
<1>5. Rank(u, LoadedSettings) \in Nat /\ Rank(v, LoadedSettings) \in Nat
  BY RankType
<1> QED
  BY <1>3, <1>4, <1>5

-----------------------------------------------------------------------------
(* The positions shown.                                                    *)

\* A calculator about to write holds the mutex, ranked distinct users apart and
\* has a rank for every user who is shown a position.
SnapshotFits(w) ==
  calc[w].pc = "write" =>
    /\ lock = w
    /\ \A u, v \in Users : u # v /\ calc[w].ranks[u] > 0 => calc[w].ranks[u] # calc[w].ranks[v]
    /\ \A u \in Live : position[u] > 0 => calc[w].ranks[u] > 0

Snapshots == \A w \in Calculators : SnapshotFits(w)

\* The rows of a request's step: a user who joins the waitlist has no position.
LEMMA Joins ==
  ASSUME Fits, NEW r \in Requests,
         SignupReadsCampaign(r) \/ VerifyReads(r) \/ RequestStep(r) \/ RequestDies(r)
  PROVE  /\ UNCHANGED calculation
         /\ \A u \in Live' : u \in Live \/ ~(position[u] > 0)
<1>1. TypeOK /\ RowsFit /\ RequestFits(request[r]) /\ UNCHANGED calculation
  BY NewRows DEF Fits
<1>2. CASE SignupCreates(r)
  <2> DEFINE u == request[r].user
  <2>1. CASE row[u] = "none"
    <3>1. u \in Users /\ position[u] \in Int /\ ~(position[u] > 0)
      BY <1>1, <1>2, <2>1 DEF SignupCreates, RequestFits, RowsFit, TypeOK
    <3>2. row' = [row EXCEPT ![u] = "live"] /\ row \in [Users -> {"none", "live", "deleted"}]
      BY <1>1, <1>2, <2>1 DEF SignupCreates, TypeOK
    <3>3. \A v \in Live' : v \in Live \/ v = u
      BY <3>1, <3>2 DEF Live
    <3> QED
      BY <1>1, <3>1, <3>3
  <2>2. CASE row[u] # "none"
    BY <1>1, <1>2, <2>2 DEF SignupCreates, Live, userRow
  <2> QED
    BY <2>1, <2>2
<1>3. CASE \/ SignupReadsCampaign(r) \/ VerifyReads(r) \/ SignupLooksUp(r) \/ SignupCounts(r)
           \/ VerifyWrites(r) \/ VerifyCounts(r) \/ Dispatches(r) \/ RequestDies(r)
  <2>1. row' = row
    BY <1>3 DEF SignupReadsCampaign, VerifyReads, SignupLooksUp, SignupCounts, VerifyWrites,
                VerifyCounts, Dispatches, RequestDies, userRow
  <2> QED
    BY <1>1, <2>1 DEF Live
<1> QED
  BY <1>2, <1>3 DEF RequestStep

LEMMA PositionsStep ==
  Fits /\ PositionsDistinct /\ Snapshots /\ [Next]_vars => PositionsDistinct' /\ Snapshots'
<1> SUFFICES ASSUME Fits, PositionsDistinct, Snapshots, [Next]_vars
             PROVE  PositionsDistinct' /\ Snapshots'
  OBVIOUS
<1>1. /\ TypeOK /\ Live \in SUBSET Users /\ position \in [Users -> Int]
      /\ calc \in [Calculators -> Calculation] /\ Free \notin Calculators
      /\ \A w \in Calculators : calc[w].ranks \in [Users -> Nat]
  BY WaitlistAssumption DEF Fits, TypeOK, Live, Calculation
<1>2. ASSUME UNCHANGED calculation, \A u \in Live' : u \in Live \/ ~(position[u] > 0)
      PROVE  PositionsDistinct' /\ Snapshots'
  <2>1. PositionsDistinct'
    <3>1. \A u, v \in Live' : u # v /\ position[u] > 0 => position[u] # position[v]
      BY <1>2 DEF PositionsDistinct
    <3> QED
      BY <1>2, <3>1 DEF PositionsDistinct, calculation
  <2>2. ASSUME NEW w \in Calculators PROVE SnapshotFits(w)'
    BY <1>2 DEF Snapshots, SnapshotFits, calculation
  <2> QED
    BY <2>1, <2>2 DEF Snapshots
<1>3. ASSUME NEW r \in Requests,
             SignupReadsCampaign(r) \/ VerifyReads(r) \/ RequestStep(r) \/ RequestDies(r)
      PROVE  PositionsDistinct' /\ Snapshots'
  BY <1>2, <1>3, Joins
<1>4. CASE DeleteUser \/ UNCHANGED vars
  <2>1. UNCHANGED calculation /\ Live' \subseteq Live
    <3>1. CASE DeleteUser
      <4>1. PICK u \in Live : row' = [row EXCEPT ![u] = "deleted"]
        BY <3>1 DEF DeleteUser
      <4>2. row \in [Users -> {"none", "live", "deleted"}]
        BY <1>1 DEF TypeOK
      <4> QED
        BY <3>1, <4>1, <4>2 DEF DeleteUser, Live
    <3>2. CASE UNCHANGED vars
      BY <3>2 DEF vars, Live, calculation
    <3> QED
      BY <1>4, <3>1, <3>2
  <2> QED
    BY <1>2, <2>1
<1>5. ASSUME NEW w \in Calculators, CalcStep(w) \/ CalcFails(w)
      PROVE  PositionsDistinct' /\ Snapshots'
  <2>1. Live' = Live
    BY <1>5 DEF CalcStep, CalcTakes, CalcReads, CalcWrites, CalcFails, userRow, Live
  <2>2. \A v \in Calculators \ {w} : calc'[v] = calc[v]
    BY <1>1, <1>5, CalcMoves
  <2>3. PositionsDistinct'
    <3>1. CASE CalcWrites(w)
      <4> DEFINE k == calc[w].ranks
      <4>1. /\ \A u, v \in Users : u # v /\ k[u] > 0 => k[u] # k[v]
            /\ \A u \in Live : position[u] > 0 => k[u] > 0
        BY <3>1 DEF Snapshots, SnapshotFits, CalcWrites
      <4>2. \A u \in Users : position'[u] = IF k[u] > 0 THEN k[u] ELSE position[u]
        BY <3>1 DEF CalcWrites
      <4>3. k \in [Users -> Nat]
        BY <1>1
      <4> HIDE DEF k
      <4>4. ASSUME NEW u \in Live, NEW v \in Live, u # v, position'[u] > 0
            PROVE  position'[u] # position'[v]
        <5>1. u \in Users /\ v \in Users /\ k[u] \in Nat /\ k[v] \in Nat /\ position[u] \in Int
              /\ position[v] \in Int
          BY <1>1, <4>3
        <5>2. k[u] > 0
          BY <4>1, <4>2, <4>4, <5>1
        <5>3. k[u] # k[v]
          BY <4>1, <4>4, <5>1, <5>2
        <5>4. k[v] > 0 \/ ~(position[v] > 0)
          BY <4>1
        <5> QED
          BY <4>2, <5>1, <5>2, <5>3, <5>4
      <4> QED
        BY <2>1, <4>4 DEF PositionsDistinct
    <3>2. CASE position' = position
      BY <2>1, <3>2 DEF PositionsDistinct
    <3> QED
      BY <1>5, <3>1, <3>2 DEF CalcStep, CalcTakes, CalcReads, CalcFails
  <2>4. ASSUME NEW v \in Calculators, calc'[v].pc = "write" PROVE SnapshotFits(v)'
    <3>1. CASE v = w
      <4> DEFINE k == [u \in Users |-> IF u \in Live THEN Rank(u, LoadedSettings) ELSE 0]
      <4>1. CalcReads(w) /\ lock' = w /\ calc'[w].ranks = k
        BY <1>1, <1>5, <2>4, <3>1, CalcMoves
      <4>2. \A u \in Users : k[u] > 0 <=> u \in Live
        BY RankType
      <4>3. \A x, y \in Users : x # y /\ k[x] > 0 => k[x] # k[y]
        <5>1. ASSUME NEW x \in Users, NEW y \in Users, x # y, k[x] > 0 PROVE k[x] # k[y]
          <6>1. x \in Live
            BY <4>2, <5>1
          <6>2. CASE y \in Live
            BY <1>1, <5>1, <6>1, <6>2, RanksDiffer
          <6>3. CASE y \notin Live
            BY <5>1, <6>3
          <6> QED
            BY <6>2, <6>3
        <5> QED
          BY <5>1
      <4> HIDE DEF k
      <4> QED
        BY <1>1, <2>1, <3>1, <4>1, <4>2, <4>3 DEF SnapshotFits
    <3>2. CASE v # w
      <4>1. calc'[v] = calc[v] /\ calc[v].pc = "write" /\ SnapshotFits(v) /\ lock = v
        BY <2>2, <2>4, <3>2 DEF Snapshots, SnapshotFits
      <4>2. ~CalcReads(w) /\ ~CalcWrites(w)
        BY <1>1, <3>2, <4>1 DEF CalcReads, CalcWrites, Snapshots, SnapshotFits
      <4>3. position' = position /\ lock' = lock
        BY <1>5, <3>2, <4>1, <4>2 DEF CalcStep, CalcTakes, CalcFails
      <4> QED
        BY <2>1, <4>1, <4>3 DEF SnapshotFits
    <3> QED
      BY <3>1, <3>2
  <2>5. Snapshots'
    BY <2>4 DEF Snapshots, SnapshotFits
  <2> QED
    BY <2>3, <2>5
<1> QED
  BY <1>3, <1>4, <1>5 DEF Next

\* No two users of the waitlist are ever shown the same position, although a
\* calculation writes what it read before others signed up, were deleted or were
\* counted: the mutex keeps two calculations apart
\* (waitlist/processor/position_calculator.go:34-118, 185-189).
THEOREM PositionsStayDistinct == Spec => [](PositionsDistinct /\ Snapshots)
<1>1. Init => PositionsDistinct /\ Snapshots
  BY DEF Init, PositionsDistinct, Snapshots, SnapshotFits, Live, IdleCalc
<1> QED
  BY <1>1, PositionsStep, WaitlistTypeCorrect, PTL DEF Spec

-----------------------------------------------------------------------------
(* The positions follow the ranking.                                       *)

\* A calculation is still to read: its event waits or is on its way.
Token ==
  \/ events > 0
  \/ \E w \in Calculators : calc[w].pc = "lock"
  \/ \E r \in Requests : request[r].op = "signup" /\ request[r].pc \in {"count", "dispatch"}

RanksCurrent(ranks) == \A u \in Live : ranks[u] = Rank(u, LoadedSettings)

\* Unless a calculation is still to read, what the calculator is about to write
\* is the current ranking or, when nobody writes, the positions are.
Fresh ==
  /\ \A w \in Calculators : calc[w].pc = "write" => RanksCurrent(calc[w].ranks)
  /\ (\A w \in Calculators : calc[w].pc # "write") => RanksCurrent(position)
Freshness == silent \/ Token \/ Fresh

\* The ranking depends on the live rows, their times and their referral counts only.
LEMMA RankKept ==
  ASSUME TypeOK, TypeOK', row' = row, refs' = refs, createdAt' = createdAt, NEW u \in Live
  PROVE  Rank(u, LoadedSettings)' = Rank(u, LoadedSettings)
<1>1. Live' = Live /\ Live \in SUBSET Users
  BY DEF Live
<1>2. ASSUME NEW v \in Live
      PROVE  Before(v, u, LoadedSettings)' <=> Before(v, u, LoadedSettings)
  <2>1. u \in Users /\ v \in Users
    BY <1>1
  <2>2. refs[u] \in Nat /\ refs[v] \in Nat
    BY <2>1 DEF TypeOK
  <2>3. Score(u, LoadedSettings)' = refs[u] /\ Score(v, LoadedSettings)' = refs[v]
    BY <2>2 DEF Score, LoadedSettings
  <2>4. Score(u, LoadedSettings) = refs[u] /\ Score(v, LoadedSettings) = refs[v]
    BY <2>2 DEF Score, LoadedSettings
  <2> QED
    BY <2>3, <2>4 DEF Before
<1>3. {v \in Live : Before(v, u, LoadedSettings)}' = {v \in Live : Before(v, u, LoadedSettings)}
  BY <1>1, <1>2
<1> QED
  BY <1>3 DEF Rank

\* A step that changes nothing the ranking or the calculators depend on.
LEMMA FreshKept ==
  ASSUME TypeOK, TypeOK', Fresh, UNCHANGED <<row, refs, createdAt, calculation>>
  PROVE  Fresh'
<1>1. Live' = Live /\ position' = position /\ calc' = calc
  BY DEF Live, calculation
<1>2. \A u \in Live : Rank(u, LoadedSettings)' = Rank(u, LoadedSettings)
  BY RankKept
<1>3. ASSUME NEW w \in Calculators, RanksCurrent(calc[w].ranks) PROVE RanksCurrent(calc[w].ranks)'
  BY <1>1, <1>2, <1>3 DEF RanksCurrent
<1>4. RanksCurrent(position) => RanksCurrent(position)'
  BY <1>1, <1>2 DEF RanksCurrent
<1> QED
  BY <1>1, <1>3, <1>4 DEF Fresh

\* A step of a request keeps the token, hands it on or does not touch the ranking.
LEMMA RequestFreshness ==
  ASSUME Fits, Fits', Freshness, NEW r \in Requests,
         SignupReadsCampaign(r) \/ VerifyReads(r) \/ RequestStep(r) \/ RequestDies(r)
  PROVE  Freshness'
<1> DEFINE Carries == request[r].op = "signup" /\ request[r].pc \in {"count", "dispatch"}
<1>1. /\ TypeOK /\ TypeOK' /\ UNCHANGED calculation /\ request \in [Requests -> Request]
      /\ RequestFits(request[r]) /\ events \in Nat
      /\ \A p \in Requests \ {r} : request'[p] = request[p]
  BY NewRows, OneRequest DEF Fits, TypeOK
<1>2. ASSUME Carries' PROVE Token'
  BY <1>2 DEF Token
<1>3. ASSUME ~Carries, UNCHANGED <<row, refs, createdAt, events, silent>> PROVE Freshness'
  <2>1. CASE silent
    BY <1>3, <2>1 DEF Freshness
  <2>2. CASE Token
    <3>1. Token'
      BY <1>1, <1>3, <2>2 DEF Token, calculation
    <3> QED
      BY <3>1 DEF Freshness
  <2>3. CASE Fresh
    BY <1>1, <1>3, <2>3, FreshKept DEF Freshness
  <2> QED
    BY <2>1, <2>2, <2>3 DEF Freshness
<1>4. CASE \/ SignupReadsCampaign(r) \/ SignupLooksUp(r) \/ VerifyReads(r)
           \/ VerifyWrites(r) \/ VerifyCounts(r)
  <2>1. ~Carries
    BY <1>1, <1>4 DEF SignupReadsCampaign, SignupLooksUp, VerifyReads, VerifyWrites, VerifyCounts,
                      Start
  <2>2. UNCHANGED <<row, refs, createdAt, events, silent>>
    BY <1>4 DEF SignupReadsCampaign, SignupLooksUp, VerifyReads, VerifyWrites, VerifyCounts,
                userRow, counters
  <2> QED
    BY <1>3, <2>1, <2>2
<1>5. CASE SignupCreates(r)
  <2>1. ~Carries /\ request[r].op = "signup"
    BY <1>1, <1>5 DEF SignupCreates, RequestFits
  <2>2. CASE row[request[r].user] = "none"
    <3>1. Carries'
      BY <1>1, <1>5, <2>1, <2>2 DEF SignupCreates, Goto, Request
    <3> QED
      BY <1>2, <3>1 DEF Freshness
  <2>3. CASE row[request[r].user] # "none"
    <3>1. UNCHANGED <<row, refs, createdAt, events, silent>>
      BY <1>5, <2>3 DEF SignupCreates, userRow, counters
    <3> QED
      BY <1>3, <2>1, <3>1
  <2> QED
    BY <2>2, <2>3
<1>6. CASE SignupCounts(r)
  <2>1. Carries'
    BY <1>1, <1>6 DEF SignupCounts, Goto, Request
  <2> QED
    BY <1>2, <2>1 DEF Freshness
<1>7. CASE Dispatches(r)
  BY <1>1, <1>7 DEF Dispatches, Freshness, Token
<1>8. CASE RequestDies(r)
  BY <1>8 DEF RequestDies, Freshness
<1> QED
  BY <1>4, <1>5, <1>6, <1>7, <1>8 DEF RequestStep

\* A calculator writes the ranking it read, and reads only when no other writes.
LEMMA CalcFreshness ==
  ASSUME Fits, Fits', Snapshots, Freshness, NEW w \in Calculators, CalcStep(w) \/ CalcFails(w)
  PROVE  Freshness'
<1>1. /\ TypeOK /\ TypeOK' /\ events \in Nat /\ calc \in [Calculators -> Calculation]
      /\ Free \notin Calculators
  BY WaitlistAssumption DEF Fits, TypeOK
<1>2. UNCHANGED <<row, refs, createdAt, request>>
  BY DEF CalcStep, CalcTakes, CalcReads, CalcWrites, CalcFails, userRow, counters
<1>3. Live' = Live /\ \A u \in Live : Rank(u, LoadedSettings)' = Rank(u, LoadedSettings)
  BY <1>1, <1>2, RankKept DEF Live
<1>4. \A v \in Calculators \ {w} : calc'[v] = calc[v]
  BY <1>1, CalcMoves
<1>5. CASE CalcTakes(w)
  <2>1. calc'[w].pc = "lock"
    BY <1>1, <1>5 DEF CalcTakes, Calculation
  <2> QED
    BY <2>1 DEF Freshness, Token
<1>6. CASE CalcReads(w)
  <2>1. \A v \in Calculators : calc[v].pc # "write"
    BY <1>1, <1>6 DEF CalcReads, Snapshots, SnapshotFits
  <2>2. ASSUME NEW v \in Calculators, calc'[v].pc = "write"
        PROVE  v = w /\ Live # {} /\ RanksCurrent(calc[v].ranks)'
    <3>1. v = w
      BY <1>4, <2>1, <2>2
    <3>2. /\ Live # {}
          /\ calc'[w].ranks = [u \in Users |-> IF u \in Live THEN Rank(u, LoadedSettings) ELSE 0]
      BY <1>1, <2>2, <3>1, CalcMoves
    <3>3. Live \in SUBSET Users
      BY DEF Live
    <3> QED
      BY <1>3, <3>1, <3>2, <3>3 DEF RanksCurrent
  <2>3. (\A v \in Calculators : calc'[v].pc # "write") => RanksCurrent(position)'
    <3>1. CASE Live = {}
      BY <1>3, <3>1 DEF RanksCurrent
    <3>2. CASE Live # {}
      <4>1. calc'[w].pc = "write"
        BY <1>1, <1>6, <3>2 DEF CalcReads
      <4> QED
        BY <4>1
    <3> QED
      BY <3>1, <3>2
  <2> QED
    BY <2>2, <2>3 DEF Freshness, Fresh
<1>7. CASE CalcWrites(w)
  <2>1. calc[w].pc = "write" /\ calc'[w] = IdleCalc /\ UNCHANGED <<events, silent>>
    BY <1>1, <1>7 DEF CalcWrites
  <2>2. CASE silent
    BY <2>1, <2>2 DEF Freshness
  <2>3. CASE Token
    <3>1. Token'
      BY <1>2, <1>4, <2>1, <2>3 DEF Token
    <3> QED
      BY <3>1 DEF Freshness
  <2>4. CASE Fresh
    <3>1. \A u \in Live : calc[w].ranks[u] = Rank(u, LoadedSettings)
      BY <2>1, <2>4 DEF Fresh, RanksCurrent
    <3>2. \A u \in Live : u \in Users /\ Rank(u, LoadedSettings) > 0
      BY RankType DEF Live
    <3>3. RanksCurrent(position)'
      BY <1>3, <1>7, <3>1, <3>2 DEF CalcWrites, RanksCurrent
    <3>4. \A v \in Calculators : calc'[v].pc # "write"
      BY <1>4, <2>1 DEF Snapshots, SnapshotFits, IdleCalc
    <3> QED
      BY <3>3, <3>4 DEF Freshness, Fresh
  <2> QED
    BY <2>2, <2>3, <2>4 DEF Freshness
<1>8. CASE CalcFails(w)
  BY <1>1, <1>8 DEF CalcFails, Freshness, Token
<1> QED
  BY <1>5, <1>6, <1>7, <1>8 DEF CalcStep

LEMMA FreshnessStep ==
  Fits /\ Fits' /\ Snapshots /\ Freshness /\ [Next]_vars => Freshness'
<1> SUFFICES ASSUME Fits, Fits', Snapshots, Freshness, [Next]_vars PROVE Freshness'
  OBVIOUS
<1>1. CASE DeleteUser
  BY <1>1 DEF DeleteUser, Freshness
<1>2. CASE UNCHANGED vars
  <2>1. UNCHANGED <<row, refs, createdAt, calculation, silent, events, request>>
    BY <1>2 DEF vars, calculation
  <2>2. Token => Token'
    BY <2>1 DEF Token, calculation
  <2>3. Fresh => Fresh'
    BY <2>1, FreshKept DEF Fits
  <2> QED
    BY <2>1, <2>2, <2>3 DEF Freshness
<1> QED
  BY <1>1, <1>2, RequestFreshness, CalcFreshness DEF Next

\* Once every event is processed the positions shown are the ranking of the
\* current rows, unless a user was deleted or an event was lost: a snapshot
\* taken too early is always followed by another
\* (waitlist/processor/processor.go:308-361, position_calculator.go:34-118).
THEOREM SettledPositions == Spec => []SettledPositionsAreRanking
<1>1. Init => Freshness
  BY DEF Init, Freshness, Fresh, RanksCurrent, Live, IdleCalc
<1>2. Freshness => SettledPositionsAreRanking
  BY DEF Freshness, Fresh, Token, RanksCurrent, SettledPositionsAreRanking, Settled
<1> QED
  BY <1>1, <1>2, FreshnessStep, WaitlistTypeCorrect, PositionsStayDistinct, PTL DEF Spec
=============================================================================
