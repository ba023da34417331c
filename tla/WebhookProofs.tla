---------------------------- MODULE WebhookProofs ----------------------------
(***************************************************************************)
(* Proofs about webhooks, those the program sends and those it gets.       *)
(*                                                                         *)
(* WebhookDelivery, for every number of events, rows and failures and      *)
(* every limit of retries.  What is said of one row's calls needs one      *)
(* server; the counters are right with any number.                         *)
(*                                                                         *)
(* Billing, which follows Stripe by its webhooks, for every set of         *)
(* addresses, prices, requests and handlers and any number of events.      *)
(***************************************************************************)
EXTENDS WebhookDelivery, Billing, FiniteSetTheorems, SequenceTheorems, TLAPS

-----------------------------------------------------------------------------
(* Sequences and sets.                                                     *)

\* What is left of a sequence without its element at a place.
LEMMA Joined ==
  ASSUME NEW n \in Nat, NEW at \in 1 .. n, NEW S, NEW a \in Seq(S), NEW b \in Seq(S), NEW q,
         Len(a) = at - 1, Len(b) = n - at,
         \A i \in 1 .. at - 1 : a[i] = q[i],
         \A i \in 1 .. n - at : b[i] = q[at + i]
  PROVE  /\ a \o b \in Seq(S) /\ Len(a \o b) = n - 1
         /\ \A i \in 1 .. n - 1 : (a \o b)[i] = q[IF i < at THEN i ELSE i + 1]
<1>1. /\ a \o b \in Seq(S) /\ Len(a \o b) = n - 1
      /\ \A i \in 1 .. n - 1 : (a \o b)[i] = IF i <= at - 1 THEN a[i] ELSE b[i - (at - 1)]
  <2>1. Len(a) + Len(b) = n - 1
    OBVIOUS
  <2> QED
    BY <2>1, ConcatProperties
<1>2. ASSUME NEW i \in 1 .. n - 1 PROVE (a \o b)[i] = q[IF i < at THEN i ELSE i + 1]
  <2>1. CASE i < at
    BY <1>1, <2>1
  <2>2. CASE ~(i < at)
    <3>1. i - (at - 1) \in 1 .. n - at /\ at + (i - (at - 1)) = i + 1
      BY <2>2
    <3> QED
      BY <1>1, <2>2, <3>1
  <2> QED
    BY <2>1, <2>2
<1> QED
  BY <1>1, <1>2

LEMMA Removed ==
  ASSUME NEW S, NEW q \in Seq(S), NEW at \in DOMAIN q
  PROVE  \E a, b \in Seq(S) :
           /\ SubSeq(q, 1, at - 1) \o SubSeq(q, at + 1, Len(q)) = a \o b
           /\ a \o b \in Seq(S) /\ Len(a \o b) = Len(q) - 1
           /\ \A i \in 1 .. Len(q) - 1 : (a \o b)[i] = q[IF i < at THEN i ELSE i + 1]
<1>1. at \in 1 .. Len(q) /\ Len(q) \in Nat
  OBVIOUS
<1> DEFINE a == SubSeq(q, 1, at - 1)
           b == SubSeq(q, at + 1, Len(q))
<1>2. a \in Seq(S) /\ Len(a) = at - 1 /\ \A i \in 1 .. at - 1 : a[i] = q[i]
  BY <1>1
<1>3. b \in Seq(S) /\ Len(b) = Len(q) - at /\ \A i \in 1 .. Len(q) - at : b[i] = q[at + i]
  BY <1>1
<1>4. SubSeq(q, 1, at - 1) \o SubSeq(q, at + 1, Len(q)) = a \o b
  OBVIOUS
<1> HIDE DEF a, b
<1>5. /\ a \o b \in Seq(S) /\ Len(a \o b) = Len(q) - 1
      /\ \A i \in 1 .. Len(q) - 1 : (a \o b)[i] = q[IF i < at THEN i ELSE i + 1]
  BY <1>1, <1>2, <1>3, Joined
<1> QED
  BY <1>2, <1>3, <1>4, <1>5

\* When one member moves, a finite set gains it, loses it or stays as it is.
LEMMA OneMoves ==
  ASSUME NEW S, NEW T, NEW x, IsFiniteSet(S), T \ {x} = S \ {x}
  PROVE  /\ x \notin S /\ x \in T => Cardinality(T) = Cardinality(S) + 1
         /\ x \in S /\ x \notin T => Cardinality(T) = Cardinality(S) - 1
         /\ (x \in S <=> x \in T) => Cardinality(T) = Cardinality(S)
<1>1. ASSUME x \notin S, x \in T PROVE Cardinality(T) = Cardinality(S) + 1
  <2>1. T = S \cup {x}
    BY <1>1
  <2> QED
    BY <1>1, <2>1, FS_AddElement
<1>2. ASSUME x \in S, x \notin T PROVE Cardinality(T) = Cardinality(S) - 1
  <2>1. T = S \ {x}
    BY <1>2
  <2> QED
    BY <1>2, <2>1, FS_RemoveElement
<1>3. ASSUME x \in S <=> x \in T PROVE T = S
  BY <1>3
<1> QED
  BY <1>1, <1>2, <1>3

-----------------------------------------------------------------------------
(* Types.                                                                  *)

Dispatch ==
  [pc : {"idle", "create", "call", "mark", "settle"}, todo : SUBSET Webhooks,
   limits : [Webhooks -> Nat], row : Nat, ok : BOOLEAN]
Item == [row : Ids, attempt : Nat]
Pass ==
  [pc : {"idle", "read", "call", "mark", "settle"}, todo : Seq(Item), limit : Nat, ok : BOOLEAN]

\* The variables keep their types.
TypeOK ==
  /\ active \in [Webhooks -> BOOLEAN] /\ maxRetries \in [Webhooks -> Nat]
  /\ totalSent \in [Webhooks -> Nat] /\ totalFailed \in [Webhooks -> Nat]
  /\ owner \in Seq(Webhooks) /\ Len(owner) <= NumRows
  /\ status \in [Ids -> {"pending", "success", "failed"}] /\ attempt \in [Ids -> Nat]
  /\ later \in SUBSET Ids /\ due \in Seq(Ids)
  /\ topic \in Nat
  /\ sender \in [Servers -> Dispatch] /\ retrier \in [Servers -> Pass]
  /\ faults \in Nat
  /\ calls \in [Ids -> Nat] /\ accepted \in [Webhooks -> Nat] /\ panics \in Nat

Busy(q) == q.pc \in {"call", "mark", "settle"}

\* Whoever handles a delivery handles a row of the table.
SenderFits(q) == Busy(q) => q.row \in DOMAIN owner
RetrierFits(k) ==
  /\ k.pc # "idle" => k.todo # <<>>
  /\ \A i \in DOMAIN k.todo : k.todo[i].row \in DOMAIN owner

\* Only rows of the table are scheduled.
ScheduleFits ==
  /\ later \subseteq DOMAIN owner
  /\ \A i \in DOMAIN due : due[i] \in DOMAIN owner

Fits ==
  /\ TypeOK /\ ScheduleFits
  /\ \A s \in Servers : SenderFits(sender[s]) /\ RetrierFits(retrier[s])

LEMMA InitFits == Init => Fits
<1> SUFFICES ASSUME Init PROVE Fits
  OBVIOUS
<1>1. IdleSender \in Dispatch /\ IdleRetrier \in Pass
  BY DEF IdleSender, IdleRetrier, Dispatch, Pass, None
<1>2. TypeOK
  <2>1. maxRetries \in [Webhooks -> Nat]
    BY DeliveryAssumption DEF Init
  <2>2. Len(owner) <= NumRows /\ NumEvents \in Nat
    BY DeliveryAssumption DEF Init
  <2> QED
    BY <1>1, <2>1, <2>2 DEF Init, TypeOK
<1>3. ScheduleFits
  BY DEF Init, ScheduleFits
<1>4. \A s \in Servers : SenderFits(sender[s]) /\ RetrierFits(retrier[s])
  BY DEF Init, SenderFits, RetrierFits, Busy, IdleSender, IdleRetrier
<1> QED
  BY <1>2, <1>3, <1>4 DEF Fits

-----------------------------------------------------------------------------
(* The schedule of retries.                                                *)

Scheduled(d) == d \in later \/ \E i \in DOMAIN due : due[i] = d

\* A row has one next_retry_at.
DueOnce ==
  /\ \A i, j \in DOMAIN due : i # j => due[i] # due[j]
  /\ \A i \in DOMAIN due : due[i] \notin later

\* A new next_retry_at takes a row from the due ones and leaves the others.
LEMMA Rescheduled ==
  ASSUME TypeOK, NEW d \in Ids, NEW again \in BOOLEAN, Reschedule(d, again)
  PROVE  /\ later' \in SUBSET Ids /\ due' \in Seq(Ids)
         /\ \A e \in Ids : Scheduled(e)' => Scheduled(e) \/ e = d
         /\ DueOnce => DueOnce' /\ \A i \in DOMAIN due' : due'[i] # d
<1>1. due \in Seq(Ids) /\ later \in SUBSET Ids
  BY DEF TypeOK
<1>2. later' \in SUBSET Ids /\ \A e \in later' : e = d \/ e \in later
  BY <1>1 DEF Reschedule
<1>3. CASE UNCHANGED due /\ \A at \in DOMAIN due : due[at] # d
  BY <1>1, <1>2, <1>3 DEF Scheduled, DueOnce
<1>4. ASSUME NEW at \in DOMAIN due, due[at] = d,
             due' = SubSeq(due, 1, at - 1) \o SubSeq(due, at + 1, Len(due))
      PROVE  /\ due' \in Seq(Ids)
             /\ \A e \in Ids : Scheduled(e)' => Scheduled(e) \/ e = d
             /\ DueOnce => DueOnce' /\ \A i \in DOMAIN due' : due'[i] # d
  <2>1. /\ due' \in Seq(Ids) /\ Len(due') = Len(due) - 1
        /\ \A i \in 1 .. Len(due) - 1 : due'[i] = due[IF i < at THEN i ELSE i + 1]
    BY ZenonT(40), <1>1, <1>4, Removed
  <2> DEFINE Was(i) == IF i < at THEN i ELSE i + 1
  <2>2. at \in 1 .. Len(due) /\ Len(due) \in Nat /\ DOMAIN due' = 1 .. Len(due) - 1
    BY <1>1, <2>1
  <2>3. ASSUME NEW i \in DOMAIN due'
        PROVE  Was(i) \in DOMAIN due /\ Was(i) # at /\ due'[i] = due[Was(i)]
    BY <1>1, <2>1, <2>2
  <2>4. \A i, j \in DOMAIN due' : i # j => Was(i) # Was(j)
    BY <2>2
  <2> HIDE DEF Was
  <2>5. \A e \in Ids : Scheduled(e)' => Scheduled(e) \/ e = d
    BY <1>2, <2>3 DEF Scheduled
  <2>6. ASSUME DueOnce PROVE DueOnce' /\ \A i \in DOMAIN due' : due'[i] # d
    <3>1. \A i \in DOMAIN due' : due'[i] # d
      BY <1>4, <2>3, <2>6 DEF DueOnce
    <3>2. \A i, j \in DOMAIN due' : i # j => due'[i] # due'[j]
      BY <2>3, <2>4, <2>6 DEF DueOnce
    <3>3. \A i \in DOMAIN due' : due'[i] \notin later'
      BY <1>2, <2>3, <2>6, <3>1 DEF DueOnce
    <3> QED
      BY <3>1, <3>2, <3>3 DEF DueOnce
  <2> QED
    BY <2>1, <2>5, <2>6
<1> QED
  BY <1>2, <1>3, <1>4 DEF Reschedule

-----------------------------------------------------------------------------
(* The types are kept.                                                     *)

ServerStep(s) ==
  \/ SenderStep(s) \/ SenderTakeFails(s) \/ SenderCreateFails(s)
  \/ RetryStep(s) \/ RetryReadFails(s)
  \/ Crash(s)

\* A row of the table has one of the numbers of the bound.
LEMMA RowsAreIds == TypeOK => DOMAIN owner \subseteq Ids /\ DOMAIN owner = 1 .. Len(owner)
<1> SUFFICES ASSUME TypeOK PROVE DOMAIN owner \subseteq Ids /\ DOMAIN owner = 1 .. Len(owner)
  OBVIOUS
<1>1. owner \in Seq(Webhooks) /\ Len(owner) <= NumRows /\ NumRows \in Nat
  BY DeliveryAssumption DEF TypeOK
<1>2. DOMAIN owner = 1 .. Len(owner) /\ Len(owner) \in Nat
  BY <1>1
<1> QED
  BY <1>1, <1>2 DEF Ids

\* The delivery a pass is at.
LEMMA Current ==
  ASSUME Fits, NEW s \in Servers, retrier[s].pc # "idle"
  PROVE  /\ retrier[s].todo \in Seq(Item) /\ Len(retrier[s].todo) \in Nat \ {0}
         /\ Delivery(s) = retrier[s].todo[1] /\ Delivery(s) \in Item
         /\ Delivery(s).row \in DOMAIN owner /\ Delivery(s).row \in Ids
         /\ owner[Delivery(s).row] \in Webhooks
<1>1. retrier[s] \in Pass /\ RetrierFits(retrier[s]) /\ owner \in Seq(Webhooks)
  BY DEF Fits, TypeOK
<1>2. retrier[s].todo \in Seq(Item) /\ retrier[s].todo # <<>>
  BY <1>1 DEF Pass, RetrierFits
<1>3. Len(retrier[s].todo) \in Nat \ {0} /\ Delivery(s) = retrier[s].todo[1]
  BY <1>2 DEF Delivery
<1>4. 1 \in DOMAIN retrier[s].todo
  BY <1>2, <1>3
<1>5. Delivery(s) \in Item /\ Delivery(s).row \in DOMAIN owner
  BY <1>1, <1>2, <1>3, <1>4 DEF RetrierFits
<1> QED
  BY <1>1, <1>2, <1>3, <1>5 DEF Item

\* A server's step moves the server's own sender and retrier only.
LEMMA OneServerMoves ==
  ASSUME TypeOK, NEW s \in Servers, ServerStep(s)
  PROVE  /\ \A t \in Servers \ {s} : sender'[t] = sender[t] /\ retrier'[t] = retrier[t]
         /\ sender'[s] \in Dispatch /\ retrier'[s] \in Pass =>
              sender' \in [Servers -> Dispatch] /\ retrier' \in [Servers -> Pass]
<1> DEFINE Goal ==
             \A t \in Servers \ {s} : sender'[t] = sender[t] /\ retrier'[t] = retrier[t]
<1>1. sender \in [Servers -> Dispatch] /\ retrier \in [Servers -> Pass]
  BY DEF TypeOK
<1>2. ASSUME \/ sender' = sender \/ sender' = [sender EXCEPT ![s] = sender'[s]],
             \/ retrier' = retrier \/ retrier' = [retrier EXCEPT ![s] = retrier'[s]]
      PROVE  /\ Goal
             /\ sender'[s] \in Dispatch /\ retrier'[s] \in Pass =>
                  sender' \in [Servers -> Dispatch] /\ retrier' \in [Servers -> Pass]
  BY <1>1, <1>2
<1>3. \/ sender' = sender
      \/ sender' = [sender EXCEPT ![s] = sender'[s]]
  BY <1>1 DEF ServerStep, SenderStep, SenderTakes, SenderTakeFails, SenderCreates, SenderCreateFails,
              SenderCalls, SenderMarks, SenderSettles, SenderAt, Sent, RetryStep, RetrySelects,
              RetryReads, RetryReadFails, RetryCalls, RetryMarks, RetrySucceeds, RetryFails,
              RetryGivesUp, Crash, Stop, Dispatch
<1>4. \/ retrier' = retrier
      \/ retrier' = [retrier EXCEPT ![s] = retrier'[s]]
  BY <1>1 DEF ServerStep, SenderStep, SenderTakes, SenderTakeFails, SenderCreates, SenderCreateFails,
              SenderCalls, SenderMarks, SenderSettles, RetryAt, NextDelivery, RetryStep, RetrySelects,
              RetryReads, RetryReadFails, RetryCalls, RetryMarks, RetrySucceeds, RetryFails,
              RetryGivesUp, Crash, Stop, Pass
<1> QED
  BY <1>2, <1>3, <1>4

\* What a sender is at after its server's step.
LEMMA NewSender ==
  ASSUME Fits, NEW s \in Servers, ServerStep(s)
  PROVE  /\ sender'[s] \in Dispatch
         /\ Busy(sender'[s]) => sender'[s].row \in DOMAIN owner'
<1> DEFINE q == sender[s]
           p == sender'[s]
<1>1. /\ q \in Dispatch /\ SenderFits(q) /\ sender \in [Servers -> Dispatch]
      /\ owner \in Seq(Webhooks) /\ maxRetries \in [Webhooks -> Nat] /\ Len(owner) \in Nat
  BY DEF Fits, TypeOK
<1>2. IdleSender \in Dispatch /\ ~Busy(IdleSender)
  BY DEF IdleSender, Dispatch, Busy, None
<1>3. CASE p = IdleSender
  BY <1>2, <1>3
<1>4. CASE p = q /\ owner' = owner
  BY <1>1, <1>4 DEF SenderFits
<1>5. CASE SenderTakes(s)
  <2> DEFINE hs == {h \in Webhooks : active[h]}
  <2>1. p = IdleSender \/ p = [IdleSender EXCEPT !.pc = "create", !.todo = hs, !.limits = maxRetries]
    BY <1>1, <1>5 DEF SenderTakes
  <2>2. hs \in SUBSET Webhooks
    OBVIOUS
  <2> HIDE DEF hs
  <2>3. CASE p = [IdleSender EXCEPT !.pc = "create", !.todo = hs, !.limits = maxRetries]
    <3>1. p = [pc |-> "create", todo |-> hs, limits |-> maxRetries, row |-> 0, ok |-> FALSE]
      BY <2>3 DEF IdleSender, None
    <3> QED
      BY <1>1, <2>2, <3>1 DEF Dispatch, Busy
  <2> QED
    BY <1>3, <2>1, <2>3
<1>6. CASE SenderCreates(s)
  <2>1. PICK h \in q.todo :
          /\ owner' = Append(owner, h)
          /\ sender' = [sender EXCEPT ![s].pc = "call", ![s].todo = @ \ {h}, ![s].row = Len(owner')]
    BY <1>6 DEF SenderCreates
  <2>2. h \in Webhooks
    BY <1>1 DEF Dispatch
  <2>3. Len(owner') = Len(owner) + 1 /\ DOMAIN owner' = 1 .. Len(owner) + 1
    BY <1>1, <2>1, <2>2
  <2>4. p = [q EXCEPT !.pc = "call", !.todo = q.todo \ {h}, !.row = Len(owner')]
    BY <1>1, <2>1
  <2> DEFINE T == q.todo \ {h}
  <2>6. T \in SUBSET Webhooks /\ p = [q EXCEPT !.pc = "call", !.todo = T, !.row = Len(owner')]
    BY <1>1, <2>4 DEF Dispatch
  <2> HIDE DEF T
  <2>7. p = [pc |-> "call", todo |-> T, limits |-> q.limits, row |-> Len(owner) + 1, ok |-> q.ok]
    BY <1>1, <2>3, <2>6 DEF Dispatch
  <2>8. /\ T \in SUBSET Webhooks /\ q.limits \in [Webhooks -> Nat] /\ q.ok \in BOOLEAN
        /\ Len(owner) + 1 \in Nat
    BY <1>1, <2>6 DEF Dispatch
  <2>5. p \in Dispatch /\ p.row = Len(owner) + 1
    BY <2>7, <2>8 DEF Dispatch
  <2> QED
    BY <1>1, <2>3, <2>5
<1>7. CASE SenderCreateFails(s)
  <2>1. PICK h \in q.todo :
          sender' = [sender EXCEPT ![s] = IF @.todo = {h} THEN IdleSender
                                          ELSE [@ EXCEPT !.todo = sender[s].todo \ {h}]]
    BY <1>7 DEF SenderCreateFails
  <2> DEFINE T == q.todo \ {h}
             new == IF q.todo = {h} THEN IdleSender ELSE [q EXCEPT !.todo = T]
  <2>2. sender' = [sender EXCEPT ![s] = new]
    BY <2>1
  <2>3. T \in SUBSET Webhooks /\ q.pc = "create"
    BY <1>1, <1>7 DEF Dispatch, SenderCreateFails
  <2> HIDE DEF T
  <2>4. CASE new = [q EXCEPT !.todo = T]
    <3>1. new = [pc |-> "create", todo |-> T, limits |-> q.limits, row |-> q.row, ok |-> q.ok]
      BY <1>1, <2>3, <2>4 DEF Dispatch
    <3> HIDE DEF new
    <3>2. p = new
      BY <1>1, <2>2
    <3> QED
      BY <1>1, <2>3, <3>1, <3>2 DEF Dispatch, Busy
  <2>5. CASE new = IdleSender
    <3> HIDE DEF new
    <3>2. p = new
      BY <1>1, <2>2
    <3> QED
      BY <1>3, <2>5, <3>2
  <2> QED
    BY <2>4, <2>5
<1>8. CASE SenderCalls(s)
  <2>1. PICK ok \in BOOLEAN : sender' = [sender EXCEPT ![s].pc = "mark", ![s].ok = ok]
    BY <1>8 DEF SenderCalls
  <2>2. p = [q EXCEPT !.pc = "mark", !.ok = ok] /\ q.row \in DOMAIN owner /\ owner' = owner
    BY <1>1, <1>8, <2>1 DEF SenderCalls, table, SenderFits, Busy, Dispatch
  <2> QED
    BY <1>1, <2>2 DEF Dispatch
<1>9. CASE SenderMarks(s)
  <2>1. p = [q EXCEPT !.pc = "settle"] /\ q.row \in DOMAIN owner /\ owner' = owner
    BY <1>1, <1>9 DEF SenderMarks, SenderAt, SenderFits, Busy, Dispatch
  <2> QED
    BY <1>1, <2>1 DEF Dispatch
<1>10. CASE SenderSettles(s)
  <2>1. p = IdleSender \/ p = [q EXCEPT !.pc = "create", !.row = None, !.ok = FALSE]
    <3>1. Sent(s)
      BY <1>10 DEF SenderSettles
    <3> QED
      BY <1>1, <3>1 DEF Sent
  <2>2. CASE p = [q EXCEPT !.pc = "create", !.row = None, !.ok = FALSE]
    <3>1. p = [pc |-> "create", todo |-> q.todo, limits |-> q.limits, row |-> 0, ok |-> FALSE]
      BY <1>1, <2>2 DEF Dispatch, None
    <3> QED
      BY <1>1, <3>1 DEF Dispatch, Busy
  <2> QED
    BY <1>3, <2>1, <2>2
<1>11. CASE RetryGivesUp(s) \/ Crash(s)
  BY <1>1, <1>3, <1>11 DEF RetryGivesUp, Crash, Stop
<1>12. CASE \/ SenderTakeFails(s) \/ RetrySelects(s) \/ RetryReads(s) \/ RetryReadFails(s)
            \/ RetryCalls(s) \/ RetryMarks(s) \/ RetrySucceeds(s) \/ RetryFails(s)
  BY <1>4, <1>12 DEF SenderTakeFails, RetrySelects, RetryReads, RetryReadFails, RetryCalls, RetryMarks,
                     RetrySucceeds, RetryFails, table
<1> QED
  BY <1>5, <1>6, <1>7, <1>8, <1>9, <1>10, <1>11, <1>12 DEF ServerStep, SenderStep, RetryStep

\* A pass goes on with the rows it has left, or ends.
LEMMA NextOfPass ==
  ASSUME Fits, NEW s \in Servers, retrier[s].pc # "idle", NextDelivery(s)
  PROVE  /\ retrier'[s] \in Pass /\ retrier'[s].pc \in {"idle", "read"}
         /\ retrier'[s].pc # "idle" => retrier'[s].todo # <<>>
         /\ DOMAIN retrier'[s].todo = 1 .. Len(retrier[s].todo) - 1
         /\ \A i \in DOMAIN retrier'[s].todo :
              i + 1 \in DOMAIN retrier[s].todo /\ retrier'[s].todo[i] = retrier[s].todo[i + 1]
<1> DEFINE k == retrier[s]
           p == retrier'[s]
<1>1. k \in Pass /\ k.todo \in Seq(Item) /\ Len(k.todo) \in Nat \ {0} /\ retrier \in [Servers -> Pass]
  BY Current DEF Fits, TypeOK
<1>2. p = IF Len(k.todo) = 1 THEN IdleRetrier
          ELSE [IdleRetrier EXCEPT !.pc = "read", !.todo = Tail(k.todo)]
  BY <1>1 DEF NextDelivery
<1>3. CASE Len(k.todo) = 1
  <2>1. p = [pc |-> "idle", todo |-> <<>>, limit |-> 0, ok |-> FALSE]
    BY <1>2, <1>3 DEF IdleRetrier
  <2>2. p \in Pass /\ DOMAIN p.todo = {}
    BY <2>1 DEF Pass
  <2> QED
    BY <1>3, <2>1, <2>2
<1>4. CASE Len(k.todo) # 1
  <2> DEFINE rest == Tail(k.todo)
  <2>1. p = [pc |-> "read", todo |-> rest, limit |-> 0, ok |-> FALSE]
    BY <1>2, <1>4 DEF IdleRetrier
  <2>2. /\ rest \in Seq(Item) /\ Len(rest) = Len(k.todo) - 1
        /\ \A i \in 1 .. Len(k.todo) - 1 : rest[i] = k.todo[i + 1]
    BY <1>1, <1>4
  <2> HIDE DEF rest
  <2>3. DOMAIN rest = 1 .. Len(k.todo) - 1 /\ rest # <<>>
    <3> DEFINE n == Len(k.todo)
    <3>3. n \in Nat \ {0} /\ n # 1 /\ Len(rest) = n - 1
      BY <1>1, <1>4, <2>2, Zenon
    <3> HIDE DEF n
    <3>1. n \in Nat /\ n > 1 /\ Len(rest) = n - 1
      BY <3>3
    <3>2. DOMAIN rest = 1 .. n - 1 /\ rest # <<>>
      BY <2>2, <3>1
    <3> QED
      BY <3>2 DEF n
  <2>4. p \in Pass
    BY <2>1, <2>2 DEF Pass
  <2> QED
    BY <1>1, <2>1, <2>2, <2>3, <2>4
<1> QED
  BY <1>3, <1>4

\* The rows a pass starts with: rows that are due and may be retried, each once.
LEMMA Selected ==
  ASSUME Fits, NEW s \in Servers, RetrySelects(s)
  PROVE  /\ retrier'[s] \in Pass /\ retrier'[s].pc = "read" /\ retrier'[s].todo # <<>>
         /\ \A i \in DOMAIN retrier'[s].todo : \E m \in DOMAIN due :
              Retryable(due[m]) /\ retrier'[s].todo[i].row = due[m]
         /\ DueOnce => \A i, j \in DOMAIN retrier'[s].todo :
              i # j => retrier'[s].todo[i].row # retrier'[s].todo[j].row
<1> DEFINE pending == {i \in DOMAIN due : Retryable(due[i])}
           first == {i \in pending : Cardinality({j \in pending : j < i}) < Limit}
<1>1. /\ due \in Seq(Ids) /\ attempt \in [Ids -> Nat] /\ retrier \in [Servers -> Pass]
      /\ first \subseteq DOMAIN due /\ DOMAIN due = 1 .. Len(due) /\ Len(due) \in Nat
      /\ \A m \in first : Retryable(due[m])
  BY DEF Fits, TypeOK
<1>2. PICK at \in [1 .. Cardinality(first) -> first] :
        /\ first # {} /\ \A i, j \in DOMAIN at : i < j => at[i] < at[j]
        /\ retrier' = [retrier EXCEPT ![s] = [IdleRetrier EXCEPT !.pc = "read",
             !.todo = [i \in DOMAIN at |->
                        [row |-> due[at[i]], attempt |-> attempt[due[at[i]]]]]]]
  BY DEF RetrySelects
<1>3. IsFiniteSet(first) /\ Cardinality(first) \in Nat \ {0}
  <2>1. IsFiniteSet(DOMAIN due)
    BY <1>1, FS_Interval
  <2>2. IsFiniteSet(first)
    BY <1>1, <2>1, FS_Subset
  <2> QED
    BY <1>2, <2>2, FS_EmptySet, FS_CardinalityType
<1> HIDE DEF first
<1> DEFINE n == Cardinality(first)
           rows == [i \in 1 .. n |-> [row |-> due[at[i]], attempt |-> attempt[due[at[i]]]]]
<1>4. retrier'[s] = [pc |-> "read", todo |-> rows, limit |-> 0, ok |-> FALSE]
  BY <1>1, <1>2 DEF IdleRetrier
<1>5. ASSUME NEW i \in 1 .. n
      PROVE  /\ rows[i] \in Item /\ rows[i].row = due[at[i]]
             /\ at[i] \in DOMAIN due /\ Retryable(due[at[i]])
  <2>1. at[i] \in DOMAIN due /\ due[at[i]] \in Ids
    BY <1>1, <1>2
  <2>2. attempt[due[at[i]]] \in Nat
    BY <1>1, <2>1
  <2> QED
    BY <1>1, <1>2, <2>1, <2>2 DEF Item
<1>6. rows \in Seq(Item) /\ DOMAIN rows = 1 .. n /\ rows # <<>>
  <2> n \in Nat \ {0}
    BY <1>3
  <2> HIDE DEF n
  <2>1. rows \in [1 .. n -> Item]
    BY <1>5
  <2>2. rows \in Seq(Item)
    BY <2>1
  <2> QED
    BY <2>2
<1>7. retrier'[s] \in Pass
  <2> HIDE DEF rows
  <2> QED
    BY <1>4, <1>6 DEF Pass
<1>8. ASSUME DueOnce, NEW i \in 1 .. n, NEW j \in 1 .. n, i # j
      PROVE  rows[i].row # rows[j].row
  <2>1. i \in Int /\ j \in Int
    BY <1>3
  <2>2. i < j \/ j < i
    BY <1>8, <2>1
  <2>3. at[i] \in Int /\ at[j] \in Int
    BY <1>1, <1>5
  <2>4. at[i] # at[j]
    BY <1>2, <2>2, <2>3
  <2> QED
    BY <1>5, <1>8, <2>4 DEF DueOnce
<1> HIDE DEF rows, n
<1> QED
  BY <1>4, <1>5, <1>6, <1>7, <1>8

\* What a retrier is at after its server's step.
LEMMA NewRetrier ==
  ASSUME Fits, NEW s \in Servers, ServerStep(s)
  PROVE  /\ retrier'[s] \in Pass
         /\ retrier'[s].pc # "idle" => retrier'[s].todo # <<>>
         /\ \A i \in DOMAIN retrier'[s].todo : retrier'[s].todo[i].row \in DOMAIN owner
<1> DEFINE k == retrier[s]
           p == retrier'[s]
<1>1. /\ k \in Pass /\ RetrierFits(k) /\ retrier \in [Servers -> Pass] /\ ScheduleFits
      /\ maxRetries \in [Webhooks -> Nat]
  BY DEF Fits, TypeOK
<1>2. CASE p = IdleRetrier
  <2>1. p = [pc |-> "idle", todo |-> <<>>, limit |-> 0, ok |-> FALSE] /\ DOMAIN p.todo = {}
    BY <1>2 DEF IdleRetrier
  <2> QED
    BY <2>1 DEF Pass
<1>3. CASE p = k
  BY <1>1, <1>3 DEF RetrierFits
<1>4. CASE RetrySelects(s)
  <2>1. /\ p \in Pass /\ p.pc = "read" /\ p.todo # <<>>
        /\ \A i \in DOMAIN p.todo : \E m \in DOMAIN due : p.todo[i].row = due[m]
    BY <1>4, Selected
  <2> QED
    BY <1>1, <2>1 DEF ScheduleFits
<1>5. ASSUME k.pc # "idle", NextDelivery(s)
      PROVE  /\ p \in Pass
             /\ p.pc # "idle" => p.todo # <<>>
             /\ \A i \in DOMAIN p.todo : p.todo[i].row \in DOMAIN owner
  <2>1. /\ p \in Pass
        /\ p.pc # "idle" => p.todo # <<>>
        /\ \A i \in DOMAIN p.todo : i + 1 \in DOMAIN k.todo /\ p.todo[i] = k.todo[i + 1]
    BY <1>5, NextOfPass
  <2> QED
    BY <1>1, <2>1 DEF RetrierFits
<1>6. CASE RetryReads(s)
  <2> DEFINE h == owner[Delivery(s).row]
  <2>1. CASE active[h]
    <3>1. /\ retrier' = [retrier EXCEPT ![s].pc = "call", ![s].limit = maxRetries[h]]
          /\ k.pc = "read" /\ k.todo # <<>>
      BY <1>1, <1>6, <2>1 DEF RetryReads, RetrierFits
    <3>2. h \in Webhooks
      BY <1>6, Current DEF RetryReads
    <3> DEFINE m == maxRetries[h]
    <3>3. m \in Nat
      BY <1>1, <3>2
    <3> HIDE DEF m
    <3>4. p = [k EXCEPT !.pc = "call", !.limit = m]
      BY <1>1, <3>1 DEF m, Pass
    <3>5. p = [pc |-> "call", todo |-> k.todo, limit |-> m, ok |-> k.ok]
      BY <1>1, <3>4 DEF Pass
    <3>6. p \in Pass
      BY <1>1, <3>3, <3>5 DEF Pass
    <3> QED
      BY <1>1, <3>1, <3>5, <3>6 DEF RetrierFits
  <2>2. CASE ~active[h]
    BY <1>5, <1>6, <2>2 DEF RetryReads
  <2> QED
    BY <2>1, <2>2
<1>7. CASE RetryReadFails(s) \/ RetrySucceeds(s) \/ RetryFails(s)
  BY <1>5, <1>7 DEF RetryReadFails, RetrySucceeds, RetryFails
<1>8. CASE RetryCalls(s) \/ RetryMarks(s)
  <2>1. k.todo # <<>>
    BY <1>1, <1>8 DEF RetryCalls, RetryMarks, RetrierFits
  <2>2. \/ \E ok \in BOOLEAN : p = [k EXCEPT !.pc = "mark", !.ok = ok]
        \/ p = [k EXCEPT !.pc = "settle"]
    <3>1. CASE RetryCalls(s)
      <4>1. PICK ok \in BOOLEAN : retrier' = [retrier EXCEPT ![s].pc = "mark", ![s].ok = ok]
        BY <3>1 DEF RetryCalls
      <4>2. p = [k EXCEPT !.pc = "mark", !.ok = ok]
        BY <1>1, <4>1 DEF Pass
      <4> QED
        BY <4>2
    <3>2. CASE RetryMarks(s)
      BY <1>1, <3>2 DEF RetryMarks, RetryAt, Pass
    <3> QED
      BY <1>8, <3>1, <3>2
  <2>3. p \in Pass /\ p.todo = k.todo
    BY <1>1, <2>2 DEF Pass
  <2> QED
    BY <1>1, <2>1, <2>3 DEF RetrierFits
<1>9. CASE RetryGivesUp(s) \/ Crash(s)
  BY <1>1, <1>2, <1>9 DEF RetryGivesUp, Crash, Stop
<1>10. CASE SenderStep(s) \/ SenderTakeFails(s) \/ SenderCreateFails(s)
  BY <1>3, <1>10 DEF SenderStep, SenderTakes, SenderTakeFails, SenderCreates, SenderCreateFails,
                     SenderCalls, SenderMarks, SenderSettles
<1> QED
  BY <1>4, <1>6, <1>7, <1>8, <1>9, <1>10 DEF ServerStep, RetryStep

\* A new attempt of a row.
LEMMA NewAttempt ==
  ASSUME TypeOK, ScheduleFits, NEW d \in DOMAIN owner, NEW again \in BOOLEAN,
         NextAttempt(d, again)
  PROVE  /\ attempt' \in [Ids -> Nat] /\ later' \in SUBSET Ids /\ due' \in Seq(Ids)
         /\ faults' \in Nat
         /\ later' \subseteq DOMAIN owner /\ \A i \in DOMAIN due' : due'[i] \in DOMAIN owner
<1>1. d \in Ids
  BY RowsAreIds
<1>2. CASE Reschedule(d, again) /\ attempt' = [attempt EXCEPT ![d] = @ + 1] /\ UNCHANGED faults
  <2>1. /\ later' \in SUBSET Ids /\ due' \in Seq(Ids)
        /\ \A e \in Ids : Scheduled(e)' => Scheduled(e) \/ e = d
    BY <1>1, <1>2, Rescheduled
  <2>2. \A e \in Ids : Scheduled(e)' => e \in DOMAIN owner
    BY <2>1 DEF Scheduled, ScheduleFits
  <2>3. later' \subseteq DOMAIN owner
    BY <2>1, <2>2 DEF Scheduled
  <2>4. \A i \in DOMAIN due' : due'[i] \in DOMAIN owner
    BY <2>1, <2>2 DEF Scheduled
  <2>5. attempt' \in [Ids -> Nat] /\ faults' \in Nat
    <3>1. attempt \in [Ids -> Nat] /\ faults \in Nat
      BY DEF TypeOK
    <3> QED
      BY <1>1, <1>2, <3>1
  <2> QED
    BY <2>1, <2>3, <2>4, <2>5
<1>3. CASE Fault /\ UNCHANGED <<attempt, later, due>>
  BY <1>3 DEF Fault, TypeOK, ScheduleFits
<1> QED
  BY <1>2, <1>3 DEF NextAttempt

\* A call, and the writing of its result.
LEMMA NewCall ==
  ASSUME TypeOK, NEW d \in DOMAIN owner, NEW ok \in BOOLEAN
  PROVE  /\ Call(d, ok) =>
              calls' \in [Ids -> Nat] /\ accepted' \in [Webhooks -> Nat] /\ panics' \in Nat
         /\ Mark(d, ok) => status' \in [Ids -> {"pending", "success", "failed"}] /\ faults' \in Nat
         /\ CountSent(owner[d]) => totalSent' \in [Webhooks -> Nat] /\ faults' \in Nat
         /\ CountFailed(owner[d]) => totalFailed' \in [Webhooks -> Nat] /\ faults' \in Nat
<1>1. d \in Ids /\ owner[d] \in Webhooks
  <2>1. owner \in Seq(Webhooks)
    BY DEF TypeOK
  <2>2. owner[d] \in Webhooks
    BY <2>1
  <2> QED
    BY <2>2, RowsAreIds
<1>2. /\ calls \in [Ids -> Nat] /\ accepted \in [Webhooks -> Nat] /\ panics \in Nat
      /\ status \in [Ids -> {"pending", "success", "failed"}] /\ faults \in Nat
      /\ totalSent \in [Webhooks -> Nat] /\ totalFailed \in [Webhooks -> Nat]
  BY DEF TypeOK
<1> HIDE DEF TypeOK
<1>3. Call(d, ok) =>
        calls' \in [Ids -> Nat] /\ accepted' \in [Webhooks -> Nat] /\ panics' \in Nat
  BY <1>1, <1>2 DEF Call
<1>4. Mark(d, ok) => status' \in [Ids -> {"pending", "success", "failed"}] /\ faults' \in Nat
  BY <1>1, <1>2 DEF Mark, Fault
<1>5. CountSent(owner[d]) => totalSent' \in [Webhooks -> Nat] /\ faults' \in Nat
  BY <1>1, <1>2 DEF CountSent, Fault
<1>6. CountFailed(owner[d]) => totalFailed' \in [Webhooks -> Nat] /\ faults' \in Nat
  BY <1>1, <1>2 DEF CountFailed, Fault
<1> QED
  BY <1>3, <1>4, <1>5, <1>6

\* The table, the schedule and the counters after a server's step.
TableOK ==
  /\ totalSent \in [Webhooks -> Nat] /\ totalFailed \in [Webhooks -> Nat]
  /\ status \in [Ids -> {"pending", "success", "failed"}] /\ attempt \in [Ids -> Nat]
  /\ later \in SUBSET Ids /\ due \in Seq(Ids)
  /\ topic \in Nat /\ faults \in Nat
  /\ calls \in [Ids -> Nat] /\ accepted \in [Webhooks -> Nat] /\ panics \in Nat

LEMMA NewTable ==
  ASSUME Fits, NEW s \in Servers, ServerStep(s)
  PROVE  /\ UNCHANGED hooks
         /\ owner' \in Seq(Webhooks) /\ Len(owner') <= NumRows
         /\ \A d \in DOMAIN owner : d \in DOMAIN owner' /\ owner'[d] = owner[d]
         /\ TableOK' /\ ScheduleFits'
<1>1. /\ TypeOK /\ ScheduleFits /\ TableOK /\ SenderFits(sender[s])
      /\ owner \in Seq(Webhooks) /\ Len(owner) <= NumRows
      /\ sender[s] \in Dispatch
  BY DEF Fits, TypeOK, TableOK
<1>2. UNCHANGED hooks
  BY DEF ServerStep, SenderStep, SenderTakes, SenderTakeFails, SenderCreates, SenderCreateFails,
         SenderCalls, SenderMarks, SenderSettles, RetryStep, RetrySelects, RetryReads,
         RetryReadFails, RetryCalls, RetryMarks, RetrySucceeds, RetryFails, RetryGivesUp, Crash
<1>3. CASE SenderCreates(s)
  <2>1. PICK h \in sender[s].todo : owner' = Append(owner, h)
    BY <1>3 DEF SenderCreates
  <2>2. h \in Webhooks /\ Len(owner) \in Nat /\ NumRows \in Nat /\ Len(owner) < NumRows
    BY <1>1, <1>3, DeliveryAssumption DEF Dispatch, SenderCreates
  <2>3. /\ owner' \in Seq(Webhooks) /\ Len(owner') <= NumRows
        /\ \A d \in DOMAIN owner : d \in DOMAIN owner' /\ owner'[d] = owner[d]
    BY <1>1, <2>1, <2>2
  <2>4. UNCHANGED <<totals, status, attempt, schedule, topic, faults, history>>
    BY <1>3 DEF SenderCreates
  <2>5. TableOK'
    BY <1>1, <2>4 DEF TableOK, totals, schedule, history
  <2>6. ScheduleFits'
    BY <1>1, <2>3, <2>4 DEF ScheduleFits, schedule
  <2> QED
    BY <1>2, <2>3, <2>5, <2>6
<1>4. SUFFICES ASSUME ~SenderCreates(s) PROVE owner' = owner /\ TableOK' /\ ScheduleFits'
  BY <1>1, <1>2, <1>3
<1>5. owner' = owner
  BY <1>4 DEF ServerStep, SenderStep, SenderTakes, SenderTakeFails, SenderCreateFails, SenderCalls,
              SenderMarks, SenderSettles, RetryStep, RetrySelects, RetryReads, RetryReadFails,
              RetryCalls, RetryMarks, RetrySucceeds, RetryFails, RetryGivesUp, Crash, table
<1> USE DEF totals, schedule, history, table
<1>6. CASE SenderTakes(s) \/ SenderTakeFails(s) \/ SenderCreateFails(s) \/ Crash(s)
  <2>1. /\ UNCHANGED <<totalSent, totalFailed, status, attempt, later, due, calls, accepted, panics>>
        /\ faults' \in {faults, faults + 1}
    BY <1>6 DEF SenderTakes, SenderTakeFails, SenderCreateFails, Crash, Fault
  <2>2. topic' \in Nat
    BY <1>1, <1>6 DEF SenderTakes, SenderTakeFails, SenderCreateFails, Crash, Stop, TableOK
  <2> QED
    BY <1>1, <1>5, <2>1, <2>2 DEF TableOK, ScheduleFits
<1>7. CASE RetrySelects(s) \/ RetryReads(s) \/ RetryReadFails(s)
  <2>1. /\ UNCHANGED <<totalSent, totalFailed, status, attempt, later, due, topic, calls, accepted,
                       panics>>
        /\ faults' \in {faults, faults + 1}
    BY <1>7 DEF RetrySelects, RetryReads, RetryReadFails, Fault
  <2> QED
    BY <1>1, <1>5, <2>1 DEF TableOK, ScheduleFits
<1>8. CASE SenderCalls(s) \/ RetryCalls(s)
  <2>1. PICK d \in DOMAIN owner, ok \in BOOLEAN : Call(d, ok)
    <3>1. CASE SenderCalls(s)
      BY <1>1, <3>1 DEF SenderCalls, SenderFits, Busy
    <3>2. CASE RetryCalls(s)
      BY <3>2, Current DEF RetryCalls
    <3> QED
      BY <1>8, <3>1, <3>2
  <2>2. calls' \in [Ids -> Nat] /\ accepted' \in [Webhooks -> Nat] /\ panics' \in Nat
    BY <1>1, <2>1, NewCall
  <2>3. UNCHANGED <<totalSent, totalFailed, status, attempt, later, due, topic, faults>>
    BY <1>8 DEF SenderCalls, RetryCalls
  <2> QED
    BY <1>1, <1>5, <2>2, <2>3 DEF TableOK, ScheduleFits
<1>9. CASE SenderMarks(s) \/ RetryMarks(s)
  <2>1. PICK d \in DOMAIN owner, ok \in BOOLEAN : Mark(d, ok)
    <3>1. CASE SenderMarks(s)
      BY <1>1, <3>1 DEF SenderMarks, SenderFits, Busy, Dispatch
    <3>2. CASE RetryMarks(s)
      <4>1. retrier[s].ok \in BOOLEAN
        BY DEF Fits, TypeOK, Pass
      <4> QED
        BY <3>2, <4>1, Current DEF RetryMarks
    <3> QED
      BY <1>9, <3>1, <3>2
  <2>2. status' \in [Ids -> {"pending", "success", "failed"}] /\ faults' \in Nat
    BY <1>1, <2>1, NewCall
  <2>3. UNCHANGED <<totalSent, totalFailed, attempt, later, due, topic, calls, accepted, panics>>
    BY <1>9 DEF SenderMarks, RetryMarks
  <2> QED
    BY <1>1, <1>5, <2>2, <2>3 DEF TableOK, ScheduleFits
<1>10. CASE SenderSettles(s) \/ RetrySucceeds(s) \/ RetryFails(s) \/ RetryGivesUp(s)
  <2>1. PICK d \in DOMAIN owner, again \in BOOLEAN :
          \/ CountSent(owner[d]) /\ UNCHANGED <<totalFailed, attempt, schedule>>
          \/ CountFailed(owner[d]) /\ UNCHANGED <<totalSent, attempt, schedule>>
          \/ NextAttempt(d, again) /\ UNCHANGED totals
    <3>1. CASE SenderSettles(s)
      <4>1. sender[s].row \in DOMAIN owner
        BY <1>1, <3>1 DEF SenderSettles, SenderFits, Busy
      <4> QED
        BY <3>1, <4>1 DEF SenderSettles
    <3>2. CASE RetrySucceeds(s) \/ RetryFails(s) \/ RetryGivesUp(s)
      <4>1. Delivery(s).row \in DOMAIN owner
        BY <3>2, Current DEF RetrySucceeds, RetryFails, RetryGivesUp
      <4> QED
        BY <3>2, <4>1 DEF RetrySucceeds, RetryFails, RetryGivesUp
    <3> QED
      BY <1>10, <3>1, <3>2
  <2>2. UNCHANGED <<status, calls, accepted>> /\ panics' \in Nat /\ topic' \in Nat
    <3>1. CASE SenderSettles(s) \/ RetrySucceeds(s) \/ RetryFails(s)
      BY <1>1, <3>1 DEF SenderSettles, RetrySucceeds, RetryFails, TableOK
    <3>2. CASE RetryGivesUp(s)
      <4>1. UNCHANGED <<status, calls, accepted>> /\ panics' = panics + 1 /\ Stop(s)
        BY <3>2 DEF RetryGivesUp
      <4> QED
        BY <1>1, <4>1 DEF Stop, TableOK
    <3> QED
      BY <1>10, <3>1, <3>2
  <2>3. CASE NextAttempt(d, again) /\ UNCHANGED totals
    <3>1. /\ attempt' \in [Ids -> Nat] /\ later' \in SUBSET Ids /\ due' \in Seq(Ids)
          /\ faults' \in Nat
          /\ later' \subseteq DOMAIN owner /\ \A i \in DOMAIN due' : due'[i] \in DOMAIN owner
      BY <1>1, <2>3, NewAttempt
    <3> QED
      BY <1>1, <1>5, <2>2, <2>3, <3>1 DEF TableOK, ScheduleFits
  <2>4. CASE CountSent(owner[d]) /\ UNCHANGED <<totalFailed, attempt, schedule>>
    <3>1. totalSent' \in [Webhooks -> Nat] /\ faults' \in Nat
      BY <1>1, <2>4, NewCall
    <3> QED
      BY <1>1, <1>5, <2>2, <2>4, <3>1 DEF TableOK, ScheduleFits
  <2>5. CASE CountFailed(owner[d]) /\ UNCHANGED <<totalSent, attempt, schedule>>
    <3>1. totalFailed' \in [Webhooks -> Nat] /\ faults' \in Nat
      BY <1>1, <2>5, NewCall
    <3> QED
      BY <1>1, <1>5, <2>2, <2>5, <3>1 DEF TableOK, ScheduleFits
  <2> QED
    BY <2>1, <2>3, <2>4, <2>5
<1> QED
  BY <1>4, <1>5, <1>6, <1>7, <1>8, <1>9, <1>10 DEF ServerStep, SenderStep, RetryStep

LEMMA StepFits == Fits /\ [Next]_vars => Fits'
<1> SUFFICES ASSUME Fits, [Next]_vars PROVE Fits'
  OBVIOUS
<1>1. /\ TypeOK /\ ScheduleFits /\ TableOK
      /\ \A s \in Servers : SenderFits(sender[s]) /\ RetrierFits(retrier[s])
  BY DEF Fits, TypeOK, TableOK
<1>2. ASSUME NEW s \in Servers, ServerStep(s) PROVE Fits'
  <2>1. /\ UNCHANGED hooks /\ owner' \in Seq(Webhooks) /\ Len(owner') <= NumRows
        /\ \A d \in DOMAIN owner : d \in DOMAIN owner' /\ owner'[d] = owner[d]
        /\ TableOK' /\ ScheduleFits'
    BY <1>2, NewTable
  <2>2. /\ sender'[s] \in Dispatch /\ retrier'[s] \in Pass
        /\ sender' \in [Servers -> Dispatch] /\ retrier' \in [Servers -> Pass]
        /\ \A t \in Servers \ {s} : sender'[t] = sender[t] /\ retrier'[t] = retrier[t]
    BY <1>1, <1>2, NewSender, NewRetrier, OneServerMoves
  <2>3. TypeOK'
    BY <1>1, <2>1, <2>2 DEF TypeOK, TableOK, hooks
  <2>4. ASSUME NEW t \in Servers PROVE SenderFits(sender[t])' /\ RetrierFits(retrier[t])'
    <3>1. CASE t = s
      <4>1. /\ Busy(sender'[s]) => sender'[s].row \in DOMAIN owner'
            /\ retrier'[s].pc # "idle" => retrier'[s].todo # <<>>
            /\ \A i \in DOMAIN retrier'[s].todo : retrier'[s].todo[i].row \in DOMAIN owner
        BY <1>2, NewSender, NewRetrier
      <4> QED
        BY <2>1, <3>1, <4>1 DEF SenderFits, RetrierFits, Busy
    <3>2. CASE t # s
      BY <1>1, <2>1, <2>2, <3>2 DEF SenderFits, RetrierFits, Busy
    <3> QED
      BY <3>1, <3>2
  <2> QED
    BY <2>1, <2>3, <2>4 DEF Fits
<1>3. CASE UpdateWebhook
  <2>1. active' \in [Webhooks -> BOOLEAN] /\ maxRetries' \in [Webhooks -> Nat]
    BY <1>1, <1>3, DeliveryAssumption DEF UpdateWebhook, TypeOK
  <2>2. UNCHANGED <<totals, table, schedule, topic, sender, retrier, faults, history>>
    BY <1>3 DEF UpdateWebhook
  <2> QED
    BY <1>1, <2>1, <2>2
    DEF Fits, TypeOK, ScheduleFits, SenderFits, RetrierFits, Busy, totals, table, schedule, history
<1>4. CASE BecomesDue
  <2>1. PICK d \in later : later' = later \ {d} /\ due' = Append(due, d)
    BY <1>4 DEF BecomesDue
  <2>2. /\ d \in Ids /\ d \in DOMAIN owner /\ later' \in SUBSET Ids /\ due' \in Seq(Ids)
        /\ later' \subseteq DOMAIN owner
    <3>1. later \in SUBSET Ids /\ due \in Seq(Ids) /\ later \subseteq DOMAIN owner
      BY <1>1 DEF TypeOK, ScheduleFits
    <3>2. d \in Ids /\ d \in DOMAIN owner
      BY <2>1, <3>1
    <3>3. due' \in Seq(Ids)
      BY <2>1, <3>1, <3>2, AppendProperties
    <3> QED
      BY <2>1, <3>1, <3>2, <3>3
  <2>3. \A i \in DOMAIN due' : due'[i] = d \/ (i \in DOMAIN due /\ due'[i] = due[i])
    <3>1. due \in Seq(Ids)
      BY <1>1 DEF TypeOK
    <3> QED
      BY <2>1, <2>2, <3>1
  <2>4. UNCHANGED <<hooks, totals, table, topic, sender, retrier, ops, faults, history>>
    BY <1>4 DEF BecomesDue
  <2>5. TypeOK'
    BY <1>1, <2>2, <2>4 DEF TypeOK, hooks, totals, table, history
  <2>6. ScheduleFits'
    BY <1>1, <2>2, <2>3, <2>4 DEF ScheduleFits, table
  <2> QED
    BY <1>1, <2>4, <2>5, <2>6 DEF Fits, SenderFits, RetrierFits, Busy, table
<1>5. CASE UNCHANGED vars
  BY <1>1, <1>5 DEF vars, Fits, TypeOK, ScheduleFits, SenderFits, RetrierFits, Busy
<1> QED
  BY <1>2, <1>3, <1>4, <1>5 DEF Next, ServerStep

\* In every reachable state the variables have their types, and whoever is at a
\* delivery (the sender, the retrier's pass, the schedule of retries) is at a row
\* of the table (webhooks/service/service.go:61-218, 302-410).
THEOREM DeliveryTypeCorrect == Spec => []Fits
BY InitFits, StepFits, PTL DEF Spec

-----------------------------------------------------------------------------
(* The count of accepted calls.                                            *)

SentOf(h) ==
  accepted[h] - totalSent[h] - Cardinality(Settling(h)) - Cardinality(Resettling(h))
    \in 0 .. 2 * faults + panics

\* The servers about to count an accepted call are finitely many.
LEMMA SettlingSets ==
  ASSUME NEW S \in SUBSET Servers PROVE IsFiniteSet(S) /\ Cardinality(S) \in Nat
BY DeliveryAssumption, FS_Subset, FS_CardinalityType

\* A server's step moves no other server into or out of those about to count.
LEMMA OneSettles ==
  ASSUME Fits, NEW s \in Servers, ServerStep(s), NEW h \in Webhooks
  PROVE  /\ Settling(h)' \ {s} = Settling(h) \ {s}
         /\ Resettling(h)' \ {s} = Resettling(h) \ {s}
<1>1. ASSUME NEW t \in Servers \ {s}
      PROVE  (t \in Settling(h)' <=> t \in Settling(h)) /\ (t \in Resettling(h)' <=> t \in Resettling(h))
  <2>1. sender'[t] = sender[t] /\ retrier'[t] = retrier[t]
    BY OneServerMoves DEF Fits
  <2>2. \A d \in DOMAIN owner : owner'[d] = owner[d]
    BY NewTable
  <2>3. Busy(sender[t]) => sender[t].row \in DOMAIN owner
    BY DEF Fits, SenderFits
  <2>4. retrier[t].pc # "idle" => Delivery(t).row \in DOMAIN owner
    BY Current
  <2>5. Delivery(t)' = Delivery(t)
    BY <2>1 DEF Delivery
  <2>6. t \in Settling(h)' <=> t \in Settling(h)
    BY <2>1, <2>2, <2>3 DEF Settling, Busy
  <2>7. t \in Resettling(h)' <=> t \in Resettling(h)
    BY <2>1, <2>2, <2>4, <2>5 DEF Resettling
  <2> QED
    BY <2>6, <2>7
<1>2. /\ Settling(h) \subseteq Servers /\ Settling(h)' \subseteq Servers
      /\ Resettling(h) \subseteq Servers /\ Resettling(h)' \subseteq Servers
  BY DEF Settling, Resettling
<1> QED
  BY <1>1, <1>2

\* What a server is about to count, before and after its step.
LEMMA SettlingServer ==
  ASSUME NEW s \in Servers, NEW h \in Webhooks
  PROVE  /\ s \in Settling(h) <=>
              sender[s].pc \in {"mark", "settle"} /\ sender[s].ok /\ owner[sender[s].row] = h
         /\ s \in Resettling(h) <=>
              retrier[s].pc \in {"mark", "settle"} /\ retrier[s].ok /\ owner[Delivery(s).row] = h
         /\ s \in Settling(h)' <=>
              sender'[s].pc \in {"mark", "settle"} /\ sender'[s].ok /\ owner'[sender'[s].row] = h
         /\ s \in Resettling(h)' <=>
              retrier'[s].pc \in {"mark", "settle"} /\ retrier'[s].ok
                /\ owner'[Delivery(s)'.row] = h
BY DEF Settling, Resettling

\* A call accepted and about to be counted leaves the gap of the counters as it was
\* (webhooks/service/service.go:147-186).
LEMMA GapKept ==
  ASSUME NEW a \in Nat, NEW t \in Nat, NEW n \in Nat, NEW m \in Nat, NEW lim \in Nat,
         NEW aNext \in Nat, NEW nNext \in Nat, NEW mNext \in Nat, NEW one \in 0 .. 1,
         a - t - n - m \in 0 .. lim, aNext = a + one, nNext + mNext = n + m + one
  PROVE  aNext - t - nNext - mNext \in 0 .. lim
<1>1. aNext - t - nNext - mNext = a - t - n - m
  OBVIOUS
<1> QED
  BY <1>1

\* A server's step keeps the count of a webhook within its faults and panics of the
\* calls its endpoint accepted (webhooks/service/service.go:147-186, 325-410).
LEMMA SentStep ==
  ASSUME Fits, NEW s \in Servers, ServerStep(s), NEW h \in Webhooks, SentOf(h)
  PROVE  SentOf(h)'
<1> DEFINE q == sender[s]
           k == retrier[s]
           ns == Cardinality(Settling(h))
           nr == Cardinality(Resettling(h))
           S == s \in Settling(h)
           R == s \in Resettling(h)
<1>1. /\ q \in Dispatch /\ k \in Pass /\ SenderFits(q) /\ RetrierFits(k)
      /\ sender \in [Servers -> Dispatch] /\ retrier \in [Servers -> Pass]
      /\ accepted \in [Webhooks -> Nat] /\ totalSent \in [Webhooks -> Nat]
      /\ faults \in Nat /\ panics \in Nat
  BY DEF Fits, TypeOK
<1>2. ns \in Nat /\ nr \in Nat /\ ns' \in Nat /\ nr' \in Nat
  <2>1. /\ Settling(h) \in SUBSET Servers /\ Settling(h)' \in SUBSET Servers
        /\ Resettling(h) \in SUBSET Servers /\ Resettling(h)' \in SUBSET Servers
    BY DEF Settling, Resettling
  <2> QED
    BY <2>1, SettlingSets
<1>3. /\ (~S /\ S') => ns' = ns + 1
      /\ (S /\ ~S') => ns' = ns - 1
      /\ (S <=> S') => ns' = ns
      /\ (~R /\ R') => nr' = nr + 1
      /\ (R /\ ~R') => nr' = nr - 1
      /\ (R <=> R') => nr' = nr
  <2>1. Settling(h)' \ {s} = Settling(h) \ {s} /\ Resettling(h)' \ {s} = Resettling(h) \ {s}
    BY OneSettles
  <2>2. IsFiniteSet(Settling(h)) /\ IsFiniteSet(Resettling(h))
    <3>1. Settling(h) \in SUBSET Servers /\ Resettling(h) \in SUBSET Servers
      BY DEF Settling, Resettling
    <3> QED
      BY <3>1, SettlingSets
  <2> QED
    BY <2>1, <2>2, OneMoves
<1>4. /\ S <=> q.pc \in {"mark", "settle"} /\ q.ok /\ owner[q.row] = h
      /\ R <=> k.pc \in {"mark", "settle"} /\ k.ok /\ owner[Delivery(s).row] = h
      /\ S' <=> sender'[s].pc \in {"mark", "settle"} /\ sender'[s].ok /\ owner'[sender'[s].row] = h
      /\ R' <=> retrier'[s].pc \in {"mark", "settle"} /\ retrier'[s].ok
                  /\ owner'[Delivery(s)'.row] = h
  BY SettlingServer
<1>5. /\ accepted[h] \in Nat /\ totalSent[h] \in Nat
      /\ accepted[h] - totalSent[h] - ns - nr \in 0 .. 2 * faults + panics
  BY <1>1 DEF SentOf
<1>6. (sender' = sender /\ owner' = owner) => (S' <=> S)
  BY <1>4
<1>7. (retrier' = retrier /\ owner' = owner) => (R' <=> R)
  BY <1>4 DEF Delivery
<1>8. \* Steps that accept and count nothing.
      ASSUME accepted' = accepted, totalSent' = totalSent, panics' = panics,
             faults' \in {faults, faults + 1}, S' <=> S, R' <=> R
      PROVE  SentOf(h)'
  <2>1. ns' = ns /\ nr' = nr
    BY <1>3, <1>8
  <2> HIDE DEF ns, nr
  <2>2. accepted[h] - totalSent[h] - ns' - nr' \in 0 .. 2 * faults' + panics
    BY <1>1, <1>2, <1>5, <1>8, <2>1
  <2> QED
    BY <1>8, <2>2 DEF SentOf, ns, nr
<1>9. CASE \/ SenderTakes(s) \/ SenderTakeFails(s) \/ SenderCreates(s) \/ SenderCreateFails(s)
           \/ SenderMarks(s)
  <2>1. /\ accepted' = accepted /\ totalSent' = totalSent /\ panics' = panics /\ retrier' = retrier
        /\ faults' \in {faults, faults + 1}
    BY <1>9 DEF SenderTakes, SenderTakeFails, SenderCreates, SenderCreateFails, SenderMarks, Mark,
                Fault, totals, history
  <2>2. R' <=> R
    <3>1. k.pc # "idle" => owner'[Delivery(s).row] = owner[Delivery(s).row]
      BY NewTable, Current
    <3>2. Delivery(s)' = Delivery(s)
      BY <2>1 DEF Delivery
    <3> QED
      BY <1>4, <2>1, <3>1, <3>2
  <2>3. S' <=> S
    <3>1. CASE SenderMarks(s)
      <4>1. sender'[s] = [q EXCEPT !.pc = "settle"] /\ owner' = owner /\ q.pc = "mark"
        BY <1>1, <3>1 DEF SenderMarks, SenderAt
      <4> QED
        BY <1>1, <1>4, <4>1 DEF Dispatch
    <3>2. CASE SenderTakes(s) \/ SenderCreates(s) \/ SenderCreateFails(s)
      <4>1. q.pc \in {"idle", "create"}
        BY <3>2 DEF SenderTakes, SenderCreates, SenderCreateFails
      <4>2. sender'[s].pc \in {"idle", "create", "call"}
        <5>1. CASE SenderTakes(s)
          BY <1>1, <5>1 DEF SenderTakes, IdleSender
        <5>2. CASE SenderCreates(s)
          BY <1>1, <5>2 DEF SenderCreates, Dispatch
        <5>3. CASE SenderCreateFails(s)
          BY <1>1, <5>3 DEF SenderCreateFails, IdleSender, Dispatch
        <5> QED
          BY <3>2, <5>1, <5>2, <5>3
      <4> QED
        BY <1>4, <4>1, <4>2
    <3>3. CASE SenderTakeFails(s)
      BY <1>6, <3>3 DEF SenderTakeFails, table
    <3> QED
      BY <1>9, <3>1, <3>2, <3>3
  <2> QED
    BY <1>8, <2>1, <2>2, <2>3
<1>10. CASE RetrySelects(s) \/ RetryReads(s) \/ RetryReadFails(s) \/ RetryMarks(s) \/ RetryFails(s)
  <2>1. /\ accepted' = accepted /\ totalSent' = totalSent /\ panics' = panics /\ sender' = sender
        /\ faults' \in {faults, faults + 1} /\ owner' = owner
    BY <1>10 DEF RetrySelects, RetryReads, RetryReadFails, RetryMarks, RetryFails, NextAttempt, Mark,
                 Fault, totals, table, history
  <2>2. R' <=> R
    <3>1. CASE RetryMarks(s)
      <4>1. retrier' = [retrier EXCEPT ![s].pc = "settle"] /\ k.pc = "mark"
        BY <3>1 DEF RetryMarks, RetryAt
      <4>2. retrier'[s] = [k EXCEPT !.pc = "settle"]
        BY <1>1, <4>1
      <4>3. /\ retrier'[s].pc = "settle" /\ retrier'[s].ok = k.ok /\ retrier'[s].todo = k.todo
        BY <1>1, <4>2 DEF Pass
      <4> QED
        BY <1>4, <2>1, <4>1, <4>3 DEF Delivery
    <3>2. CASE RetrySelects(s) \/ RetryReads(s) \/ RetryReadFails(s) \/ RetryFails(s)
      <4>1. ~R
        BY <1>4, <3>2 DEF RetrySelects, RetryReads, RetryReadFails, RetryFails
      <4>2. retrier'[s].pc \in {"idle", "read", "call"}
        <5>1. CASE RetrySelects(s)
          BY <5>1, Selected
        <5>2. CASE NextDelivery(s) /\ k.pc # "idle"
          BY <5>2, NextOfPass
        <5>3. CASE RetryReads(s) /\ ~NextDelivery(s)
          BY <1>1, <5>3 DEF RetryReads, Pass
        <5> QED
          BY <3>2, <5>1, <5>2, <5>3 DEF RetryReads, RetryReadFails, RetryFails
      <4> QED
        BY <1>4, <4>1, <4>2
    <3> QED
      BY <1>10, <3>1, <3>2
  <2> QED
    BY <1>6, <1>8, <2>1, <2>2
<1>11. CASE SenderCalls(s) \/ RetryCalls(s)
  <2>1. PICK ok \in BOOLEAN, d \in DOMAIN owner :
          /\ Call(d, ok)
          /\ \/ /\ q.pc = "call" /\ d = q.row /\ retrier' = retrier
                /\ sender'[s] = [q EXCEPT !.pc = "mark", !.ok = ok]
             \/ /\ k.pc = "call" /\ d = Delivery(s).row /\ sender' = sender
                /\ retrier'[s] = [k EXCEPT !.pc = "mark", !.ok = ok]
    <3>1. CASE SenderCalls(s)
      <4>1. PICK ok \in BOOLEAN :
              Call(q.row, ok) /\ sender' = [sender EXCEPT ![s].pc = "mark", ![s].ok = ok]
        BY <3>1 DEF SenderCalls
      <4>2. q.pc = "call" /\ q.row \in DOMAIN owner /\ retrier' = retrier
        BY <1>1, <3>1 DEF SenderCalls, SenderFits, Busy
      <4>3. sender'[s] = [q EXCEPT !.pc = "mark", !.ok = ok]
        BY <1>1, <4>1 DEF Dispatch
      <4> QED
        BY <4>1, <4>2, <4>3
    <3>2. CASE RetryCalls(s)
      <4>1. PICK ok \in BOOLEAN :
              Call(Delivery(s).row, ok) /\ retrier' = [retrier EXCEPT ![s].pc = "mark", ![s].ok = ok]
        BY <3>2 DEF RetryCalls
      <4>2. k.pc = "call" /\ Delivery(s).row \in DOMAIN owner /\ sender' = sender
        BY <1>1, <3>2, Current DEF RetryCalls
      <4>3. retrier'[s] = [k EXCEPT !.pc = "mark", !.ok = ok]
        BY <1>1, <4>1 DEF Pass
      <4> QED
        BY <4>1, <4>2, <4>3
    <3> QED
      BY <1>11, <3>1, <3>2
  <2>2. totalSent' = totalSent /\ faults' = faults /\ owner' = owner /\ panics' = panics
    BY <1>11, <2>1 DEF SenderCalls, RetryCalls, totals, table, Call
  <2>3. owner[d] \in Webhooks
    BY DEF Fits, TypeOK
  <2>4. accepted'[h] = accepted[h] + (IF ok /\ owner[d] = h THEN 1 ELSE 0)
    BY <1>1, <2>1, <2>3 DEF Call
  <2>5. ns' + nr' = ns + nr + (IF ok /\ owner[d] = h THEN 1 ELSE 0)
    <3>1. CASE /\ q.pc = "call" /\ d = q.row /\ retrier' = retrier
               /\ sender'[s] = [q EXCEPT !.pc = "mark", !.ok = ok]
      <4>1. ~S /\ (S' <=> (ok /\ owner[d] = h)) /\ (R' <=> R)
        BY <1>1, <1>4, <1>7, <2>2, <3>1 DEF Dispatch
      <4>2. nr' = nr /\ ns' = IF ok /\ owner[d] = h THEN ns + 1 ELSE ns
        BY <1>3, <4>1
      <4> HIDE DEF ns, nr
      <4> QED
        BY <1>2, <4>2
    <3>2. CASE /\ k.pc = "call" /\ d = Delivery(s).row /\ sender' = sender
               /\ retrier'[s] = [k EXCEPT !.pc = "mark", !.ok = ok]
      <4>1. retrier'[s].pc = "mark" /\ retrier'[s].ok = ok /\ retrier'[s].todo = k.todo
        BY <1>1, <3>2 DEF Pass
      <4>2. Delivery(s)' = Delivery(s)
        BY <4>1 DEF Delivery
      <4>3. ~R /\ (R' <=> (ok /\ owner[d] = h)) /\ (S' <=> S)
        BY <1>4, <1>6, <2>2, <3>2, <4>1, <4>2
      <4>4. ns' = ns /\ nr' = IF ok /\ owner[d] = h THEN nr + 1 ELSE nr
        BY <1>3, <4>3
      <4> HIDE DEF ns, nr
      <4> QED
        BY <1>2, <4>4
    <3> QED
      BY <2>1, <3>1, <3>2
  <2> HIDE DEF ns, nr
  <2>6. accepted'[h] - totalSent[h] - ns' - nr' \in 0 .. 2 * faults + panics
    <3> DEFINE one == IF ok /\ owner[d] = h THEN 1 ELSE 0
               lim == 2 * faults + panics
    <3>1. one \in 0 .. 1 /\ accepted'[h] = accepted[h] + one /\ ns' + nr' = ns + nr + one
      BY <2>4, <2>5
    <3> HIDE DEF one
    <3>2. lim \in Nat /\ accepted'[h] \in Nat
      BY <1>1, <1>5, <3>1
    <3>3. accepted[h] - totalSent[h] - ns - nr \in 0 .. lim
      BY <1>5
    <3> HIDE DEF lim
    <3>4. accepted'[h] - totalSent[h] - ns' - nr' \in 0 .. lim
      BY <1>2, <1>5, <3>1, <3>2, <3>3, GapKept
    <3> QED
      BY <3>4 DEF lim
  <2> QED
    BY <2>2, <2>6 DEF SentOf, ns, nr
<1>12. CASE SenderSettles(s) /\ ~q.ok
  <2>1. /\ accepted' = accepted /\ panics' = panics /\ owner' = owner /\ retrier' = retrier
        /\ totalSent' = totalSent /\ faults' \in {faults, faults + 1}
    BY <1>12 DEF SenderSettles, NextAttempt, CountFailed, Fault, totals, history
  <2>2. sender'[s].pc \in {"idle", "create"}
    <3>1. Sent(s)
      BY <1>12 DEF SenderSettles
    <3> QED
      BY <1>1, <3>1 DEF Sent, IdleSender, Dispatch
  <2>3. ~S /\ ~S'
    BY <1>4, <1>12, <2>2
  <2> QED
    BY <1>7, <1>8, <2>1, <2>3
<1>13. CASE SenderSettles(s) /\ q.ok
  <2>1. /\ accepted' = accepted /\ panics' = panics /\ owner' = owner /\ retrier' = retrier
        /\ CountSent(owner[q.row]) /\ q.pc = "settle"
    BY <1>13 DEF SenderSettles, history
  <2>2. sender'[s].pc \in {"idle", "create"}
    <3>1. Sent(s)
      BY <1>13 DEF SenderSettles
    <3> QED
      BY <1>1, <3>1 DEF Sent, IdleSender, Dispatch
  <2>3. (S <=> owner[q.row] = h) /\ ~S' /\ (R' <=> R)
    BY <1>4, <1>7, <1>13, <2>1, <2>2
  <2>4. nr' = nr /\ ns' = IF owner[q.row] = h THEN ns - 1 ELSE ns
    BY <1>3, <2>3
  <2>5. \/ totalSent'[h] = totalSent[h] + (IF owner[q.row] = h THEN 1 ELSE 0) /\ faults' = faults
        \/ totalSent'[h] = totalSent[h] /\ faults' = faults + 1
    BY <1>1, <2>1 DEF CountSent, Fault
  <2> HIDE DEF ns, nr
  <2>6. accepted[h] - totalSent'[h] - ns' - nr' \in 0 .. 2 * faults' + panics
    BY <1>1, <1>2, <1>5, <2>4, <2>5
  <2> QED
    BY <2>1, <2>6 DEF SentOf, ns, nr
<1>14. CASE RetrySucceeds(s)
  <2> DEFINE d == Delivery(s).row
  <2>1. /\ accepted' = accepted /\ panics' = panics /\ owner' = owner /\ sender' = sender
        /\ CountSent(owner[d]) /\ k.pc = "settle" /\ k.ok
    BY <1>14 DEF RetrySucceeds, table, history
  <2>2. retrier'[s].pc \in {"idle", "read"}
    BY <1>14, <2>1, NextOfPass DEF RetrySucceeds
  <2>3. (R <=> owner[d] = h) /\ ~R' /\ (S' <=> S)
    BY <1>4, <1>6, <2>1, <2>2
  <2>4. ns' = ns /\ nr' = IF owner[d] = h THEN nr - 1 ELSE nr
    BY <1>3, <2>3
  <2>5. \/ totalSent'[h] = totalSent[h] + (IF owner[d] = h THEN 1 ELSE 0) /\ faults' = faults
        \/ totalSent'[h] = totalSent[h] /\ faults' = faults + 1
    BY <1>1, <2>1 DEF CountSent, Fault
  <2> HIDE DEF ns, nr
  <2>6. accepted[h] - totalSent'[h] - ns' - nr' \in 0 .. 2 * faults' + panics
    BY <1>1, <1>2, <1>5, <2>4, <2>5
  <2> QED
    BY <2>1, <2>6 DEF SentOf, ns, nr
<1>15. CASE RetryGivesUp(s) \/ Crash(s)
  <2>1. Stop(s) /\ accepted' = accepted /\ totalSent' = totalSent
    BY <1>15 DEF RetryGivesUp, Crash, totals, history
  <2>2. \/ faults' \in {faults, faults + 1} /\ panics' = panics + 1 /\ ~R
        \/ faults' = faults + 1 /\ panics' = panics
    <3>1. CASE RetryGivesUp(s)
      <4>1. panics' = panics + 1 /\ ~k.ok
        BY <3>1 DEF RetryGivesUp
      <4>2. faults' \in {faults, faults + 1}
        BY <3>1 DEF RetryGivesUp, NextAttempt, Fault
      <4> QED
        BY <1>4, <4>1, <4>2
    <3>2. CASE Crash(s)
      BY <3>2 DEF Crash, Fault, history
    <3> QED
      BY <1>15, <3>1, <3>2
  <2>3. ~S' /\ ~R'
    <3>1. sender'[s] = IdleSender /\ retrier'[s] = IdleRetrier
      BY <1>1, <2>1 DEF Stop
    <3> QED
      BY <1>4, <3>1 DEF IdleSender, IdleRetrier
  <2>4. ns' \in {ns, ns - 1} /\ nr' \in {nr, nr - 1} /\ (~R => nr' = nr)
    BY <1>3, <2>3
  <2>5. \/ faults' \in {faults, faults + 1} /\ panics' = panics + 1 /\ nr' = nr
        \/ faults' = faults + 1 /\ panics' = panics
    BY <2>2, <2>4
  <2> HIDE DEF ns, nr
  <2>6. accepted[h] - totalSent[h] - ns' - nr' \in 0 .. 2 * faults' + panics'
    BY <1>1, <1>2, <1>5, <2>4, <2>5
  <2> QED
    BY <2>1, <2>6 DEF SentOf, ns, nr
<1> QED
  BY <1>9, <1>10, <1>11, <1>12, <1>13, <1>14, <1>15 DEF ServerStep, SenderStep, RetryStep

\* Steps outside the servers count nothing.
LEMMA SentElsewhere ==
  ASSUME UpdateWebhook \/ BecomesDue \/ UNCHANGED vars, NEW h \in Webhooks, SentOf(h)
  PROVE  SentOf(h)'
<1>1. UNCHANGED <<accepted, totalSent, faults, panics, sender, retrier, owner>>
  BY DEF UpdateWebhook, BecomesDue, vars, totals, table, history
<1>2. Settling(h)' = Settling(h) /\ Resettling(h)' = Resettling(h)
  BY <1>1 DEF Settling, Resettling, Delivery
<1> QED
  BY <1>1, <1>2 DEF SentOf

\* total_sent counts every accepted call of a webhook once, short of those being
\* written and of what a failed statement, a crash or a panic cuts short, with
\* any number of servers sending and retrying
\* (webhooks/service/service.go:153-170, 344-363).
THEOREM SentIsCountedOnce == Spec => []SentCountedOnce
<1>1. SentCountedOnce <=> \A h \in Webhooks : SentOf(h)
  BY DEF SentCountedOnce, SentOf
<1>2. Init => SentCountedOnce
  <2> SUFFICES ASSUME Init, NEW h \in Webhooks PROVE SentOf(h)
    BY <1>1
  <2>1. Settling(h) = {} /\ Resettling(h) = {}
    BY DEF Init, Settling, Resettling, IdleSender, IdleRetrier
  <2>2. accepted[h] = 0 /\ totalSent[h] = 0 /\ faults = 0 /\ panics = 0
    BY DEF Init
  <2> QED
    BY <2>1, <2>2, FS_EmptySet DEF SentOf
<1>3. Fits /\ SentCountedOnce /\ [Next]_vars => SentCountedOnce'
  <2> SUFFICES ASSUME Fits, SentCountedOnce, [Next]_vars, NEW h \in Webhooks PROVE SentOf(h)'
    BY DEF SentCountedOnce, SentOf
  <2>1. SentOf(h)
    BY <1>1
  <2>2. UpdateWebhook \/ BecomesDue \/ UNCHANGED vars \/ \E s \in Servers : ServerStep(s)
    BY DEF Next, ServerStep
  <2> QED
    BY <2>1, <2>2, SentStep, SentElsewhere
<1> QED
  BY <1>2, <1>3, DeliveryTypeCorrect, PTL DEF Spec

-----------------------------------------------------------------------------
(* One server: whose row is whose.                                         *)

InPass(s, d) == \E i \in DOMAIN retrier[s].todo : retrier[s].todo[i].row = d

Distinct(s) ==
  \A i, j \in DOMAIN retrier[s].todo : i # j => retrier[s].todo[i].row # retrier[s].todo[j].row

Settled(s, d) == retrier[s].pc = "settle" /\ Delivery(s).row = d

\* Nobody has written a row that is not in the table yet.  The row of the sender is
\* pending until it is marked, and neither due nor in a pass; the rows of a pass are
\* failed until they are marked.
OwnOf(s, d) ==
  /\ d \notin DOMAIN owner => status[d] = "pending"
  /\ Busy(sender[s]) /\ sender[s].row = d =>
       /\ ~Scheduled(d) /\ ~InPass(s, d)
       /\ sender[s].pc # "settle" => status[d] = "pending"
  /\ InPass(s, d) /\ ~Settled(s, d) => status[d] = "failed"

Own(s) == DueOnce /\ Distinct(s) /\ \A d \in Ids : OwnOf(s, d)

\* A pass that goes on to the next row, and the rows of a new pass.
LEMMA PassLeaves ==
  ASSUME Fits, NEW s \in Servers, retrier[s].pc # "idle", Distinct(s), NextDelivery(s)
  PROVE  /\ Distinct(s)' /\ retrier'[s].pc \in {"idle", "read"}
         /\ \A d \in Ids : InPass(s, d)' => InPass(s, d) /\ d # Delivery(s).row
<1> DEFINE k == retrier[s]
           p == retrier'[s]
<1>1. /\ p.pc \in {"idle", "read"} /\ DOMAIN p.todo = 1 .. Len(k.todo) - 1
      /\ \A i \in DOMAIN p.todo : i + 1 \in DOMAIN k.todo /\ p.todo[i] = k.todo[i + 1]
  BY NextOfPass
<1>2. Delivery(s) = k.todo[1] /\ Len(k.todo) \in Nat \ {0} /\ DOMAIN k.todo = 1 .. Len(k.todo)
  BY Current
<1>3. \A i \in DOMAIN p.todo : i \in Nat \ {0} /\ i + 1 # 1
  BY <1>1, <1>2
<1>4. Distinct(s)'
  <2> SUFFICES ASSUME NEW i \in DOMAIN p.todo, NEW j \in DOMAIN p.todo, i # j
               PROVE  p.todo[i].row # p.todo[j].row
    BY DEF Distinct
  <2>1. i + 1 # j + 1
    BY <1>3
  <2> QED
    BY <1>1, <2>1 DEF Distinct
<1>5. ASSUME NEW d \in Ids, InPass(s, d)' PROVE InPass(s, d) /\ d # Delivery(s).row
  <2>1. PICK i \in DOMAIN p.todo : p.todo[i].row = d
    BY <1>5 DEF InPass
  <2>2. i + 1 \in DOMAIN k.todo /\ k.todo[i + 1].row = d /\ 1 \in DOMAIN k.todo /\ i + 1 # 1
    BY <1>1, <1>2, <1>3, <2>1
  <2> QED
    BY <1>2, <2>2 DEF InPass, Distinct
<1> QED
  BY <1>1, <1>4, <1>5

LEMMA PassStarts ==
  ASSUME Fits, NEW s \in Servers, DueOnce, RetrySelects(s)
  PROVE  /\ Distinct(s)' /\ retrier'[s].pc = "read"
         /\ \A d \in Ids : InPass(s, d)' => Scheduled(d) /\ Retryable(d)
<1>1. /\ retrier'[s].pc = "read"
      /\ \A i \in DOMAIN retrier'[s].todo : \E m \in DOMAIN due :
           Retryable(due[m]) /\ retrier'[s].todo[i].row = due[m]
      /\ \A i, j \in DOMAIN retrier'[s].todo :
           i # j => retrier'[s].todo[i].row # retrier'[s].todo[j].row
  BY Selected
<1> QED
  BY <1>1 DEF Distinct, InPass, Scheduled

\* A server that stops has neither a delivery nor a pass.
LEMMA Stopped ==
  ASSUME Fits, NEW s \in Servers, Stop(s)
  PROVE  /\ ~Busy(sender'[s]) /\ retrier'[s].pc = "idle"
         /\ Distinct(s)' /\ \A d \in Ids : ~InPass(s, d)'
<1>1. sender'[s] = IdleSender /\ retrier'[s] = IdleRetrier
  BY DEF Stop, Fits, TypeOK
<1>2. DOMAIN IdleRetrier.todo = {}
  BY DEF IdleRetrier
<1> QED
  BY <1>1, <1>2 DEF Busy, IdleSender, IdleRetrier, InPass, Distinct

\* What the steps of the sender and of the retrier do to the pc's, rows and passes.
LEMMA SenderEnds ==
  ASSUME Fits, NEW s \in Servers,
         SenderTakes(s) \/ SenderTakeFails(s) \/ SenderCreateFails(s) \/ SenderSettles(s)
  PROVE  ~Busy(sender'[s]) /\ retrier' = retrier /\ owner' = owner
<1>1. sender \in [Servers -> Dispatch]
  BY DEF Fits, TypeOK
<1>2. CASE SenderTakes(s)
  BY <1>1, <1>2 DEF SenderTakes, IdleSender, Busy, table
<1>3. CASE SenderTakeFails(s)
  BY <1>1, <1>3 DEF SenderTakeFails, Busy, table
<1>4. CASE SenderCreateFails(s)
  BY <1>1, <1>4 DEF SenderCreateFails, IdleSender, Busy, table, Dispatch
<1>5. CASE SenderSettles(s)
  <2>1. Sent(s) /\ retrier' = retrier /\ owner' = owner
    BY <1>5 DEF SenderSettles
  <2> QED
    BY <1>1, <2>1 DEF Sent, IdleSender, Busy, Dispatch
<1> QED
  BY <1>2, <1>3, <1>4, <1>5

LEMMA SenderGoesOn ==
  ASSUME Fits, NEW s \in Servers, SenderCalls(s) \/ SenderMarks(s)
  PROVE  /\ sender[s].pc = (IF SenderCalls(s) THEN "call" ELSE "mark")
         /\ sender'[s].pc = (IF SenderCalls(s) THEN "mark" ELSE "settle")
         /\ sender'[s].row = sender[s].row /\ sender[s].row \in Ids
         /\ retrier' = retrier /\ owner' = owner
<1>1. sender \in [Servers -> Dispatch] /\ SenderFits(sender[s]) /\ DOMAIN owner \subseteq Ids
  BY RowsAreIds DEF Fits, TypeOK
<1>2. CASE SenderCalls(s)
  <2>1. PICK ok \in BOOLEAN : sender' = [sender EXCEPT ![s].pc = "mark", ![s].ok = ok]
    BY <1>2 DEF SenderCalls
  <2>2. sender'[s] = [sender[s] EXCEPT !.pc = "mark", !.ok = ok]
    BY <1>1, <2>1
  <2>3. sender[s].pc = "call" /\ retrier' = retrier /\ owner' = owner
    BY <1>2 DEF SenderCalls, table
  <2> QED
    BY <1>1, <1>2, <2>2, <2>3 DEF Dispatch, SenderFits, Busy
<1>3. CASE SenderMarks(s)
  <2>1. sender[s].pc = "mark" /\ retrier' = retrier /\ owner' = owner /\ ~SenderCalls(s)
    BY <1>3 DEF SenderMarks, SenderCalls
  <2>2. sender'[s] = [sender[s] EXCEPT !.pc = "settle"]
    BY <1>1, <1>3 DEF SenderMarks, SenderAt
  <2> QED
    BY <1>1, <2>1, <2>2 DEF Dispatch, SenderFits, Busy
<1> QED
  BY <1>2, <1>3

LEMMA RetrierGoesOn ==
  ASSUME Fits, NEW s \in Servers,
         RetryCalls(s) \/ RetryMarks(s) \/ (RetryReads(s) /\ ~NextDelivery(s))
  PROVE  /\ retrier[s].pc # "idle"
         /\ RetryCalls(s) => retrier[s].pc = "call" /\ retrier'[s].pc = "mark"
         /\ RetryMarks(s) => /\ retrier[s].pc = "mark" /\ retrier'[s].pc = "settle"
                             /\ retrier'[s].ok = retrier[s].ok
         /\ RetryReads(s) => retrier[s].pc = "read" /\ retrier'[s].pc = "call"
         /\ retrier'[s].todo = retrier[s].todo /\ Delivery(s)' = Delivery(s)
         /\ sender' = sender /\ owner' = owner
<1>1. retrier \in [Servers -> Pass]
  BY DEF Fits, TypeOK
<1>2. CASE RetryCalls(s)
  <2>1. PICK ok \in BOOLEAN : retrier' = [retrier EXCEPT ![s].pc = "mark", ![s].ok = ok]
    BY <1>2 DEF RetryCalls
  <2>2. retrier'[s] = [retrier[s] EXCEPT !.pc = "mark", !.ok = ok]
    BY <1>1, <2>1
  <2>3. /\ retrier[s].pc = "call" /\ sender' = sender /\ owner' = owner
        /\ ~RetryMarks(s) /\ ~RetryReads(s)
    BY <1>2 DEF RetryCalls, RetryMarks, RetryReads, table
  <2> QED
    BY <1>1, <1>2, <2>2, <2>3 DEF Pass, Delivery
<1>3. CASE RetryMarks(s)
  <2>1. /\ retrier[s].pc = "mark" /\ sender' = sender /\ owner' = owner
        /\ ~RetryCalls(s) /\ ~RetryReads(s)
    BY <1>3 DEF RetryCalls, RetryMarks, RetryReads
  <2>2. retrier'[s] = [retrier[s] EXCEPT !.pc = "settle"]
    BY <1>1, <1>3 DEF RetryMarks, RetryAt
  <2> QED
    BY <1>1, <2>1, <2>2 DEF Pass, Delivery
<1>4. CASE RetryReads(s) /\ ~NextDelivery(s)
  <2> DEFINE m == maxRetries[owner[Delivery(s).row]]
  <2>1. /\ retrier[s].pc = "read" /\ sender' = sender /\ owner' = owner
        /\ ~RetryCalls(s) /\ ~RetryMarks(s)
    BY <1>4 DEF RetryCalls, RetryMarks, RetryReads, table
  <2>2. retrier' = [retrier EXCEPT ![s].pc = "call", ![s].limit = m]
    BY <1>4 DEF RetryReads
  <2> HIDE DEF m
  <2>3. retrier'[s] = [retrier[s] EXCEPT !.pc = "call", !.limit = m]
    BY <1>1, <2>2
  <2> QED
    BY <1>1, <2>1, <2>3 DEF Pass, Delivery
<1> QED
  BY <1>2, <1>3, <1>4

\* What a new attempt of a row, or a result that is written, changes.
LEMMA AttemptMade ==
  ASSUME TypeOK, NEW d \in Ids, NEW again \in BOOLEAN, NextAttempt(d, again)
  PROVE  /\ \A e \in Ids : Scheduled(e)' => Scheduled(e) \/ e = d
         /\ DueOnce => DueOnce'
         /\ \A e \in Ids : e # d => attempt'[e] = attempt[e]
         /\ \/ attempt'[d] = attempt[d] + 1 /\ faults' = faults
            \/ /\ attempt' = attempt /\ faults' = faults + 1
               /\ \A e \in Ids : Scheduled(e)' <=> Scheduled(e)
<1>1. attempt \in [Ids -> Nat]
  BY DEF TypeOK
<1>2. CASE Reschedule(d, again) /\ attempt' = [attempt EXCEPT ![d] = @ + 1] /\ UNCHANGED faults
  <2>1. /\ \A e \in Ids : Scheduled(e)' => Scheduled(e) \/ e = d
        /\ DueOnce => DueOnce'
    BY <1>2, Rescheduled
  <2> QED
    BY <1>1, <1>2, <2>1
<1>3. CASE Fault /\ UNCHANGED <<attempt, later, due>>
  BY <1>3 DEF Fault, Scheduled, DueOnce
<1> QED
  BY <1>2, <1>3 DEF NextAttempt

LEMMA ResultWritten ==
  ASSUME TypeOK, NEW d \in Ids, NEW ok \in BOOLEAN, Mark(d, ok)
  PROVE  /\ \A e \in Ids : e # d => status'[e] = status[e]
         /\ \/ status'[d] = (IF ok THEN "success" ELSE "failed") /\ faults' = faults
            \/ status' = status /\ faults' = faults + 1
<1>1. status \in [Ids -> {"pending", "success", "failed"}]
  BY DEF TypeOK
<1> QED
  BY <1>1 DEF Mark, Fault

\* The server's own steps keep its rows its own.
LEMMA OwnStep ==
  ASSUME NEW s \in Servers, Fits, Own(s), ServerStep(s)
  PROVE  Own(s)'
<1> DEFINE q == sender[s]
           k == retrier[s]
<1>1. /\ TypeOK /\ ScheduleFits /\ SenderFits(q) /\ RetrierFits(k) /\ DueOnce /\ Distinct(s)
      /\ DOMAIN owner \subseteq Ids /\ q.ok \in BOOLEAN /\ k.ok \in BOOLEAN
      /\ \A d \in Ids : OwnOf(s, d)
  BY RowsAreIds DEF Fits, Own, TypeOK, Dispatch, Pass
<1>2. \A d \in Ids : d \notin DOMAIN owner => ~Scheduled(d) /\ ~InPass(s, d)
  BY <1>1 DEF ScheduleFits, RetrierFits, Scheduled, InPass
<1>3. CASE SenderTakes(s) \/ SenderTakeFails(s) \/ SenderCreateFails(s)
  <2>1. ~Busy(sender'[s]) /\ retrier' = retrier /\ owner' = owner
    BY <1>3, SenderEnds
  <2>2. UNCHANGED <<status, later, due>>
    BY <1>3 DEF SenderTakes, SenderTakeFails, SenderCreateFails, table, schedule
  <2>3. \A d \in Ids : OwnOf(s, d)'
    BY <1>1, <2>1, <2>2 DEF OwnOf, InPass, Settled, Delivery, Busy
  <2> QED
    BY <1>1, <2>1, <2>2, <2>3 DEF Own, DueOnce, Distinct
<1>4. CASE SenderCreates(s)
  <2>1. UNCHANGED <<status, later, due, retrier>>
    BY <1>4 DEF SenderCreates, schedule
  <2>2. PICK h \in q.todo :
          /\ owner' = Append(owner, h)
          /\ sender' = [sender EXCEPT ![s].pc = "call", ![s].todo = @ \ {h}, ![s].row = Len(owner')]
    BY <1>4 DEF SenderCreates
  <2>3. /\ sender \in [Servers -> Dispatch] /\ owner \in Seq(Webhooks) /\ h \in Webhooks
    BY <1>1 DEF TypeOK, Dispatch
  <2>4. /\ Len(owner') = Len(owner) + 1 /\ DOMAIN owner \subseteq DOMAIN owner'
        /\ DOMAIN owner = 1 .. Len(owner) /\ Len(owner) \in Nat
    BY <2>2, <2>3
  <2>5. sender'[s].row \notin DOMAIN owner
    <3>1. sender'[s].row = Len(owner')
      BY <2>2, <2>3 DEF Dispatch
    <3> QED
      BY <2>4, <3>1
  <2>6. \A d \in Ids : OwnOf(s, d)'
    <3> SUFFICES ASSUME NEW d \in Ids PROVE OwnOf(s, d)'
      OBVIOUS
    <3>1. (Scheduled(d)' <=> Scheduled(d)) /\ (InPass(s, d)' <=> InPass(s, d))
          /\ (Settled(s, d)' <=> Settled(s, d)) /\ status'[d] = status[d]
      BY <2>1 DEF Scheduled, InPass, Settled, Delivery
    <3>2. d \notin DOMAIN owner' => status'[d] = "pending"
      BY <1>1, <2>4, <3>1 DEF OwnOf
    <3>3. sender'[s].row = d =>
            ~Scheduled(d)' /\ ~InPass(s, d)' /\ status'[d] = "pending"
      BY <1>1, <1>2, <2>5, <3>1 DEF OwnOf
    <3>4. InPass(s, d)' /\ ~Settled(s, d)' => status'[d] = "failed"
      BY <1>1, <3>1 DEF OwnOf
    <3> QED
      BY <3>2, <3>3, <3>4 DEF OwnOf
  <2> QED
    BY <1>1, <2>1, <2>6 DEF Own, DueOnce, Distinct
<1>5. CASE SenderCalls(s)
  <2>1. UNCHANGED <<status, later, due, retrier, owner>>
    BY <1>5 DEF SenderCalls, table, schedule
  <2>2. Busy(q) /\ sender'[s].row = q.row /\ q.pc # "settle"
    BY <1>5, SenderGoesOn DEF Busy
  <2>3. \A d \in Ids : OwnOf(s, d)'
    BY <1>1, <2>1, <2>2 DEF OwnOf, InPass, Settled, Delivery, Scheduled, Busy
  <2> QED
    BY <1>1, <2>1, <2>3 DEF Own, DueOnce, Distinct
<1>6. CASE SenderMarks(s)
  <2>1. UNCHANGED <<later, due, retrier, owner>> /\ Mark(q.row, q.ok)
    BY <1>6 DEF SenderMarks, table, schedule
  <2>2. /\ q.pc = "mark" /\ sender'[s].pc = "settle" /\ sender'[s].row = q.row /\ q.row \in Ids
        /\ q.row \in DOMAIN owner
    BY <1>1, <1>6, SenderGoesOn DEF SenderFits, Busy, SenderCalls, SenderMarks
  <2>3. \A d \in Ids : d # q.row => status'[d] = status[d]
    BY <1>1, <2>1, <2>2, ResultWritten
  <2>4. \A d \in Ids : OwnOf(s, d)'
    <3> SUFFICES ASSUME NEW d \in Ids PROVE OwnOf(s, d)'
      OBVIOUS
    <3>1. (Scheduled(d)' <=> Scheduled(d)) /\ (InPass(s, d)' <=> InPass(s, d))
          /\ (Settled(s, d)' <=> Settled(s, d))
      BY <2>1 DEF Scheduled, InPass, Settled, Delivery
    <3> QED
      BY <1>1, <2>1, <2>2, <2>3, <3>1 DEF OwnOf, Busy
  <2> QED
    BY <1>1, <2>1, <2>4 DEF Own, DueOnce, Distinct
<1>7. CASE SenderSettles(s)
  <2>1. ~Busy(sender'[s]) /\ retrier' = retrier /\ owner' = owner
    BY <1>7, SenderEnds
  <2>2. q.pc = "settle" /\ q.row \in Ids /\ status' = status
    BY <1>1, <1>7 DEF SenderSettles, SenderFits, Busy
  <2>3. DueOnce'
    <3>1. CASE NextAttempt(q.row, TRUE)
      BY <1>1, <2>2, <3>1, AttemptMade
    <3>2. CASE UNCHANGED schedule
      BY <1>1, <3>2 DEF DueOnce, schedule
    <3> QED
      BY <1>7, <3>1, <3>2 DEF SenderSettles
  <2>4. \A d \in Ids : OwnOf(s, d)'
    BY <1>1, <2>1, <2>2 DEF OwnOf, InPass, Settled, Delivery, Busy
  <2> QED
    BY <1>1, <2>1, <2>3, <2>4 DEF Own, Distinct
<1>8. CASE RetrySelects(s)
  <2>1. /\ Distinct(s)' /\ retrier'[s].pc = "read"
        /\ \A d \in Ids : InPass(s, d)' => Scheduled(d) /\ Retryable(d)
    BY <1>1, <1>8, PassStarts
  <2>2. UNCHANGED <<status, later, due, sender, owner>>
    BY <1>8 DEF RetrySelects, table, schedule
  <2>3. \A d \in Ids : OwnOf(s, d)'
    <3> SUFFICES ASSUME NEW d \in Ids PROVE OwnOf(s, d)'
      OBVIOUS
    <3>1. (Scheduled(d)' <=> Scheduled(d)) /\ (InPass(s, d)' => Scheduled(d) /\ status[d] = "failed")
      BY <2>1, <2>2 DEF Scheduled, Retryable
    <3> QED
      BY <1>1, <2>2, <3>1 DEF OwnOf, Busy
  <2> QED
    BY <1>1, <2>1, <2>2, <2>3 DEF Own, DueOnce
<1>9. CASE RetryCalls(s) \/ RetryMarks(s) \/ (RetryReads(s) /\ ~NextDelivery(s))
  <2> DEFINE d0 == Delivery(s).row
  <2>1. /\ k.pc # "idle" /\ retrier'[s].todo = k.todo /\ Delivery(s)' = Delivery(s)
        /\ sender' = sender /\ owner' = owner
        /\ k.pc # "settle" /\ (RetryMarks(s) <=> retrier'[s].pc = "settle")
    BY <1>9, RetrierGoesOn
  <2>2. d0 \in Ids /\ d0 \in DOMAIN owner /\ InPass(s, d0)
    <3>1. Delivery(s) = k.todo[1] /\ 1 \in DOMAIN k.todo
      BY <2>1, Current
    <3> QED
      BY <2>1, <3>1, Current DEF InPass
  <2>3. UNCHANGED <<later, due>>
    BY <1>9 DEF RetryCalls, RetryMarks, RetryReads, schedule
  <2>4. \A d \in Ids : d # d0 \/ ~RetryMarks(s) => status'[d] = status[d]
    <3>1. CASE RetryMarks(s)
      <4>1. Mark(d0, k.ok)
        BY <3>1 DEF RetryMarks
      <4> QED
        BY <1>1, <2>2, <3>1, <4>1, ResultWritten
    <3>2. CASE ~RetryMarks(s)
      BY <1>9, <3>2 DEF RetryCalls, RetryReads, table
    <3> QED
      BY <3>1, <3>2
  <2>5. \A d \in Ids : OwnOf(s, d)'
    <3> SUFFICES ASSUME NEW d \in Ids PROVE OwnOf(s, d)'
      OBVIOUS
    <3>1. (Scheduled(d)' <=> Scheduled(d)) /\ (InPass(s, d)' <=> InPass(s, d))
          /\ (Settled(s, d)' <=> RetryMarks(s) /\ d = d0) /\ ~Settled(s, d)
      BY <2>1, <2>3 DEF Scheduled, InPass, Settled
    <3> HIDE DEF d0
    <3>2. CASE status'[d] = status[d]
      BY <1>1, <2>1, <3>1, <3>2 DEF OwnOf, Busy
    <3>3. CASE d = d0 /\ RetryMarks(s)
      BY <1>1, <2>1, <2>2, <3>1, <3>3 DEF OwnOf, Busy
    <3> QED
      BY <2>4, <3>2, <3>3
  <2> QED
    BY <1>1, <2>1, <2>3, <2>5 DEF Own, DueOnce, Distinct
<1>10. CASE \/ RetryReadFails(s) \/ RetrySucceeds(s) \/ RetryFails(s)
            \/ (RetryReads(s) /\ NextDelivery(s))
  <2>1. k.pc # "idle" /\ NextDelivery(s) /\ sender' = sender /\ owner' = owner /\ status' = status
    BY <1>10 DEF RetryReadFails, RetrySucceeds, RetryFails, RetryReads, table
  <2>2. /\ Distinct(s)' /\ retrier'[s].pc \in {"idle", "read"}
        /\ \A d \in Ids : InPass(s, d)' => InPass(s, d) /\ d # Delivery(s).row
    BY <1>1, <2>1, PassLeaves
  <2>3. Delivery(s).row \in Ids /\ InPass(s, Delivery(s).row)
    <3>1. Delivery(s) = k.todo[1] /\ 1 \in DOMAIN k.todo
      BY <2>1, Current
    <3> QED
      BY <2>1, <3>1, Current DEF InPass
  <2>4. DueOnce' /\ \A d \in Ids : Scheduled(d)' => Scheduled(d) \/ d = Delivery(s).row
    <3>1. CASE NextAttempt(Delivery(s).row, TRUE)
      BY <1>1, <2>3, <3>1, AttemptMade
    <3>2. CASE UNCHANGED schedule
      BY <1>1, <3>2 DEF DueOnce, Scheduled, schedule
    <3> QED
      BY <1>10, <3>1, <3>2 DEF RetryReadFails, RetrySucceeds, RetryFails, RetryReads
  <2>5. \A d \in Ids : OwnOf(s, d)'
    BY <1>1, <2>1, <2>2, <2>3, <2>4 DEF OwnOf, Settled, Busy
  <2> QED
    BY <2>2, <2>4, <2>5 DEF Own
<1>11. CASE RetryGivesUp(s) \/ Crash(s)
  <2>1. Stop(s) /\ owner' = owner /\ status' = status
    BY <1>11 DEF RetryGivesUp, Crash, table
  <2>2. /\ ~Busy(sender'[s]) /\ Distinct(s)' /\ \A d \in Ids : ~InPass(s, d)'
    BY <2>1, Stopped
  <2>3. DueOnce'
    <3>1. CASE RetryGivesUp(s)
      <4>1. NextAttempt(Delivery(s).row, FALSE) /\ Delivery(s).row \in Ids
        BY <3>1, Current DEF RetryGivesUp
      <4> QED
        BY <1>1, <4>1, AttemptMade
    <3>2. CASE Crash(s)
      BY <1>1, <3>2 DEF Crash, schedule, DueOnce
    <3> QED
      BY <1>11, <3>1, <3>2
  <2>4. \A d \in Ids : OwnOf(s, d)'
    BY <1>1, <2>1, <2>2 DEF OwnOf, Busy
  <2> QED
    BY <2>2, <2>3, <2>4 DEF Own
<1> QED
  BY <1>3, <1>4, <1>5, <1>6, <1>7, <1>8, <1>9, <1>10, <1>11 DEF ServerStep, SenderStep, RetryStep

\* Time, and the webhooks' owner.
LEMMA BecomingDue ==
  ASSUME TypeOK, BecomesDue
  PROVE  /\ \A d \in Ids : Scheduled(d)' <=> Scheduled(d)
         /\ DueOnce => DueOnce'
         /\ UNCHANGED <<hooks, totals, table, topic, sender, retrier, ops, faults, history>>
<1>1. PICK d \in later : later' = later \ {d} /\ due' = Append(due, d)
  BY DEF BecomesDue
<1>2. due \in Seq(Ids) /\ later \in SUBSET Ids /\ d \in Ids
  BY DEF TypeOK
<1>3. /\ DOMAIN due' = 1 .. Len(due) + 1 /\ DOMAIN due = 1 .. Len(due) /\ Len(due) \in Nat
      /\ due'[Len(due) + 1] = d /\ \A i \in DOMAIN due : due'[i] = due[i]
  BY <1>1, <1>2
<1>4. \A i \in DOMAIN due' : i \in DOMAIN due \/ i = Len(due) + 1
  BY <1>3
<1>5. \A i \in DOMAIN due : i \in DOMAIN due'
  BY <1>3
<1>6. Len(due) + 1 \in DOMAIN due'
  BY <1>3
<1>7. \A e \in Ids : Scheduled(e)' <=> Scheduled(e)
  BY <1>1, <1>3, <1>4, <1>5, <1>6 DEF Scheduled
<1>8. DueOnce => DueOnce'
  BY <1>1, <1>3, <1>4 DEF DueOnce
<1> QED
  BY <1>7, <1>8 DEF BecomesDue

LEMMA OwnElsewhere ==
  ASSUME NEW s \in Servers, Fits, Own(s), UpdateWebhook \/ BecomesDue \/ UNCHANGED vars
  PROVE  Own(s)'
<1>1. DueOnce /\ Distinct(s) /\ \A d \in Ids : OwnOf(s, d)
  BY DEF Own
<1>2. /\ UNCHANGED <<owner, status, sender, retrier>>
      /\ DueOnce' /\ \A d \in Ids : Scheduled(d)' <=> Scheduled(d)
  <2>1. CASE UpdateWebhook \/ UNCHANGED vars
    BY <1>1, <2>1 DEF UpdateWebhook, vars, table, schedule, DueOnce, Scheduled
  <2>2. CASE BecomesDue
    BY <1>1, <2>2, BecomingDue DEF Fits, table
  <2> QED
    BY <2>1, <2>2
<1>3. Distinct(s)'
  BY <1>1, <1>2 DEF Distinct
<1>4. \A d \in Ids : OwnOf(s, d)'
  BY <1>1, <1>2 DEF OwnOf, InPass, Settled, Delivery, Busy
<1> QED
  BY <1>2, <1>3, <1>4 DEF Own

\* With one server, a row is written by its sender until a retry is scheduled, then
\* by one pass of the retrier at a time.
LEMMA OwnAlways == ASSUME NEW s, Servers = {s} PROVE Spec => []Own(s)
<1>1. Init => Own(s)
  <2> SUFFICES ASSUME Init PROVE Own(s)
    OBVIOUS
  <2>1. sender[s] = IdleSender /\ retrier[s] = IdleRetrier /\ due = <<>>
    BY DEF Init
  <2>2. ~Busy(sender[s]) /\ DOMAIN retrier[s].todo = {} /\ DOMAIN due = {}
    BY <2>1 DEF IdleSender, IdleRetrier, Busy
  <2>3. \A d \in Ids : OwnOf(s, d)
    BY <2>2 DEF Init, OwnOf, InPass
  <2> QED
    BY <2>2, <2>3 DEF Own, DueOnce, Distinct
<1>2. Fits /\ Own(s) /\ [Next]_vars => Own(s)'
  BY OwnStep, OwnElsewhere DEF Next, ServerStep
<1> QED
  BY <1>1, <1>2, DeliveryTypeCorrect, PTL DEF Spec

\* With one server, a delivery that succeeded is never written again as failed,
\* whatever the retrier, failed statements and crashes do in between
\* (webhooks/service/service.go:153-199, 344-388).
THEOREM SuccessStays == ASSUME NEW s, Servers = {s} PROVE Spec => SuccessIsFinal
<1>1. Fits /\ Own(s) /\ [Next]_vars
        => [\A d \in Rows : status[d] = "success" => status'[d] = "success"]_vars
  <2> SUFFICES ASSUME Fits, Own(s), Next, NEW d \in Rows, status[d] = "success"
               PROVE  status'[d] = "success"
    OBVIOUS
  <2>1. d \in Ids /\ TypeOK /\ OwnOf(s, d) /\ sender[s].ok \in BOOLEAN /\ retrier[s].ok \in BOOLEAN
    BY RowsAreIds DEF Fits, Own, Rows, TypeOK, Dispatch, Pass
  <2>2. CASE SenderMarks(s)
    <3>1. sender[s].row \in Ids /\ Mark(sender[s].row, sender[s].ok) /\ sender[s].pc = "mark"
      BY <2>2, SenderGoesOn DEF SenderMarks, SenderCalls
    <3>2. sender[s].row # d
      BY <2>1, <3>1 DEF OwnOf, Busy
    <3> QED
      BY <2>1, <3>1, <3>2, ResultWritten
  <2>3. CASE RetryMarks(s)
    <3>1. Mark(Delivery(s).row, retrier[s].ok) /\ retrier[s].pc = "mark"
      BY <2>3 DEF RetryMarks
    <3>2. Delivery(s).row \in Ids /\ InPass(s, Delivery(s).row)
      <4>1. Delivery(s) = retrier[s].todo[1] /\ 1 \in DOMAIN retrier[s].todo
        BY <3>1, Current
      <4> QED
        BY <3>1, <4>1, Current DEF InPass
    <3>3. Delivery(s).row # d
      BY <2>1, <3>1, <3>2 DEF OwnOf, Settled
    <3> QED
      BY <2>1, <3>1, <3>2, <3>3, ResultWritten
  <2>4. CASE ~SenderMarks(s) /\ ~RetryMarks(s)
    <3>1. UpdateWebhook \/ BecomesDue \/ ServerStep(s)
      BY DEF Next, ServerStep
    <3>2. status' = status
      BY <2>4, <3>1
      DEF UpdateWebhook, BecomesDue, ServerStep, SenderStep, SenderTakes, SenderTakeFails,
          SenderCreates, SenderCreateFails, SenderCalls, SenderSettles, RetryStep, RetrySelects,
          RetryReads, RetryReadFails, RetryCalls, RetrySucceeds, RetryFails, RetryGivesUp, Crash,
          table
    <3> QED
      BY <3>2
  <2> QED
    BY <2>2, <2>3, <2>4
<1> QED
  BY <1>1, DeliveryTypeCorrect, OwnAlways, PTL DEF Spec, SuccessIsFinal

-----------------------------------------------------------------------------
(* One server: how often a row is called.                                  *)

Called(s, d) == retrier[s].pc \in {"mark", "settle"} /\ Delivery(s).row = d

\* Every call of the row but those of attempts before this one was cost by a fault:
\* the row waits to be retried, or its retry has been answered and not written.
Rested(s, d) ==
  \/ ((Scheduled(d) /\ Retryable(d)) \/ InPass(s, d)) /\ ~Called(s, d)
  \/ Settled(s, d) /\ retrier[s].ok /\ status[d] # "success"

First(s, d) == Busy(sender[s]) /\ sender[s].row = d
Uncalled(s, d) == d \notin DOMAIN owner \/ (First(s, d) /\ sender[s].pc = "call")

\* One call for each attempt made or being made, and one more for each fault.
BudgetOf(s, d) ==
  /\ attempt[d] \in 1 .. MaxAttempt /\ calls[d] <= attempt[d] + faults
  /\ attempt[d] = MaxAttempt \/ Rested(s, d) => calls[d] <= attempt[d] - 1 + faults
  /\ InPass(s, d) => attempt[d] < MaxAttempt
  /\ Uncalled(s, d) => attempt[d] = 1 /\ calls[d] = 0
  /\ First(s, d) => attempt[d] = 1 /\ calls[d] <= 1

Counters(d) ==
  /\ attempt[d] \in Nat /\ calls[d] \in Nat /\ faults \in Nat
  /\ MaxAttempt \in Nat /\ MaxAttempt > 1

LEMMA CountersFit ==
  ASSUME Fits, Fits', NEW d \in Ids PROVE Counters(d) /\ Counters(d)'
<1>1. attempt[d] \in Nat /\ calls[d] \in Nat /\ faults \in Nat
  BY DEF Fits, TypeOK
<1>2. attempt'[d] \in Nat /\ calls'[d] \in Nat /\ faults' \in Nat
  BY DEF Fits, TypeOK
<1>3. MaxAttempt \in Nat /\ MaxAttempt > 1
  <2>1. MaxAttempt \in Nat /\ MaxAttempt # 0 /\ MaxAttempt # 1
    BY DeliveryAssumption
  <2> QED
    BY <2>1
<1> QED
  BY <1>1, <1>2, <1>3 DEF Counters

\* A row that is neither called nor given a new attempt.
LEMMA BudgetKept ==
  ASSUME NEW s \in Servers, NEW d \in Ids, Counters(d), Counters(d)', BudgetOf(s, d),
         attempt'[d] = attempt[d], calls'[d] = calls[d],
         \/ faults' = faults + 1
         \/ faults' = faults /\ (Rested(s, d)' => Rested(s, d)),
         InPass(s, d)' => InPass(s, d) \/ attempt[d] < MaxAttempt,
         Uncalled(s, d)' => Uncalled(s, d),
         First(s, d)' => First(s, d) \/ Uncalled(s, d)
  PROVE  BudgetOf(s, d)'
<1> DEFINE a == attempt[d]
           c == calls[d]
<1>1. /\ a \in Nat /\ c \in Nat /\ faults \in Nat /\ MaxAttempt \in Nat /\ MaxAttempt > 1
      /\ a' = a /\ c' = c
  BY DEF Counters
<1>2. /\ a \in 1 .. MaxAttempt /\ c <= a + faults
      /\ a = MaxAttempt => c <= a - 1 + faults
      /\ Rested(s, d) => c <= a - 1 + faults
      /\ InPass(s, d) => a < MaxAttempt
      /\ Uncalled(s, d) => a = 1 /\ c = 0
      /\ First(s, d) => a = 1 /\ c <= 1
  BY DEF BudgetOf
<1>3. (a = MaxAttempt => c <= a - 1 + faults') /\ (Rested(s, d)' => c <= a - 1 + faults')
  <2> HIDE DEF a, c
  <2>1. CASE faults' = faults + 1
    BY <1>1, <1>2, <2>1
  <2>2. CASE faults' = faults /\ (Rested(s, d)' => Rested(s, d))
    BY <1>2, <2>2
  <2> QED
    BY <2>1, <2>2
<1>4. c <= a + faults'
  <2> HIDE DEF a, c
  <2> QED
    BY <1>1, <1>2
<1>5. /\ InPass(s, d)' => a < MaxAttempt
      /\ Uncalled(s, d)' => a = 1 /\ c = 0
      /\ First(s, d)' => a = 1 /\ c <= 1
  <2>1. c = 0 => c <= 1
    <3> HIDE DEF c
    <3> QED
      BY <1>1
  <2> QED
    BY <1>2, <2>1
<1> QED
  BY <1>1, <1>2, <1>3, <1>4, <1>5 DEF BudgetOf

\* A row whose attempt is over, with the next one in its place or a failed statement.
LEMMA BudgetOfAttempt ==
  ASSUME NEW s \in Servers, NEW d \in Ids, Counters(d), Counters(d)', BudgetOf(s, d),
         calls'[d] = calls[d], attempt[d] < MaxAttempt,
         \/ attempt'[d] = attempt[d] + 1 /\ faults' = faults
         \/ attempt'[d] = attempt[d] /\ faults' = faults + 1,
         ~InPass(s, d)', ~Uncalled(s, d)', ~First(s, d)'
  PROVE  BudgetOf(s, d)'
<1> DEFINE a == attempt[d]
           c == calls[d]
           M == MaxAttempt
<1>1. /\ a \in Nat /\ c \in Nat /\ faults \in Nat /\ M \in Nat /\ M > 1
      /\ a' \in Nat /\ c' = c /\ faults' \in Nat
  BY DEF Counters
<1>2. a \in 1 .. M /\ c <= a + faults /\ a < M
  BY DEF BudgetOf
<1>3. (a' = a + 1 /\ faults' = faults) \/ (a' = a /\ faults' = faults + 1)
  OBVIOUS
<1>4. a' \in 1 .. M /\ c' <= a' + faults' /\ c' <= a' - 1 + faults'
  <2> HIDE DEF a, c, M
  <2>1. c' <= a' + faults' /\ c' <= a' - 1 + faults'
    <3>1. CASE a' = a + 1 /\ faults' = faults
      BY <1>1, <1>2, <3>1
    <3>2. CASE a' = a /\ faults' = faults + 1
      BY <1>1, <1>2, <3>2
    <3> QED
      BY <1>3, <3>1, <3>2
  <2>2. a' \in 1 .. M
    BY <1>1, <1>2, <1>3
  <2> QED
    BY <2>1, <2>2
<1> QED
  BY <1>4 DEF BudgetOf

\* The delivery a pass is at, while it is at one.
LEMMA AtDelivery ==
  ASSUME NEW s \in Servers, Fits, Own(s), retrier[s].pc # "idle"
  PROVE  /\ Delivery(s).row \in Ids /\ Delivery(s).row \in DOMAIN owner
         /\ InPass(s, Delivery(s).row) /\ ~First(s, Delivery(s).row)
<1>1. /\ Delivery(s).row \in Ids /\ Delivery(s).row \in DOMAIN owner
      /\ Delivery(s) = retrier[s].todo[1] /\ 1 \in DOMAIN retrier[s].todo
  BY Current
<1>2. InPass(s, Delivery(s).row)
  BY <1>1 DEF InPass
<1>3. OwnOf(s, Delivery(s).row)
  BY <1>1 DEF Own
<1> QED
  BY <1>1, <1>2, <1>3 DEF OwnOf, First

LEMMA BudgetOfSender ==
  ASSUME NEW s \in Servers, Fits, Fits', Own(s), NEW d \in Ids, BudgetOf(s, d),
         \/ SenderTakes(s) \/ SenderTakeFails(s) \/ SenderCreates(s) \/ SenderCreateFails(s)
         \/ SenderCalls(s) \/ SenderMarks(s) \/ SenderSettles(s)
  PROVE  BudgetOf(s, d)'
<1> DEFINE q == sender[s]
<1>1. /\ TypeOK /\ SenderFits(q) /\ DOMAIN owner \subseteq Ids /\ q.ok \in BOOLEAN
      /\ OwnOf(s, d) /\ Counters(d) /\ Counters(d)'
  <2>1. Counters(d) /\ Counters(d)'
    BY CountersFit
  <2> QED
    BY <2>1, RowsAreIds DEF Fits, Own, TypeOK, Dispatch
<1>2. retrier' = retrier /\ (InPass(s, d)' <=> InPass(s, d)) /\ (Called(s, d)' <=> Called(s, d))
      /\ (Settled(s, d)' <=> Settled(s, d))
  <2>1. retrier' = retrier
    BY DEF SenderTakes, SenderTakeFails, SenderCreates, SenderCreateFails, SenderCalls, SenderMarks,
           SenderSettles
  <2> QED
    BY <2>1 DEF InPass, Called, Settled, Delivery
<1>3. First(s, d) => ~Scheduled(d) /\ ~InPass(s, d)
  BY <1>1 DEF OwnOf, First
<1>4. CASE SenderTakes(s) \/ SenderTakeFails(s) \/ SenderCreateFails(s)
  <2>1. ~First(s, d)' /\ owner' = owner
    BY <1>4, SenderEnds DEF First
  <2>2. /\ UNCHANGED <<status, attempt, later, due, calls>>
        /\ faults' \in {faults, faults + 1}
    BY <1>4 DEF SenderTakes, SenderTakeFails, SenderCreateFails, table, schedule, history, Fault
  <2>3. Rested(s, d)' => Rested(s, d)
    BY <1>2, <2>2 DEF Rested, Scheduled, Retryable
  <2>4. Uncalled(s, d)' => Uncalled(s, d)
    BY <2>1 DEF Uncalled
  <2> QED
    BY <1>1, <1>2, <2>1, <2>2, <2>3, <2>4, BudgetKept
<1>5. CASE SenderCreates(s)
  <2>1. UNCHANGED <<status, attempt, later, due, calls, faults>>
    BY <1>5 DEF SenderCreates, schedule, history
  <2>2. PICK h \in q.todo :
          /\ owner' = Append(owner, h)
          /\ sender' = [sender EXCEPT ![s].pc = "call", ![s].todo = @ \ {h}, ![s].row = Len(owner')]
    BY <1>5 DEF SenderCreates
  <2>3. /\ sender \in [Servers -> Dispatch] /\ owner \in Seq(Webhooks) /\ h \in Webhooks
    BY <1>1 DEF TypeOK, Dispatch
  <2>4. /\ Len(owner') = Len(owner) + 1 /\ DOMAIN owner \subseteq DOMAIN owner'
        /\ DOMAIN owner = 1 .. Len(owner) /\ Len(owner) \in Nat
    BY <2>2, <2>3
  <2>5. sender'[s].row \notin DOMAIN owner
    <3>1. sender'[s].row = Len(owner')
      BY <2>2, <2>3 DEF Dispatch
    <3> QED
      BY <2>4, <3>1
  <2>6. Rested(s, d)' => Rested(s, d)
    BY <1>2, <2>1 DEF Rested, Scheduled, Retryable
  <2>7. (Uncalled(s, d)' => Uncalled(s, d)) /\ (First(s, d)' => Uncalled(s, d))
    BY <2>4, <2>5 DEF Uncalled, First
  <2> QED
    BY <1>1, <1>2, <2>1, <2>6, <2>7, BudgetKept
<1>6. CASE SenderCalls(s)
  <2>1. /\ UNCHANGED <<status, attempt, later, due, faults, owner>>
        /\ \E ok \in BOOLEAN : Call(q.row, ok)
    BY <1>6 DEF SenderCalls, table, schedule
  <2>2. /\ q.pc = "call" /\ sender'[s].pc = "mark" /\ sender'[s].row = q.row /\ q.row \in Ids
    BY <1>6, SenderGoesOn
  <2>3. /\ ~Uncalled(s, d)' \/ Uncalled(s, d)
        /\ First(s, d)' <=> d = q.row
        /\ First(s, d) <=> d = q.row
    BY <2>1, <2>2 DEF Uncalled, First, Busy
  <2>4. Rested(s, d)' => Rested(s, d)
    BY <1>2, <2>1 DEF Rested, Scheduled, Retryable
  <2>5. calls \in [Ids -> Nat]
    BY <1>1 DEF TypeOK
  <2>6. CASE d # q.row
    <3>1. calls'[d] = calls[d]
      BY <2>1, <2>5, <2>6 DEF Call
    <3> QED
      BY <1>1, <1>2, <2>1, <2>3, <2>4, <3>1, BudgetKept
  <2>7. CASE d = q.row
    <3>1. attempt'[d] = 1 /\ calls'[d] = 1 /\ faults \in Nat /\ MaxAttempt \in Nat /\ MaxAttempt > 1
      <4>1. Uncalled(s, d) /\ calls'[d] = calls[d] + 1
        BY <2>1, <2>2, <2>3, <2>5, <2>7 DEF Uncalled, Call
      <4> QED
        BY <1>1, <2>1, <4>1 DEF BudgetOf, Counters
    <3>2. ~InPass(s, d)' /\ ~Scheduled(d)' /\ ~Settled(s, d)'
      <4>1. ~InPass(s, d) /\ ~Scheduled(d)
        BY <1>3, <2>3, <2>7
      <4>2. Settled(s, d) => InPass(s, d)
        BY AtDelivery DEF Settled
      <4> QED
        BY <1>2, <2>1, <4>1, <4>2 DEF Scheduled
    <3>3. ~Rested(s, d)'
      BY <3>2 DEF Rested
    <3>4. ~Uncalled(s, d)'
      BY <1>1, <2>1, <2>2, <2>7 DEF Uncalled, SenderFits, Busy
    <3> QED
      BY <2>1, <3>1, <3>2, <3>3, <3>4 DEF BudgetOf
  <2> QED
    BY <2>6, <2>7
<1>7. CASE SenderMarks(s)
  <2>1. UNCHANGED <<attempt, later, due, owner, calls>> /\ Mark(q.row, q.ok)
    BY <1>7 DEF SenderMarks, table, schedule, history
  <2>2. /\ q.pc = "mark" /\ sender'[s].pc = "settle" /\ sender'[s].row = q.row /\ q.row \in Ids
    BY <1>7, SenderGoesOn DEF SenderCalls, SenderMarks
  <2>3. (Uncalled(s, d)' => Uncalled(s, d)) /\ (First(s, d)' => First(s, d))
    BY <2>1, <2>2 DEF Uncalled, First, Busy
  <2>4. /\ d # q.row => status'[d] = status[d]
        /\ faults' \in {faults, faults + 1}
    BY <1>1, <2>1, <2>2, ResultWritten
  <2>5. Rested(s, d)' => Rested(s, d)
    <3>1. CASE d # q.row
      BY <1>2, <2>1, <2>4, <3>1 DEF Rested, Scheduled, Retryable
    <3>2. CASE d = q.row
      <4>1. ~InPass(s, d) /\ ~Scheduled(d)
        BY <1>3, <2>2, <3>2 DEF First, Busy
      <4>2. Settled(s, d) => InPass(s, d)
        BY AtDelivery DEF Settled
      <4> QED
        BY <1>2, <2>1, <4>1, <4>2 DEF Rested, Scheduled
    <3> QED
      BY <3>1, <3>2
  <2> QED
    BY <1>1, <1>2, <2>1, <2>3, <2>4, <2>5, BudgetKept
<1>8. CASE SenderSettles(s)
  <2>1. ~First(s, d)' /\ owner' = owner
    BY <1>8, SenderEnds DEF First
  <2>2. /\ q.pc = "settle" /\ q.row \in Ids /\ q.row \in DOMAIN owner
        /\ status' = status /\ calls' = calls
    BY <1>1, <1>8 DEF SenderSettles, SenderFits, Busy, history
  <2>3. Uncalled(s, d)' => Uncalled(s, d)
    BY <2>1 DEF Uncalled
  <2>4. CASE /\ UNCHANGED <<attempt, later, due>> /\ faults' \in {faults, faults + 1}
    <3>1. Rested(s, d)' => Rested(s, d)
      BY <1>2, <2>2, <2>4 DEF Rested, Scheduled, Retryable
    <3> QED
      BY <1>1, <1>2, <2>1, <2>2, <2>3, <2>4, <3>1, BudgetKept
  <2>5. CASE NextAttempt(q.row, TRUE)
    <3>1. /\ Scheduled(d)' => Scheduled(d) \/ d = q.row
          /\ d # q.row => attempt'[d] = attempt[d]
          /\ \/ attempt'[q.row] = attempt[q.row] + 1 /\ faults' = faults
             \/ attempt' = attempt /\ faults' = faults + 1
      BY <1>1, <2>2, <2>5, AttemptMade
    <3>2. CASE d # q.row
      <4>1. Rested(s, d)' => Rested(s, d)
        BY <1>2, <2>2, <3>1, <3>2 DEF Rested, Retryable
      <4> QED
        BY <1>1, <1>2, <2>1, <2>2, <2>3, <3>1, <3>2, <4>1, BudgetKept
    <3>3. CASE d = q.row
      <4>1. First(s, d)
        BY <2>2, <3>3 DEF First, Busy
      <4>2. ~InPass(s, d)' /\ ~Uncalled(s, d)'
        BY <1>2, <1>3, <2>1, <2>2, <3>3, <4>1 DEF Uncalled
      <4>3. attempt[d] < MaxAttempt
        BY <1>1, <4>1 DEF BudgetOf, Counters
      <4> QED
        BY <1>1, <2>1, <2>2, <3>1, <3>3, <4>2, <4>3, BudgetOfAttempt
    <3> QED
      BY <3>2, <3>3
  <2> QED
    BY <1>8, <2>4, <2>5 DEF SenderSettles, CountSent, CountFailed, Fault, schedule
<1> QED
  BY <1>4, <1>5, <1>6, <1>7, <1>8

LEMMA BudgetOfRetrier ==
  ASSUME NEW s \in Servers, Fits, Fits', Own(s), NEW d \in Ids, BudgetOf(s, d),
         RetryStep(s) \/ RetryReadFails(s) \/ Crash(s)
  PROVE  BudgetOf(s, d)'
<1> DEFINE k == retrier[s]
           d0 == Delivery(s).row
<1>1. /\ TypeOK /\ k.ok \in BOOLEAN /\ DueOnce /\ Distinct(s)
      /\ OwnOf(s, d) /\ Counters(d) /\ Counters(d)'
  <2>1. Counters(d) /\ Counters(d)'
    BY CountersFit
  <2> QED
    BY <2>1 DEF Fits, Own, TypeOK, Pass
<1>2. owner' = owner
  BY DEF RetryStep, RetrySelects, RetryReads, RetryReadFails, RetryCalls, RetryMarks, RetrySucceeds,
         RetryFails, RetryGivesUp, Crash, table
<1>3. k.pc # "idle" => /\ d0 \in Ids /\ d0 \in DOMAIN owner /\ InPass(s, d0) /\ ~First(s, d0)
  BY AtDelivery
<1>4. sender' = sender => (First(s, d)' <=> First(s, d)) /\ (Uncalled(s, d)' <=> Uncalled(s, d))
  BY <1>2 DEF First, Uncalled
<1>5. CASE RetrySelects(s)
  <2>1. k.pc = "idle" /\ UNCHANGED <<sender, status, attempt, later, due, calls, faults>>
    BY <1>5 DEF RetrySelects, table, schedule, history
  <2>2. retrier'[s].pc = "read" /\ (InPass(s, d)' => Scheduled(d) /\ Retryable(d))
    BY <1>1, <1>5, PassStarts
  <2>3. ~Called(s, d) /\ ~Settled(s, d)'
    BY <2>1, <2>2 DEF Called, Settled
  <2>4. Rested(s, d)' => Rested(s, d)
    <3>1. (Scheduled(d)' <=> Scheduled(d)) /\ (Retryable(d)' <=> Retryable(d))
      BY <2>1 DEF Scheduled, Retryable
    <3> QED
      BY <2>2, <2>3, <3>1 DEF Rested
  <2>5. InPass(s, d)' => attempt[d] < MaxAttempt
    BY <2>2 DEF Retryable
  <2> QED
    BY <1>1, <1>4, <2>1, <2>4, <2>5, BudgetKept
<1>6. CASE RetryReads(s) /\ ~NextDelivery(s)
  <2>1. /\ k.pc = "read" /\ retrier'[s].pc = "call" /\ retrier'[s].todo = k.todo /\ sender' = sender
    BY <1>6, RetrierGoesOn
  <2>2. UNCHANGED <<status, attempt, later, due, calls, faults>>
    BY <1>6 DEF RetryReads, table, schedule, history
  <2>3. /\ InPass(s, d)' <=> InPass(s, d)
        /\ ~Called(s, d) /\ ~Settled(s, d)'
    BY <2>1 DEF InPass, Called, Settled
  <2>4. Rested(s, d)' => Rested(s, d)
    BY <2>2, <2>3 DEF Rested, Scheduled, Retryable
  <2> QED
    BY <1>1, <1>4, <2>1, <2>2, <2>3, <2>4, BudgetKept
<1>7. CASE RetryCalls(s)
  <2>1. /\ k.pc = "call" /\ retrier'[s].pc = "mark" /\ retrier'[s].todo = k.todo /\ sender' = sender
        /\ Delivery(s)' = Delivery(s)
    BY <1>7, RetrierGoesOn
  <2>2. UNCHANGED <<status, attempt, later, due, faults>> /\ \E ok \in BOOLEAN : Call(d0, ok)
    BY <1>7 DEF RetryCalls, table, schedule
  <2>3. /\ InPass(s, d)' <=> InPass(s, d)
        /\ ~Called(s, d) /\ ~Settled(s, d)' /\ (Called(s, d)' <=> d = d0)
    BY <2>1 DEF InPass, Called, Settled
  <2>4. calls \in [Ids -> Nat] /\ d0 \in Ids
    BY <1>1, <1>3, <2>1 DEF TypeOK
  <2>5. CASE d # d0
    <3>1. calls'[d] = calls[d]
      BY <2>2, <2>4, <2>5 DEF Call
    <3>2. Rested(s, d)' => Rested(s, d)
      BY <2>2, <2>3 DEF Rested, Scheduled, Retryable
    <3> QED
      BY <1>1, <1>4, <2>1, <2>2, <2>3, <3>1, <3>2, BudgetKept
  <2>6. CASE d = d0
    <3> DEFINE a == attempt[d]
               c == calls[d]
    <3>1. c' = c + 1 /\ a' = a /\ faults' = faults
      BY <2>2, <2>4, <2>6 DEF Call
    <3>2. /\ InPass(s, d) /\ ~First(s, d) /\ d \in DOMAIN owner
      BY <1>3, <2>1, <2>6
    <3>3. Rested(s, d)
      BY <2>3, <3>2 DEF Rested
    <3>4. ~Rested(s, d)' /\ ~First(s, d)' /\ ~Uncalled(s, d)'
      BY <1>2, <1>4, <2>1, <2>3, <2>6, <3>2 DEF Rested, Uncalled
    <3>5. /\ a \in Nat /\ c \in Nat /\ faults \in Nat /\ MaxAttempt \in Nat
          /\ a \in 1 .. MaxAttempt /\ c <= a - 1 + faults /\ a < MaxAttempt
      BY <1>1, <3>2, <3>3 DEF BudgetOf, Counters
    <3>6. c' <= a' + faults' /\ a' \in 1 .. MaxAttempt /\ a' < MaxAttempt /\ a' # MaxAttempt
      <4> HIDE DEF a, c
      <4> QED
        BY <3>1, <3>5
    <3> QED
      BY <3>4, <3>6 DEF BudgetOf
  <2> QED
    BY <2>5, <2>6
<1>8. CASE RetryMarks(s)
  <2>1. /\ k.pc = "mark" /\ retrier'[s].pc = "settle" /\ retrier'[s].todo = k.todo /\ sender' = sender
        /\ Delivery(s)' = Delivery(s) /\ retrier'[s].ok = k.ok
    BY <1>8, RetrierGoesOn
  <2>2. UNCHANGED <<attempt, later, due, calls>> /\ Mark(d0, k.ok)
    BY <1>8 DEF RetryMarks, schedule, history
  <2>3. /\ InPass(s, d)' <=> InPass(s, d)
        /\ (Called(s, d) <=> d = d0) /\ (Settled(s, d)' <=> d = d0) /\ (Called(s, d)' <=> d = d0)
        /\ ~Settled(s, d)
    BY <2>1 DEF InPass, Called, Settled
  <2>4. d0 \in Ids
    BY <1>3, <2>1
  <2>5. /\ d # d0 => status'[d] = status[d]
        /\ \/ status'[d0] = (IF k.ok THEN "success" ELSE "failed") /\ faults' = faults
           \/ faults' = faults + 1
    BY <1>1, <2>2, <2>4, ResultWritten
  <2>6. faults' = faults => (Rested(s, d)' => Rested(s, d))
    <3> SUFFICES ASSUME faults' = faults, Rested(s, d)' PROVE Rested(s, d)
      OBVIOUS
    <3>1. CASE d # d0
      BY <2>2, <2>3, <2>5, <3>1 DEF Rested, Scheduled, Retryable
    <3>2. CASE d = d0
      <4>1. faults' # faults + 1
        BY <1>1 DEF Counters
      <4>2. status'[d] = (IF k.ok THEN "success" ELSE "failed")
        BY <2>5, <3>2, <4>1
      <4> QED
        BY <2>1, <2>3, <3>2, <4>2 DEF Rested
    <3> QED
      BY <3>1, <3>2
  <2> QED
    BY <1>1, <1>4, <2>1, <2>2, <2>3, <2>5, <2>6, BudgetKept
<1>9. CASE (RetryReads(s) /\ NextDelivery(s)) \/ RetryReadFails(s) \/ RetrySucceeds(s)
  <2>1. /\ k.pc # "idle" /\ NextDelivery(s) /\ sender' = sender
        /\ UNCHANGED <<status, attempt, later, due, calls>> /\ faults' \in {faults, faults + 1}
        /\ \/ k.pc = "read"
           \/ k.pc = "settle" /\ k.ok
    BY <1>9 DEF RetryReads, RetryReadFails, RetrySucceeds, CountSent, Fault, table, schedule, history
  <2>2. /\ retrier'[s].pc \in {"idle", "read"}
        /\ InPass(s, d)' => InPass(s, d) /\ d # d0
    BY <1>1, <2>1, PassLeaves
  <2>3. ~Called(s, d)' /\ ~Settled(s, d)'
    BY <2>2 DEF Called, Settled
  <2>4. Rested(s, d)' => Rested(s, d)
    <3>1. (Scheduled(d)' <=> Scheduled(d)) /\ (Retryable(d)' <=> Retryable(d))
      BY <2>1 DEF Scheduled, Retryable
    <3>2. CASE Called(s, d)
      <4>1. d = d0 /\ Settled(s, d) /\ k.ok
        BY <2>1, <3>2 DEF Called, Settled
      <4> QED
        BY <2>2, <2>3, <3>1, <4>1 DEF Rested, Retryable
    <3>3. CASE ~Called(s, d)
      BY <2>2, <2>3, <3>1, <3>3 DEF Rested
    <3> QED
      BY <3>2, <3>3
  <2> QED
    BY <1>1, <1>4, <2>1, <2>2, <2>4, BudgetKept
<1>10. CASE RetryFails(s) \/ RetryGivesUp(s)
  <2>1. /\ k.pc = "settle" /\ ~k.ok /\ calls' = calls /\ status' = status
        /\ \E again \in BOOLEAN : NextAttempt(d0, again)
    BY <1>10 DEF RetryFails, RetryGivesUp, history
  <2>2. /\ InPass(s, d)' => InPass(s, d) /\ d # d0
        /\ ~Called(s, d)' /\ ~Settled(s, d)'
        /\ (First(s, d)' => First(s, d)) /\ (Uncalled(s, d)' => Uncalled(s, d))
    <3>1. CASE RetryFails(s)
      <4>1. NextDelivery(s) /\ sender' = sender
        BY <3>1 DEF RetryFails
      <4>2. retrier'[s].pc \in {"idle", "read"} /\ (InPass(s, d)' => InPass(s, d) /\ d # d0)
        BY <1>1, <2>1, <4>1, PassLeaves
      <4> QED
        BY <1>4, <4>1, <4>2 DEF Called, Settled
    <3>2. CASE RetryGivesUp(s)
      <4>1. ~Busy(sender'[s]) /\ retrier'[s].pc = "idle" /\ ~InPass(s, d)'
        BY <3>2, Stopped DEF RetryGivesUp
      <4> QED
        BY <1>2, <4>1 DEF Called, Settled, First, Uncalled
    <3> QED
      BY <1>10, <3>1, <3>2
  <2>3. d0 \in Ids /\ d0 \in DOMAIN owner /\ InPass(s, d0) /\ ~First(s, d0)
    BY <1>3, <2>1
  <2>4. /\ Scheduled(d)' => Scheduled(d) \/ d = d0
        /\ d # d0 => attempt'[d] = attempt[d]
        /\ \/ attempt'[d0] = attempt[d0] + 1 /\ faults' = faults
           \/ attempt' = attempt /\ faults' = faults + 1
    BY <1>1, <2>1, <2>3, AttemptMade
  <2>5. CASE d # d0
    <3>1. ~Called(s, d)
      BY <2>5 DEF Called
    <3>2. Rested(s, d)' => Rested(s, d)
      <4>1. Retryable(d)' <=> Retryable(d)
        BY <2>1, <2>4, <2>5 DEF Retryable
      <4> QED
        BY <2>2, <2>4, <2>5, <3>1, <4>1 DEF Rested
    <3> QED
      BY <1>1, <2>1, <2>2, <2>4, <2>5, <3>2, BudgetKept
  <2>6. CASE d = d0
    <3>1. attempt[d] < MaxAttempt
      BY <2>3, <2>6 DEF BudgetOf
    <3>2. ~InPass(s, d)' /\ ~Uncalled(s, d)' /\ ~First(s, d)'
      BY <1>2, <2>2, <2>3, <2>6 DEF Uncalled
    <3> QED
      BY <1>1, <2>1, <2>4, <2>6, <3>1, <3>2, BudgetOfAttempt
  <2> QED
    BY <2>5, <2>6
<1>11. CASE Crash(s)
  <2>1. Stop(s) /\ faults' = faults + 1 /\ UNCHANGED <<attempt, calls>>
    BY <1>11 DEF Crash, Fault, table, history
  <2>2. ~Busy(sender'[s]) /\ ~InPass(s, d)'
    BY <2>1, Stopped
  <2>3. ~First(s, d)' /\ (Uncalled(s, d)' => Uncalled(s, d))
    BY <1>2, <2>2 DEF First, Uncalled
  <2> QED
    BY <1>1, <2>1, <2>2, <2>3, BudgetKept
<1> QED
  BY <1>5, <1>6, <1>7, <1>8, <1>9, <1>10, <1>11 DEF RetryStep

\* With one server, the endpoint of a delivery is called at most once for each
\* attempt number below the limit and once more for each fault
\* (webhooks/service/service.go:302-304, store/webhook.go:316-322).
THEOREM CallsAreBounded == ASSUME NEW s, Servers = {s} PROVE Spec => []CallsBounded
<1> DEFINE Budget == \A d \in Ids : BudgetOf(s, d)
<1>1. Init => Budget
  <2> SUFFICES ASSUME Init, NEW d \in Ids PROVE BudgetOf(s, d)
    OBVIOUS
  <2>1. /\ ~Busy(sender[s]) /\ DOMAIN retrier[s].todo = {} /\ retrier[s].pc = "idle"
        /\ attempt[d] = 1 /\ calls[d] = 0 /\ faults = 0 /\ status[d] = "pending"
    BY DEF Init, IdleSender, IdleRetrier, Busy
  <2>2. ~InPass(s, d) /\ ~Rested(s, d) /\ ~First(s, d)
    BY <2>1 DEF InPass, Rested, First, Retryable, Settled
  <2>3. MaxAttempt \in Nat /\ MaxAttempt > 1
    <3>1. MaxAttempt \in Nat /\ MaxAttempt # 0 /\ MaxAttempt # 1
      BY DeliveryAssumption
    <3> QED
      BY <3>1
  <2> QED
    BY <2>1, <2>2, <2>3 DEF BudgetOf
<1>2. Fits /\ Fits' /\ Own(s) /\ Budget /\ [Next]_vars => Budget'
  <2> SUFFICES ASSUME Fits, Fits', Own(s), Budget, [Next]_vars, NEW d \in Ids
               PROVE  BudgetOf(s, d)'
    OBVIOUS
  <2>1. BudgetOf(s, d)
    OBVIOUS
  <2>2. CASE ServerStep(s)
    BY <2>1, <2>2, BudgetOfSender, BudgetOfRetrier DEF ServerStep, SenderStep
  <2>3. CASE UpdateWebhook \/ BecomesDue \/ UNCHANGED vars
    <3>1. UNCHANGED <<owner, status, attempt, sender, retrier, faults, calls>>
          /\ (Scheduled(d)' <=> Scheduled(d))
      <4>1. CASE UpdateWebhook \/ UNCHANGED vars
        BY <4>1 DEF UpdateWebhook, vars, table, schedule, history, Scheduled
      <4>2. CASE BecomesDue
        BY <4>2, BecomingDue DEF Fits, table, history
      <4> QED
        BY <2>3, <4>1, <4>2
    <3>2. /\ Rested(s, d)' <=> Rested(s, d)
          /\ InPass(s, d)' <=> InPass(s, d)
          /\ First(s, d)' <=> First(s, d)
          /\ Uncalled(s, d)' <=> Uncalled(s, d)
      BY <3>1 DEF Rested, InPass, First, Uncalled, Called, Settled, Delivery, Retryable, Busy
    <3>3. Counters(d) /\ Counters(d)'
      BY CountersFit
    <3> QED
      BY <2>1, <3>1, <3>2, <3>3, BudgetKept
  <2> QED
    BY <2>2, <2>3 DEF Next, ServerStep
<1>3. Fits /\ Budget => CallsBounded
  <2> SUFFICES ASSUME Fits, Budget, NEW d \in Rows PROVE calls[d] <= MaxAttempt - 1 + faults
    BY DEF CallsBounded
  <2>1. d \in Ids
    BY RowsAreIds DEF Fits, Rows
  <2>2. BudgetOf(s, d)
    BY <2>1
  <2>3. MaxAttempt \in Nat /\ attempt[d] \in Nat /\ calls[d] \in Nat /\ faults \in Nat
    BY <2>1, DeliveryAssumption DEF Fits, TypeOK
  <2> DEFINE a == attempt[d]
             c == calls[d]
  <2>4. a \in 1 .. MaxAttempt /\ c <= a + faults /\ (a = MaxAttempt => c <= a - 1 + faults)
    BY <2>2 DEF BudgetOf
  <2>5. MaxAttempt \in Nat /\ a \in Nat /\ c \in Nat /\ faults \in Nat
    BY <2>3
  <2> HIDE DEF a, c
  <2>6. c <= MaxAttempt - 1 + faults
    BY <2>4, <2>5
  <2> QED
    BY <2>6 DEF c
<1> QED
  BY <1>1, <1>2, <1>3, DeliveryTypeCorrect, OwnAlways, PTL DEF Spec

-----------------------------------------------------------------------------
(* Billing: types, and what events say of subscriptions.                   *)

Account == [email : Emails, kind : Kinds, customer : Nat]
StripeStatuses == {"active", "incomplete", "past_due", "canceled"}
State == [customer : Nat, price : Prices, status : StripeStatuses \cup {"none"}, ending : BOOLEAN, version : Nat]
SubscriptionTypes == {"created", "updated", "deleted"}
InvoiceTypes == {"paid", "payment_failed"}
PriceTypes == {"product.created", "price.created", "price.updated", "price.deleted"}
Event == [type : SubscriptionTypes \cup InvoiceTypes \cup PriceTypes, sub : Nat, price : Prices, state : State,
          was : StripeStatuses \cup {"none"}, left : Nat]
SubscriptionRow == [user : Nat, price : Prices, sub : Nat, status : StripeStatuses \cup {"none"}]
RequestPcs == {"idle", "create", "customer", "link", "free", "checkout", "session", "cancel"}
BillingRequest == [pc : RequestPcs, email : Emails \cup {"none"}, kind : Kinds \cup {"none"}, user : Nat,
                   customer : Nat, price : Prices, sub : Nat]
RowPcs == {"customer", "created_price", "insert"}
UpdatePcs == {"update_price", "update"}
InvoicePcs == {"stripe_cancel", "stripe_get"}
PricePcs == {"insert_product", "find_product", "fetch_product", "insert_price", "product_of_price", "rewrite_price",
             "delete_price"}
WebhookJob == [pc : {"idle", "cancel"} \cup RowPcs \cup UpdatePcs \cup InvoicePcs \cup PricePcs, event : Nat, state : State,
               user : Nat]

\* What a row says when it shows state.
Shown(state) == IF state.ending THEN "canceled" ELSE state.status
ShowsState(k, state) == row[k].status = Shown(state) /\ (row[k].status # "canceled" => row[k].price = state.price)

\* State is what some event tells of s.
IsTold(s, state) == \E e \in DOMAIN event : event[e].sub = s /\ event[e].state = state

\* A handler is at a step its event leads to, with a state some event tells.
Handles(j) ==
  j.pc # "idle" =>
    /\ j.event \in DOMAIN event
    /\ j.pc \in RowPcs => FirstStep(event[j.event]) = "customer" /\ j.state = event[j.event].state
    /\ j.pc \in UpdatePcs => ~j.state.ending /\ event[j.event].type \in {"updated", "paid"}
    /\ j.pc = "cancel" => Shown(j.state) = "canceled" /\ event[j.event].type \in {"updated", "deleted", "paid"}
    /\ j.pc \in UpdatePcs \cup {"cancel"} =>
         /\ IsTold(event[j.event].sub, j.state)
         /\ event[j.event].type # "paid" => j.state = event[j.event].state /\ FirstStep(event[j.event]) # "customer"
    /\ j.pc = "stripe_cancel" => event[j.event].type = "payment_failed"
    /\ j.pc = "stripe_get" => event[j.event].type = "paid"
    /\ j.pc \in PricePcs => event[j.event].type \in PriceTypes

BillingTypeOK ==
  /\ user \in Seq(Account) /\ row \in Seq(SubscriptionRow)
  /\ req \in [Requests -> BillingRequest] /\ job \in [Workers -> WebhookJob]
  /\ customers \in Nat /\ stripe \in Seq(State) /\ listed \subseteq Prices
  /\ event \in Seq(Event) /\ applied \in Seq(Nat) /\ Len(applied) = Len(stripe)

\* A request creates an account for an address, checks out for a user there is or
\* cancels a subscription there is.
Serves(q) ==
  /\ q.pc = "create" => q.email \in Emails
  /\ q.pc = "cancel" => q.sub \in DOMAIN stripe
  /\ q.pc = "checkout" => q.user \in DOMAIN user

\* Rows and events name subscriptions there are.
Links ==
  /\ \A e \in DOMAIN event : IF event[e].type \in PriceTypes THEN event[e].sub = 0 ELSE event[e].sub \in DOMAIN stripe
  /\ \A k \in DOMAIN row : row[k].sub \in DOMAIN stripe
  /\ \A r \in Requests : Serves(req[r])

BillingFit == BillingTypeOK /\ Links /\ (\A w \in Workers : Handles(job[w]))

\* e makes a row.
Makes(e) == FirstStep(event[e]) = "customer" /\ ~Hopeless(event[e])

\* Events tell what their subscription was at their version, one of them what it is
\* now, and those that make a row tell of one version: the first that was active.
Told ==
  /\ \A e \in DOMAIN event : event[e].sub # 0 => event[e].state.version <= stripe[event[e].sub].version
  /\ \A e, f \in DOMAIN event :
       event[e].sub = event[f].sub /\ event[e].sub # 0 /\ event[e].state.version = event[f].state.version
         => event[e].state = event[f].state
  /\ \A s \in DOMAIN stripe : stripe[s].status # "none" /\
       \E e \in DOMAIN event : event[e].sub = s /\ event[e].type \in SubscriptionTypes /\ event[e].state = stripe[s]
  /\ \A e \in DOMAIN event : event[e].type = "deleted" => event[e].state.status = "canceled"
  /\ \A e \in DOMAIN event : Makes(e) => event[e].state.status = "active" /\ ~event[e].state.ending
  /\ \A e, f \in DOMAIN event : Makes(e) /\ Makes(f) /\ event[e].sub = event[f].sub
       => event[e].state.version = event[f].state.version
  /\ \A s \in DOMAIN stripe : stripe[s].status = "incomplete" =>
       ~stripe[s].ending /\ \A e \in DOMAIN event : event[e].sub = s => Hopeless(event[e])

AtWork(e) == \E w \in Workers : job[w].pc # "idle" /\ job[w].event = e
HasShown(e) ==
  /\ applied[event[e].sub] >= event[e].state.version
  /\ FirstStep(event[e]) = "customer" => Of(event[e].sub) # {}
\* An event of a subscription is to be delivered, with a handler, given up or shown.
Progress ==
  \A e \in DOMAIN event : event[e].type \in SubscriptionTypes =>
     event[e].left > 0 \/ AtWork(e) \/ event[e].sub \in abandoned \/ HasShown(e)

\* A subscription no older version was written to shows the newest one written, and
\* has rows only if a version that makes one was.
RowsShow ==
  \A s \in DOMAIN stripe :
    /\ applied[s] <= stripe[s].version
    /\ Of(s) # {} => \E e \in DOMAIN event : event[e].sub = s /\ Makes(e) /\ event[e].state.version <= applied[s]
    /\ s \notin overtaken =>
         \A k \in Of(s), e \in DOMAIN event :
           event[e].sub = s /\ event[e].state.version = applied[s] => ShowsState(k, event[e].state)

AccountsOf(m) == {u \in DOMAIN user : user[u].email = m}
Creating(m) == {r \in Requests : req[r].pc = "create" /\ req[r].email = m}
\* Accounts of an address and the requests about to create one fit in the requests.
Accounts ==
  /\ \A u, v \in DOMAIN user : user[u].email = user[v].email /\ user[u].kind = "email" /\ user[v].kind = "email" => u = v
  /\ \A m \in Emails : Cardinality(AccountsOf(m)) + Cardinality(Creating(m)) <= Cardinality(Requests)

BillingInv == BillingFit /\ Told /\ Progress /\ RowsShow /\ Accounts

-----------------------------------------------------------------------------
(* Kinds of steps of Billing.                                              *)

\* What is told of an event, apart from its deliveries.
SameTale(e, f) == e.type = f.type /\ e.sub = f.sub /\ e.price = f.price /\ e.state = f.state /\ e.was = f.was

\* Nothing is told, and the deliveries may change.
Retells ==
  /\ event' \in Seq(Event) /\ DOMAIN event' = DOMAIN event /\ stripe' = stripe
  /\ \A e \in DOMAIN event : SameTale(event'[e], event[e])

\* Events are added.
Tells ==
  /\ event' \in Seq(Event) /\ DOMAIN event \subseteq DOMAIN event'
  /\ \A e \in DOMAIN event : event'[e] = event[e]

KeepsRows == UNCHANGED <<row, applied, overtaken>>

Still == KeepsRows /\ UNCHANGED <<job, stripe, event, abandoned>>

SubscriptionBegins(state) ==
  /\ state \in State /\ state.version = 1 /\ state.status \in {"active", "incomplete"} /\ ~state.ending
  /\ stripe' = Append(stripe, state) /\ applied' = Append(applied, 0)
  /\ Tells
  /\ \A e \in DOMAIN event' \ DOMAIN event :
       SameTale(event'[e], About("created", Len(stripe) + 1, state, "none")) /\ event'[e].left = 1
  /\ DOMAIN event' # DOMAIN event
  /\ UNCHANGED <<row, job, overtaken, abandoned>>

\* A change of s, told in an event of the subscription and maybe in one of an invoice.
SubscriptionChanges(s, state) ==
  /\ s \in DOMAIN stripe /\ state \in State /\ state.version = stripe[s].version + 1
  /\ state.status \in {"active", "past_due", "canceled"}
  /\ stripe' = [stripe EXCEPT ![s] = state]
  /\ Tells
  /\ \A e \in DOMAIN event' \ DOMAIN event :
       /\ event'[e].sub = s /\ event'[e].state = state /\ event'[e].left = 1
       /\ event'[e].type \in {"updated", "deleted"} \cup InvoiceTypes
       /\ event'[e].type = "deleted" => state.status = "canceled"
       /\ event'[e].type = "updated" /\ event'[e].was = "incomplete"
            => stripe[s].status = "incomplete" /\ state.status = "active" /\ state.ending = stripe[s].ending
  /\ \E e \in DOMAIN event' \ DOMAIN event : event'[e].type \in SubscriptionTypes
  /\ KeepsRows /\ abandoned' = abandoned
  /\ \/ job' = job
     \/ \E w \in Workers : /\ job[w].pc = "stripe_cancel"
                           /\ job' = [job EXCEPT ![w] = IdleJob]

CatalogueTells ==
  /\ Tells /\ KeepsRows /\ UNCHANGED <<job, stripe, abandoned>>
  /\ \A e \in DOMAIN event' \ DOMAIN event : event'[e].type \in PriceTypes /\ event'[e].sub = 0

\* A handler begins, refuses, goes on, or ends with an event about a price.
Delivered(w, e) ==
  /\ e \in DOMAIN event /\ job[w].pc = "idle"
  /\ Retells /\ KeepsRows /\ abandoned' = abandoned
  /\ \A f \in DOMAIN event : f # e => event'[f].left = event[f].left
  /\ job' = [job EXCEPT ![w] = [pc |-> FirstStep(event[e]), event |-> e, state |-> event[e].state, user |-> 0]]

Refused(w) ==
  /\ job[w].pc # "idle"
  /\ Retells /\ KeepsRows /\ abandoned' = abandoned
  /\ event'[job[w].event].left > 0
  /\ \A f \in DOMAIN event : event'[f].left >= event[f].left
  /\ job' = [job EXCEPT ![w] = IdleJob]

GoesOn(w, j) ==
  /\ job[w].pc # "idle" /\ j \in WebhookJob /\ j.pc # "idle" /\ j.event = job[w].event /\ Handles(j)
  /\ job' = [job EXCEPT ![w] = j]
  /\ KeepsRows /\ UNCHANGED <<event, stripe, abandoned>>

Finishes(w) ==
  /\ job[w].pc \in PricePcs
  /\ job' = [job EXCEPT ![w] = IdleJob]
  /\ KeepsRows /\ UNCHANGED <<event, stripe, abandoned>>

\* A handler writes the rows of its subscription: it adds one or rewrites them all.
Inserts(w, new) ==
  /\ job[w].pc = "insert" /\ job[w].state.status # "incomplete"
  /\ new \in SubscriptionRow /\ new.sub = SubOf(w)
  /\ new.status = job[w].state.status /\ new.price = job[w].state.price
  /\ row' = Append(row, new)

Rewrites(w) ==
  /\ job[w].pc \in {"update", "cancel"}
  /\ row' \in Seq(SubscriptionRow) /\ DOMAIN row' = DOMAIN row
  /\ \A k \in DOMAIN row : row'[k].sub = row[k].sub
  /\ \A k \in DOMAIN row : row[k].sub # SubOf(w) => row'[k] = row[k]
  /\ \A k \in DOMAIN row : row[k].sub = SubOf(w) =>
       /\ row'[k].status = Shown(job[w].state)
       /\ row'[k].status # "canceled" => row'[k].price = job[w].state.price

Writes(w) ==
  /\ (\E new : Inserts(w, new)) \/ Rewrites(w)
  /\ Shows(SubOf(w), job[w].state.version)
  /\ job' = [job EXCEPT ![w] = IdleJob]
  /\ UNCHANGED <<stripe, event>>

Repeats ==
  /\ Retells /\ KeepsRows /\ UNCHANGED <<job, abandoned>>
  /\ \A f \in DOMAIN event : event'[f].left >= event[f].left

Abandons(e) ==
  /\ e \in DOMAIN event
  /\ Retells /\ KeepsRows /\ job' = job
  /\ \A f \in DOMAIN event : f # e => event'[f].left = event[f].left
  /\ abandoned' = abandoned \cup {event[e].sub}

StripeMoves == (\E state : SubscriptionBegins(state)) \/ (\E s, state : SubscriptionChanges(s, state)) \/ CatalogueTells
HandlerMoves(w) ==
  \/ \E e : Delivered(w, e)
  \/ \E j : GoesOn(w, j)
  \/ Refused(w) \/ Finishes(w) \/ Writes(w)
Courses == Still \/ StripeMoves \/ (\E w \in Workers : HandlerMoves(w)) \/ Repeats \/ (\E e : Abandons(e))

\* What becomes of accounts and requests.
NoNewCreation ==
  /\ \A r \in Requests : req'[r].pc = "create" => req[r].pc = "create" /\ req'[r].email = req[r].email
LooksUp ==
  /\ user' = user
  /\ \E r \in Requests :
       /\ \A q \in Requests \ {r} : req'[q] = req[q]
       /\ req'[r].pc = "create" /\ ~CheckIfEmailExists(req'[r].email)
Opens ==
  \E r \in Requests, new \in Account :
    /\ req[r].pc = "create" /\ req'[r].pc # "create"
    /\ \A q \in Requests \ {r} : req'[q] = req[q]
    /\ user' = Append(user, new) /\ new.email = req[r].email
    /\ new.kind = "email" => ~EmailAuthTaken(new.email)
KeepsAccounts ==
  /\ DOMAIN user' = DOMAIN user
  /\ \A u \in DOMAIN user : user'[u].email = user[u].email /\ user'[u].kind = user[u].kind
AccountMoves ==
  /\ user' \in Seq(Account) /\ req' \in [Requests -> BillingRequest] /\ customers' \in Nat /\ listed' \subseteq Prices
  /\ \A r \in Requests : Serves(req'[r])
  /\ (KeepsAccounts /\ NoNewCreation) \/ LooksUp \/ Opens

Moves == AccountMoves /\ Courses

-----------------------------------------------------------------------------
(* Events, and what a handler begins with.                                 *)

LEMMA FirstSteps ==
  ASSUME NEW e, e.type \in SubscriptionTypes \cup InvoiceTypes \cup PriceTypes
  PROVE  /\ FirstStep(e) = "customer" <=> e.type = "created" \/ (e.type = "updated" /\ e.was = "incomplete")
         /\ e.type = "updated" /\ e.was # "incomplete"
              => FirstStep(e) = IF e.state.ending THEN "cancel" ELSE "update_price"
         /\ e.type = "deleted" => FirstStep(e) = "cancel"
         /\ e.type = "payment_failed" => FirstStep(e) = "stripe_cancel"
         /\ e.type = "paid" => FirstStep(e) = "stripe_get"
         /\ e.type \in PriceTypes => FirstStep(e) \in PricePcs
<1>1. CASE e.type = "created"
  BY <1>1 DEF FirstStep, PriceTypes
<1>2. CASE e.type = "updated"
  BY <1>2 DEF FirstStep, PriceTypes
<1>3. CASE e.type = "deleted"
  BY <1>3 DEF FirstStep, PriceTypes
<1>4. CASE e.type \in InvoiceTypes
  BY <1>4 DEF FirstStep, PriceTypes, InvoiceTypes
<1>5. CASE e.type \in PriceTypes
  BY <1>5 DEF FirstStep, PriceTypes, PricePcs
<1> QED
  BY <1>1, <1>2, <1>3, <1>4, <1>5 DEF SubscriptionTypes

\* Events that tell the same are handled alike.
LEMMA SameFirstStep ==
  ASSUME NEW e \in Event, NEW f \in Event, SameTale(e, f)
  PROVE  FirstStep(e) = FirstStep(f) /\ (Hopeless(e) <=> Hopeless(f))
<1>1. e.type = f.type /\ e.was = f.was /\ e.state = f.state
  BY DEF SameTale
<1> QED
  BY <1>1 DEF FirstStep, Hopeless

LEMMA Rest ==
  ASSUME BillingAssumption
  PROVE  /\ NoState \in State /\ IdleJob \in WebhookJob /\ Idle \in BillingRequest
         /\ Idle.pc = "idle" /\ IdleJob.pc = "idle"
         /\ Idle.email = "none" /\ Idle.kind = "none" /\ Handles(IdleJob)
BY DEF BillingAssumption, NoState, State, IdleJob, WebhookJob, Idle, BillingRequest, RequestPcs, NoCustomer,
   StripeStatuses, Handles

LEMMA BillingSequences ==
  ASSUME BillingFit
  PROVE  /\ DOMAIN user = 1 .. Len(user) /\ Len(user) \in Nat /\ \A u \in DOMAIN user : user[u] \in Account
         /\ DOMAIN row = 1 .. Len(row) /\ Len(row) \in Nat /\ \A k \in DOMAIN row : row[k] \in SubscriptionRow
         /\ DOMAIN stripe = 1 .. Len(stripe) /\ Len(stripe) \in Nat /\ \A s \in DOMAIN stripe : stripe[s] \in State
         /\ DOMAIN event = 1 .. Len(event) /\ Len(event) \in Nat /\ \A e \in DOMAIN event : event[e] \in Event
         /\ DOMAIN applied = DOMAIN stripe /\ \A s \in DOMAIN stripe : applied[s] \in Nat
BY DEF BillingFit, BillingTypeOK

LEMMA BillingInitFits == BillingInit => BillingInv
<1> SUFFICES ASSUME BillingInit PROVE BillingInv
  OBVIOUS
<1>1. /\ user = <<>> /\ row = <<>> /\ stripe = <<>> /\ event = <<>> /\ applied = <<>> /\ customers = 0
      /\ listed \subseteq Prices
      /\ req = [r \in Requests |-> Idle] /\ job = [w \in Workers |-> IdleJob]
  BY DEF BillingInit
<1>2. /\ user \in Seq(Account) /\ row \in Seq(SubscriptionRow) /\ stripe \in Seq(State) /\ event \in Seq(Event)
      /\ applied \in Seq(Nat) /\ Len(applied) = Len(stripe)
  BY <1>1
<1>3. BillingTypeOK
  BY <1>1, <1>2, Rest, BillingAssumption DEF BillingTypeOK
<1>4. DOMAIN user = {} /\ DOMAIN row = {} /\ DOMAIN stripe = {} /\ DOMAIN event = {}
  BY <1>1
<1>5. Links
  BY <1>1, <1>4, Rest, BillingAssumption DEF Links, Serves
<1>6. \A w \in Workers : Handles(job[w])
  BY <1>1, Rest, BillingAssumption
<1>7. Told /\ Progress /\ RowsShow
  BY <1>4 DEF Told, Progress, RowsShow
<1>8. \A m \in Emails : AccountsOf(m) = {} /\ Creating(m) = {}
  BY <1>1, <1>4, Rest, BillingAssumption DEF AccountsOf, Creating
<1>9. Accounts
  <2>1. Cardinality({}) = 0 /\ Cardinality(Requests) \in Nat
    BY FS_EmptySet, FS_CardinalityType, BillingAssumption DEF BillingAssumption
  <2>2. ASSUME NEW m \in Emails
        PROVE  Cardinality(AccountsOf(m)) + Cardinality(Creating(m)) <= Cardinality(Requests)
    <3>1. Cardinality(AccountsOf(m)) = 0 /\ Cardinality(Creating(m)) = 0
      BY <1>8, <2>1
    <3> QED
      BY <2>1, <3>1
  <2> QED
    BY <1>4, <2>2 DEF Accounts
<1> QED
  BY <1>3, <1>5, <1>6, <1>7, <1>9 DEF BillingInv, BillingFit

-----------------------------------------------------------------------------
(* What requests do.                                                       *)

\* A request becomes q.
LEMMA RequestBecomes ==
  ASSUME BillingFit, NEW r \in Requests, NEW q \in BillingRequest, req' = [req EXCEPT ![r] = q],
         q.pc = "create" => req[r].pc = "create" /\ q.email = req[r].email,
         q.pc = "cancel" => q.sub \in DOMAIN stripe,
         q.pc = "checkout" => q.user \in DOMAIN user
  PROVE  /\ req' \in [Requests -> BillingRequest] /\ req'[r] = q
         /\ \A p \in Requests \ {r} : req'[p] = req[p]
         /\ NoNewCreation
         /\ \A p \in Requests : Serves(req'[p])
<1>1. req \in [Requests -> BillingRequest]
  BY DEF BillingFit, BillingTypeOK
<1>2. req' \in [Requests -> BillingRequest] /\ req'[r] = q /\ \A p \in Requests \ {r} : req'[p] = req[p]
  BY <1>1
<1>3. \A p \in Requests : Serves(req[p])
  BY DEF BillingFit, Links
<1> QED
  BY <1>2, <1>3 DEF NoNewCreation, Serves

\* A request that leaves the accounts as they are.
LEMMA RequestGoes ==
  ASSUME BillingFit, NEW r \in Requests, NEW q \in BillingRequest, req' = [req EXCEPT ![r] = q],
         q.pc \in {"create", "cancel", "checkout"} => q = req[r], user' = user, customers' \in Nat, listed' = listed
  PROVE  AccountMoves
<1>1. /\ req[r].pc = "cancel" => req[r].sub \in DOMAIN stripe
      /\ req[r].pc = "checkout" => req[r].user \in DOMAIN user
  BY DEF BillingFit, Links, Serves
<1>2. /\ q.pc = "create" => req[r].pc = "create" /\ q.email = req[r].email
      /\ q.pc = "cancel" => q.sub \in DOMAIN stripe
      /\ q.pc = "checkout" => q.user \in DOMAIN user
  BY <1>1
<1>3. /\ req' \in [Requests -> BillingRequest] /\ NoNewCreation
      /\ \A p \in Requests : Serves(req'[p])
  BY <1>2, RequestBecomes
<1>4. user' \in Seq(Account) /\ listed' \subseteq Prices /\ KeepsAccounts
  BY DEF BillingFit, BillingTypeOK, KeepsAccounts
<1> QED
  BY <1>3, <1>4 DEF AccountMoves

\* A step that no request takes.
LEMMA RequestsWait ==
  ASSUME BillingFit, UNCHANGED <<user, req, customers>>, listed' \subseteq Prices
  PROVE  AccountMoves
BY DEF BillingFit, BillingTypeOK, Links, AccountMoves, KeepsAccounts, NoNewCreation

\* An answer.
LEMMA RequestAnswers ==
  ASSUME BillingFit, NEW r \in Requests, Answers(r), user' = user, customers' \in Nat, listed' = listed
  PROVE  AccountMoves
<1>1. req' = [req EXCEPT ![r] = Idle] /\ Idle \in BillingRequest /\ Idle.pc = "idle"
  BY Rest, BillingAssumption DEF Answers
<1> QED
  BY <1>1, RequestGoes

\* A look-up of an address begins a creation, or ends in an answer.
LEMMA LookUpMoves ==
  ASSUME BillingFit, NEW r \in Requests, NEW m \in Emails, NEW kind \in Kinds, LooksForEmail(r, m, kind)
  PROVE  Moves
<1>1. /\ UNCHANGED <<user, row, job, customers, stripe, listed, event, applied, overtaken, abandoned>>
      /\ req' = [req EXCEPT ![r] = IF CheckIfEmailExists(m) THEN Idle
                                   ELSE [Idle EXCEPT !.pc = "create", !.email = m, !.kind = kind]]
  BY DEF LooksForEmail, Begins, tables, stripes, billingHistory
<1>2. Still
  BY <1>1 DEF Still, KeepsRows
<1>3. customers \in Nat /\ listed \subseteq Prices /\ user \in Seq(Account) /\ req \in [Requests -> BillingRequest]
  BY DEF BillingFit, BillingTypeOK
<1>4. CASE CheckIfEmailExists(m)
  <2>1. AccountMoves
    BY <1>1, <1>3, <1>4, RequestAnswers DEF Answers
  <2> QED
    BY <1>2, <2>1 DEF Moves, Courses
<1>5. CASE ~CheckIfEmailExists(m)
  <2> DEFINE q == [Idle EXCEPT !.pc = "create", !.email = m, !.kind = kind]
  <2>1. q \in BillingRequest /\ q.pc = "create" /\ q.email = m
    BY Rest, BillingAssumption DEF BillingRequest, RequestPcs
  <2> HIDE DEF q
  <2>2. req' = [req EXCEPT ![r] = q]
    BY <1>1, <1>5 DEF q
  <2>3. req' \in [Requests -> BillingRequest] /\ req'[r] = q /\ \A p \in Requests \ {r} : req'[p] = req[p]
    BY <1>3, <2>1, <2>2
  <2>4. \A p \in Requests : Serves(req'[p])
    BY <2>1, <2>3 DEF BillingFit, Links, Serves
  <2>5. LooksUp
    BY <1>1, <1>5, <2>1, <2>3 DEF LooksUp
  <2>6. AccountMoves
    BY <1>1, <1>3, <2>3, <2>4, <2>5 DEF AccountMoves
  <2> QED
    BY <1>2, <2>6 DEF Moves, Courses
<1> QED
  BY <1>4, <1>5

\* The insertion of an account.
LEMMA CreationMoves ==
  ASSUME BillingFit, NEW r \in Requests, CreatesUser(r)
  PROVE  Moves
<1>1. UNCHANGED <<row, job, customers, stripe, listed, event, applied, overtaken, abandoned>>
  BY DEF CreatesUser, stripes, billingHistory
<1>2. Still
  BY <1>1 DEF Still, KeepsRows
<1>3. customers \in Nat /\ listed \subseteq Prices /\ user \in Seq(Account) /\ req \in [Requests -> BillingRequest]
      /\ req[r] \in BillingRequest
  BY DEF BillingFit, BillingTypeOK
<1> DEFINE m == req[r].email
           kind == req[r].kind
<1>4. CASE kind = "email" /\ EmailAuthTaken(m)
  <2>1. Answers(r) /\ user' = user
    BY <1>4 DEF CreatesUser
  <2>2. AccountMoves
    BY <1>1, <1>3, <2>1, RequestAnswers
  <2> QED
    BY <1>2, <2>2 DEF Moves, Courses
<1>5. CASE ~(kind = "email" /\ EmailAuthTaken(m))
  <2> DEFINE q == [req[r] EXCEPT !.pc = "customer", !.user = Len(user) + 1]
             new == [email |-> m, kind |-> IF kind = "email" THEN "email" ELSE "oauth", customer |-> NoCustomer]
  <2>1. req' = [req EXCEPT ![r] = q] /\ user' = Append(user, new) /\ req[r].pc = "create"
    <3>1. req' = [req EXCEPT ![r].pc = "customer", ![r].user = Len(user) + 1] /\ req[r].pc = "create"
      BY <1>5 DEF CreatesUser
    <3>2. user' = Append(user, new)
      BY <1>5 DEF CreatesUser, CreateUserOnEmailSignup, CreateUserOnGoogleSignIn
    <3> QED
      BY <1>3, <3>1, <3>2
  <2>2. Len(user) + 1 \in Nat
    BY <1>3
  <2>3. q \in BillingRequest /\ q.pc = "customer"
    BY <1>3, <2>2 DEF BillingRequest, RequestPcs
  <2>4. m \in Emails
    BY <2>1 DEF BillingFit, Links, Serves
  <2>5. new \in Account /\ new.email = m /\ (new.kind = "email" => kind = "email")
    BY <2>4 DEF Account, Kinds, NoCustomer
  <2> HIDE DEF q, new
  <2>6. /\ req' \in [Requests -> BillingRequest] /\ req'[r] = q /\ \A p \in Requests \ {r} : req'[p] = req[p]
        /\ \A p \in Requests : Serves(req'[p])
    BY <2>1, <2>3, RequestBecomes
  <2>7. Opens
    BY <1>5, <2>1, <2>3, <2>5, <2>6 DEF Opens
  <2>8. user' \in Seq(Account)
    BY <1>3, <2>1, <2>5
  <2>9. AccountMoves
    BY <1>1, <1>3, <2>6, <2>7, <2>8 DEF AccountMoves
  <2> QED
    BY <1>2, <2>9 DEF Moves, Courses
<1> QED
  BY <1>4, <1>5

-----------------------------------------------------------------------------
(* What Stripe does.                                                       *)

\* Events are added at the end.
LEMMA EventsAdded ==
  ASSUME BillingFit, NEW new \in Seq(Event), event' = event \o new
  PROVE  /\ Tells
         /\ \A e \in DOMAIN event' \ DOMAIN event : \E i \in DOMAIN new : event'[e] = new[i]
         /\ \A i \in DOMAIN new :
              Len(event) + i \in DOMAIN event' \ DOMAIN event /\ event'[Len(event) + i] = new[i]
<1>1. event \in Seq(Event)
  BY DEF BillingFit, BillingTypeOK
<1>2. /\ event' \in Seq(Event) /\ Len(event') = Len(event) + Len(new) /\ Len(event) \in Nat /\ Len(new) \in Nat
      /\ DOMAIN event = 1 .. Len(event) /\ DOMAIN new = 1 .. Len(new)
      /\ \A i \in 1 .. Len(event) + Len(new) :
           event'[i] = IF i <= Len(event) THEN event[i] ELSE new[i - Len(event)]
  BY <1>1, ConcatProperties, LenProperties
<1>3. DOMAIN event' = 1 .. Len(event) + Len(new)
  BY <1>2
<1>4. Tells
  BY <1>2, <1>3 DEF Tells
<1>5. ASSUME NEW e \in DOMAIN event' \ DOMAIN event PROVE \E i \in DOMAIN new : event'[e] = new[i]
  <2>1. e - Len(event) \in DOMAIN new /\ event'[e] = new[e - Len(event)]
    BY <1>2, <1>3
  <2> QED
    BY <2>1
<1>6. ASSUME NEW i \in DOMAIN new
      PROVE  Len(event) + i \in DOMAIN event' \ DOMAIN event /\ event'[Len(event) + i] = new[i]
  <2>1. Len(event) + i \in 1 .. Len(event) + Len(new) /\ Len(event) + i > Len(event) /\ (Len(event) + i) - Len(event) = i
    BY <1>2
  <2> QED
    BY <1>2, <1>3, <2>1
<1> QED
  BY <1>4, <1>5, <1>6

\* What is told of a state is an event.
LEMMA AboutIsEvent ==
  ASSUME NEW type \in SubscriptionTypes \cup InvoiceTypes \cup PriceTypes, NEW s \in Nat, NEW state \in State,
         NEW was \in StripeStatuses \cup {"none"}
  PROVE  /\ About(type, s, state, was) \in Event
         /\ About(type, s, state, was).type = type /\ About(type, s, state, was).sub = s
         /\ About(type, s, state, was).state = state /\ About(type, s, state, was).was = was
         /\ About(type, s, state, was).left = 1
BY DEF About, Event, State

\* A subscription begins.
LEMMA NewSubscriptionBegins ==
  ASSUME BillingFit, NEW c \in Nat, NEW p \in Prices, NEW st \in {"active", "incomplete"},
         NewSubscription(c, p, st), UNCHANGED <<row, job, overtaken, abandoned>>
  PROVE  Courses
<1> DEFINE state == [customer |-> c, price |-> p, status |-> st, ending |-> FALSE, version |-> 1]
           tale == About("created", Len(stripe) + 1, state, "none")
<1>1. state \in State /\ state.version = 1 /\ state.status \in {"active", "incomplete"} /\ ~state.ending
  BY DEF State, StripeStatuses
<1>2. /\ stripe' = Append(stripe, state) /\ applied' = Append(applied, 0)
      /\ Emits(<<tale>>)
  BY DEF NewSubscription
<1> HIDE DEF state
<1>3. Len(stripe) + 1 \in Nat
  BY BillingSequences
<1>4. tale \in Event /\ tale.left = 1
  <2>1. "created" \in SubscriptionTypes \cup InvoiceTypes \cup PriceTypes /\ "none" \in StripeStatuses \cup {"none"}
    BY DEF SubscriptionTypes
  <2> QED
    BY <1>1, <1>3, <2>1, AboutIsEvent
<1> HIDE DEF tale
<1>5. event' = event \o <<tale>> /\ <<tale>> \in Seq(Event) /\ DOMAIN <<tale>> = {1} /\ <<tale>>[1] = tale
  BY <1>2, <1>4 DEF Emits
<1>6. /\ Tells /\ \A e \in DOMAIN event' \ DOMAIN event : event'[e] = tale
      /\ Len(event) + 1 \in DOMAIN event' \ DOMAIN event
  BY <1>5, EventsAdded
<1>7. SubscriptionBegins(state)
  BY <1>1, <1>2, <1>4, <1>6 DEF SubscriptionBegins, SameTale, tale
<1> QED
  BY <1>7 DEF Courses, StripeMoves

\* A subscription changes.
LEMMA BecomesChanges ==
  ASSUME BillingFit, NEW s \in DOMAIN stripe, NEW state \in State, NEW type \in {"updated", "deleted"},
         NEW invoices \in Seq(InvoiceTypes),
         Becomes(s, state, type, invoices),
         state.status \in {"active", "past_due", "canceled"},
         type = "deleted" => state.status = "canceled",
         type = "updated" /\ stripe[s].status = "incomplete"
           => state.status = "active" /\ state.ending = stripe[s].ending,
         KeepsRows, abandoned' = abandoned,
         \/ job' = job
         \/ \E w \in Workers : job[w].pc = "stripe_cancel" /\ job' = [job EXCEPT ![w] = IdleJob]
  PROVE  Courses
<1> DEFINE new == [state EXCEPT !.version = stripe[s].version + 1]
           tale == About(type, s, new, stripe[s].status)
           invs == [i \in DOMAIN invoices |-> About(invoices[i], s, new, "none")]
<1>1. s \in Nat /\ stripe[s] \in State /\ stripe[s].version + 1 \in Nat
  BY BillingSequences DEF State
<1>2. /\ new \in State /\ new.version = stripe[s].version + 1 /\ new.status = state.status
      /\ new.ending = state.ending
  BY <1>1 DEF State
<1>3. stripe' = [stripe EXCEPT ![s] = new] /\ event' = event \o (<<tale>> \o invs)
  BY DEF Becomes, Emits
<1> HIDE DEF new
<1>4. /\ tale \in Event /\ tale.type = type /\ tale.sub = s /\ tale.state = new /\ tale.was = stripe[s].status
      /\ tale.left = 1
  BY <1>1, <1>2, AboutIsEvent DEF SubscriptionTypes, State
<1>5. ASSUME NEW i \in DOMAIN invoices
      PROVE  /\ invs[i] \in Event /\ invs[i].type \in InvoiceTypes /\ invs[i].sub = s /\ invs[i].state = new
             /\ invs[i].was = "none" /\ invs[i].left = 1
  <2>1. invoices[i] \in InvoiceTypes
    OBVIOUS
  <2>2. invs[i] = About(invoices[i], s, new, "none")
    OBVIOUS
  <2> HIDE DEF invs
  <2> QED
    BY <1>1, <1>2, <2>1, <2>2, AboutIsEvent
<1>6. invs \in Seq(Event) /\ DOMAIN invs = DOMAIN invoices
  <2>1. DOMAIN invoices = 1 .. Len(invoices) /\ Len(invoices) \in Nat
    OBVIOUS
  <2>2. invs \in [1 .. Len(invoices) -> Event]
    BY <1>5, <2>1
  <2> QED
    BY <2>1, <2>2
<1> HIDE DEF tale, invs
<1> DEFINE news == <<tale>> \o invs
<1>7. <<tale>> \in Seq(Event) /\ Len(<<tale>>) = 1 /\ <<tale>>[1] = tale
  BY <1>4
<1>8. /\ news \in Seq(Event) /\ DOMAIN news = 1 .. 1 + Len(invs) /\ Len(invs) \in Nat
      /\ \A i \in 1 .. 1 + Len(invs) : news[i] = IF i <= 1 THEN tale ELSE invs[i - 1]
  <2>1. /\ <<tale>> \o invs \in Seq(Event) /\ Len(<<tale>> \o invs) = 1 + Len(invs) /\ Len(invs) \in Nat
        /\ \A i \in 1 .. 1 + Len(invs) : (<<tale>> \o invs)[i] = IF i <= 1 THEN <<tale>>[i] ELSE invs[i - 1]
    BY <1>6, <1>7, ConcatProperties, LenProperties
  <2> QED
    BY <1>7, <2>1
<1>9. ASSUME NEW i \in DOMAIN news PROVE news[i] = tale \/ \E k \in DOMAIN invoices : news[i] = invs[k]
  <2>1. CASE i <= 1
    BY <1>8, <2>1
  <2>2. CASE ~(i <= 1)
    <3>1. i - 1 \in 1 .. Len(invs) /\ news[i] = invs[i - 1]
      BY <1>8, <2>2
    <3>2. DOMAIN invs = 1 .. Len(invs)
      BY <1>6
    <3> QED
      BY <1>6, <3>1, <3>2
  <2> QED
    BY <2>1, <2>2
<1>10. 1 \in DOMAIN news /\ news[1] = tale
  BY <1>8
<1>11. event' = event \o news
  BY <1>3
<1> HIDE DEF news
<1>12. /\ Tells
       /\ \A e \in DOMAIN event' \ DOMAIN event : \E i \in DOMAIN news : event'[e] = news[i]
       /\ Len(event) + 1 \in DOMAIN event' \ DOMAIN event /\ event'[Len(event) + 1] = tale
  BY <1>8, <1>10, <1>11, EventsAdded
<1>13. ASSUME NEW e \in DOMAIN event' \ DOMAIN event
       PROVE  /\ event'[e].sub = s /\ event'[e].state = new /\ event'[e].left = 1
              /\ event'[e].type \in {"updated", "deleted"} \cup InvoiceTypes
              /\ event'[e].type = "deleted" => new.status = "canceled"
              /\ event'[e].type = "updated" /\ event'[e].was = "incomplete"
                   => stripe[s].status = "incomplete" /\ new.status = "active" /\ new.ending = stripe[s].ending
  <2>1. CASE event'[e] = tale
    BY <1>2, <1>4, <2>1
  <2>2. ASSUME NEW k \in DOMAIN invoices, event'[e] = invs[k]
        PROVE  event'[e].sub = s /\ event'[e].state = new /\ event'[e].left = 1 /\ event'[e].type \in InvoiceTypes
    BY <1>5, <2>2
  <2> QED
    BY <1>9, <1>12, <2>1, <2>2 DEF InvoiceTypes
<1>14. SubscriptionChanges(s, new)
  BY <1>2, <1>3, <1>4, <1>12, <1>13 DEF SubscriptionChanges, SubscriptionTypes
<1> QED
  BY <1>14 DEF Courses, StripeMoves

\* Stripe and its customers change subscriptions and prices.
LEMMA StripeStepMoves ==
  ASSUME BillingFit, Told, NEW s \in DOMAIN stripe,
         CardCharged(s) \/ CardRefused(s) \/ PortalUpdates(s) \/ SubscriptionEnds(s)
  PROVE  Moves
<1>1. /\ UNCHANGED <<user, req, customers, listed, row, job, applied, overtaken, abandoned>>
  BY DEF CardCharged, CardRefused, PortalUpdates, SubscriptionEnds, tables, billingHistory
<1>2. KeepsRows
  BY <1>1 DEF KeepsRows
<1>3. AccountMoves
  BY <1>1, RequestsWait DEF BillingFit, BillingTypeOK
<1>4. stripe[s] \in State /\ stripe[s].status # "none" /\ listed \subseteq Prices
  BY BillingSequences DEF Told, BillingFit, BillingTypeOK
<1>5. \A t \in InvoiceTypes : <<t>> \in Seq(InvoiceTypes)
  OBVIOUS
<1>6. <<>> \in Seq(InvoiceTypes)
  OBVIOUS
<1>7. CASE CardCharged(s)
  <2> DEFINE state == [stripe[s] EXCEPT !.status = "active"]
  <2>1. state \in State /\ state.status = "active" /\ state.ending = stripe[s].ending
    BY <1>4 DEF State, StripeStatuses
  <2>2. Becomes(s, state, "updated", <<"paid">>)
    BY <1>7 DEF CardCharged
  <2> HIDE DEF state
  <2>3. <<"paid">> \in Seq(InvoiceTypes)
    BY <1>5 DEF InvoiceTypes
  <2>4. Courses
    BY <1>1, <1>2, <2>1, <2>2, <2>3, BecomesChanges
  <2> QED
    BY <1>3, <2>4 DEF Moves
<1>8. CASE CardRefused(s)
  <2> DEFINE state == [stripe[s] EXCEPT !.status = "past_due"]
  <2>1. state \in State /\ state.status = "past_due" /\ stripe[s].status = "active"
    BY <1>4, <1>8 DEF State, StripeStatuses, CardRefused
  <2>2. Becomes(s, state, "updated", <<"payment_failed">>)
    BY <1>8 DEF CardRefused
  <2> HIDE DEF state
  <2>3. <<"payment_failed">> \in Seq(InvoiceTypes)
    BY <1>5 DEF InvoiceTypes
  <2>4. Courses
    BY <1>1, <1>2, <2>1, <2>2, <2>3, BecomesChanges
  <2> QED
    BY <1>3, <2>4 DEF Moves
<1>9. CASE PortalUpdates(s)
  <2>1. PICK p \in listed, ending \in BOOLEAN :
          Becomes(s, [stripe[s] EXCEPT !.price = p, !.ending = ending], "updated", <<>>)
    BY <1>9 DEF PortalUpdates
  <2> DEFINE state == [stripe[s] EXCEPT !.price = p, !.ending = ending]
  <2>2. state \in State /\ state.status = "active" /\ stripe[s].status = "active"
    BY <1>4, <1>9 DEF State, PortalUpdates
  <2>3. Becomes(s, state, "updated", <<>>)
    BY <2>1
  <2> HIDE DEF state
  <2>4. Courses
    BY <1>1, <1>2, <1>6, <2>2, <2>3, BecomesChanges
  <2> QED
    BY <1>3, <2>4 DEF Moves
<1>10. CASE SubscriptionEnds(s)
  <2> DEFINE state == [stripe[s] EXCEPT !.status = "canceled"]
  <2>1. state \in State /\ state.status = "canceled"
    BY <1>4 DEF State, StripeStatuses
  <2>2. Becomes(s, state, "deleted", <<>>)
    BY <1>10 DEF SubscriptionEnds, EndsNow
  <2> HIDE DEF state
  <2>3. Courses
    BY <1>1, <1>2, <1>6, <2>1, <2>2, BecomesChanges
  <2> QED
    BY <1>3, <2>3 DEF Moves
<1> QED
  BY <1>7, <1>8, <1>9, <1>10

\* A subscription is canceled at Stripe.
LEMMA EndingChanges ==
  ASSUME BillingFit, NEW s \in DOMAIN stripe, EndsNow(s), KeepsRows, abandoned' = abandoned,
         \/ job' = job
         \/ \E w \in Workers : job[w].pc = "stripe_cancel" /\ job' = [job EXCEPT ![w] = IdleJob]
  PROVE  Courses
<1> DEFINE state == [stripe[s] EXCEPT !.status = "canceled"]
<1>1. state \in State /\ state.status = "canceled"
  BY BillingSequences DEF State, StripeStatuses
<1>2. Becomes(s, state, "deleted", <<>>)
  BY DEF EndsNow
<1>3. <<>> \in Seq(InvoiceTypes)
  OBVIOUS
<1> HIDE DEF state
<1> QED
  BY <1>1, <1>2, <1>3, BecomesChanges

LEMMA CatalogueMoves ==
  ASSUME BillingFit, NEW p \in Prices, CatalogueChanges(p)
  PROVE  Moves
<1>1. UNCHANGED <<user, req, customers, row, job, stripe, applied, overtaken, abandoned>>
  BY DEF CatalogueChanges, tables, billingHistory
<1>2. listed' \subseteq Prices
  BY DEF CatalogueChanges, BillingFit, BillingTypeOK
<1>3. AccountMoves
  BY <1>1, <1>2, RequestsWait
<1>4. ASSUME NEW type \in PriceTypes
      PROVE  AboutPrice(type, p) \in Event /\ AboutPrice(type, p).type = type /\ AboutPrice(type, p).sub = 0
  <2> DEFINE state == [NoState EXCEPT !.price = p]
  <2>1. state \in State
    BY Rest, BillingAssumption DEF State
  <2>2. AboutPrice(type, p) = About(type, 0, state, "none")
    BY DEF AboutPrice
  <2> HIDE DEF state
  <2> QED
    BY <2>1, <2>2, AboutIsEvent
<1>5. PICK t1 \in PriceTypes, t2 \in PriceTypes :
        \/ event' = event \o <<AboutPrice(t1, p), AboutPrice(t2, p)>>
        \/ event' = event \o <<AboutPrice(t1, p)>>
  BY DEF CatalogueChanges, Emits, PriceTypes
<1> DEFINE e1 == AboutPrice(t1, p)
           e2 == AboutPrice(t2, p)
<1>6. /\ e1 \in Event /\ e1.type \in PriceTypes /\ e1.sub = 0
      /\ e2 \in Event /\ e2.type \in PriceTypes /\ e2.sub = 0
      /\ event' = event \o <<e1, e2>> \/ event' = event \o <<e1>>
  BY <1>4, <1>5
<1> HIDE DEF e1, e2
<1>7. Tells /\ \A e \in DOMAIN event' \ DOMAIN event : event'[e] = e1 \/ event'[e] = e2
  <2>1. CASE event' = event \o <<e1, e2>>
    <3> DEFINE new == <<e1, e2>>
    <3>1. new \in Seq(Event) /\ DOMAIN new = 1 .. 2 /\ new[1] = e1 /\ new[2] = e2
      BY <1>6
    <3>2. \A i \in DOMAIN new : new[i] = e1 \/ new[i] = e2
      BY <3>1
    <3>3. event' = event \o new
      BY <2>1
    <3> HIDE DEF new
    <3>4. Tells /\ \A e \in DOMAIN event' \ DOMAIN event : \E i \in DOMAIN new : event'[e] = new[i]
      BY <3>1, <3>3, EventsAdded
    <3> QED
      BY <3>2, <3>4
  <2>2. CASE event' = event \o <<e1>>
    <3> DEFINE new == <<e1>>
    <3>1. new \in Seq(Event) /\ DOMAIN new = 1 .. 1 /\ new[1] = e1
      BY <1>6
    <3>2. \A i \in DOMAIN new : new[i] = e1
      BY <3>1
    <3>3. event' = event \o new
      BY <2>2
    <3> HIDE DEF new
    <3>4. Tells /\ \A e \in DOMAIN event' \ DOMAIN event : \E i \in DOMAIN new : event'[e] = new[i]
      BY <3>1, <3>3, EventsAdded
    <3> QED
      BY <3>2, <3>4
  <2> QED
    BY <1>6, <2>1, <2>2
<1>8. CatalogueTells
  BY <1>1, <1>6, <1>7 DEF CatalogueTells, KeepsRows
<1> QED
  BY <1>3, <1>8 DEF Moves, Courses, StripeMoves

-----------------------------------------------------------------------------
(* What the other statements of requests do.                               *)

\* The greatest of a finite set of numbers is in it.
LEMMA MaxIsIn ==
  ASSUME NEW n \in Nat, NEW S \in SUBSET (1 .. n), S # {}
  PROVE  Max(S) \in S
<1> DEFINE T == {n - x : x \in S}
<1>1. T \subseteq Nat /\ T # {}
  <2>1. \A x \in 1 .. n : n - x \in Nat
    OBVIOUS
  <2> QED
    BY <2>1
<1>2. PICK t \in T : \A y \in T : ~(<<y, t>> \in OpToRel(<, Nat))
  BY <1>1, NatLessThanWellFounded, WFMin
<1>3. PICK m \in S : t = n - m
  OBVIOUS
<1>4. ASSUME NEW x \in S PROVE m >= x
  <2>1. n - x \in T /\ n - x \in Nat /\ n - m \in Nat /\ x \in 1 .. n /\ m \in 1 .. n
    OBVIOUS
  <2>2. ~(n - x < n - m)
    BY <1>2, <1>3, <2>1 DEF OpToRel
  <2> QED
    BY <2>1, <2>2
<1> QED
  BY <1>4 DEF Max

\* The row of a user that counts is one of the user's.
LEMMA NewestRow ==
  ASSUME BillingFit, NEW u, OfUser(u) # {}
  PROVE  Max(OfUser(u)) \in OfUser(u) /\ Max(OfUser(u)) \in DOMAIN row
<1>1. OfUser(u) \subseteq 1 .. Len(row) /\ Len(row) \in Nat
  BY BillingSequences DEF OfUser
<1>2. Max(OfUser(u)) \in OfUser(u)
  BY <1>1, MaxIsIn
<1> QED
  BY <1>2 DEF OfUser

\* A request of the subscription API begins.
LEMMA RequestOpens ==
  ASSUME BillingFit, NEW r \in Requests, NEW u \in DOMAIN user,
         HandleCreateCheckoutSession(r, u) \/ HandleCancelSubscription(r, u)
  PROVE  Moves
<1>1. /\ user \in Seq(Account) /\ customers \in Nat /\ listed \subseteq Prices /\ u \in Nat
      /\ Idle \in BillingRequest
  BY BillingSequences, Rest, BillingAssumption DEF BillingFit, BillingTypeOK
<1>2. PICK q : /\ Begins(r, q) /\ q \in BillingRequest /\ q.pc # "create"
               /\ q.pc = "cancel" => q.sub \in DOMAIN stripe
               /\ q.pc = "checkout" => q.user \in DOMAIN user
  <2>1. CASE HandleCreateCheckoutSession(r, u)
    <3>1. PICK p \in Prices : Begins(r, [Idle EXCEPT !.pc = "checkout", !.user = u, !.price = p])
      BY <2>1 DEF HandleCreateCheckoutSession, CreateCheckoutSession
    <3> DEFINE q == [Idle EXCEPT !.pc = "checkout", !.user = u, !.price = p]
    <3>2. q \in BillingRequest /\ q.pc = "checkout" /\ q.user = u
      BY <1>1 DEF BillingRequest, RequestPcs
    <3>3. Begins(r, q)
      BY <3>1
    <3> HIDE DEF q
    <3> QED
      BY <3>2, <3>3
  <2>2. CASE HandleCancelSubscription(r, u)
    <3> DEFINE s == GetSubscriptionByUserID(u).sub
               q == [Idle EXCEPT !.pc = "cancel", !.sub = s]
    <3>1. Begins(r, q) /\ OfUser(u) # {}
      BY <2>2 DEF HandleCancelSubscription, CancelSubscription
    <3>2. s \in DOMAIN stripe /\ s \in Nat
      BY <3>1, NewestRow, BillingSequences DEF GetSubscriptionByUserID, BillingFit, Links
    <3> HIDE DEF s
    <3>3. q \in BillingRequest /\ q.pc = "cancel" /\ q.sub = s
      BY <1>1, <3>2 DEF BillingRequest, RequestPcs
    <3> HIDE DEF q
    <3> QED
      BY <3>1, <3>2, <3>3
  <2> QED
    BY <2>1, <2>2
<1>3. /\ UNCHANGED <<user, row, job, customers, stripe, listed, event, applied, overtaken, abandoned>>
      /\ req' = [req EXCEPT ![r] = q]
  BY <1>2 DEF Begins, tables, stripes, billingHistory
<1>4. /\ req' \in [Requests -> BillingRequest] /\ NoNewCreation
      /\ \A p \in Requests : Serves(req'[p])
  BY <1>2, <1>3, RequestBecomes
<1>5. AccountMoves
  BY <1>1, <1>3, <1>4 DEF AccountMoves, KeepsAccounts
<1> QED
  BY <1>3, <1>5 DEF Moves, Courses, Still, KeepsRows

\* A customer is made, a customer is stored, a session is opened, a request fails.
LEMMA RequestGoesOn ==
  ASSUME BillingFit, NEW r \in Requests,
         CreateStripeCustomer(r) \/ OpensSession(r) \/ RequestFails(r) \/ LinksCustomer(r)
  PROVE  Moves
<1>1. /\ UNCHANGED <<row, job, stripe, listed, event, applied, overtaken, abandoned>>
      /\ user' = user \/ LinksCustomer(r)
  BY DEF CreateStripeCustomer, OpensSession, RequestFails, LinksCustomer, tables, stripes, billingHistory
<1>2. Still
  BY <1>1 DEF Still, KeepsRows
<1>3. /\ user \in Seq(Account) /\ customers \in Nat /\ listed \subseteq Prices
      /\ req \in [Requests -> BillingRequest] /\ req[r] \in BillingRequest
  BY DEF BillingFit, BillingTypeOK
<1>4. CASE CreateStripeCustomer(r)
  <2> DEFINE q == [req[r] EXCEPT !.pc = "link", !.customer = customers + 1]
  <2>1. customers' = customers + 1 /\ req' = [req EXCEPT ![r] = q] /\ user' = user
    BY <1>3, <1>4 DEF CreateStripeCustomer, tables
  <2>2. customers' \in Nat
    BY <1>3, <2>1
  <2>3. q \in BillingRequest /\ q.pc = "link"
    BY <1>3, <2>1, <2>2 DEF BillingRequest, RequestPcs
  <2> HIDE DEF q
  <2>4. AccountMoves
    BY <1>1, <2>1, <2>2, <2>3, RequestGoes
  <2> QED
    BY <1>2, <2>4 DEF Moves, Courses
<1>5. CASE OpensSession(r)
  <2> DEFINE c == user[req[r].user].customer
             q == [req[r] EXCEPT !.pc = "session", !.customer = c]
  <2>1. req[r].pc = "checkout" /\ user' = user /\ customers' = customers
    BY <1>5 DEF OpensSession, tables, stripes
  <2>2. CASE Answers(r)
    <3>1. AccountMoves
      BY <1>1, <1>3, <2>1, <2>2, RequestAnswers
    <3> QED
      BY <1>2, <3>1 DEF Moves, Courses
  <2>3. CASE ~Answers(r)
    <3>1. req' = [req EXCEPT ![r].pc = "session", ![r].customer = c]
      BY <1>5, <2>3 DEF OpensSession
    <3>2. req' = [req EXCEPT ![r] = q]
      BY <1>3, <3>1
    <3>3. c \in Nat
      BY <2>1, <1>3, BillingSequences DEF BillingFit, Links, Serves, Account
    <3> HIDE DEF c
    <3>4. q \in BillingRequest /\ q.pc = "session"
      BY <1>3, <3>3 DEF BillingRequest, RequestPcs
    <3> HIDE DEF q
    <3>5. AccountMoves
      BY <1>1, <1>3, <2>1, <3>2, <3>4, RequestGoes
    <3> QED
      BY <1>2, <3>5 DEF Moves, Courses
  <2> QED
    BY <2>2, <2>3
<1>6. CASE RequestFails(r)
  <2>1. Answers(r) /\ user' = user /\ customers' = customers
    BY <1>6 DEF RequestFails, tables, stripes
  <2>2. AccountMoves
    BY <1>1, <1>3, <2>1, RequestAnswers
  <2> QED
    BY <1>2, <2>2 DEF Moves, Courses
<1>7. CASE LinksCustomer(r)
  <2> DEFINE q == [req[r] EXCEPT !.pc = "free"]
             u == req[r].user
             c == req[r].customer
  <2>1. req' = [req EXCEPT ![r] = q] /\ customers' = customers /\ user' = [user EXCEPT ![u].customer = c]
    BY <1>3, <1>7 DEF LinksCustomer, Goes, stripes, UpdateStripeCustomerIDByUserID
  <2>2. q \in BillingRequest /\ q.pc = "free" /\ c \in Nat
    BY <1>3 DEF BillingRequest, RequestPcs
  <2> HIDE DEF q, u, c
  <2>3. /\ req' \in [Requests -> BillingRequest] /\ NoNewCreation
        /\ \A p \in Requests : Serves(req'[p])
    BY <2>1, <2>2, RequestBecomes
  <2>4. user' \in Seq(Account) /\ KeepsAccounts
    <3>1. /\ DOMAIN user' = DOMAIN user
          /\ \A v \in DOMAIN user : user'[v] = user[v] \/ user'[v] = [user[v] EXCEPT !.customer = c]
      BY <1>3, <2>1
    <3>2. \A v \in DOMAIN user : user[v] \in Account
      BY <1>3
    <3>3. \A v \in DOMAIN user :
            user'[v] \in Account /\ user'[v].email = user[v].email /\ user'[v].kind = user[v].kind
      BY <2>2, <3>1, <3>2 DEF Account
    <3>4. user' \in Seq(Account)
      <4>1. DOMAIN user = 1 .. Len(user) /\ Len(user) \in Nat
        BY <1>3
      <4>2. user' = [v \in 1 .. Len(user) |-> user'[v]]
        BY <2>1, <3>1, <4>1
      <4>3. user' \in [1 .. Len(user) -> Account]
        BY <3>3, <4>1, <4>2
      <4> QED
        BY <4>1, <4>3
    <3> QED
      BY <3>1, <3>3, <3>4 DEF KeepsAccounts
  <2>5. AccountMoves
    BY <1>1, <1>3, <2>1, <2>3, <2>4 DEF AccountMoves
  <2> QED
    BY <1>2, <2>5 DEF Moves, Courses
<1> QED
  BY <1>4, <1>5, <1>6, <1>7

\* A request reaches Stripe.
LEMMA RequestTells ==
  ASSUME BillingFit, NEW r \in Requests,
         CreateFreeSubscription(r) \/ SessionEnds(r) \/ CancelsAtStripe(r)
  PROVE  Moves
<1>1. /\ UNCHANGED <<user, row, job, customers, listed, overtaken, abandoned>> /\ Answers(r)
  BY DEF CreateFreeSubscription, SessionEnds, CancelsAtStripe, tables, billingHistory
<1>2. /\ customers \in Nat /\ req[r] \in BillingRequest /\ req[r].customer \in Nat /\ req[r].price \in Prices
  BY DEF BillingFit, BillingTypeOK, BillingRequest
<1>3. AccountMoves
  BY <1>1, <1>2, RequestAnswers
<1>4. CASE UNCHANGED <<stripe, applied, event>>
  <2>1. Still
    BY <1>1, <1>4 DEF Still, KeepsRows
  <2> QED
    BY <1>3, <2>1 DEF Moves, Courses
<1>5. CASE \E c \in Nat, p \in Prices, st \in {"active", "incomplete"} : NewSubscription(c, p, st)
  <2>1. Courses
    BY <1>1, <1>5, NewSubscriptionBegins
  <2> QED
    BY <1>3, <2>1 DEF Moves
<1>6. CASE CancelsAtStripe(r)
  <2> DEFINE s == req[r].sub
  <2>1. s \in DOMAIN stripe
    BY <1>6 DEF CancelsAtStripe, BillingFit, Links, Serves
  <2>2. applied' = applied
    BY <1>6 DEF CancelsAtStripe, billingHistory
  <2>3. CASE EndsNow(s)
    <3>1. KeepsRows
      BY <1>1, <2>2 DEF KeepsRows
    <3>2. Courses
      BY <1>1, <2>1, <2>3, <3>1, EndingChanges
    <3> QED
      BY <1>3, <3>2 DEF Moves
  <2>4. CASE UNCHANGED <<stripe, event>>
    BY <1>4, <2>2, <2>4
  <2> QED
    BY <1>6, <2>3, <2>4 DEF CancelsAtStripe
<1>7. CASE CreateFreeSubscription(r)
  <2>1. NewSubscription(req[r].customer, Free, "active") \/ UNCHANGED <<stripe, applied, event>>
    BY <1>7 DEF CreateFreeSubscription
  <2> QED
    BY <1>2, <1>4, <1>5, <2>1, BillingAssumption DEF BillingAssumption
<1>8. CASE SessionEnds(r)
  <2>1. \/ \E st \in {"active", "incomplete"} : NewSubscription(req[r].customer, req[r].price, st)
        \/ UNCHANGED <<stripe, applied, event>>
    BY <1>8 DEF SessionEnds
  <2> QED
    BY <1>2, <1>4, <1>5, <2>1
<1> QED
  BY <1>6, <1>7, <1>8

-----------------------------------------------------------------------------
(* What handlers of webhooks do.                                           *)

\* The deliveries of one event change.
LEMMA LeftChanges ==
  ASSUME BillingFit, NEW e \in DOMAIN event, NEW n \in Nat, event' = [event EXCEPT ![e].left = n], stripe' = stripe
  PROVE  /\ Retells /\ event'[e].left = n
         /\ \A f \in DOMAIN event : f # e => event'[f].left = event[f].left
<1>1. /\ event \in Seq(Event) /\ DOMAIN event = 1 .. Len(event) /\ Len(event) \in Nat
      /\ \A f \in DOMAIN event : event[f] \in Event
  BY BillingSequences DEF BillingFit, BillingTypeOK
<1>2. DOMAIN event' = DOMAIN event /\ event' = [f \in DOMAIN event |-> event'[f]]
      /\ event'[e] = [event[e] EXCEPT !.left = n] /\ \A f \in DOMAIN event \ {e} : event'[f] = event[f]
  BY <1>1
<1>3. event'[e] \in Event /\ SameTale(event'[e], event[e]) /\ event'[e].left = n
  BY <1>1, <1>2 DEF Event, SameTale
<1>4. \A f \in DOMAIN event : event'[f] \in Event /\ SameTale(event'[f], event[f])
  BY <1>1, <1>2, <1>3 DEF SameTale
<1>5. event' \in [1 .. Len(event) -> Event]
  BY <1>1, <1>2, <1>4
<1>6. event' \in Seq(Event)
  BY <1>1, <1>5
<1> QED
  BY <1>2, <1>3, <1>4, <1>6 DEF Retells

\* A handler at work has an event.
LEMMA AtAnEvent ==
  ASSUME BillingFit, NEW w \in Workers, job[w].pc # "idle"
  PROVE  /\ job[w] \in WebhookJob /\ Handles(job[w]) /\ job[w].event \in DOMAIN event
         /\ event[job[w].event] \in Event /\ job[w].state \in State
         /\ job[w].pc \notin PricePcs => SubOf(w) \in DOMAIN stripe
<1>1. job[w] \in WebhookJob /\ Handles(job[w])
  BY DEF BillingFit, BillingTypeOK
<1>2. job[w].event \in DOMAIN event
  BY <1>1 DEF Handles
<1>3. event[job[w].event] \in Event
  BY <1>2, BillingSequences
<1>4. ASSUME job[w].pc \notin PricePcs PROVE event[job[w].event].type \notin PriceTypes
  <2>1. event[job[w].event].type \in SubscriptionTypes \cup InvoiceTypes \cup PriceTypes
    BY <1>3 DEF Event
  <2>2. CASE job[w].pc \in RowPcs
    BY <1>1, <2>1, <2>2, FirstSteps DEF Handles, RowPcs, PriceTypes
  <2>3. CASE job[w].pc \in UpdatePcs \cup InvoicePcs \cup {"cancel"}
    BY <1>1, <2>3 DEF Handles, UpdatePcs, InvoicePcs, PriceTypes
  <2> QED
    BY <1>1, <1>4, <2>2, <2>3 DEF WebhookJob
<1> QED
  BY <1>1, <1>2, <1>3, <1>4 DEF WebhookJob, BillingFit, Links, SubOf

LEMMA RefusesRefuses ==
  ASSUME BillingFit, NEW w \in Workers, job[w].pc # "idle", Refuses(w), KeepsRows, UNCHANGED <<stripe, abandoned>>
  PROVE  Courses
<1> DEFINE e == job[w].event
           n == event[e].left + 1
<1>1. e \in DOMAIN event /\ event[e] \in Event
  BY AtAnEvent
<1>2. n \in Nat /\ n > 0 /\ \A f \in DOMAIN event : event[f].left \in Nat /\ event[f].left >= event[f].left
  BY <1>1, BillingSequences DEF Event
<1>3. event' = [event EXCEPT ![e].left = n] /\ job' = [job EXCEPT ![w] = IdleJob]
  BY DEF Refuses
<1>4. n >= event[e].left
  BY <1>1 DEF Event
<1> HIDE DEF n
<1>5. /\ Retells /\ event'[e].left = n /\ \A f \in DOMAIN event : f # e => event'[f].left = event[f].left
  BY <1>1, <1>2, <1>3, LeftChanges
<1>6. \A f \in DOMAIN event : event'[f].left >= event[f].left
  BY <1>2, <1>4, <1>5
<1>7. Refused(w)
  BY <1>2, <1>3, <1>5, <1>6 DEF Refused
<1> QED
  BY <1>7 DEF Courses, HandlerMoves

\* A handler moves on with what it has read.
LEMMA JobGoesOn ==
  ASSUME NEW w \in Workers, NEW j \in WebhookJob, job[w].pc # "idle", j.pc # "idle", j.event = job[w].event,
         Handles(j), job' = [job EXCEPT ![w] = j], KeepsRows, UNCHANGED <<event, stripe, abandoned>>
  PROVE  Courses
BY DEF GoesOn, Courses, HandlerMoves

\* What is left to do for a price moves on, or ends.
LEMMA PriceStepMoves ==
  ASSUME BillingFit, NEW w \in Workers,
         ProductCreated(w) \/ FindsProduct(w) \/ FetchesProduct(w) \/ PriceCreated(w) \/ PriceUpdated(w) \/ PriceDeleted(w)
  PROVE  Courses
<1>1. /\ job[w].pc \in PricePcs /\ UNCHANGED <<row, stripe, applied, overtaken, abandoned>>
      /\ Refuses(w) \/ Done(w)
         \/ (event' = event /\ \E pc \in {"insert_price", "fetch_product", "rewrite_price"} : Step(w, pc))
  BY DEF ProductCreated, FindsProduct, FetchesProduct, PriceCreated, PriceUpdated, PriceDeleted, tables, stripes,
     billingHistory, PricePcs
<1>2. job[w].pc # "idle" /\ KeepsRows
  BY <1>1 DEF PricePcs, KeepsRows
<1>3. CASE Refuses(w)
  BY <1>1, <1>2, <1>3, RefusesRefuses
<1>4. CASE Done(w)
  <2>1. Finishes(w)
    BY <1>1, <1>2, <1>4 DEF Finishes, Done
  <2> QED
    BY <2>1 DEF Courses, HandlerMoves
<1>5. ASSUME NEW pc \in {"insert_price", "fetch_product", "rewrite_price"}, Step(w, pc), event' = event
      PROVE  Courses
  <2> DEFINE j == [job[w] EXCEPT !.pc = pc]
  <2>1. job[w] \in WebhookJob /\ Handles(job[w])
    BY <1>2, AtAnEvent
  <2>2. j \in WebhookJob /\ j.pc = pc /\ j.event = job[w].event /\ pc \in PricePcs
    BY <2>1 DEF WebhookJob, PricePcs
  <2>3. job' = [job EXCEPT ![w] = j]
    BY <1>5 DEF Step, BillingFit, BillingTypeOK
  <2> HIDE DEF j
  <2>4. Handles(j)
    BY <1>1, <1>2, <2>1, <2>2 DEF Handles, PricePcs, RowPcs, UpdatePcs
  <2>5. j.pc # "idle"
    BY <2>2 DEF PricePcs
  <2> QED
    BY <1>1, <1>2, <1>5, <2>2, <2>3, <2>4, <2>5, JobGoesOn
<1> QED
  BY <1>1, <1>3, <1>4, <1>5

\* The look-ups of a subscription's handler.
LEMMA LookupStepMoves ==
  ASSUME BillingFit, Told, NEW w \in Workers, FindsUser(w) \/ FindsPrice(w) \/ InvoicePaymentPaid(w)
  PROVE  Courses
<1>1. UNCHANGED <<row, stripe, applied, overtaken, abandoned>> /\ job[w].pc # "idle"
  BY DEF FindsUser, FindsPrice, InvoicePaymentPaid, tables, stripes, billingHistory
<1>2. KeepsRows
  BY <1>1 DEF KeepsRows
<1>3. job[w] \in WebhookJob /\ Handles(job[w]) /\ job \in [Workers -> WebhookJob]
  BY <1>1, AtAnEvent DEF BillingFit, BillingTypeOK
<1>4. CASE Refuses(w)
  BY <1>1, <1>2, <1>4, RefusesRefuses
<1>5. CASE FindsUser(w) /\ ~Refuses(w)
  <2>1. PICK u \in DOMAIN user : job' = [job EXCEPT ![w].pc = "created_price", ![w].user = u]
    BY <1>5 DEF FindsUser, GetUserByStripeCustomerID
  <2> DEFINE j == [job[w] EXCEPT !.pc = "created_price", !.user = u]
  <2>2. u \in Nat
    BY BillingSequences
  <2>3. /\ j \in WebhookJob /\ j.pc = "created_price" /\ j.event = job[w].event /\ j.state = job[w].state
        /\ job' = [job EXCEPT ![w] = j] /\ event' = event /\ job[w].pc = "customer"
    BY <1>3, <1>5, <2>1, <2>2 DEF FindsUser, WebhookJob, RowPcs
  <2> HIDE DEF j
  <2>4. Handles(j)
    BY <1>3, <2>3 DEF Handles, PricePcs, RowPcs, UpdatePcs
  <2> QED
    BY <1>1, <1>2, <2>3, <2>4, JobGoesOn
<1>6. CASE FindsPrice(w) /\ ~Refuses(w)
  <2> DEFINE pc == IF job[w].pc = "created_price" THEN "insert" ELSE "update"
             j == [job[w] EXCEPT !.pc = pc]
  <2>1. job[w].pc \in {"created_price", "update_price"} /\ event' = event /\ Step(w, pc)
    BY <1>6 DEF FindsPrice
  <2>2. /\ j \in WebhookJob /\ j.pc = pc /\ j.event = job[w].event /\ j.state = job[w].state
        /\ job' = [job EXCEPT ![w] = j]
    BY <1>3, <2>1 DEF WebhookJob, RowPcs, UpdatePcs, Step
  <2> HIDE DEF j
  <2>3. Handles(j) /\ j.pc # "idle"
    BY <1>3, <2>1, <2>2 DEF Handles, PricePcs, RowPcs, UpdatePcs
  <2> QED
    BY <1>1, <1>2, <2>1, <2>2, <2>3, JobGoesOn
<1>7. CASE InvoicePaymentPaid(w)
  <2> DEFINE now == stripe[SubOf(w)]
             pc == IF now.ending THEN "cancel" ELSE "update_price"
             j == [job[w] EXCEPT !.state = now, !.pc = pc]
  <2>1. job[w].pc = "stripe_get" /\ event' = event /\ job' = [job EXCEPT ![w].state = now, ![w].pc = pc]
    BY <1>7 DEF InvoicePaymentPaid
  <2>2. SubOf(w) \in DOMAIN stripe /\ now \in State /\ SubOf(w) = event[job[w].event].sub
    BY <2>1, AtAnEvent, BillingSequences DEF PricePcs, SubOf
  <2>3. IsTold(event[job[w].event].sub, now)
    BY <2>2 DEF Told, IsTold
  <2>4. /\ j \in WebhookJob /\ j.pc = pc /\ j.event = job[w].event /\ j.state = now
        /\ job' = [job EXCEPT ![w] = j]
    BY <1>3, <2>1, <2>2 DEF WebhookJob, UpdatePcs
  <2> HIDE DEF j, now
  <2>5. Handles(j) /\ j.pc # "idle"
    BY <1>3, <2>1, <2>3, <2>4 DEF Handles, PricePcs, RowPcs, UpdatePcs, Shown
  <2> QED
    BY <1>1, <1>2, <2>1, <2>4, <2>5, JobGoesOn
<1> QED
  BY <1>4, <1>5, <1>6, <1>7

\* Rows are rewritten one by one.
LEMMA RowsRewritten ==
  ASSUME BillingFit, NEW w \in Workers, job[w].pc \in {"update", "cancel"},
         row' = [k \in DOMAIN row |-> row'[k]],
         \A k \in DOMAIN row : row[k].sub # SubOf(w) => row'[k] = row[k],
         \A k \in DOMAIN row : row[k].sub = SubOf(w) =>
           /\ row'[k] \in SubscriptionRow /\ row'[k].sub = row[k].sub
           /\ row'[k].status = Shown(job[w].state)
           /\ row'[k].status # "canceled" => row'[k].price = job[w].state.price
  PROVE  Rewrites(w)
<1>1. DOMAIN row = 1 .. Len(row) /\ Len(row) \in Nat /\ \A k \in DOMAIN row : row[k] \in SubscriptionRow
  BY BillingSequences
<1>2. DOMAIN row' = DOMAIN row /\ \A k \in DOMAIN row : row'[k] \in SubscriptionRow /\ row'[k].sub = row[k].sub
  BY <1>1
<1>3. row' \in [1 .. Len(row) -> SubscriptionRow]
  BY <1>1, <1>2
<1>4. row' \in Seq(SubscriptionRow)
  BY <1>1, <1>3
<1> QED
  BY <1>2, <1>4 DEF Rewrites

\* A handler writes rows, or refuses.
LEMMA WriteStepMoves ==
  ASSUME BillingFit, NEW w \in Workers,
         SubscriptionCreated(w) \/ SubscriptionUpdated(w) \/ SubscriptionCanceled(w)
  PROVE  Courses
<1> DEFINE s == SubOf(w)
           state == job[w].state
<1>1. job[w].pc \in {"insert", "update", "cancel"} /\ UNCHANGED stripe
  BY DEF SubscriptionCreated, SubscriptionUpdated, SubscriptionCanceled, stripes
<1>2. /\ job[w] \in WebhookJob /\ Handles(job[w]) /\ state \in State /\ s \in DOMAIN stripe
      /\ state.price \in Prices /\ state.status \in StripeStatuses \cup {"none"}
  BY <1>1, AtAnEvent DEF PricePcs, State
<1>3. CASE Refuses(w) /\ UNCHANGED <<row, billingHistory>>
  BY <1>1, <1>3, RefusesRefuses DEF KeepsRows, billingHistory
<1>4. CASE SubscriptionCreated(w) /\ ~(Refuses(w) /\ UNCHANGED <<row, billingHistory>>)
  <2> DEFINE new == [user |-> job[w].user, price |-> state.price, sub |-> s, status |-> state.status]
  <2>1. /\ job[w].pc = "insert" /\ Storable(state) /\ row' = Append(row, new)
        /\ Shows(s, state.version) /\ Done(w)
    BY <1>4 DEF SubscriptionCreated, CreateSubscription
  <2>2. s \in Nat
    BY <1>2, BillingSequences
  <2>3. new \in SubscriptionRow
    BY <1>2, <2>2 DEF SubscriptionRow, WebhookJob
  <2>4. state.status # "incomplete"
    BY <2>1 DEF Storable, RowStatuses
  <2>5. Inserts(w, new)
    BY <2>1, <2>3, <2>4 DEF Inserts
  <2>6. Writes(w)
    BY <1>1, <2>1, <2>5 DEF Writes, Done
  <2> QED
    BY <2>6 DEF Courses, HandlerMoves
<1>5. CASE SubscriptionUpdated(w) /\ ~(Refuses(w) /\ UNCHANGED <<row, billingHistory>>)
  <2>1. /\ job[w].pc = "update" /\ UpdateSubscription(s, state.price, state.status)
        /\ Shows(s, state.version) /\ Done(w)
    BY <1>5 DEF SubscriptionUpdated
  <2>2. ~state.ending /\ Shown(state) = state.status
    BY <1>2, <2>1 DEF Handles, UpdatePcs, Shown
  <2>3. row' = [k \in DOMAIN row |->
                  IF k \in Of(s) THEN [row[k] EXCEPT !.price = state.price, !.status = state.status] ELSE row[k]]
    BY <2>1 DEF UpdateSubscription
  <2>4. ASSUME NEW k \in DOMAIN row
        PROVE  /\ row[k].sub # s => row'[k] = row[k]
               /\ row[k].sub = s =>
                    /\ row'[k] \in SubscriptionRow /\ row'[k].sub = row[k].sub
                    /\ row'[k].status = state.status /\ row'[k].price = state.price
    <3>1. row[k] \in SubscriptionRow /\ (k \in Of(s) <=> row[k].sub = s)
      BY BillingSequences DEF Of
    <3> HIDE DEF s, state
    <3>2. row[k].sub # s => row'[k] = row[k]
      BY <2>3, <3>1
    <3>3. row[k].sub = s => row'[k] = [row[k] EXCEPT !.price = state.price, !.status = state.status]
      BY <2>3, <3>1
    <3>4. [row[k] EXCEPT !.price = state.price, !.status = state.status] \in SubscriptionRow
      BY <1>2, <3>1 DEF SubscriptionRow
    <3> QED
      BY <3>1, <3>2, <3>3, <3>4 DEF SubscriptionRow
  <2>5. Rewrites(w)
    <3>1. row' = [k \in DOMAIN row |-> row'[k]]
      BY <2>3
    <3> QED
      BY <2>1, <2>2, <2>4, <3>1, RowsRewritten
  <2>6. Writes(w)
    BY <1>1, <2>1, <2>5 DEF Writes, Done
  <2> QED
    BY <2>6 DEF Courses, HandlerMoves
<1>6. CASE SubscriptionCanceled(w)
  <2>1. /\ job[w].pc = "cancel" /\ CancelSubscriptionRows(s) /\ Shows(s, state.version) /\ Done(w)
    BY <1>6 DEF SubscriptionCanceled
  <2>2. Shown(state) = "canceled"
    BY <1>2, <2>1 DEF Handles
  <2>3. row' = [k \in DOMAIN row |-> IF k \in Of(s) THEN [row[k] EXCEPT !.status = "canceled"] ELSE row[k]]
    BY <2>1 DEF CancelSubscriptionRows
  <2>4. ASSUME NEW k \in DOMAIN row
        PROVE  /\ row[k].sub # s => row'[k] = row[k]
               /\ row[k].sub = s =>
                    row'[k] \in SubscriptionRow /\ row'[k].sub = row[k].sub /\ row'[k].status = "canceled"
    <3>1. row[k] \in SubscriptionRow /\ (k \in Of(s) <=> row[k].sub = s)
      BY BillingSequences DEF Of
    <3> HIDE DEF s, state
    <3>2. row[k].sub # s => row'[k] = row[k]
      BY <2>3, <3>1
    <3>3. row[k].sub = s => row'[k] = [row[k] EXCEPT !.status = "canceled"]
      BY <2>3, <3>1
    <3>4. [row[k] EXCEPT !.status = "canceled"] \in SubscriptionRow
      BY <3>1 DEF SubscriptionRow, StripeStatuses
    <3> QED
      BY <3>1, <3>2, <3>3, <3>4 DEF SubscriptionRow
  <2>5. Rewrites(w)
    <3>1. row' = [k \in DOMAIN row |-> row'[k]]
      BY <2>3
    <3> QED
      BY <2>1, <2>2, <2>4, <3>1, RowsRewritten
  <2>6. Writes(w)
    BY <1>1, <2>1, <2>5 DEF Writes, Done
  <2> QED
    BY <2>6 DEF Courses, HandlerMoves
<1> QED
  BY <1>3, <1>4, <1>5, <1>6

\* An unpaid invoice cancels the subscription.
LEMMA PaymentFailedMoves ==
  ASSUME BillingFit, NEW w \in Workers, InvoicePaymentFailed(w)
  PROVE  Courses
<1>1. /\ job[w].pc = "stripe_cancel" /\ UNCHANGED <<row, applied, overtaken, abandoned>>
  BY DEF InvoicePaymentFailed, tables, billingHistory
<1>2. SubOf(w) \in DOMAIN stripe /\ KeepsRows
  BY <1>1, AtAnEvent DEF PricePcs, KeepsRows
<1>3. CASE EndsNow(SubOf(w)) /\ job' = [job EXCEPT ![w] = IdleJob]
  BY <1>1, <1>2, <1>3, EndingChanges
<1>4. CASE Refuses(w) /\ UNCHANGED stripe
  BY <1>1, <1>2, <1>4, RefusesRefuses
<1> QED
  BY <1>3, <1>4 DEF InvoicePaymentFailed

\* A delivery begins, is repeated or given up.
LEMMA DeliveryMoves ==
  ASSUME BillingFit, NEW e \in DOMAIN event,
         (\E w \in Workers : HandleWebhook(w, e)) \/ RepeatsDelivery(e) \/ GivesUp(e)
  PROVE  Courses
<1>1. event[e].left \in Nat /\ \A f \in DOMAIN event : event[f].left \in Nat
  BY BillingSequences DEF Event
<1>2. ASSUME NEW w \in Workers, HandleWebhook(w, e) PROVE Courses
  <2> DEFINE n == event[e].left - 1
  <2>1. event' = [event EXCEPT ![e].left = n] /\ event[e].left > 0
        /\ UNCHANGED <<stripe, row, applied, overtaken, abandoned>>
        /\ job[w].pc = "idle"
        /\ job' = [job EXCEPT ![w] = [pc |-> FirstStep(event[e]), event |-> e, state |-> event[e].state, user |-> 0]]
    BY <1>2 DEF HandleWebhook, tables, stripes, billingHistory
  <2>2. n \in Nat
    BY <1>1, <2>1
  <2> HIDE DEF n
  <2>3. Retells /\ \A f \in DOMAIN event : f # e => event'[f].left = event[f].left
    BY <2>1, <2>2, LeftChanges
  <2>4. Delivered(w, e)
    BY <2>1, <2>3 DEF Delivered, KeepsRows
  <2> QED
    BY <2>4 DEF Courses, HandlerMoves
<1>3. CASE RepeatsDelivery(e)
  <2> DEFINE n == event[e].left + 1
  <2>1. event' = [event EXCEPT ![e].left = n]
        /\ UNCHANGED <<stripe, row, job, applied, overtaken, abandoned>>
    BY <1>3 DEF RepeatsDelivery, tables, stripes, billingHistory
  <2>2. n \in Nat /\ n >= event[e].left
    BY <1>1
  <2> HIDE DEF n
  <2>3. Retells /\ event'[e].left = n /\ \A f \in DOMAIN event : f # e => event'[f].left = event[f].left
    BY <2>1, <2>2, LeftChanges
  <2>4. \A f \in DOMAIN event : event'[f].left >= event[f].left
    BY <1>1, <2>2, <2>3
  <2>5. Repeats
    BY <2>1, <2>3, <2>4 DEF Repeats, KeepsRows
  <2> QED
    BY <2>5 DEF Courses
<1>4. CASE GivesUp(e)
  <2>1. event' = [event EXCEPT ![e].left = 0] /\ abandoned' = abandoned \cup {event[e].sub}
        /\ UNCHANGED <<stripe, row, job, applied, overtaken>>
    BY <1>4 DEF GivesUp, tables, stripes
  <2>2. Retells /\ \A f \in DOMAIN event : f # e => event'[f].left = event[f].left
    BY <2>1, LeftChanges
  <2>3. Abandons(e)
    BY <2>1, <2>2 DEF Abandons, KeepsRows
  <2> QED
    BY <2>3 DEF Courses
<1> QED
  BY <1>2, <1>3, <1>4

\* Every step of Billing is one of these.
LEMMA EveryBillingStepMoves ==
  ASSUME BillingFit, Told, [BillingNext]_billingVars
  PROVE  Moves
<1>1. ASSUME NEW r \in Requests, NEW m \in Emails, HandleEmailSignup(r, m) \/ HandleGoogleOauthCallback(r, m)
      PROVE  Moves
  BY <1>1, LookUpMoves DEF HandleEmailSignup, HandleGoogleOauthCallback, Kinds
<1>2. ASSUME NEW r \in Requests, RequestStep(r) \/ RequestFails(r)
      PROVE  Moves
  BY <1>2, CreationMoves, RequestGoesOn, RequestTells DEF RequestStep, SignupStep
<1>3. ASSUME UNCHANGED <<user, req, customers, listed>>, Courses
      PROVE  Moves
  <2>1. AccountMoves
    BY <1>3, RequestsWait DEF BillingFit, BillingTypeOK
  <2> QED
    BY <1>3, <2>1 DEF Moves
<1>4. ASSUME NEW w \in Workers, NEW e \in DOMAIN event, HandleWebhook(w, e)
      PROVE  Moves
  <2>1. UNCHANGED <<user, req, customers, listed>>
    BY <1>4 DEF HandleWebhook, tables, stripes
  <2> QED
    BY <1>3, <1>4, <2>1, DeliveryMoves
<1>5. ASSUME NEW e \in DOMAIN event, RepeatsDelivery(e) \/ GivesUp(e)
      PROVE  Moves
  <2>1. UNCHANGED <<user, req, customers, listed>>
    BY <1>5 DEF RepeatsDelivery, GivesUp, tables, stripes
  <2> QED
    BY <1>3, <1>5, <2>1, DeliveryMoves
<1>6. ASSUME NEW w \in Workers, WebhookStep(w)
      PROVE  Moves
  <2>1. CASE \/ ProductCreated(w) \/ FindsProduct(w) \/ FetchesProduct(w)
             \/ PriceCreated(w) \/ PriceUpdated(w) \/ PriceDeleted(w)
    <3>1. UNCHANGED <<user, req, customers, listed>>
      BY <2>1 DEF ProductCreated, FindsProduct, FetchesProduct, PriceCreated, PriceUpdated, PriceDeleted, tables, stripes
    <3> QED
      BY <1>3, <2>1, <3>1, PriceStepMoves
  <2>2. CASE FindsUser(w) \/ FindsPrice(w) \/ InvoicePaymentPaid(w)
    <3>1. UNCHANGED <<user, req, customers, listed>>
      BY <2>2 DEF FindsUser, FindsPrice, InvoicePaymentPaid, tables, stripes
    <3> QED
      BY <1>3, <2>2, <3>1, LookupStepMoves
  <2>3. CASE SubscriptionCreated(w) \/ SubscriptionUpdated(w) \/ SubscriptionCanceled(w)
    <3>1. UNCHANGED <<user, req, customers, listed>>
      BY <2>3 DEF SubscriptionCreated, SubscriptionUpdated, SubscriptionCanceled, stripes
    <3> QED
      BY <1>3, <2>3, <3>1, WriteStepMoves
  <2>4. CASE InvoicePaymentFailed(w)
    <3>1. UNCHANGED <<user, req, customers, listed>>
      BY <2>4 DEF InvoicePaymentFailed, tables
    <3> QED
      BY <1>3, <2>4, <3>1, PaymentFailedMoves
  <2> QED
    BY <1>6, <2>1, <2>2, <2>3, <2>4 DEF WebhookStep
<1>7. ASSUME NEW w \in Workers, WebhookFails(w)
      PROVE  Moves
  <2>1. UNCHANGED <<user, req, customers, listed, row, stripe, applied, overtaken, abandoned>> /\ Refuses(w)
        /\ job[w].pc # "idle"
    BY <1>7 DEF WebhookFails, tables, stripes, billingHistory
  <2> QED
    BY <1>3, <2>1, RefusesRefuses DEF KeepsRows
<1>8. CASE UNCHANGED billingVars
  <2>1. UNCHANGED <<user, req, customers, listed>> /\ Still
    BY <1>8 DEF billingVars, tables, stripes, billingHistory, Still, KeepsRows
  <2> QED
    BY <1>3, <2>1 DEF Courses
<1>9. CASE BillingNext
  BY <1>1, <1>2, <1>4, <1>5, <1>6, <1>7, <1>9, RequestOpens, StripeStepMoves, CatalogueMoves DEF BillingNext
<1> QED
  BY <1>8, <1>9

-----------------------------------------------------------------------------
(* What every step keeps: types and links.                                 *)

\* What was told stays, of the subscriptions there are.
TalesKept ==
  /\ event' \in Seq(Event) /\ DOMAIN event \subseteq DOMAIN event'
  /\ \A e \in DOMAIN event : SameTale(event'[e], event[e])
StripeKept ==
  /\ stripe' \in Seq(State) /\ applied' \in Seq(Nat) /\ Len(applied') = Len(stripe')
  /\ DOMAIN stripe \subseteq DOMAIN stripe'
TellsOfSubscriptions ==
  \A e \in DOMAIN event' \ DOMAIN event :
    IF event'[e].type \in PriceTypes THEN event'[e].sub = 0 ELSE event'[e].sub \in DOMAIN stripe'

LEMMA CourseKinds ==
  ASSUME BillingFit, Courses
  PROVE  \/ Retells /\ KeepsRows
         \/ StripeMoves
         \/ \E w \in Workers : Writes(w) /\ Retells
<1>1. ASSUME UNCHANGED <<event, stripe>> PROVE Retells
  BY <1>1 DEF Retells, SameTale, BillingFit, BillingTypeOK
<1>2. CASE Still \/ Repeats \/ \E e : Abandons(e)
  BY <1>1, <1>2 DEF Still, Repeats, Abandons
<1>3. ASSUME NEW w \in Workers, HandlerMoves(w)
      PROVE  (Retells /\ KeepsRows) \/ (Writes(w) /\ Retells)
  BY <1>1, <1>3 DEF HandlerMoves, Delivered, GoesOn, Refused, Finishes, Writes
<1> QED
  BY <1>2, <1>3 DEF Courses

\* One record is added to a sequence, or one of it replaced.
LEMMA Grows ==
  ASSUME NEW S, NEW q \in Seq(S), NEW x \in S
  PROVE  /\ Append(q, x) \in Seq(S) /\ DOMAIN q = 1 .. Len(q) /\ Len(q) \in Nat
         /\ DOMAIN Append(q, x) = DOMAIN q \cup {Len(q) + 1} /\ Len(q) + 1 \notin DOMAIN q
         /\ Append(q, x)[Len(q) + 1] = x /\ \A i \in DOMAIN q : Append(q, x)[i] = q[i]
         /\ Len(Append(q, x)) = Len(q) + 1
OBVIOUS

LEMMA Replaces ==
  ASSUME NEW S, NEW q \in Seq(S), NEW x \in S, NEW i \in DOMAIN q
  PROVE  /\ [q EXCEPT ![i] = x] \in Seq(S) /\ DOMAIN [q EXCEPT ![i] = x] = DOMAIN q
         /\ Len([q EXCEPT ![i] = x]) = Len(q)
         /\ [q EXCEPT ![i] = x][i] = x /\ \A j \in DOMAIN q \ {i} : [q EXCEPT ![i] = x][j] = q[j]
OBVIOUS

LEMMA BeginningFacts ==
  ASSUME BillingFit, NEW state, SubscriptionBegins(state)
  PROVE  /\ TalesKept /\ StripeKept /\ TellsOfSubscriptions
         /\ DOMAIN stripe' = DOMAIN stripe \cup {Len(stripe) + 1} /\ Len(stripe) + 1 \notin DOMAIN stripe
         /\ Len(stripe) + 1 \in Nat \ {0}
         /\ stripe'[Len(stripe) + 1] = state /\ applied'[Len(stripe) + 1] = 0
         /\ \A s \in DOMAIN stripe : stripe'[s] = stripe[s] /\ applied'[s] = applied[s]
         /\ \A e \in DOMAIN event' \ DOMAIN event :
              /\ event'[e].type = "created" /\ event'[e].sub = Len(stripe) + 1 /\ event'[e].state = state
              /\ event'[e].left = 1
<1>1. /\ stripe \in Seq(State) /\ applied \in Seq(Nat) /\ Len(applied) = Len(stripe) /\ state \in State
      /\ stripe' = Append(stripe, state) /\ applied' = Append(applied, 0) /\ Tells
  BY DEF BillingFit, BillingTypeOK, SubscriptionBegins
<1>2. /\ stripe' \in Seq(State) /\ DOMAIN stripe = 1 .. Len(stripe) /\ Len(stripe) \in Nat
      /\ DOMAIN stripe' = DOMAIN stripe \cup {Len(stripe) + 1} /\ Len(stripe) + 1 \notin DOMAIN stripe
      /\ stripe'[Len(stripe) + 1] = state /\ \A s \in DOMAIN stripe : stripe'[s] = stripe[s]
      /\ Len(stripe') = Len(stripe) + 1
  BY <1>1, Grows
<1>3. /\ applied' \in Seq(Nat) /\ DOMAIN applied = 1 .. Len(applied)
      /\ applied'[Len(applied) + 1] = 0 /\ \A s \in DOMAIN applied : applied'[s] = applied[s]
      /\ Len(applied') = Len(applied) + 1
  BY <1>1, Grows, 0 \in Nat
<1>4. \A e \in DOMAIN event' \ DOMAIN event :
        /\ event'[e].type = "created" /\ event'[e].sub = Len(stripe) + 1 /\ event'[e].state = state
        /\ event'[e].left = 1
  BY DEF SubscriptionBegins, SameTale, About
<1>5. TalesKept
  BY <1>1 DEF TalesKept, Tells, SameTale
<1>6. StripeKept
  BY <1>1, <1>2, <1>3 DEF StripeKept
<1>7. TellsOfSubscriptions
  BY <1>2, <1>4 DEF TellsOfSubscriptions, PriceTypes
<1> QED
  BY <1>1, <1>2, <1>3, <1>4, <1>5, <1>6, <1>7

LEMMA ChangingFacts ==
  ASSUME BillingFit, NEW s, NEW state, SubscriptionChanges(s, state)
  PROVE  /\ TalesKept /\ StripeKept /\ TellsOfSubscriptions
         /\ DOMAIN stripe' = DOMAIN stripe /\ s \in DOMAIN stripe
         /\ stripe'[s] = state /\ \A t \in DOMAIN stripe \ {s} : stripe'[t] = stripe[t]
<1>1. /\ stripe \in Seq(State) /\ applied \in Seq(Nat) /\ Len(applied) = Len(stripe) /\ state \in State
      /\ s \in DOMAIN stripe /\ stripe' = [stripe EXCEPT ![s] = state] /\ applied' = applied /\ Tells
  BY DEF BillingFit, BillingTypeOK, SubscriptionChanges, KeepsRows
<1>2. /\ stripe' \in Seq(State) /\ DOMAIN stripe' = DOMAIN stripe /\ Len(stripe') = Len(stripe)
      /\ stripe'[s] = state /\ \A t \in DOMAIN stripe \ {s} : stripe'[t] = stripe[t]
  BY <1>1, Replaces
<1>3. TalesKept
  BY <1>1 DEF TalesKept, Tells, SameTale
<1>4. StripeKept
  BY <1>1, <1>2 DEF StripeKept
<1>5. TellsOfSubscriptions
  BY <1>2, <1>1 DEF TellsOfSubscriptions, PriceTypes, InvoiceTypes, SubscriptionChanges
<1> QED
  BY <1>1, <1>2, <1>3, <1>4, <1>5

LEMMA MaxOfTwo ==
  ASSUME NEW a \in Nat, NEW b \in Nat
  PROVE  Max({a, b}) \in {a, b} /\ Max({a, b}) >= a /\ Max({a, b}) >= b /\ Max({a, b}) \in Nat
<1>1. \E x \in {a, b} : \A y \in {a, b} : x >= y
  <2>1. CASE a >= b
    BY <2>1
  <2>2. CASE b >= a
    BY <2>2
  <2> QED
    BY <2>1, <2>2
<1>2. Max({a, b}) \in {a, b} /\ \A y \in {a, b} : Max({a, b}) >= y
  BY <1>1 DEF Max
<1> QED
  BY <1>2

LEMMA WritingFacts ==
  ASSUME BillingFit, NEW w \in Workers, Writes(w)
  PROVE  /\ SubOf(w) \in DOMAIN stripe /\ applied' \in Seq(Nat) /\ Len(applied') = Len(applied)
         /\ applied'[SubOf(w)] >= applied[SubOf(w)] /\ applied'[SubOf(w)] >= job[w].state.version
         /\ applied'[SubOf(w)] \in {applied[SubOf(w)], job[w].state.version}
         /\ \A t \in DOMAIN stripe \ {SubOf(w)} : applied'[t] = applied[t]
         /\ job[w].state \in State /\ job[w].pc \in {"insert", "update", "cancel"}
         /\ row' \in Seq(SubscriptionRow)
         /\ DOMAIN row \subseteq DOMAIN row' /\ \A k \in DOMAIN row : row'[k].sub = row[k].sub
         /\ \A k \in DOMAIN row' \ DOMAIN row : row'[k].sub = SubOf(w)
<1> DEFINE s == SubOf(w)
           v == job[w].state.version
<1>1. job[w].pc \in {"insert", "update", "cancel"}
  BY DEF Writes, Inserts, Rewrites
<1>2. s \in DOMAIN stripe /\ job[w].state \in State /\ v \in Nat
  BY <1>1, AtAnEvent DEF PricePcs, State
<1>3. applied \in Seq(Nat) /\ DOMAIN applied = DOMAIN stripe /\ applied[s] \in Nat
  BY <1>2, BillingSequences DEF BillingFit, BillingTypeOK
<1> DEFINE m == Max({applied[s], v})
<1>4. m \in {applied[s], v} /\ m >= applied[s] /\ m >= v /\ m \in Nat
  BY <1>2, <1>3, MaxOfTwo
<1>5. applied' = [applied EXCEPT ![s] = m]
  BY DEF Writes, Shows
<1> HIDE DEF m
<1>6. /\ applied' \in Seq(Nat) /\ Len(applied') = Len(applied) /\ applied'[s] = m
      /\ \A t \in DOMAIN stripe \ {s} : applied'[t] = applied[t]
  BY <1>2, <1>3, <1>4, <1>5, Replaces
<1>7. /\ row' \in Seq(SubscriptionRow)
      /\ DOMAIN row \subseteq DOMAIN row' /\ \A k \in DOMAIN row : row'[k].sub = row[k].sub
      /\ \A k \in DOMAIN row' \ DOMAIN row : row'[k].sub = s
  <2>1. row \in Seq(SubscriptionRow)
    BY DEF BillingFit, BillingTypeOK
  <2>2. CASE \E new : Inserts(w, new)
    BY <2>1, <2>2, Grows DEF Inserts
  <2>3. CASE Rewrites(w)
    BY <2>3 DEF Rewrites
  <2> QED
    BY <2>2, <2>3 DEF Writes
<1> QED
  BY <1>1, <1>2, <1>4, <1>6, <1>7

LEMMA EveryCourseKeeps ==
  ASSUME BillingFit, Courses
  PROVE  TalesKept /\ StripeKept /\ TellsOfSubscriptions
<1>1. stripe \in Seq(State) /\ applied \in Seq(Nat) /\ Len(applied) = Len(stripe) /\ event \in Seq(Event)
  BY DEF BillingFit, BillingTypeOK
<1>2. CASE Retells /\ KeepsRows
  <2>1. event' \in Seq(Event) /\ DOMAIN event' = DOMAIN event /\ stripe' = stripe /\ applied' = applied
    BY <1>2 DEF Retells, KeepsRows
  <2> QED
    BY <1>1, <1>2, <2>1 DEF Retells, TalesKept, StripeKept, TellsOfSubscriptions
<1>3. CASE \E state : SubscriptionBegins(state)
  BY <1>3, BeginningFacts
<1>4. CASE \E s, state : SubscriptionChanges(s, state)
  BY <1>4, ChangingFacts
<1>5. CASE CatalogueTells
  BY <1>1, <1>5 DEF CatalogueTells, Tells, SameTale, KeepsRows, TalesKept, StripeKept, TellsOfSubscriptions
<1>6. ASSUME NEW w \in Workers, Writes(w), Retells
      PROVE  TalesKept /\ StripeKept /\ TellsOfSubscriptions
  <2>1. event' \in Seq(Event) /\ DOMAIN event' = DOMAIN event /\ stripe' = stripe
        /\ applied' \in Seq(Nat) /\ Len(applied') = Len(applied)
    BY <1>6, WritingFacts DEF Retells
  <2> QED
    BY <1>1, <1>6, <2>1 DEF Retells, TalesKept, StripeKept, TellsOfSubscriptions
<1> QED
  BY <1>2, <1>3, <1>4, <1>5, <1>6, CourseKinds DEF StripeMoves

\* The subscriptions the rows name are there.
LEMMA RowsNameSubscriptions ==
  ASSUME BillingFit, Courses
  PROVE  row' \in Seq(SubscriptionRow) /\ \A k \in DOMAIN row' : row'[k].sub \in DOMAIN stripe'
<1>1. row \in Seq(SubscriptionRow) /\ DOMAIN stripe \subseteq DOMAIN stripe'
      /\ \A k \in DOMAIN row : row[k].sub \in DOMAIN stripe
  BY EveryCourseKeeps DEF BillingFit, BillingTypeOK, Links, StripeKept
<1>2. CASE row' = row
  BY <1>1, <1>2
<1>3. ASSUME NEW w \in Workers, Writes(w)
      PROVE  row' \in Seq(SubscriptionRow) /\ \A k \in DOMAIN row' : row'[k].sub \in DOMAIN stripe'
  BY <1>1, <1>3, WritingFacts
<1>4. StripeMoves => row' = row
  BY DEF StripeMoves, SubscriptionBegins, SubscriptionChanges, CatalogueTells, KeepsRows
<1> QED
  BY <1>2, <1>3, <1>4, CourseKinds DEF KeepsRows

\* What a handler works on stays what it is while events are added or delivered.
LEMMA HandlesLast ==
  ASSUME BillingFit, TalesKept, NEW w \in Workers, NEW j, j = job'[w], Handles(j)
  PROVE  Handles(job[w])'
<1>1. CASE j.pc = "idle"
  BY <1>1 DEF Handles
<1>2. CASE j.pc # "idle"
  <2> DEFINE e == j.event
  <2>1. e \in DOMAIN event /\ e \in DOMAIN event'
    BY <1>2 DEF Handles, TalesKept
  <2>2. event[e] \in Event /\ event'[e] \in Event
    <3>1. event \in Seq(Event) /\ event' \in Seq(Event)
      BY DEF BillingFit, BillingTypeOK, TalesKept
    <3> QED
      BY <2>1, <3>1
  <2>3. SameTale(event'[e], event[e])
    BY <2>1 DEF TalesKept
  <2>4. FirstStep(event'[e]) = FirstStep(event[e])
    BY <2>2, <2>3, SameFirstStep
  <2>5. event'[e].type = event[e].type /\ event'[e].sub = event[e].sub /\ event'[e].state = event[e].state
    BY <2>3 DEF SameTale
  <2>6. ASSUME IsTold(event[e].sub, j.state)
        PROVE  \E f \in DOMAIN event' : event'[f].sub = event'[e].sub /\ event'[f].state = j.state
    <3>1. PICK f \in DOMAIN event : event[f].sub = event[e].sub /\ event[f].state = j.state
      BY <2>6 DEF IsTold
    <3>2. f \in DOMAIN event' /\ event'[f].sub = event[f].sub /\ event'[f].state = event[f].state
      BY <3>1 DEF TalesKept, SameTale
    <3> QED
      BY <2>5, <3>1, <3>2
  <2>7. /\ j.pc \in RowPcs => FirstStep(event'[e]) = "customer" /\ j.state = event'[e].state
        /\ j.pc \in UpdatePcs => ~j.state.ending /\ event'[e].type \in {"updated", "paid"}
        /\ j.pc = "cancel" => Shown(j.state) = "canceled" /\ event'[e].type \in {"updated", "deleted", "paid"}
        /\ j.pc \in UpdatePcs \cup {"cancel"} =>
             /\ IsTold(event[e].sub, j.state)
             /\ event'[e].type # "paid" => j.state = event'[e].state /\ FirstStep(event'[e]) # "customer"
        /\ j.pc = "stripe_cancel" => event'[e].type = "payment_failed"
        /\ j.pc = "stripe_get" => event'[e].type = "paid"
        /\ j.pc \in PricePcs => event'[e].type \in PriceTypes
    BY <1>2, <2>4, <2>5 DEF Handles
  <2> QED
    BY <2>1, <2>6, <2>7 DEF Handles, IsTold
<1> QED
  BY <1>1, <1>2

\* A delivery begins at the first step of its event.
LEMMA DeliveredHandles ==
  ASSUME BillingFit, Told, NEW e \in DOMAIN event, NEW j,
         j = [pc |-> FirstStep(event[e]), event |-> e, state |-> event[e].state, user |-> 0]
  PROVE  j \in WebhookJob /\ Handles(j) /\ j.pc # "idle"
<1>1. event[e] \in Event /\ e \in Nat
  BY BillingSequences
<1>2. event[e].type \in SubscriptionTypes \cup InvoiceTypes \cup PriceTypes /\ event[e].state \in State
  BY <1>1 DEF Event
<1>3. j.pc = FirstStep(event[e]) /\ j.event = e /\ j.state = event[e].state /\ j.user = 0
  OBVIOUS
<1>4. IsTold(event[e].sub, event[e].state)
  BY DEF IsTold
<1>5. CASE FirstStep(event[e]) = "customer"
  <2>1. j.pc = "customer"
    BY <1>3, <1>5
  <2>2. Handles(j)
    BY <1>3, <1>5, <2>1 DEF Handles, RowPcs, UpdatePcs, PricePcs
  <2> QED
    BY <1>1, <1>2, <2>1, <2>2 DEF WebhookJob, RowPcs
<1>6. CASE event[e].type = "updated" /\ FirstStep(event[e]) # "customer"
  <2>1. event[e].was # "incomplete" /\ j.pc = IF event[e].state.ending THEN "cancel" ELSE "update_price"
    BY <1>2, <1>3, <1>6, FirstSteps
  <2>2. event[e].state.ending \in BOOLEAN
    BY <1>2 DEF State
  <2>3. CASE event[e].state.ending
    <3>1. j.pc = "cancel" /\ Shown(j.state) = "canceled"
      BY <1>3, <2>1, <2>3 DEF Shown
    <3>2. Handles(j)
      BY <1>3, <1>4, <1>6, <3>1 DEF Handles, RowPcs, UpdatePcs, PricePcs
    <3> QED
      BY <1>1, <1>2, <3>1, <3>2 DEF WebhookJob
  <2>4. CASE ~event[e].state.ending
    <3>1. j.pc = "update_price"
      BY <1>3, <2>1, <2>4
    <3>2. Handles(j)
      BY <1>3, <1>4, <1>6, <2>4, <3>1 DEF Handles, RowPcs, UpdatePcs, PricePcs
    <3> QED
      BY <1>1, <1>2, <3>1, <3>2 DEF WebhookJob, UpdatePcs
  <2> QED
    BY <2>3, <2>4
<1>7. CASE event[e].type = "deleted"
  <2>1. j.pc = "cancel"
    BY <1>2, <1>3, <1>7, FirstSteps
  <2>2. Shown(j.state) = "canceled"
    BY <1>3, <1>7 DEF Told, Shown
  <2>3. Handles(j)
    BY <1>3, <1>4, <1>7, <2>1, <2>2 DEF Handles, RowPcs, UpdatePcs, PricePcs
  <2> QED
    BY <1>1, <1>2, <2>1, <2>3 DEF WebhookJob
<1>8. CASE event[e].type = "payment_failed"
  <2>1. j.pc = "stripe_cancel"
    BY <1>2, <1>3, <1>8, FirstSteps
  <2>2. Handles(j)
    BY <1>3, <1>8, <2>1 DEF Handles, RowPcs, UpdatePcs, PricePcs
  <2> QED
    BY <1>1, <1>2, <2>1, <2>2 DEF WebhookJob, InvoicePcs
<1>9. CASE event[e].type = "paid"
  <2>1. j.pc = "stripe_get"
    BY <1>2, <1>3, <1>9, FirstSteps
  <2>2. Handles(j)
    BY <1>3, <1>9, <2>1 DEF Handles, RowPcs, UpdatePcs, PricePcs
  <2> QED
    BY <1>1, <1>2, <2>1, <2>2 DEF WebhookJob, InvoicePcs
<1>10. CASE event[e].type \in PriceTypes
  <2>1. j.pc \in PricePcs
    BY <1>2, <1>3, <1>10, FirstSteps
  <2>2. Handles(j)
    BY <1>3, <1>10, <2>1 DEF Handles, RowPcs, UpdatePcs, PricePcs
  <2> QED
    BY <1>1, <1>2, <2>1, <2>2 DEF WebhookJob, PricePcs
<1> QED
  BY <1>2, <1>5, <1>6, <1>7, <1>8, <1>9, <1>10, FirstSteps DEF SubscriptionTypes, InvoiceTypes

\* Every handler goes on with what it handles.
LEMMA HandlersLast ==
  ASSUME BillingFit, Told, Courses
  PROVE  job' \in [Workers -> WebhookJob] /\ \A w \in Workers : Handles(job[w])'
<1>1. TalesKept /\ job \in [Workers -> WebhookJob] /\ \A w \in Workers : Handles(job[w])
  BY EveryCourseKeeps DEF BillingFit, BillingTypeOK
<1>2. ASSUME job' = job
      PROVE  job' \in [Workers -> WebhookJob] /\ \A w \in Workers : Handles(job[w])'
  <2>1. ASSUME NEW w \in Workers PROVE Handles(job[w])'
    <3>1. job[w] = job'[w]
      BY <1>2
    <3> QED
      BY <1>1, <3>1, HandlesLast
  <2> QED
    BY <1>1, <1>2, <2>1
<1>3. ASSUME NEW w \in Workers, NEW j \in WebhookJob, Handles(j), job' = [job EXCEPT ![w] = j]
      PROVE  job' \in [Workers -> WebhookJob] /\ \A v \in Workers : Handles(job[v])'
  <2>1. job' \in [Workers -> WebhookJob] /\ j = job'[w] /\ \A v \in Workers \ {w} : job[v] = job'[v]
    BY <1>1, <1>3
  <2>2. Handles(job[w])'
    BY <1>1, <1>3, <2>1, HandlesLast
  <2>3. ASSUME NEW v \in Workers \ {w} PROVE Handles(job[v])'
    <3>1. job[v] = job'[v]
      BY <2>1
    <3> QED
      BY <1>1, <3>1, HandlesLast
  <2> QED
    BY <2>1, <2>2, <2>3
<1>4. IdleJob \in WebhookJob /\ Handles(IdleJob)
  BY Rest, BillingAssumption
<1>5. CASE Still \/ Repeats \/ \E e : Abandons(e)
  BY <1>2, <1>5 DEF Still, Repeats, Abandons
<1>6. CASE StripeMoves
  BY <1>2, <1>3, <1>4, <1>6 DEF StripeMoves, SubscriptionBegins, SubscriptionChanges, CatalogueTells
<1>7. ASSUME NEW w \in Workers, HandlerMoves(w)
      PROVE  job' \in [Workers -> WebhookJob] /\ \A v \in Workers : Handles(job[v])'
  <2>1. CASE Refused(w) \/ Finishes(w) \/ Writes(w)
    BY <1>3, <1>4, <2>1 DEF Refused, Finishes, Writes
  <2>2. ASSUME NEW j, GoesOn(w, j)
        PROVE  job' \in [Workers -> WebhookJob] /\ \A v \in Workers : Handles(job[v])'
    BY <1>3, <2>2 DEF GoesOn
  <2>3. ASSUME NEW e, Delivered(w, e)
        PROVE  job' \in [Workers -> WebhookJob] /\ \A v \in Workers : Handles(job[v])'
    <3> DEFINE j == [pc |-> FirstStep(event[e]), event |-> e, state |-> event[e].state, user |-> 0]
    <3>1. e \in DOMAIN event /\ job' = [job EXCEPT ![w] = j]
      BY <2>3 DEF Delivered
    <3>2. j \in WebhookJob /\ Handles(j)
      BY <3>1, DeliveredHandles
    <3> HIDE DEF j
    <3> QED
      BY <1>3, <3>1, <3>2
  <2> QED
    BY <1>7, <2>1, <2>2, <2>3 DEF HandlerMoves
<1> QED
  BY <1>5, <1>6, <1>7 DEF Courses

\* Accounts are never taken away, and requests serve accounts and subscriptions there are.
LEMMA RequestsServe ==
  ASSUME BillingFit, AccountMoves, StripeKept
  PROVE  (\A r \in Requests : Serves(req[r])') /\ DOMAIN user \subseteq DOMAIN user'
<1>1. DOMAIN user \subseteq DOMAIN user'
  BY Grows DEF AccountMoves, KeepsAccounts, LooksUp, Opens, BillingFit, BillingTypeOK
<1> QED
  BY <1>1 DEF AccountMoves, Serves, StripeKept

LEMMA BillingFitLasts ==
  ASSUME BillingFit, Told, Moves
  PROVE  BillingFit'
<1>1. AccountMoves /\ Courses
  BY DEF Moves
<1>2. TalesKept /\ StripeKept /\ TellsOfSubscriptions
  BY <1>1, EveryCourseKeeps
<1>3. row' \in Seq(SubscriptionRow) /\ \A k \in DOMAIN row' : row'[k].sub \in DOMAIN stripe'
  BY <1>1, RowsNameSubscriptions
<1>4. job' \in [Workers -> WebhookJob] /\ \A w \in Workers : Handles(job[w])'
  BY <1>1, HandlersLast
<1>5. \A r \in Requests : Serves(req[r])'
  BY <1>1, <1>2, RequestsServe
<1>6. ASSUME NEW e \in DOMAIN event'
      PROVE  IF event'[e].type \in PriceTypes THEN event'[e].sub = 0 ELSE event'[e].sub \in DOMAIN stripe'
  <2>1. CASE e \notin DOMAIN event
    BY <1>2, <2>1 DEF TellsOfSubscriptions
  <2>2. CASE e \in DOMAIN event
    <3>1. event'[e].type = event[e].type /\ event'[e].sub = event[e].sub
      BY <1>2, <2>2 DEF TalesKept, SameTale
    <3>2. IF event[e].type \in PriceTypes THEN event[e].sub = 0 ELSE event[e].sub \in DOMAIN stripe
      BY <2>2 DEF BillingFit, Links
    <3> QED
      BY <1>2, <3>1, <3>2 DEF StripeKept
  <2> QED
    BY <2>1, <2>2
<1>7. BillingTypeOK'
  BY <1>1, <1>2, <1>3, <1>4 DEF BillingTypeOK, AccountMoves, StripeKept, TalesKept
<1>8. Links'
  BY <1>3, <1>5, <1>6 DEF Links
<1> QED
  BY <1>4, <1>7, <1>8 DEF BillingFit

-----------------------------------------------------------------------------
(* What events tell stays true of the subscriptions.                       *)

LEMMA EventsToldOf ==
  ASSUME BillingFit
  PROVE  /\ \A e \in DOMAIN event :
              /\ event[e] \in Event /\ event[e].sub \in Nat /\ event[e].state \in State /\ event[e].state.version \in Nat
              /\ event[e].type \in SubscriptionTypes \cup InvoiceTypes \cup PriceTypes
              /\ event[e].sub # 0 => event[e].sub \in DOMAIN stripe
         /\ \A s \in DOMAIN stripe : s # 0 /\ s \in Nat /\ stripe[s] \in State /\ stripe[s].version \in Nat
<1>1. \A e \in DOMAIN event : event[e] \in Event
  BY BillingSequences
<1>2. \A e \in DOMAIN event : event[e].sub # 0 => event[e].sub \in DOMAIN stripe
  BY DEF BillingFit, Links
<1>3. \A s \in DOMAIN stripe : s # 0 /\ s \in Nat /\ stripe[s] \in State
  BY BillingSequences
<1> QED
  BY <1>1, <1>2, <1>3 DEF Event, State

\* The events that were there are the same, but for their deliveries.
LEMMA OldTales ==
  ASSUME BillingFit, TalesKept
  PROVE  \A e \in DOMAIN event :
           /\ e \in DOMAIN event' /\ event'[e] \in Event /\ event'[e].type = event[e].type /\ event'[e].sub = event[e].sub
           /\ event'[e].state = event[e].state /\ FirstStep(event'[e]) = FirstStep(event[e])
           /\ Hopeless(event'[e]) <=> Hopeless(event[e])
<1> SUFFICES ASSUME NEW e \in DOMAIN event
             PROVE  /\ e \in DOMAIN event' /\ event'[e] \in Event /\ event'[e].type = event[e].type
                    /\ event'[e].sub = event[e].sub
                    /\ event'[e].state = event[e].state /\ FirstStep(event'[e]) = FirstStep(event[e])
                    /\ Hopeless(event'[e]) <=> Hopeless(event[e])
  OBVIOUS
<1>1. e \in DOMAIN event' /\ event' \in Seq(Event) /\ SameTale(event'[e], event[e])
  BY DEF TalesKept
<1>2. event'[e] \in Event /\ event[e] \in Event
  BY <1>1, BillingSequences
<1> QED
  BY <1>1, <1>2, SameFirstStep DEF SameTale

LEMMA ToldRetold ==
  ASSUME BillingFit, Told, Retells
  PROVE  Told'
<1>1. TalesKept /\ DOMAIN event' = DOMAIN event /\ stripe' = stripe
  BY DEF Retells, TalesKept
<1>2. \A e \in DOMAIN event :
        /\ event'[e].type = event[e].type /\ event'[e].sub = event[e].sub /\ event'[e].state = event[e].state
        /\ FirstStep(event'[e]) = FirstStep(event[e]) /\ (Hopeless(event'[e]) <=> Hopeless(event[e]))
  BY <1>1, OldTales
<1> QED
  BY <1>1, <1>2 DEF Told, Makes

\* Events that make no row, of no subscription.
LEMMA PriceEventsMakeNothing ==
  ASSUME NEW e, e.type \in PriceTypes
  PROVE  FirstStep(e) # "customer" /\ e.type # "deleted" /\ e.type \notin SubscriptionTypes
BY FirstSteps DEF PriceTypes, PricePcs, SubscriptionTypes

LEMMA ToldOfPrices ==
  ASSUME BillingFit, Told, CatalogueTells
  PROVE  Told'
<1>1. TalesKept /\ stripe' = stripe /\ DOMAIN event \subseteq DOMAIN event'
  BY EveryCourseKeeps DEF Courses, StripeMoves, CatalogueTells, TalesKept
<1>2. \A e \in DOMAIN event :
        /\ event'[e].type = event[e].type /\ event'[e].sub = event[e].sub /\ event'[e].state = event[e].state
        /\ FirstStep(event'[e]) = FirstStep(event[e]) /\ (Hopeless(event'[e]) <=> Hopeless(event[e]))
  BY <1>1, OldTales
<1>3. \A e \in DOMAIN event' \ DOMAIN event :
        event'[e].sub = 0 /\ FirstStep(event'[e]) # "customer" /\ event'[e].type # "deleted"
  BY PriceEventsMakeNothing DEF CatalogueTells
<1>4. \A s \in DOMAIN stripe : s # 0
  BY EventsToldOf
<1> QED
  BY <1>1, <1>2, <1>3, <1>4 DEF Told, Makes

LEMMA ToldOfABeginning ==
  ASSUME BillingFit, Told, NEW state, SubscriptionBegins(state)
  PROVE  Told'
<1> DEFINE n == Len(stripe) + 1
<1>1. /\ TalesKept /\ n \notin DOMAIN stripe /\ n # 0 /\ DOMAIN stripe' = DOMAIN stripe \cup {n}
      /\ stripe'[n] = state /\ \A s \in DOMAIN stripe : stripe'[s] = stripe[s]
      /\ \A e \in DOMAIN event' \ DOMAIN event :
           event'[e].type = "created" /\ event'[e].sub = n /\ event'[e].state = state
  BY BeginningFacts
<1>2. DOMAIN event \subseteq DOMAIN event' /\ DOMAIN event' # DOMAIN event
      /\ state.version = 1 /\ state.status \in {"active", "incomplete"} /\ ~state.ending
  BY DEF SubscriptionBegins, Tells
<1>3. \A e \in DOMAIN event :
        /\ event'[e].type = event[e].type /\ event'[e].sub = event[e].sub /\ event'[e].state = event[e].state
        /\ FirstStep(event'[e]) = FirstStep(event[e]) /\ (Hopeless(event'[e]) <=> Hopeless(event[e]))
        /\ event[e].sub # 0 => event[e].sub \in DOMAIN stripe
        /\ event[e].sub # n
  BY <1>1, OldTales, EventsToldOf
<1>4. \A s \in DOMAIN stripe : s # n /\ s # 0
  BY <1>1, EventsToldOf
<1> HIDE DEF n
<1>5. \A e \in DOMAIN event' : event'[e].sub # 0 =>
        event'[e].state.version <= stripe'[event'[e].sub].version
  <2>1. ASSUME NEW e \in DOMAIN event, event'[e].sub # 0
        PROVE  event'[e].state.version <= stripe'[event'[e].sub].version
    BY <1>1, <1>3, <2>1 DEF Told
  <2>2. ASSUME NEW e \in DOMAIN event' \ DOMAIN event
        PROVE  event'[e].state.version <= stripe'[event'[e].sub].version
    BY <1>1, <1>2, <2>2
  <2> QED
    BY <2>1, <2>2
<1>6. \A e, f \in DOMAIN event' :
        event'[e].sub = event'[f].sub /\ event'[e].sub # 0 /\ event'[e].state.version = event'[f].state.version
          => event'[e].state = event'[f].state
  BY <1>1, <1>3 DEF Told
<1>7. \A s \in DOMAIN stripe' : stripe'[s].status # "none" /\
        \E e \in DOMAIN event' : event'[e].sub = s /\ event'[e].type \in SubscriptionTypes /\ event'[e].state = stripe'[s]
  <2>1. ASSUME NEW s \in DOMAIN stripe
        PROVE  stripe'[s].status # "none" /\
               \E e \in DOMAIN event' :
                 event'[e].sub = s /\ event'[e].type \in SubscriptionTypes /\ event'[e].state = stripe'[s]
    BY <1>1, <1>2, <1>3 DEF Told
  <2>2. PICK e \in DOMAIN event' : e \notin DOMAIN event
    BY <1>2
  <2>3. event'[e].sub = n /\ event'[e].type \in SubscriptionTypes /\ event'[e].state = stripe'[n]
    BY <1>1, <2>2 DEF SubscriptionTypes
  <2> QED
    BY <1>1, <1>2, <2>1, <2>3
<1>8. \A e \in DOMAIN event' : event'[e].type = "deleted" => event'[e].state.status = "canceled"
  BY <1>1, <1>3 DEF Told
<1>9. \A e \in DOMAIN event' : FirstStep(event'[e]) = "customer" /\ ~Hopeless(event'[e])
        => event'[e].state.status = "active" /\ ~event'[e].state.ending
  <2>1. ASSUME NEW e \in DOMAIN event, FirstStep(event'[e]) = "customer", ~Hopeless(event'[e])
        PROVE  event'[e].state.status = "active" /\ ~event'[e].state.ending
    BY <1>3, <2>1 DEF Told, Makes
  <2> QED
    BY <1>1, <1>2, <2>1 DEF Hopeless
<1>10. \A e, f \in DOMAIN event' :
         /\ FirstStep(event'[e]) = "customer" /\ ~Hopeless(event'[e])
         /\ FirstStep(event'[f]) = "customer" /\ ~Hopeless(event'[f])
         /\ event'[e].sub = event'[f].sub
         => event'[e].state.version = event'[f].state.version
  BY <1>1, <1>3 DEF Told, Makes
<1>11. \A s \in DOMAIN stripe' : stripe'[s].status = "incomplete" =>
         ~stripe'[s].ending /\ \A e \in DOMAIN event' : event'[e].sub = s => Hopeless(event'[e])
  <2>1. ASSUME NEW s \in DOMAIN stripe, stripe'[s].status = "incomplete"
        PROVE  ~stripe'[s].ending /\ \A e \in DOMAIN event' : event'[e].sub = s => Hopeless(event'[e])
    BY <1>1, <1>3, <1>4, <2>1 DEF Told
  <2> QED
    BY <1>1, <1>2, <1>3, <2>1 DEF Hopeless
<1> QED
  BY <1>5, <1>6, <1>7, <1>8, <1>9, <1>10, <1>11 DEF Told, Makes

LEMMA ToldOfAChange ==
  ASSUME BillingFit, Told, NEW s, NEW state, SubscriptionChanges(s, state)
  PROVE  Told'
<1>1. /\ TalesKept /\ DOMAIN stripe' = DOMAIN stripe /\ s \in DOMAIN stripe /\ s # 0
      /\ stripe'[s] = state /\ \A t \in DOMAIN stripe \ {s} : stripe'[t] = stripe[t]
  BY ChangingFacts, EventsToldOf
<1>2. /\ DOMAIN event \subseteq DOMAIN event' /\ state.version = stripe[s].version + 1 /\ stripe[s].version \in Nat
      /\ state.status \in {"active", "past_due", "canceled"}
      /\ \E e \in DOMAIN event' \ DOMAIN event : event'[e].type \in SubscriptionTypes
  BY <1>1, EventsToldOf DEF SubscriptionChanges, Tells
<1>3. \A e \in DOMAIN event :
        /\ event'[e].type = event[e].type /\ event'[e].sub = event[e].sub /\ event'[e].state = event[e].state
        /\ FirstStep(event'[e]) = FirstStep(event[e]) /\ (Hopeless(event'[e]) <=> Hopeless(event[e]))
        /\ event[e].sub # 0 => event[e].sub \in DOMAIN stripe
        /\ event[e].state.version \in Nat
  BY <1>1, OldTales, EventsToldOf
<1>4. \A e \in DOMAIN event : event[e].sub = s => event[e].state.version <= stripe[s].version
  BY <1>1 DEF Told
<1>5. \A e \in DOMAIN event' \ DOMAIN event :
        /\ event'[e].sub = s /\ event'[e].state = state
        /\ event'[e].type = "deleted" => state.status = "canceled"
        /\ FirstStep(event'[e]) = "customer"
             => stripe[s].status = "incomplete" /\ state.status = "active" /\ state.ending = stripe[s].ending
  <2> SUFFICES ASSUME NEW e \in DOMAIN event' \ DOMAIN event, FirstStep(event'[e]) = "customer"
               PROVE  stripe[s].status = "incomplete" /\ state.status = "active" /\ state.ending = stripe[s].ending
    BY DEF SubscriptionChanges
  <2>1. event'[e].type \in {"updated", "deleted"} \cup InvoiceTypes
    BY DEF SubscriptionChanges
  <2>2. event'[e].type \in SubscriptionTypes \cup InvoiceTypes \cup PriceTypes
    BY <2>1 DEF SubscriptionTypes
  <2>3. event'[e].type = "updated" /\ event'[e].was = "incomplete"
    BY <2>1, <2>2, FirstSteps DEF InvoiceTypes
  <2> QED
    BY <2>3 DEF SubscriptionChanges
<1>6. \A e \in DOMAIN event' : event'[e].sub # 0 =>
        event'[e].state.version <= stripe'[event'[e].sub].version
  <2>1. ASSUME NEW e \in DOMAIN event, event'[e].sub # 0
        PROVE  event'[e].state.version <= stripe'[event'[e].sub].version
    <3>1. event[e].state.version <= stripe[event[e].sub].version /\ event[e].sub \in DOMAIN stripe
      BY <1>3, <2>1 DEF Told
    <3>2. CASE event[e].sub = s
      <4>1. stripe'[event'[e].sub].version = stripe[s].version + 1 /\ event'[e].state.version = event[e].state.version
        BY <1>1, <1>2, <1>3, <3>2
      <4>2. event[e].state.version <= stripe[s].version /\ event[e].state.version \in Nat
        BY <1>3, <1>4, <3>2
      <4> QED
        BY <1>2, <4>1, <4>2
    <3>3. CASE event[e].sub # s
      BY <1>1, <1>3, <3>1, <3>3
    <3> QED
      BY <3>2, <3>3
  <2>2. ASSUME NEW e \in DOMAIN event' \ DOMAIN event
        PROVE  event'[e].state.version <= stripe'[event'[e].sub].version
    BY <1>1, <1>2, <1>5, <2>2
  <2> QED
    BY <2>1, <2>2
<1>7. \A e, f \in DOMAIN event' :
        event'[e].sub = event'[f].sub /\ event'[e].sub # 0 /\ event'[e].state.version = event'[f].state.version
          => event'[e].state = event'[f].state
  <2>1. ASSUME NEW e \in DOMAIN event, NEW f \in DOMAIN event' \ DOMAIN event, event[e].sub = s
        PROVE  event'[e].state.version # event'[f].state.version
    <3>1. event'[e].state.version = event[e].state.version /\ event'[f].state.version = stripe[s].version + 1
      BY <1>2, <1>3, <1>5
    <3>2. event[e].state.version <= stripe[s].version /\ event[e].state.version \in Nat
      BY <1>3, <1>4, <2>1
    <3> QED
      BY <1>2, <3>1, <3>2
  <2>2. ASSUME NEW e \in DOMAIN event, NEW f \in DOMAIN event,
               event'[e].sub = event'[f].sub, event'[e].sub # 0, event'[e].state.version = event'[f].state.version
        PROVE  event'[e].state = event'[f].state
    BY <1>3, <2>2 DEF Told
  <2> QED
    BY <1>1, <1>3, <1>5, <2>1, <2>2
<1>8. \A t \in DOMAIN stripe' : stripe'[t].status # "none" /\
        \E e \in DOMAIN event' : event'[e].sub = t /\ event'[e].type \in SubscriptionTypes /\ event'[e].state = stripe'[t]
  <2>1. ASSUME NEW t \in DOMAIN stripe \ {s}
        PROVE  stripe'[t].status # "none" /\
               \E e \in DOMAIN event' :
                 event'[e].sub = t /\ event'[e].type \in SubscriptionTypes /\ event'[e].state = stripe'[t]
    BY <1>1, <1>2, <1>3 DEF Told
  <2>2. PICK e \in DOMAIN event' \ DOMAIN event : event'[e].type \in SubscriptionTypes
    BY <1>2
  <2>3. event'[e].sub = s /\ event'[e].type \in SubscriptionTypes /\ event'[e].state = stripe'[s]
    BY <1>1, <1>5, <2>2
  <2> QED
    BY <1>1, <1>2, <2>1, <2>3
<1>9. \A e \in DOMAIN event' : event'[e].type = "deleted" => event'[e].state.status = "canceled"
  BY <1>3, <1>5 DEF Told
<1>10. \A e \in DOMAIN event' : FirstStep(event'[e]) = "customer" /\ ~Hopeless(event'[e])
        => event'[e].state.status = "active" /\ ~event'[e].state.ending
  <2>1. ASSUME NEW e \in DOMAIN event, FirstStep(event'[e]) = "customer", ~Hopeless(event'[e])
        PROVE  event'[e].state.status = "active" /\ ~event'[e].state.ending
    BY <1>3, <2>1 DEF Told, Makes
  <2>2. ASSUME NEW e \in DOMAIN event' \ DOMAIN event, FirstStep(event'[e]) = "customer"
        PROVE  event'[e].state.status = "active" /\ ~event'[e].state.ending
    <3>1. stripe[s].status = "incomplete" /\ state.status = "active" /\ state.ending = stripe[s].ending
      BY <1>5, <2>2
    <3>2. ~stripe[s].ending
      BY <1>1, <3>1 DEF Told
    <3> QED
      BY <1>5, <3>1, <3>2
  <2> QED
    BY <2>1, <2>2
<1>11. \A e, f \in DOMAIN event' :
         /\ FirstStep(event'[e]) = "customer" /\ ~Hopeless(event'[e])
         /\ FirstStep(event'[f]) = "customer" /\ ~Hopeless(event'[f])
         /\ event'[e].sub = event'[f].sub
         => event'[e].state.version = event'[f].state.version
  <2>1. ASSUME NEW e \in DOMAIN event, NEW f \in DOMAIN event,
               FirstStep(event'[e]) = "customer", ~Hopeless(event'[e]),
               FirstStep(event'[f]) = "customer", ~Hopeless(event'[f]), event'[e].sub = event'[f].sub
        PROVE  event'[e].state.version = event'[f].state.version
    BY <1>3, <2>1 DEF Told, Makes
  <2>2. ASSUME NEW e \in DOMAIN event, NEW f \in DOMAIN event' \ DOMAIN event,
               FirstStep(event'[f]) = "customer", event[e].sub = s
        PROVE  Hopeless(event'[e])
    BY <1>1, <1>3, <1>5, <2>2 DEF Told
  <2> QED
    BY <1>3, <1>5, <2>1, <2>2
<1>12. \A t \in DOMAIN stripe' : stripe'[t].status = "incomplete" =>
         ~stripe'[t].ending /\ \A e \in DOMAIN event' : event'[e].sub = t => Hopeless(event'[e])
  <2>1. ASSUME NEW t \in DOMAIN stripe \ {s}, stripe'[t].status = "incomplete"
        PROVE  ~stripe'[t].ending /\ \A e \in DOMAIN event' : event'[e].sub = t => Hopeless(event'[e])
    BY <1>1, <1>3, <1>5, <2>1 DEF Told
  <2> QED
    BY <1>1, <1>2, <2>1
<1> QED
  BY <1>6, <1>7, <1>8, <1>9, <1>10, <1>11, <1>12 DEF Told, Makes

LEMMA ToldLasts ==
  ASSUME BillingFit, Told, Moves
  PROVE  Told'
<1>1. Courses
  BY DEF Moves
<1> QED
  BY <1>1, CourseKinds, ToldRetold, ToldOfPrices, ToldOfABeginning, ToldOfAChange DEF StripeMoves

-----------------------------------------------------------------------------
(* An event is handled, or will be, or was given up.                       *)

LEMMA ProgressKept ==
  ASSUME BillingFit, Progress, TalesKept, abandoned \subseteq abandoned',
         \A s \in DOMAIN stripe : applied[s] \in Nat /\ applied'[s] \in Nat /\ applied'[s] >= applied[s]
                                  /\ (Of(s) # {} => Of(s)' # {}),
         \A e \in DOMAIN event' \ DOMAIN event : event'[e].type \in SubscriptionTypes => event'[e].left > 0,
         \A e \in DOMAIN event : event[e].type \in SubscriptionTypes /\ event[e].left > 0 =>
           event'[e].left > 0 \/ AtWork(e)' \/ event[e].sub \in abandoned',
         \A e \in DOMAIN event : event[e].type \in SubscriptionTypes /\ AtWork(e) =>
           event'[e].left > 0 \/ AtWork(e)' \/ HasShown(e)'
  PROVE  Progress'
<1> SUFFICES ASSUME NEW e \in DOMAIN event', event'[e].type \in SubscriptionTypes
             PROVE  event'[e].left > 0 \/ AtWork(e)' \/ event'[e].sub \in abandoned' \/ HasShown(e)'
  BY DEF Progress
<1>1. CASE e \notin DOMAIN event
  BY <1>1
<1>2. CASE e \in DOMAIN event
  <2>1. /\ event'[e].type = event[e].type /\ event'[e].sub = event[e].sub /\ event'[e].state = event[e].state
        /\ FirstStep(event'[e]) = FirstStep(event[e])
    BY <1>2, OldTales
  <2>2. CASE HasShown(e)
    <3>1. event[e].sub \in DOMAIN stripe /\ event[e].state.version \in Nat
      <4>1. event[e].type \notin PriceTypes
        BY <2>1 DEF SubscriptionTypes, PriceTypes
      <4> QED
        BY <1>2, <4>1, EventsToldOf DEF BillingFit, Links
    <3>2. applied'[event'[e].sub] >= event'[e].state.version
      BY <2>1, <2>2, <3>1 DEF HasShown
    <3>3. FirstStep(event'[e]) = "customer" => Of(event[e].sub)' # {}
      BY <2>1, <2>2, <3>1 DEF HasShown
    <3> QED
      BY <2>1, <3>2, <3>3 DEF HasShown, Of
  <2> QED
    BY <1>2, <2>1, <2>2 DEF Progress
<1> QED
  BY <1>1, <1>2

\* Steps that write no row.
LEMMA ProgressWithoutRows ==
  ASSUME BillingFit, Progress, TalesKept, KeepsRows, abandoned \subseteq abandoned',
         \A e \in DOMAIN event' \ DOMAIN event : event'[e].type \in SubscriptionTypes => event'[e].left > 0,
         \A e \in DOMAIN event : event[e].type \in SubscriptionTypes /\ event[e].left > 0 =>
           event'[e].left > 0 \/ AtWork(e)' \/ event[e].sub \in abandoned',
         \A e \in DOMAIN event : event[e].type \in SubscriptionTypes /\ AtWork(e) => event'[e].left > 0 \/ AtWork(e)'
  PROVE  Progress'
<1>1. \A s \in DOMAIN stripe : applied[s] \in Nat /\ applied'[s] = applied[s]
  BY BillingSequences DEF KeepsRows
<1>2. \A s \in DOMAIN stripe : Of(s) # {} => Of(s)' # {}
  BY DEF KeepsRows, Of
<1>3. \A s \in DOMAIN stripe : applied[s] \in Nat /\ applied'[s] \in Nat /\ applied'[s] >= applied[s]
                               /\ (Of(s) # {} => Of(s)' # {})
  BY <1>1, <1>2
<1> QED
  BY <1>3, ProgressKept

\* A handler that stops working for an event of a subscription has to answer for it.
LEMMA OthersWork ==
  ASSUME BillingFit, NEW w \in Workers, NEW j, job' = [job EXCEPT ![w] = j], NEW e, AtWork(e),
         job[w].pc = "idle" \/ job[w].event # e \/ (j.pc # "idle" /\ j.event = e)
  PROVE  AtWork(e)'
<1>1. job \in [Workers -> WebhookJob]
  BY DEF BillingFit, BillingTypeOK
<1>2. PICK v \in Workers : job[v].pc # "idle" /\ job[v].event = e
  BY DEF AtWork
<1>3. job'[w] = j /\ \A u \in Workers \ {w} : job'[u] = job[u]
  BY <1>1
<1>4. \E u \in Workers : job'[u].pc # "idle" /\ job'[u].event = e
  BY <1>2, <1>3
<1> QED
  BY <1>4 DEF AtWork

LEMMA NewLeft ==
  ASSUME BillingFit, StripeMoves
  PROVE  /\ \A e \in DOMAIN event' \ DOMAIN event : event'[e].type \in SubscriptionTypes => event'[e].left > 0
         /\ \A e \in DOMAIN event : event'[e] = event[e]
         /\ abandoned' = abandoned
<1>1. ASSUME NEW state, SubscriptionBegins(state) PROVE \A e \in DOMAIN event' \ DOMAIN event : event'[e].left = 1
  BY <1>1 DEF SubscriptionBegins
<1>2. ASSUME NEW s, NEW state, SubscriptionChanges(s, state)
      PROVE  \A e \in DOMAIN event' \ DOMAIN event : event'[e].left = 1
  BY <1>2 DEF SubscriptionChanges
<1>3. CatalogueTells => \A e \in DOMAIN event' \ DOMAIN event : event'[e].type \notin SubscriptionTypes
  BY PriceEventsMakeNothing DEF CatalogueTells
<1>4. Tells /\ abandoned' = abandoned
  BY DEF StripeMoves, SubscriptionBegins, SubscriptionChanges, CatalogueTells
<1>5. \A e \in DOMAIN event' \ DOMAIN event : event'[e].type \in SubscriptionTypes => event'[e].left > 0
  BY <1>1, <1>2, <1>3 DEF StripeMoves
<1> QED
  BY <1>4, <1>5 DEF Tells

LEMMA ProgressOfStripe ==
  ASSUME BillingFit, Progress, StripeMoves
  PROVE  Progress'
<1>1. TalesKept
  BY EveryCourseKeeps DEF Courses
<1>2. /\ \A e \in DOMAIN event' \ DOMAIN event : event'[e].type \in SubscriptionTypes => event'[e].left > 0
      /\ \A e \in DOMAIN event : event'[e] = event[e]
      /\ abandoned' = abandoned
  BY NewLeft
<1>3. ASSUME NEW e \in DOMAIN event, event[e].type \in SubscriptionTypes, AtWork(e)
      PROVE  AtWork(e)'
  <2>1. CASE job' = job
    BY <1>3, <2>1 DEF AtWork
  <2>2. ASSUME NEW w \in Workers, job[w].pc = "stripe_cancel", job' = [job EXCEPT ![w] = IdleJob]
        PROVE  AtWork(e)'
    <3>1. Handles(job[w])
      BY DEF BillingFit
    <3>2. event[job[w].event].type = "payment_failed"
      BY <2>2, <3>1 DEF Handles
    <3>3. job[w].event # e
      BY <1>3, <3>2 DEF SubscriptionTypes
    <3> QED
      BY <1>3, <2>2, <3>3, OthersWork
  <2> QED
    BY <2>1, <2>2 DEF StripeMoves, SubscriptionBegins, SubscriptionChanges, CatalogueTells
<1>4. \A s \in DOMAIN stripe : applied[s] \in Nat /\ applied'[s] = applied[s]
  <2>1. \A s \in DOMAIN stripe : applied[s] \in Nat
    BY BillingSequences
  <2>2. CASE \E state : SubscriptionBegins(state)
    BY <2>1, <2>2, BeginningFacts
  <2>3. CASE applied' = applied
    BY <2>1, <2>3
  <2> QED
    BY <2>2, <2>3 DEF StripeMoves, SubscriptionChanges, CatalogueTells, KeepsRows
<1>5. row' = row
  BY DEF StripeMoves, SubscriptionBegins, SubscriptionChanges, CatalogueTells, KeepsRows
<1>6. \A s \in DOMAIN stripe : Of(s) # {} => Of(s)' # {}
  BY <1>5 DEF Of
<1>7. \A s \in DOMAIN stripe : applied[s] \in Nat /\ applied'[s] \in Nat /\ applied'[s] >= applied[s]
                               /\ (Of(s) # {} => Of(s)' # {})
  BY <1>4, <1>6
<1> QED
  BY <1>1, <1>2, <1>3, <1>7, ProgressKept

LEMMA ProgressOfDeliveries ==
  ASSUME BillingFit, Progress, Still \/ Repeats \/ \E e : Abandons(e)
  PROVE  Progress'
<1>1. TalesKept
  BY EveryCourseKeeps DEF Courses
<1>2. DOMAIN event' = DOMAIN event /\ KeepsRows /\ job' = job /\ abandoned \subseteq abandoned'
  BY DEF Still, Repeats, Abandons, Retells
<1>3. \A e \in DOMAIN event : AtWork(e) => AtWork(e)'
  BY <1>2 DEF AtWork
<1>4. \A e \in DOMAIN event : event[e].left \in Nat /\ event'[e].left \in Nat
  <2>1. event \in Seq(Event) /\ event' \in Seq(Event)
    BY <1>1 DEF TalesKept, BillingFit, BillingTypeOK
  <2>2. \A e \in DOMAIN event : event[e] \in Event /\ event'[e] \in Event
    BY <1>2, <2>1
  <2> QED
    BY <2>2 DEF Event
<1>5. ASSUME NEW e \in DOMAIN event, event[e].left > 0
      PROVE  event'[e].left > 0 \/ event[e].sub \in abandoned'
  <2>1. CASE Still
    BY <1>5, <2>1 DEF Still
  <2>2. CASE Repeats
    <3>1. event'[e].left >= event[e].left
      BY <2>2 DEF Repeats
    <3> QED
      BY <1>4, <1>5, <3>1
  <2>3. ASSUME NEW f, Abandons(f)
        PROVE  event'[e].left > 0 \/ event[e].sub \in abandoned'
    BY <1>5, <2>3 DEF Abandons
  <2> QED
    BY <2>1, <2>2, <2>3
<1> QED
  BY <1>1, <1>2, <1>3, <1>5, ProgressWithoutRows

LEMMA ProgressOfHandlers ==
  ASSUME BillingFit, Told, Progress, NEW w \in Workers, HandlerMoves(w), ~Writes(w)
  PROVE  Progress'
<1>1. TalesKept
  BY EveryCourseKeeps DEF Courses
<1>2. DOMAIN event' = DOMAIN event /\ KeepsRows /\ abandoned' = abandoned
  BY DEF HandlerMoves, Delivered, GoesOn, Refused, Finishes, Retells
<1>3. \A e \in DOMAIN event : event[e].left \in Nat /\ event'[e].left \in Nat
  <2>1. event \in Seq(Event) /\ event' \in Seq(Event)
    BY <1>1 DEF TalesKept, BillingFit, BillingTypeOK
  <2>2. \A e \in DOMAIN event : event[e] \in Event /\ event'[e] \in Event
    BY <1>2, <2>1
  <2> QED
    BY <2>2 DEF Event
<1>4. job \in [Workers -> WebhookJob]
  BY DEF BillingFit, BillingTypeOK
<1>5. ASSUME NEW e \in DOMAIN event, event[e].left > 0
      PROVE  event'[e].left > 0 \/ AtWork(e)'
  <2>1. CASE GoesOn(w, job'[w]) \/ event' = event
    BY <1>5, <2>1 DEF GoesOn
  <2>2. CASE Refused(w)
    <3>1. event'[e].left >= event[e].left
      BY <2>2 DEF Refused
    <3> QED
      BY <1>3, <1>5, <3>1
  <2>3. ASSUME NEW f, Delivered(w, f)
        PROVE  event'[e].left > 0 \/ AtWork(e)'
    <3>1. CASE f # e
      BY <1>5, <2>3, <3>1 DEF Delivered
    <3>2. CASE f = e
      <4> DEFINE j == [pc |-> FirstStep(event[e]), event |-> e, state |-> event[e].state, user |-> 0]
      <4>1. j.pc # "idle" /\ j.event = e
        BY DeliveredHandles
      <4>2. job' = [job EXCEPT ![w] = j]
        BY <2>3, <3>2 DEF Delivered
      <4> HIDE DEF j
      <4>3. job'[w] = j
        BY <1>4, <4>2
      <4> QED
        BY <4>1, <4>3 DEF AtWork
    <3> QED
      BY <3>1, <3>2
  <2> QED
    BY <2>1, <2>2, <2>3 DEF HandlerMoves, GoesOn, Finishes
<1>6. ASSUME NEW e \in DOMAIN event, event[e].type \in SubscriptionTypes, AtWork(e)
      PROVE  event'[e].left > 0 \/ AtWork(e)'
  <2>1. ASSUME NEW j, GoesOn(w, j)
        PROVE  AtWork(e)'
    BY <1>6, <2>1, OthersWork DEF GoesOn
  <2>2. CASE Refused(w)
    <3>1. job' = [job EXCEPT ![w] = IdleJob] /\ event'[job[w].event].left > 0
      BY <2>2 DEF Refused
    <3>2. CASE job[w].event = e
      BY <3>1, <3>2
    <3>3. CASE job[w].event # e
      BY <1>6, <3>1, <3>3, OthersWork
    <3> QED
      BY <3>2, <3>3
  <2>3. ASSUME NEW f, Delivered(w, f)
        PROVE  AtWork(e)'
    BY <1>6, <2>3, OthersWork DEF Delivered
  <2>4. CASE Finishes(w)
    <3>1. job[w].pc \in PricePcs /\ job' = [job EXCEPT ![w] = IdleJob] /\ Handles(job[w])
      BY <2>4 DEF Finishes, BillingFit
    <3>2. event[job[w].event].type \in PriceTypes
      BY <3>1 DEF Handles, PricePcs
    <3>3. job[w].event # e
      BY <1>6, <3>2, PriceEventsMakeNothing
    <3> QED
      BY <1>6, <3>1, <3>3, OthersWork
  <2> QED
    BY <2>1, <2>2, <2>3, <2>4 DEF HandlerMoves
<1>7. \A e \in DOMAIN event' \ DOMAIN event : event'[e].type \in SubscriptionTypes => event'[e].left > 0
  BY <1>2
<1> QED
  BY <1>1, <1>2, <1>5, <1>6, <1>7, ProgressWithoutRows

LEMMA ProgressOfWrites ==
  ASSUME BillingFit, Told, Progress, NEW w \in Workers, Writes(w)
  PROVE  Progress'
<1> DEFINE s == SubOf(w)
<1>0. PICK e : e = job[w].event
  OBVIOUS
<1>1. /\ s \in DOMAIN stripe /\ applied' \in Seq(Nat) /\ Len(applied') = Len(applied)
      /\ applied'[s] >= applied[s] /\ applied'[s] >= job[w].state.version
      /\ \A t \in DOMAIN stripe \ {s} : applied'[t] = applied[t]
      /\ job[w].pc \in {"insert", "update", "cancel"}
      /\ DOMAIN row \subseteq DOMAIN row' /\ \A k \in DOMAIN row : row'[k].sub = row[k].sub
      /\ \A k \in DOMAIN row' \ DOMAIN row : row'[k].sub = s
  BY WritingFacts
<1>2. TalesKept
  BY EveryCourseKeeps DEF Courses, HandlerMoves
<1>3. event' = event /\ job' = [job EXCEPT ![w] = IdleJob] /\ abandoned' = abandoned
  BY DEF Writes, Shows
<1>4. e \in DOMAIN event /\ Handles(job[w]) /\ s = event[e].sub
  BY <1>0, <1>1, AtAnEvent DEF SubOf
<1>5. \A t \in DOMAIN stripe : applied[t] \in Nat /\ applied'[t] \in Nat /\ applied'[t] >= applied[t]
  <2>1. applied \in Seq(Nat) /\ DOMAIN applied = DOMAIN stripe /\ DOMAIN applied' = DOMAIN applied
    BY <1>1, BillingSequences DEF BillingFit, BillingTypeOK
  <2>2. \A t \in DOMAIN stripe : applied[t] \in Nat /\ applied'[t] \in Nat
    BY <1>1, <2>1
  <2>3. ASSUME NEW t \in DOMAIN stripe PROVE applied'[t] >= applied[t]
    <3>1. CASE t = s
      BY <1>1, <3>1
    <3>2. CASE t # s
      BY <1>1, <2>2, <3>2
    <3> QED
      BY <3>1, <3>2
  <2> QED
    BY <2>2, <2>3
<1>6. \A t \in DOMAIN stripe : Of(t) # {} => Of(t)' # {}
  BY <1>1 DEF Of
<1>7. ASSUME event[e].type \in SubscriptionTypes
      PROVE  HasShown(e)'
  <2>1. job[w].state = event[e].state /\ (FirstStep(event[e]) = "customer" => job[w].pc = "insert")
    <3>1. CASE job[w].pc = "insert"
      BY <1>0, <1>4, <3>1 DEF Handles, RowPcs
    <3>2. CASE job[w].pc \in {"update", "cancel"}
      <4>1. event[e].type # "paid" /\ job[w].pc \in UpdatePcs \cup {"cancel"} /\ job[w].pc # "idle"
        BY <1>7, <3>2 DEF SubscriptionTypes, UpdatePcs
      <4> QED
        BY <1>0, <1>4, <4>1 DEF Handles
    <3> QED
      BY <1>1, <3>1, <3>2
  <2>2. applied'[event'[e].sub] >= event'[e].state.version
    BY <1>1, <1>3, <1>4, <2>1
  <2>3. ASSUME FirstStep(event'[e]) = "customer"
        PROVE  \E k \in DOMAIN row' : row'[k].sub = event'[e].sub
    <3>1. job[w].pc = "insert"
      BY <1>3, <2>1, <2>3
    <3>2. PICK new : Inserts(w, new)
      BY <3>1 DEF Writes, Rewrites
    <3>3. row \in Seq(SubscriptionRow) /\ new \in SubscriptionRow /\ row' = Append(row, new) /\ new.sub = s
      BY <3>2 DEF Inserts, BillingFit, BillingTypeOK
    <3>4. Len(row) + 1 \in DOMAIN row' /\ row'[Len(row) + 1] = new
      BY <3>3, Grows
    <3> QED
      BY <1>3, <1>4, <3>3, <3>4
  <2> QED
    BY <2>2, <2>3 DEF HasShown, Of
<1>8. \A f \in DOMAIN event : event[f].type \in SubscriptionTypes /\ AtWork(f) =>
        event'[f].left > 0 \/ AtWork(f)' \/ HasShown(f)'
  BY <1>0, <1>3, <1>7, OthersWork
<1>9. /\ \A f \in DOMAIN event' \ DOMAIN event : event'[f].type \in SubscriptionTypes => event'[f].left > 0
      /\ \A f \in DOMAIN event : event[f].type \in SubscriptionTypes /\ event[f].left > 0 =>
           event'[f].left > 0 \/ AtWork(f)' \/ event[f].sub \in abandoned'
      /\ abandoned \subseteq abandoned'
  BY <1>3
<1>10. \A t \in DOMAIN stripe : applied[t] \in Nat /\ applied'[t] \in Nat /\ applied'[t] >= applied[t]
                                /\ (Of(t) # {} => Of(t)' # {})
  BY <1>5, <1>6
<1> QED
  BY <1>2, <1>8, <1>9, <1>10, ProgressKept

LEMMA ProgressLasts ==
  ASSUME BillingFit, Told, Progress, Moves
  PROVE  Progress'
BY ProgressOfStripe, ProgressOfDeliveries, ProgressOfHandlers, ProgressOfWrites DEF Moves, Courses

-----------------------------------------------------------------------------
(* Rows show the newest version written to them.                           *)

LEMMA RowsShowRetold ==
  ASSUME BillingFit, RowsShow, Retells, KeepsRows
  PROVE  RowsShow'
<1>1. TalesKept /\ DOMAIN event' = DOMAIN event /\ stripe' = stripe /\ UNCHANGED <<row, applied, overtaken>>
  BY DEF Retells, TalesKept, KeepsRows
<1>2. \A e \in DOMAIN event :
        /\ event'[e].sub = event[e].sub /\ event'[e].state = event[e].state
        /\ FirstStep(event'[e]) = FirstStep(event[e]) /\ (Hopeless(event'[e]) <=> Hopeless(event[e]))
  BY <1>1, OldTales
<1> QED
  BY <1>1, <1>2 DEF RowsShow, Makes, Of, ShowsState

LEMMA RowsShowUntold ==
  ASSUME BillingFit, RowsShow, StripeMoves
  PROVE  RowsShow'
<1>1. TalesKept /\ UNCHANGED <<row, overtaken>>
  BY EveryCourseKeeps DEF Courses, StripeMoves, SubscriptionBegins, SubscriptionChanges, CatalogueTells, KeepsRows
<1>2. \A e \in DOMAIN event :
        /\ e \in DOMAIN event' /\ event'[e].sub = event[e].sub /\ event'[e].state = event[e].state
        /\ FirstStep(event'[e]) = FirstStep(event[e]) /\ (Hopeless(event'[e]) <=> Hopeless(event[e]))
  BY <1>1, OldTales
<1>3. \A s \in DOMAIN stripe : s # 0 /\ applied[s] \in Nat /\ stripe[s].version \in Nat /\ applied[s] <= stripe[s].version
  BY BillingSequences, EventsToldOf DEF RowsShow
<1>4. \A s \in DOMAIN stripe : applied'[s] = applied[s] /\ stripe'[s].version \in Nat /\ applied'[s] <= stripe'[s].version
  <2>1. CASE \E state : SubscriptionBegins(state)
    BY <1>3, <2>1, BeginningFacts
  <2>2. ASSUME NEW t, NEW state, SubscriptionChanges(t, state), NEW s \in DOMAIN stripe
        PROVE  applied'[s] = applied[s] /\ stripe'[s].version \in Nat /\ applied'[s] <= stripe'[s].version
    <3>1. applied' = applied /\ t \in DOMAIN stripe /\ state.version = stripe[t].version + 1
      BY <2>2 DEF SubscriptionChanges, KeepsRows
    <3>2. stripe'[t] = state /\ \A u \in DOMAIN stripe \ {t} : stripe'[u] = stripe[u]
      BY <2>2, ChangingFacts
    <3>3. CASE s = t
      BY <1>3, <3>1, <3>2, <3>3
    <3>4. CASE s # t
      BY <1>3, <3>1, <3>2, <3>4
    <3> QED
      BY <3>3, <3>4
  <2>3. CASE CatalogueTells
    BY <1>3, <2>3 DEF CatalogueTells, KeepsRows
  <2> QED
    BY <2>1, <2>2, <2>3 DEF StripeMoves
<1>5. \A e \in DOMAIN event' \ DOMAIN event, s \in DOMAIN stripe :
        event'[e].sub = s => event'[e].state.version # applied[s]
  <2>1. CASE \E state : SubscriptionBegins(state)
    BY <2>1, BeginningFacts
  <2>2. ASSUME NEW t, NEW state, SubscriptionChanges(t, state), NEW e \in DOMAIN event' \ DOMAIN event,
               NEW s \in DOMAIN stripe, event'[e].sub = s
        PROVE  event'[e].state.version # applied[s]
    <3>1. s = t /\ event'[e].state.version = stripe[t].version + 1
      BY <2>2 DEF SubscriptionChanges
    <3> QED
      BY <1>3, <3>1
  <2>3. CASE CatalogueTells
    BY <1>3, <2>3 DEF CatalogueTells
  <2> QED
    BY <2>1, <2>2, <2>3 DEF StripeMoves
<1>6. ASSUME NEW s \in DOMAIN stripe
      PROVE  /\ Of(s) # {} => \E e \in DOMAIN event' : /\ event'[e].sub = s
                                                       /\ FirstStep(event'[e]) = "customer" /\ ~Hopeless(event'[e])
                                                       /\ event'[e].state.version <= applied'[s]
             /\ s \notin overtaken =>
                  \A k \in Of(s), e \in DOMAIN event' :
                    event'[e].sub = s /\ event'[e].state.version = applied'[s] => ShowsState(k, event'[e].state)
  <2>1. Of(s) # {} => \E e \in DOMAIN event : event[e].sub = s /\ Makes(e) /\ event[e].state.version <= applied[s]
    BY DEF RowsShow
  <2>2. s \notin overtaken =>
          \A k \in Of(s), e \in DOMAIN event :
            event[e].sub = s /\ event[e].state.version = applied[s] => ShowsState(k, event[e].state)
    BY DEF RowsShow
  <2>3. Of(s) # {} => \E e \in DOMAIN event' : /\ event'[e].sub = s
                                               /\ FirstStep(event'[e]) = "customer" /\ ~Hopeless(event'[e])
                                               /\ event'[e].state.version <= applied'[s]
    BY <1>2, <1>4, <2>1 DEF Makes
  <2> QED
    BY <1>2, <1>4, <1>5, <2>2, <2>3
<1>7. ASSUME NEW s \in DOMAIN stripe', s \notin DOMAIN stripe
      PROVE  applied'[s] <= stripe'[s].version /\ Of(s) = {}
  <2>1. PICK state : SubscriptionBegins(state)
    BY <1>7, ChangingFacts DEF StripeMoves, CatalogueTells
  <2>2. s = Len(stripe) + 1 /\ applied'[s] = 0 /\ stripe'[s] = state /\ state.version = 1
    BY <1>7, <2>1, BeginningFacts DEF SubscriptionBegins
  <2>3. \A k \in DOMAIN row : row[k].sub \in DOMAIN stripe
    BY DEF BillingFit, Links
  <2> QED
    BY <1>7, <2>2, <2>3 DEF Of
<1> QED
  BY <1>1, <1>4, <1>6, <1>7 DEF RowsShow, Makes, Of, ShowsState

LEMMA RowsShowWritten ==
  ASSUME BillingFit, Told, RowsShow, NEW w \in Workers, Writes(w)
  PROVE  RowsShow'
<1> DEFINE state == job[w].state
           v == state.version
<1>0. PICK s : s = SubOf(w)
  OBVIOUS
<1>1. /\ s \in DOMAIN stripe /\ Len(applied') = Len(applied)
      /\ applied'[s] >= applied[s] /\ applied'[s] >= v /\ applied'[s] \in {applied[s], v}
      /\ \A t \in DOMAIN stripe \ {s} : applied'[t] = applied[t]
      /\ job[w].pc \in {"insert", "update", "cancel"} /\ state \in State
      /\ DOMAIN row \subseteq DOMAIN row' /\ \A k \in DOMAIN row : row'[k].sub = row[k].sub
      /\ \A k \in DOMAIN row' \ DOMAIN row : row'[k].sub = s
  BY <1>0, WritingFacts
<1>2. UNCHANGED <<event, stripe>> /\ overtaken' = IF v < applied[s] THEN overtaken \cup {s} ELSE overtaken
  BY <1>0 DEF Writes, Shows
<1>3. /\ \A t \in DOMAIN stripe : applied[t] \in Nat /\ stripe[t].version \in Nat
      /\ v \in Nat
  BY <1>1, BillingSequences, EventsToldOf DEF State
<1> DEFINE e == job[w].event
<1>4. e \in DOMAIN event /\ Handles(job[w]) /\ event[e].sub = s
  BY <1>0, <1>1, AtAnEvent DEF SubOf
<1>5. PICK g \in DOMAIN event : event[g].sub = s /\ event[g].state = state
  <2>1. CASE job[w].pc = "insert"
    BY <1>4, <2>1 DEF Handles, RowPcs
  <2>2. CASE job[w].pc \in {"update", "cancel"}
    BY <1>1, <1>4, <2>2 DEF Handles, UpdatePcs, IsTold
  <2> QED
    BY <1>1, <2>1, <2>2
<1>6. s # 0 /\ v <= stripe[s].version /\ applied[s] <= stripe[s].version
  BY <1>1, <1>5, EventsToldOf DEF Told, RowsShow
<1>7. \A f \in DOMAIN event : event[f].sub = s /\ event[f].state.version = v => event[f].state = state
  BY <1>5, <1>6 DEF Told
<1> HIDE DEF state, v, e
\* Other subscriptions keep their rows.
<1>8. \A t \in DOMAIN stripe \ {s} : Of(t)' = Of(t) /\ \A k \in Of(t) : row'[k] = row[k]
  <2>1. ASSUME NEW new, Inserts(w, new), NEW k \in DOMAIN row
        PROVE  row'[k] = row[k]
    <3>1. row \in Seq(SubscriptionRow) /\ new \in SubscriptionRow /\ row' = Append(row, new)
      BY <2>1 DEF Inserts, BillingFit, BillingTypeOK
    <3> QED
      BY <2>1, <3>1, Grows
  <2>2. ASSUME Rewrites(w), NEW k \in DOMAIN row, row[k].sub # s
        PROVE  row'[k] = row[k]
    BY <1>0, <2>2 DEF Rewrites
  <2>3. \A k \in DOMAIN row : row[k].sub # s => row'[k] = row[k]
    BY <2>1, <2>2 DEF Writes
  <2> QED
    BY <1>1, <2>3 DEF Of
<1>9. ASSUME Of(s)' # {}
      PROVE  \E f \in DOMAIN event : event[f].sub = s /\ Makes(f) /\ event[f].state.version <= applied'[s]
  <2>1. CASE Of(s) # {}
    <3>1. PICK f \in DOMAIN event : event[f].sub = s /\ Makes(f) /\ event[f].state.version <= applied[s]
      BY <1>1, <2>1 DEF RowsShow
    <3>2. event[f].state.version \in Nat
      BY EventsToldOf
    <3>3. applied'[s] \in Nat
      BY <1>1, <1>3
    <3>4. event[f].state.version <= applied'[s]
      BY <1>1, <1>3, <3>1, <3>2, <3>3
    <3> QED
      BY <3>1, <3>4
  <2>2. CASE Of(s) = {}
    <3>1. ~Rewrites(w)
      BY <1>9, <2>2 DEF Rewrites, Of
    <3>2. job[w].pc = "insert" /\ job[w].state.status # "incomplete"
      BY <3>1 DEF Writes, Inserts
    <3>3. Makes(e) /\ event[e].state = state
      BY <1>4, <3>2 DEF Handles, RowPcs, Makes, Hopeless, state, e
    <3> QED
      BY <1>1, <1>4, <3>3 DEF v
  <2> QED
    BY <2>1, <2>2
<1>10. ASSUME s \notin overtaken', NEW k \in DOMAIN row', row'[k].sub = s, NEW f \in DOMAIN event,
              event[f].sub = s, event[f].state.version = applied'[s]
       PROVE  row'[k].status = Shown(event[f].state) /\
              (row'[k].status # "canceled" => row'[k].price = event[f].state.price)
  <2>1. ~(v < applied[s]) /\ s \notin overtaken
    BY <1>2, <1>10
  <2>2. applied'[s] = v
    BY <1>1, <1>3, <2>1
  <2>3. event[f].state = state
    BY <1>7, <1>10, <2>2
  <2>4. CASE Rewrites(w)
    BY <1>0, <1>10, <2>3, <2>4 DEF Rewrites, state
  <2>5. ASSUME NEW new, Inserts(w, new)
        PROVE  row'[k].status = Shown(state) /\ (row'[k].status # "canceled" => row'[k].price = state.price)
    <3>1. /\ row \in Seq(SubscriptionRow) /\ new \in SubscriptionRow /\ row' = Append(row, new)
          /\ new.status = state.status /\ new.price = state.price
          /\ job[w].pc = "insert" /\ state.status # "incomplete"
      BY <2>5 DEF Inserts, BillingFit, BillingTypeOK, state
    <3>2. Makes(e) /\ event[e].state = state
      BY <1>4, <3>1 DEF Handles, RowPcs, Makes, Hopeless, state, e
    <3>3. ~state.ending
      BY <1>4, <3>2 DEF Told
    <3>4. CASE k \notin DOMAIN row
      <4>1. row'[k] = new
        BY <3>1, <3>4, Grows
      <4> QED
        BY <3>1, <3>3, <4>1 DEF Shown
    <3>5. CASE k \in DOMAIN row
      <4>1. row'[k] = row[k] /\ row[k].sub = s
        BY <1>10, <3>1, <3>5, Grows
      <4>2. k \in Of(s) /\ Of(s) # {}
        BY <3>5, <4>1 DEF Of
      <4>3. PICK m \in DOMAIN event : event[m].sub = s /\ Makes(m) /\ event[m].state.version <= applied[s]
        BY <1>1, <4>2 DEF RowsShow
      <4>4. event[m].state.version = event[e].state.version
        BY <1>4, <3>2, <4>3 DEF Told
      <4>5. event[m].state.version = v
        BY <3>2, <4>4 DEF v
      <4>6. applied[s] = v
        BY <1>1, <1>3, <2>1, <4>3, <4>5
      <4>7. ShowsState(k, event[f].state)
        BY <1>1, <1>10, <2>1, <2>2, <4>2, <4>6 DEF RowsShow
      <4> QED
        BY <2>3, <4>1, <4>7 DEF ShowsState
    <3> QED
      BY <3>4, <3>5
  <2> QED
    BY <2>3, <2>4, <2>5 DEF Writes
<1>11. applied'[s] <= stripe[s].version
  BY <1>1, <1>6
<1>12. ASSUME NEW t \in DOMAIN stripe \ {s}
       PROVE  /\ applied'[t] <= stripe[t].version
              /\ Of(t)' # {} => \E f \in DOMAIN event : event[f].sub = t /\ Makes(f) /\ event[f].state.version <= applied'[t]
              /\ t \notin overtaken' =>
                   \A k \in Of(t)', f \in DOMAIN event :
                     event[f].sub = t /\ event[f].state.version = applied'[t] =>
                       /\ row'[k].status = Shown(event[f].state)
                       /\ row'[k].status # "canceled" => row'[k].price = event[f].state.price
  <2>1. applied'[t] = applied[t] /\ Of(t)' = Of(t) /\ \A k \in Of(t) : row'[k] = row[k]
    BY <1>1, <1>8
  <2>2. t \notin overtaken' => t \notin overtaken
    BY <1>2
  <2> QED
    BY <2>1, <2>2 DEF RowsShow, ShowsState
<1> QED
  <2>1. ASSUME NEW t \in DOMAIN stripe
        PROVE  /\ applied'[t] <= stripe[t].version
               /\ Of(t)' # {} => \E f \in DOMAIN event :
                    event[f].sub = t /\ Makes(f) /\ event[f].state.version <= applied'[t]
               /\ t \notin overtaken' =>
                    \A k \in Of(t)', f \in DOMAIN event :
                      event[f].sub = t /\ event[f].state.version = applied'[t] =>
                        /\ row'[k].status = Shown(event[f].state)
                        /\ row'[k].status # "canceled" => row'[k].price = event[f].state.price
    <3>1. CASE t = s
      <4>1. \A k \in Of(t)' : k \in DOMAIN row' /\ row'[k].sub = s
        BY <3>1 DEF Of
      <4> QED
        BY <1>9, <1>10, <1>11, <3>1, <4>1
    <3>2. CASE t # s
      BY <1>12, <3>2
    <3> QED
      BY <3>1, <3>2
  <2> QED
    BY <1>2, <2>1 DEF RowsShow, Makes, ShowsState

LEMMA RowsShowLasts ==
  ASSUME BillingFit, Told, RowsShow, Moves
  PROVE  RowsShow'
<1>1. Courses
  BY DEF Moves
<1> QED
  BY <1>1, CourseKinds, RowsShowRetold, RowsShowUntold, RowsShowWritten

-----------------------------------------------------------------------------
(* Accounts, and the requests that create them.                            *)

LEMMA AccountsLast ==
  ASSUME BillingFit, Accounts, Moves
  PROVE  Accounts'
<1>1. AccountMoves
  BY DEF Moves
<1>2. IsFiniteSet(Requests) /\ Cardinality(Requests) \in Nat
  BY FS_CardinalityType, BillingAssumption DEF BillingAssumption
<1>3. user \in Seq(Account) /\ DOMAIN user = 1 .. Len(user) /\ Len(user) \in Nat
  BY BillingSequences DEF BillingFit, BillingTypeOK
<1>4. ASSUME NEW m
      PROVE  /\ IsFiniteSet(AccountsOf(m)) /\ Cardinality(AccountsOf(m)) \in Nat
             /\ IsFiniteSet(Creating(m)) /\ Cardinality(Creating(m)) \in Nat
  <2>1. IsFiniteSet(DOMAIN user) /\ AccountsOf(m) \subseteq DOMAIN user /\ Creating(m) \subseteq Requests
    BY <1>3, FS_Interval DEF AccountsOf, Creating
  <2> QED
    BY <1>2, <2>1, FS_Subset, FS_CardinalityType
<1>5. ASSUME NEW m, NEW S \in SUBSET Creating(m)
      PROVE  IsFiniteSet(S) /\ Cardinality(S) \in Nat /\ Cardinality(S) <= Cardinality(Creating(m))
  BY <1>4, FS_Subset, FS_CardinalityType
<1>6. CASE KeepsAccounts /\ NoNewCreation
  <2>1. ASSUME NEW m \in Emails
        PROVE  Cardinality(AccountsOf(m))' + Cardinality(Creating(m))' <= Cardinality(Requests)
    <3>1. AccountsOf(m)' = AccountsOf(m) /\ Creating(m)' \subseteq Creating(m)
      BY <1>6 DEF KeepsAccounts, NoNewCreation, AccountsOf, Creating
    <3>2. Cardinality(Creating(m)') <= Cardinality(Creating(m)) /\ Cardinality(Creating(m)') \in Nat
      BY <1>5, <3>1
    <3>3. Cardinality(AccountsOf(m)) + Cardinality(Creating(m)) <= Cardinality(Requests)
      BY DEF Accounts
    <3> QED
      BY <1>2, <1>4, <3>1, <3>2, <3>3
  <2>2. \A u, v \in DOMAIN user' :
          user'[u].email = user'[v].email /\ user'[u].kind = "email" /\ user'[v].kind = "email" => u = v
    BY <1>6 DEF KeepsAccounts, Accounts
  <2> QED
    BY <2>1, <2>2 DEF Accounts
<1>7. CASE LooksUp
  <2>1. PICK r \in Requests : /\ user' = user /\ \A q \in Requests \ {r} : req'[q] = req[q]
                              /\ req'[r].pc = "create" /\ ~CheckIfEmailExists(req'[r].email)
    BY <1>7 DEF LooksUp
  <2>2. ASSUME NEW m \in Emails
        PROVE  Cardinality(AccountsOf(m))' + Cardinality(Creating(m))' <= Cardinality(Requests)
    <3>1. AccountsOf(m)' = AccountsOf(m)
      BY <2>1 DEF AccountsOf
    <3>2. CASE req'[r].email = m
      <4>1. AccountsOf(m) = {} /\ Creating(m)' \subseteq Requests
        BY <2>1, <3>2 DEF AccountsOf, Creating, CheckIfEmailExists
      <4>2. Cardinality(Creating(m)') <= Cardinality(Requests) /\ Cardinality(Creating(m)') \in Nat
        BY <1>2, <4>1, FS_Subset, FS_CardinalityType
      <4>3. Cardinality(AccountsOf(m)) = 0
        BY <4>1, FS_EmptySet
      <4> QED
        BY <1>2, <3>1, <4>2, <4>3
    <3>3. CASE req'[r].email # m
      <4>1. Creating(m)' \subseteq Creating(m)
        BY <2>1, <3>3 DEF Creating
      <4>2. Cardinality(Creating(m)') <= Cardinality(Creating(m)) /\ Cardinality(Creating(m)') \in Nat
        BY <1>5, <4>1
      <4>3. Cardinality(AccountsOf(m)) + Cardinality(Creating(m)) <= Cardinality(Requests)
        BY DEF Accounts
      <4> QED
        BY <1>2, <1>4, <3>1, <4>2, <4>3
    <3> QED
      BY <3>2, <3>3
  <2> QED
    BY <2>1, <2>2 DEF Accounts
<1>8. CASE Opens
  <2>1. PICK r \in Requests, new \in Account :
          /\ req[r].pc = "create" /\ req'[r].pc # "create"
          /\ \A q \in Requests \ {r} : req'[q] = req[q]
          /\ user' = Append(user, new) /\ new.email = req[r].email
          /\ new.kind = "email" => ~EmailAuthTaken(new.email)
    BY <1>8 DEF Opens
  <2> DEFINE n == Len(user) + 1
  <2>2. /\ DOMAIN user' = DOMAIN user \cup {n} /\ n \notin DOMAIN user
        /\ user'[n] = new /\ \A u \in DOMAIN user : user'[u] = user[u]
    BY <1>3, <2>1, Grows
  <2> HIDE DEF n
  <2>3. ASSUME NEW m \in Emails
        PROVE  Cardinality(AccountsOf(m))' + Cardinality(Creating(m))' <= Cardinality(Requests)
    <3>1. Cardinality(AccountsOf(m)) + Cardinality(Creating(m)) <= Cardinality(Requests)
      BY DEF Accounts
    <3>2. CASE new.email = m
      <4>1. AccountsOf(m)' = AccountsOf(m) \cup {n} /\ n \notin AccountsOf(m)
        BY <2>2, <3>2 DEF AccountsOf
      <4>2. Creating(m)' = Creating(m) \ {r} /\ r \in Creating(m)
        BY <2>1, <3>2 DEF Creating
      <4>3. Cardinality(AccountsOf(m)') = Cardinality(AccountsOf(m)) + 1
        BY <1>4, <4>1, FS_AddElement
      <4>4. Cardinality(Creating(m)') = Cardinality(Creating(m)) - 1
        BY <1>4, <4>2, FS_RemoveElement
      <4> QED
        BY <1>2, <1>4, <3>1, <4>3, <4>4
    <3>3. CASE new.email # m
      <4>1. AccountsOf(m)' = AccountsOf(m)
        BY <2>2, <3>3 DEF AccountsOf
      <4>2. Creating(m)' \subseteq Creating(m)
        BY <2>1 DEF Creating
      <4>3. Cardinality(Creating(m)') <= Cardinality(Creating(m)) /\ Cardinality(Creating(m)') \in Nat
        BY <1>5, <4>2
      <4> QED
        BY <1>2, <1>4, <3>1, <4>1, <4>3
    <3> QED
      BY <3>2, <3>3
  <2>4. \A u, v \in DOMAIN user' :
          user'[u].email = user'[v].email /\ user'[u].kind = "email" /\ user'[v].kind = "email" => u = v
    <3>1. \A u, v \in DOMAIN user :
            user[u].email = user[v].email /\ user[u].kind = "email" /\ user[v].kind = "email" => u = v
      BY DEF Accounts
    <3>2. \A u \in DOMAIN user : ~(new.kind = "email" /\ user[u].email = new.email /\ user[u].kind = "email")
      BY <2>1 DEF EmailAuthTaken
    <3> QED
      BY <2>2, <3>1, <3>2
  <2> QED
    BY <2>3, <2>4 DEF Accounts
<1> QED
  BY <1>1, <1>6, <1>7, <1>8 DEF AccountMoves

-----------------------------------------------------------------------------
(* What the invariant says of a subscription that is handled.              *)

LEMMA HandledIsShown ==
  ASSUME BillingInv, NEW s \in DOMAIN stripe, Handled(s), NEW e \in DOMAIN event,
         event[e].sub = s, event[e].type \in SubscriptionTypes, ~Hopeless(event[e])
  PROVE  HasShown(e)
<1>1. event[e].left = 0 /\ s \notin abandoned /\ \A w \in Workers : job[w].pc # "idle" => SubOf(w) # s
  BY DEF Handled
<1>2. ~AtWork(e)
  BY <1>1 DEF AtWork, SubOf
<1> QED
  BY <1>1, <1>2 DEF BillingInv, Progress

LEMMA InvRowsFollow ==
  ASSUME BillingInv
  PROVE  RowsFollowStripe
<1> SUFFICES ASSUME NEW s \in DOMAIN stripe, Handled(s), Begun(s)
             PROVE  /\ Of(s) # {}
                    /\ \A k \in Of(s) : /\ row[k].status = Status(s)
                                        /\ row[k].status # "canceled" => row[k].price = stripe[s].price
  BY DEF RowsFollowStripe
<1>1. BillingFit /\ Told /\ RowsShow
  BY DEF BillingInv
<1>2. PICK e \in DOMAIN event : event[e].sub = s /\ Makes(e)
  BY DEF Begun, Makes
<1>3. event[e].type \in SubscriptionTypes
  <2>1. event[e].type \in SubscriptionTypes \cup InvoiceTypes \cup PriceTypes
    BY <1>1, EventsToldOf
  <2> QED
    BY <1>2, <2>1, FirstSteps DEF Makes, SubscriptionTypes
<1>4. stripe[s].status # "incomplete"
  BY <1>1, <1>2 DEF Told, Makes
<1>5. PICK f \in DOMAIN event : event[f].sub = s /\ event[f].type \in SubscriptionTypes /\ event[f].state = stripe[s]
  BY <1>1 DEF Told
<1>6. ~Hopeless(event[f])
  BY <1>4, <1>5 DEF Hopeless
<1>7. HasShown(f) /\ HasShown(e)
  BY <1>2, <1>3, <1>5, <1>6, HandledIsShown DEF Makes
<1>8. Of(s) # {}
  BY <1>2, <1>7 DEF HasShown, Makes
<1>9. applied[s] = stripe[s].version
  <2>1. applied[s] >= stripe[s].version /\ applied[s] <= stripe[s].version
    BY <1>1, <1>5, <1>7 DEF HasShown, RowsShow
  <2>2. applied[s] \in Nat /\ stripe[s].version \in Nat
    BY <1>1, BillingSequences, EventsToldOf
  <2> QED
    BY <2>1, <2>2
<1>10. s \notin overtaken
  BY DEF Handled
<1>11. \A k \in Of(s) : ShowsState(k, stripe[s])
  BY <1>1, <1>5, <1>9, <1>10 DEF RowsShow
<1> QED
  BY <1>8, <1>11 DEF ShowsState, Shown, Status

LEMMA InvTierFollows ==
  ASSUME BillingInv
  PROVE  TierFollowsStripe
<1> SUFFICES ASSUME NEW u \in DOMAIN user, NEW s \in DOMAIN stripe, Handled(s), Begun(s),
                    OfUser(u) \cap Of(s) # {}, OfUser(u) \subseteq Of(s)
             PROVE  GetUserInfo(u) = IF Status(s) = "active" THEN stripe[s].price ELSE Free
  BY DEF TierFollowsStripe
<1>1. BillingFit
  BY DEF BillingInv
<1>2. OfUser(u) # {}
  OBVIOUS
<1> DEFINE k == Max(OfUser(u))
<1>3. k \in OfUser(u)
  BY <1>1, <1>2, NewestRow
<1>4. GetSubscriptionByUserID(u) = row[k]
  BY DEF GetSubscriptionByUserID
<1> HIDE DEF k
<1>5. row[k].status = Status(s) /\ (row[k].status # "canceled" => row[k].price = stripe[s].price)
  BY <1>3, InvRowsFollow DEF RowsFollowStripe
<1>6. Status(s) # "trialing"
  <2>1. stripe[s] \in State
    BY <1>1, BillingSequences
  <2> QED
    BY <2>1 DEF Status, State, StripeStatuses
<1> QED
  BY <1>2, <1>4, <1>5, <1>6 DEF GetUserInfo, GetTierInfoByUserID, GetFreeTierInfo

LEMMA InvAccountsBounded ==
  ASSUME BillingInv
  PROVE  DuplicateAccountsBounded
<1> SUFFICES ASSUME NEW m \in Emails
             PROVE  /\ Cardinality({u \in DOMAIN user : user[u].email = m /\ user[u].kind \in {"email"}}) <= 1
                    /\ Cardinality({u \in DOMAIN user : user[u].email = m /\ user[u].kind \in Kinds})
                         <= Cardinality(Requests)
  BY DEF DuplicateAccountsBounded
<1> DEFINE P == {u \in DOMAIN user : user[u].email = m /\ user[u].kind \in {"email"}}
           A == {u \in DOMAIN user : user[u].email = m /\ user[u].kind \in Kinds}
<1>1. BillingFit /\ Accounts
  BY DEF BillingInv
<1>2. IsFiniteSet(DOMAIN user)
  BY <1>1, BillingSequences, FS_Interval
<1>3. Cardinality(P) <= 1
  <2>1. \A u, v \in P : u = v
    BY <1>1 DEF Accounts
  <2>2. CASE P = {}
    BY <2>2, FS_EmptySet
  <2>3. CASE P # {}
    <3>1. PICK x : x \in P
      BY <2>3
    <3>2. P = {x}
      BY <2>1, <3>1
    <3> HIDE DEF P
    <3>3. Cardinality({x}) = 1
      BY FS_Singleton
    <3> QED
      BY <3>2, <3>3
  <2> QED
    BY <2>2, <2>3
<1>4. Cardinality(A) <= Cardinality(Requests)
  <2>1. AccountsOf(m) \subseteq DOMAIN user /\ Creating(m) \subseteq Requests /\ A \subseteq AccountsOf(m)
    BY DEF AccountsOf, Creating
  <2>2. IsFiniteSet(AccountsOf(m)) /\ IsFiniteSet(Creating(m)) /\ IsFiniteSet(Requests)
    BY <1>2, <2>1, FS_Subset, BillingAssumption DEF BillingAssumption
  <2>3. Cardinality(A) <= Cardinality(AccountsOf(m)) /\ IsFiniteSet(A)
    BY <2>1, <2>2, FS_Subset
  <2>4. /\ Cardinality(A) \in Nat /\ Cardinality(AccountsOf(m)) \in Nat /\ Cardinality(Creating(m)) \in Nat
        /\ Cardinality(Requests) \in Nat
    BY <2>2, <2>3, FS_CardinalityType
  <2>5. Cardinality(AccountsOf(m)) + Cardinality(Creating(m)) <= Cardinality(Requests)
    BY <1>1 DEF Accounts
  <2> HIDE DEF A
  <2> QED
    BY <2>3, <2>4, <2>5
<1> QED
  BY <1>3, <1>4

-----------------------------------------------------------------------------
(* The theorems.                                                           *)

LEMMA BillingInvIsInductive == BillingInv /\ [BillingNext]_billingVars => BillingInv'
<1> SUFFICES ASSUME BillingInv, [BillingNext]_billingVars PROVE BillingInv'
  OBVIOUS
<1>1. BillingFit /\ Told /\ Progress /\ RowsShow /\ Accounts
  BY DEF BillingInv
<1>2. Moves
  BY <1>1, EveryBillingStepMoves
<1>3. BillingFit'
  BY <1>1, <1>2, BillingFitLasts
<1>4. Told'
  BY <1>1, <1>2, ToldLasts
<1>5. Progress'
  BY <1>1, <1>2, ProgressLasts
<1>6. RowsShow'
  BY <1>1, <1>2, RowsShowLasts
<1>7. Accounts'
  BY <1>1, <1>2, AccountsLast
<1> QED
  BY <1>3, <1>4, <1>5, <1>6, <1>7 DEF BillingInv

LEMMA BillingInvHolds == BillingSpec => []BillingInv
BY BillingInitFits, BillingInvIsInductive, PTL DEF BillingSpec

\* Every row, request and handler has its type, and names a user, a subscription or
\* an event there is (SubscriptionCreated, UpdateSubscription, CancelSubscription).
THEOREM BillingTypeCorrect == BillingSpec => []BillingFit
<1>1. BillingInv => BillingFit
  BY DEF BillingInv
<1> QED
  BY <1>1, BillingInvHolds, PTL

\* When the events of a subscription are handled, each at least once, and no older
\* one was written over a newer, every row of it shows what Stripe has.
THEOREM RowsFollow == BillingSpec => []RowsFollowStripe
<1>1. BillingInv => RowsFollowStripe
  BY InvRowsFollow
<1> QED
  BY <1>1, BillingInvHolds, PTL

\* The tier of a user with one subscription is then the one it pays for, and the free
\* one otherwise (GetTierInfoByUserID).
THEOREM TierFollows == BillingSpec => []TierFollowsStripe
<1>1. BillingInv => TierFollowsStripe
  BY InvTierFollows
<1> QED
  BY <1>1, BillingInvHolds, PTL

\* An address has one account with a password, and accounts in all no more than there
\* are requests at once (CheckIfEmailExists, then an INSERT).
THEOREM AccountsBounded == BillingSpec => []DuplicateAccountsBounded
<1>1. BillingInv => DuplicateAccountsBounded
  BY InvAccountsBounded
<1> QED
  BY <1>1, BillingInvHolds, PTL
=============================================================================
