--------------------------- MODULE WebhookDelivery ---------------------------
(***************************************************************************)
(* Webhook delivery of internal/webhooks/service: the consumer's worker    *)
(* that turns an event into one delivery per subscribed webhook, and the   *)
(* worker of internal/webhooks/worker that retries failed deliveries.      *)
(*                                                                         *)
(* A delivery is called, then its row is marked, then its attempt or the   *)
(* webhook's totals are written: three steps without a transaction, and    *)
(* every database error is logged and ignored.  next_retry_at becomes due  *)
(* in the order of its values, so the due rows form a sequence.  Retries   *)
(* that are disabled are a limit of 0: the code tests both in one place.   *)
(***************************************************************************)
EXTENDS Integers, Sequences, FiniteSets

CONSTANTS
  Servers,       \* processes, each with a sender and a retrier
  Webhooks,      \* webhooks subscribed to the event
  NumRows,       \* bound: delivery rows
  NumEvents,     \* bound: events
  MaxAttempt,    \* attempt numbers below it are retried: 5 in the code
  RetryLimits,   \* bound: values of max_retries
  Limit,         \* rows one pass of the retrier selects: 100 in the code
  MaxOps,        \* bound: updates of webhooks
  MaxFaults      \* bound: crashes and failed statements

ASSUME DeliveryAssumption ==
  /\ IsFiniteSet(Servers) /\ Servers # {} /\ Webhooks # {} /\ RetryLimits \subseteq Nat
  /\ NumRows \in Nat /\ NumEvents \in Nat /\ MaxAttempt \in Nat \ {0, 1}
  /\ Limit \in Nat \ {0}
  /\ MaxOps \in Nat /\ MaxFaults \in Nat

Ids == 1 .. NumRows

VARIABLES
  active, maxRetries,        \* the webhooks row: status, and the limit of retries
  totalSent, totalFailed,    \* the webhooks row: its counters
  owner,     \* the webhook of each delivery row, in the order of creation
  status, attempt,           \* the webhook_deliveries row
  later,     \* rows whose next_retry_at is to come
  due,       \* rows whose next_retry_at has passed, by next_retry_at
  topic,     \* events not taken yet
  sender,    \* per server: the event being dispatched
  retrier,   \* per server: the pass over failed deliveries
  ops, faults,  \* counters of the bounds
  calls,     \* history: HTTP calls per row
  accepted,  \* history: HTTP calls per webhook that were answered with 2xx
  panics     \* history: times a server stopped on a nil pointer

hooks == <<active, maxRetries>>
totals == <<totalSent, totalFailed>>
table == <<owner, status, attempt>>
schedule == <<later, due>>
history == <<calls, accepted, panics>>
vars == <<active, maxRetries, totalSent, totalFailed, owner, status, attempt, later, due,
          topic, sender, retrier, ops, faults, calls, accepted, panics>>

None == 0
IdleSender == [pc |-> "idle", todo |-> {}, limits |-> [h \in Webhooks |-> 0],
               row |-> None, ok |-> FALSE]
IdleRetrier == [pc |-> "idle", todo |-> <<>>, limit |-> 0, ok |-> FALSE]

Init ==
  /\ active = [h \in Webhooks |-> TRUE]
  /\ maxRetries \in [Webhooks -> RetryLimits]
  /\ totalSent = [h \in Webhooks |-> 0] /\ totalFailed = [h \in Webhooks |-> 0]
  /\ owner = <<>>
  /\ status = [d \in Ids |-> "pending"] /\ attempt = [d \in Ids |-> 1]
  /\ later = {} /\ due = <<>>
  /\ topic = NumEvents
  /\ sender = [s \in Servers |-> IdleSender]
  /\ retrier = [s \in Servers |-> IdleRetrier]
  /\ ops = 0 /\ faults = 0
  /\ calls = [d \in Ids |-> 0] /\ accepted = [h \in Webhooks |-> 0] /\ panics = 0

Fault == faults < MaxFaults /\ faults' = faults + 1

-----------------------------------------------------------------------------
(* The table.                                                              *)

\* POST to the webhook: answered in time with 2xx, or not.
Call(d, ok) ==
  /\ calls' = [calls EXCEPT ![d] = @ + 1]
  /\ accepted' = [accepted EXCEPT ![owner[d]] = @ + (IF ok THEN 1 ELSE 0)]
  /\ UNCHANGED panics

\* UpdateWebhookDeliveryStatus.  An error leaves the row as it was.
Mark(d, ok) ==
  \/ /\ status' = [status EXCEPT ![d] = IF ok THEN "success" ELSE "failed"]
     /\ UNCHANGED faults
  \/ Fault /\ UNCHANGED status

CountSent(h) ==
  \/ totalSent' = [totalSent EXCEPT ![h] = @ + 1] /\ UNCHANGED faults
  \/ Fault /\ UNCHANGED totalSent

CountFailed(h) ==
  \/ totalFailed' = [totalFailed EXCEPT ![h] = @ + 1] /\ UNCHANGED faults
  \/ Fault /\ UNCHANGED totalFailed

\* A new next_retry_at: the row is due no more, and is to become so again or not.
Reschedule(d, again) ==
  /\ later' = IF again THEN later \cup {d} ELSE later \ {d}
  /\ \/ \E at \in DOMAIN due :
          /\ due[at] = d
          /\ due' = SubSeq(due, 1, at - 1) \o SubSeq(due, at + 1, Len(due))
     \/ (\A at \in DOMAIN due : due[at] # d) /\ UNCHANGED due

\* IncrementDeliveryAttempt with a next_retry_at, or with none.
NextAttempt(d, again) ==
  \/ /\ attempt' = [attempt EXCEPT ![d] = @ + 1]
     /\ Reschedule(d, again)
     /\ UNCHANGED faults
  \/ Fault /\ UNCHANGED <<attempt, later, due>>

\* Mutant: deliveries are selected whatever their status is.
RetryableAnyway(d) == attempt[d] < MaxAttempt

Retryable(d) == status[d] = "failed" /\ attempt[d] < MaxAttempt

-----------------------------------------------------------------------------
(* The webhooks' owner, and time.                                          *)

\* Pausing or deleting a webhook, resuming it, or changing its retries.
UpdateWebhook ==
  /\ ops < MaxOps /\ ops' = ops + 1
  /\ \E h \in Webhooks :
       \/ active' = [active EXCEPT ![h] = ~@] /\ UNCHANGED maxRetries
       \/ \E m \in RetryLimits \ {maxRetries[h]} :
            maxRetries' = [maxRetries EXCEPT ![h] = m] /\ UNCHANGED active
  /\ UNCHANGED <<totals, table, schedule, topic, sender, retrier, faults, history>>

BecomesDue ==
  /\ \E d \in later : later' = later \ {d} /\ due' = Append(due, d)
  /\ UNCHANGED <<hooks, totals, table, topic, sender, retrier, ops, faults, history>>

-----------------------------------------------------------------------------
(* DispatchEvent and sendWebhook.                                          *)

SenderAt(s, pc) == sender' = [sender EXCEPT ![s].pc = pc]
Sent(s) == sender' = [sender EXCEPT
             ![s] = IF @.todo = {} THEN IdleSender
                    ELSE [@ EXCEPT !.pc = "create", !.row = None, !.ok = FALSE]]

\* The webhooks are read once for the whole event; when they cannot be read the
\* event fails and is not taken again.
SenderTakes(s) ==
  /\ topic > 0 /\ sender[s].pc = "idle"
  /\ topic' = topic - 1
  /\ LET hs == {h \in Webhooks : active[h]} IN
       sender' = [sender EXCEPT ![s] = IF hs = {} THEN IdleSender
                    ELSE [IdleSender EXCEPT !.pc = "create", !.todo = hs,
                                            !.limits = maxRetries]]
  /\ UNCHANGED <<hooks, totals, table, schedule, retrier, ops, faults, history>>

SenderTakeFails(s) ==
  /\ Fault
  /\ topic > 0 /\ sender[s].pc = "idle"
  /\ topic' = topic - 1
  /\ UNCHANGED <<hooks, totals, table, schedule, sender, retrier, ops, history>>

SenderCreates(s) ==
  /\ sender[s].pc = "create"
  /\ Len(owner) < NumRows
  /\ \E h \in sender[s].todo :
       /\ owner' = Append(owner, h)
       /\ sender' = [sender EXCEPT ![s].pc = "call", ![s].todo = @ \ {h},
                                   ![s].row = Len(owner')]
  /\ UNCHANGED <<hooks, totals, status, attempt, schedule, topic, retrier, ops, faults,
                 history>>

\* No row, no call: the error is logged and the next webhook is tried.
SenderCreateFails(s) ==
  /\ Fault
  /\ sender[s].pc = "create"
  /\ \E h \in sender[s].todo :
       sender' = [sender EXCEPT ![s] = IF @.todo = {h} THEN IdleSender
                                       ELSE [@ EXCEPT !.todo = sender[s].todo \ {h}]]
  /\ UNCHANGED <<hooks, totals, table, schedule, topic, retrier, ops, history>>

SenderCalls(s) ==
  /\ sender[s].pc = "call"
  /\ \E ok \in BOOLEAN :
       /\ Call(sender[s].row, ok)
       /\ sender' = [sender EXCEPT ![s].pc = "mark", ![s].ok = ok]
  /\ UNCHANGED <<hooks, totals, table, schedule, topic, retrier, ops, faults>>

SenderMarks(s) ==
  /\ sender[s].pc = "mark"
  /\ Mark(sender[s].row, sender[s].ok)
  /\ SenderAt(s, "settle")
  /\ UNCHANGED <<hooks, totals, owner, attempt, schedule, topic, retrier, ops, history>>

\* The row's first attempt: a retry is scheduled when the limit allows another.
SenderSettles(s) ==
  /\ sender[s].pc = "settle"
  /\ LET d == sender[s].row
         h == owner[d] IN
       IF sender[s].ok
       THEN CountSent(h) /\ UNCHANGED <<totalFailed, attempt, schedule>>
       ELSE IF 1 < sender[s].limits[h]
       THEN NextAttempt(d, TRUE) /\ UNCHANGED totals
       ELSE CountFailed(h) /\ UNCHANGED <<totalSent, attempt, schedule>>
  /\ Sent(s)
  /\ UNCHANGED <<hooks, owner, status, topic, retrier, ops, history>>

-----------------------------------------------------------------------------
(* RetryFailedDeliveries.                                                  *)

RetryAt(s, pc) == retrier' = [retrier EXCEPT ![s].pc = pc]
Delivery(s) == Head(retrier[s].todo)
NextDelivery(s) == retrier' = [retrier EXCEPT
                     ![s] = IF Len(@.todo) = 1 THEN IdleRetrier
                            ELSE [IdleRetrier EXCEPT !.pc = "read", !.todo = Tail(retrier[s].todo)]]

\* GetPendingWebhookDeliveries: the first due rows, with the attempt they have now.
RetrySelects(s) ==
  /\ retrier[s].pc = "idle"
  /\ LET pending == {i \in DOMAIN due : Retryable(due[i])}
         first == {i \in pending : Cardinality({j \in pending : j < i}) < Limit} IN
       \E at \in [1 .. Cardinality(first) -> first] :
         /\ first # {} /\ \A i, j \in DOMAIN at : i < j => at[i] < at[j]
         /\ retrier' = [retrier EXCEPT ![s] = [IdleRetrier EXCEPT !.pc = "read",
              !.todo = [i \in DOMAIN at |->
                         [row |-> due[at[i]], attempt |-> attempt[due[at[i]]]]]]]
  /\ UNCHANGED <<hooks, totals, table, schedule, topic, sender, ops, faults, history>>

\* Mutant: an inactive webhook ends the pass.
RetryReadsOrReturns(s) ==
  /\ retrier[s].pc = "read"
  /\ LET h == owner[Delivery(s).row] IN
       retrier' = [retrier EXCEPT ![s] = IF active[h]
                     THEN [@ EXCEPT !.pc = "call", !.limit = maxRetries[h]]
                     ELSE IdleRetrier]
  /\ UNCHANGED <<hooks, totals, table, schedule, topic, sender, ops, faults, history>>

\* The webhook is read again for each row; an inactive one is passed over.
RetryReads(s) ==
  /\ retrier[s].pc = "read"
  /\ LET h == owner[Delivery(s).row] IN
       IF active[h]
       THEN retrier' = [retrier EXCEPT ![s].pc = "call", ![s].limit = maxRetries[h]]
       ELSE NextDelivery(s)
  /\ UNCHANGED <<hooks, totals, table, schedule, topic, sender, ops, faults, history>>

RetryReadFails(s) ==
  /\ Fault
  /\ retrier[s].pc = "read"
  /\ NextDelivery(s)
  /\ UNCHANGED <<hooks, totals, table, schedule, topic, sender, ops, history>>

RetryCalls(s) ==
  /\ retrier[s].pc = "call"
  /\ \E ok \in BOOLEAN :
       /\ Call(Delivery(s).row, ok)
       /\ retrier' = [retrier EXCEPT ![s].pc = "mark", ![s].ok = ok]
  /\ UNCHANGED <<hooks, totals, table, schedule, topic, sender, ops, faults>>

RetryMarks(s) ==
  /\ retrier[s].pc = "mark"
  /\ Mark(Delivery(s).row, retrier[s].ok)
  /\ RetryAt(s, "settle")
  /\ UNCHANGED <<hooks, totals, owner, attempt, schedule, topic, sender, ops, history>>

\* Mutant: a success on retry is not counted.
RetrySucceedsUncounted(s) ==
  /\ retrier[s].pc = "settle" /\ retrier[s].ok
  /\ NextDelivery(s)
  /\ UNCHANGED <<hooks, totals, table, schedule, topic, sender, ops, faults, history>>

RetrySucceeds(s) ==
  /\ retrier[s].pc = "settle" /\ retrier[s].ok
  /\ CountSent(owner[Delivery(s).row])
  /\ NextDelivery(s)
  /\ UNCHANGED <<hooks, totalFailed, table, schedule, topic, sender, ops, history>>

\* Mutant: the attempt stays what it was.
RetryFailsAgain(s) ==
  /\ retrier[s].pc = "settle" /\ ~retrier[s].ok
  /\ Delivery(s).attempt < retrier[s].limit
  /\ Reschedule(Delivery(s).row, TRUE)
  /\ NextDelivery(s)
  /\ UNCHANGED <<hooks, totals, table, topic, sender, ops, faults, history>>

RetryFails(s) ==
  /\ retrier[s].pc = "settle" /\ ~retrier[s].ok
  /\ Delivery(s).attempt < retrier[s].limit
  /\ NextAttempt(Delivery(s).row, TRUE)
  /\ NextDelivery(s)
  /\ UNCHANGED <<hooks, totals, owner, status, topic, sender, ops, history>>

\* A server that stops loses its jobs.  The event being dispatched is delivered
\* again, unless another worker has committed past it.
Stop(s) ==
  /\ sender' = [sender EXCEPT ![s] = IdleSender]
  /\ retrier' = [retrier EXCEPT ![s] = IdleRetrier]
  /\ topic' \in {topic, IF sender[s].pc = "idle" THEN topic ELSE topic + 1}

\* Without a next retry the row is updated, and the line that logs the time of
\* the next retry dereferences nil: the process ends before it counts a failure.
RetryGivesUp(s) ==
  /\ retrier[s].pc = "settle" /\ ~retrier[s].ok
  /\ Delivery(s).attempt >= retrier[s].limit
  /\ NextAttempt(Delivery(s).row, FALSE)
  /\ panics' = panics + 1
  /\ Stop(s)
  /\ UNCHANGED <<hooks, totals, owner, status, ops, calls, accepted>>

Crash(s) ==
  /\ Fault
  /\ sender[s].pc # "idle" \/ retrier[s].pc # "idle"
  /\ Stop(s)
  /\ UNCHANGED <<hooks, totals, table, schedule, ops, history>>

-----------------------------------------------------------------------------
SenderStep(s) ==
  \/ SenderTakes(s)
  \/ SenderCreates(s)
  \/ SenderCalls(s)
  \/ SenderMarks(s)
  \/ SenderSettles(s)

RetryStep(s) ==
  \/ RetrySelects(s)
  \/ RetryReads(s)
  \/ RetryCalls(s)
  \/ RetryMarks(s)
  \/ RetrySucceeds(s)
  \/ RetryFails(s)
  \/ RetryGivesUp(s)

Next ==
  \/ UpdateWebhook
  \/ BecomesDue
  \/ \E s \in Servers :
       \/ SenderStep(s) \/ SenderTakeFails(s) \/ SenderCreateFails(s)
       \/ RetryStep(s) \/ RetryReadFails(s)
       \/ Crash(s)

Spec == Init /\ [][Next]_vars

\* Time passes, and the retrier's ticker fires every 30 seconds.
Fairness == WF_vars(BecomesDue) /\ \A s \in Servers : WF_vars(RetryStep(s))

FairSpec == Spec /\ Fairness

-----------------------------------------------------------------------------
(* Properties.                                                             *)

Rows == DOMAIN owner

\* A delivery that succeeded is never failed again, though the sender, the
\* retrier and crashes write the same rows (webhooks/service/service.go:153-199,
\* 344-388).
SuccessIsFinal ==
  [][\A d \in Rows : status[d] = "success" => status'[d] = "success"]_vars

\* The endpoint of a delivery is called a bounded number of times: once, and once
\* for each attempt number below the limit; a fault costs at most one call more
\* (webhooks/service/service.go:302-304, store/webhook.go:316-322).
CallsBounded ==
  \A d \in Rows : calls[d] <= MaxAttempt - 1 + faults

Settling(h) ==
  {s \in Servers : /\ sender[s].pc \in {"mark", "settle"} /\ sender[s].ok
                   /\ owner[sender[s].row] = h}
Resettling(h) ==
  {s \in Servers : /\ retrier[s].pc \in {"mark", "settle"} /\ retrier[s].ok
                   /\ owner[Delivery(s).row] = h}

\* total_sent counts every accepted call of the webhook once, short of those being
\* written and of what a fault or a panic cuts short (webhooks/service/service.go:
\* 166-170, 357-361).
SentCountedOnce ==
  \A h \in Webhooks :
    accepted[h] - totalSent[h] - Cardinality(Settling(h)) - Cardinality(Resettling(h))
      \in 0 .. 2 * faults + panics

\* docs/KAFKA_SETUP.md:26: failed deliveries are tracked and retried, so again and
\* again only those of inactive webhooks wait (webhooks/worker/worker.go:29-50).
FailedDeliveriesRetried ==
  []<>(\A d \in Rows : Retryable(d) /\ d \in later \cup {due[i] : i \in DOMAIN due} => ~active[owner[d]])
=============================================================================
