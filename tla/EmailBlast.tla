----------------------------- MODULE EmailBlast -----------------------------
(***************************************************************************)
(* One email blast: the API calls of internal/emailblasts/processor, the   *)
(* scheduler and the Kafka handlers of internal/workers/blast, over the    *)
(* row of email_blasts and the rows of blast_recipients they share.        *)
(*                                                                         *)
(* No operation holds a lock or a transaction over its steps: each reads   *)
(* the status, decides, and later writes a status unconditionally.  Every  *)
(* read, write, mail and dispatch is therefore a step of its own.  Events  *)
(* reach any idle worker in any order; handling one may be cut short by a  *)
(* crash or a database error and the event delivered again, and an event   *)
(* may be lost (the producer is asynchronous, see EventConsumer for the    *)
(* consumer's part).                                                       *)
(***************************************************************************)
EXTENDS Integers, FiniteSets

CONSTANTS
  Workers,       \* workers of the blast consumer
  Clients,       \* concurrent API requests
  NumUsers,      \* users the segments can select, in query order
  Selections,    \* bound: the sets of users the segments may select
  BatchSizes,    \* bound: batch sizes a user chooses from
  Window,        \* recipients between two looks at the status: 10 in the code
  MaxOps,        \* bound: API requests made
  MaxFaults      \* bound: crashes, lost events and failed dispatches

ASSUME BlastAssumption ==
  /\ NumUsers \in Nat /\ Selections \subseteq SUBSET (1 .. NumUsers)
  /\ BatchSizes \subseteq Nat \ {0} /\ Window \in Nat \ {0}
  /\ MaxOps \in Nat /\ MaxFaults \in Nat

Users == 1 .. NumUsers
NoBatch == -1

Started == [type |-> "started", batch |-> NoBatch]
Completed == [type |-> "completed", batch |-> NoBatch]
Batch(n) == [type |-> "batch", batch |-> n]
Events == {Started, Completed} \cup {Batch(n) : n \in 0 .. NumUsers + 1}

VARIABLES
  status, deleted, batchSize, currentBatch, sentCount,  \* the email_blasts row
  members,    \* the users the segments select now
  batchOf,    \* blast_recipients.batch_number per user, NoBatch without a row
  rstatus,    \* blast_recipients.status per user
  mails,      \* mails the provider accepted, per user
  topic,      \* blast events not taken yet: how many of each
  job,        \* per worker: the event it handles, and the handler's locals
  call,       \* per client: the API request it makes
  sched,      \* where checkScheduledBlasts is
  ops, faults,            \* counters of the bounds
  startedEvents, resumes  \* history: blast.started events, resumed sendings

blastRow == <<status, deleted, batchSize, currentBatch, sentCount>>
recipientRows == <<members, batchOf, rstatus, mails>>
history == <<startedEvents, resumes>>
vars == <<status, deleted, batchSize, currentBatch, sentCount, members, batchOf, rstatus,
          mails, topic, job, call, sched, ops, faults, startedEvents, resumes>>

IdleJob == [pc |-> "idle", event |-> Started, todo |-> {}, base |-> 0, sent |-> 0,
            late |-> 0]
IdleCall == [op |-> "none", pc |-> "idle", next |-> 0]

\* CreateEmailBlast has made the row: scheduled when a time came with it.
Init ==
  /\ status \in {"draft", "scheduled"} /\ deleted = FALSE
  /\ batchSize \in BatchSizes /\ currentBatch = 0 /\ sentCount = 0
  /\ members \in Selections
  /\ batchOf = [u \in Users |-> NoBatch]
  /\ rstatus = [u \in Users |-> "pending"]
  /\ mails = [u \in Users |-> 0]
  /\ topic = [e \in Events |-> 0]
  /\ job = [w \in Workers |-> IdleJob]
  /\ call = [c \in Clients |-> IdleCall]
  /\ sched = "idle"
  /\ ops = 0 /\ faults = 0
  /\ startedEvents = 0 /\ resumes = 0

\* The users of a batch that have a recipient row.
Recipients(n) == {u \in Users : batchOf[u] = n}

\* UpdateEmailBlastStatus: whatever the status was, unless the row is deleted.
SetStatus(s) == status' = IF deleted THEN status ELSE s

Publish(e) == topic' = [topic EXCEPT ![e] = @ + 1]

Position(u) == Cardinality({v \in members : v < u})

-----------------------------------------------------------------------------
\* Sign-ups, verifications and deletions change what the segments select.
SegmentsChange ==
  /\ ops < MaxOps /\ ops' = ops + 1
  /\ members' \in Selections \ {members}
  /\ UNCHANGED <<blastRow, batchOf, rstatus, mails, topic, job, call, sched, faults, history>>

(* API requests with one guarded UPDATE: the database decides.             *)

Modifiable == ~deleted /\ status = "draft"
Deletable == ~deleted /\ status \in {"draft", "scheduled", "cancelled", "completed", "failed"}

UpdateEmailBlast ==
  /\ ops < MaxOps /\ ops' = ops + 1
  /\ Modifiable
  /\ batchSize' \in BatchSizes
  /\ UNCHANGED <<status, deleted, currentBatch, sentCount, recipientRows, topic, job, call,
                 sched, faults, history>>

ScheduleBlast ==
  /\ ops < MaxOps /\ ops' = ops + 1
  /\ Modifiable
  /\ status' = "scheduled"
  /\ UNCHANGED <<deleted, batchSize, currentBatch, sentCount, recipientRows, topic, job, call,
                 sched, faults, history>>

DeleteEmailBlast ==
  /\ ops < MaxOps /\ ops' = ops + 1
  /\ Deletable
  /\ deleted' = TRUE
  /\ UNCHANGED <<status, batchSize, currentBatch, sentCount, recipientRows, topic, job, call,
                 sched, faults, history>>

-----------------------------------------------------------------------------
(* API requests that read the status, then write another.                  *)

Allowed(op) ==
  CASE op = "send"   -> {"draft", "scheduled"}
    [] op = "pause"  -> {"sending", "processing"}
    [] op = "resume" -> {"paused"}
    [] op = "cancel" -> {"draft", "scheduled", "processing", "sending", "paused"}

Written(op) ==
  CASE op = "send"   -> "processing"
    [] op = "pause"  -> "paused"
    [] op = "resume" -> "sending"
    [] op = "cancel" -> "cancelled"

\* GetEmailBlastByID and the check of the status; a refused request ends here.
CallReads(c) ==
  /\ ops < MaxOps /\ ops' = ops + 1
  /\ call[c].pc = "idle"
  /\ ~deleted
  /\ \E op \in {"send", "pause", "resume", "cancel"} :
       /\ status \in Allowed(op)
       /\ call' = [call EXCEPT ![c] = [op |-> op, pc |-> "write", next |-> currentBatch + 1]]
  /\ UNCHANGED <<blastRow, recipientRows, topic, job, sched, faults, history>>

\* UpdateEmailBlastStatus fails on a deleted row and ends the request.
CallWrites(c) ==
  /\ call[c].pc = "write"
  /\ SetStatus(Written(call[c].op))
  /\ call' = [call EXCEPT ![c] = IF deleted \/ call[c].op \in {"pause", "cancel"}
                                 THEN IdleCall ELSE [@ EXCEPT !.pc = "dispatch"]]
  /\ UNCHANGED <<deleted, batchSize, currentBatch, sentCount, recipientRows, topic, job, sched,
                 ops, faults, history>>

\* A resumed blast goes on with the batch after the one it read.
CallDispatches(c) ==
  /\ call[c].pc = "dispatch"
  /\ Publish(IF call[c].op = "send" THEN Started ELSE Batch(call[c].next))
  /\ startedEvents' = startedEvents + (IF call[c].op = "send" THEN 1 ELSE 0)
  /\ resumes' = resumes + (IF call[c].op = "resume" THEN 1 ELSE 0)
  /\ call' = [call EXCEPT ![c] = IdleCall]
  /\ UNCHANGED <<blastRow, recipientRows, job, sched, ops, faults>>

\* A send goes back to draft; a resume ignores the error.
CallDispatchFails(c) ==
  /\ faults < MaxFaults /\ faults' = faults + 1
  /\ call[c].pc = "dispatch"
  /\ IF call[c].op = "send" THEN SetStatus("draft") ELSE UNCHANGED status
  /\ call' = [call EXCEPT ![c] = IdleCall]
  /\ UNCHANGED <<deleted, batchSize, currentBatch, sentCount, recipientRows, topic, job, sched,
                 ops, history>>

-----------------------------------------------------------------------------
(* The scheduler, in a goroutine of its own.                               *)

SchedulerFinds ==
  /\ sched = "idle"
  /\ status = "scheduled" /\ ~deleted
  /\ sched' = "write"
  /\ UNCHANGED <<blastRow, recipientRows, topic, job, call, ops, faults, history>>

SchedulerWrites ==
  /\ sched = "write"
  /\ SetStatus("processing")
  /\ sched' = IF deleted THEN "idle" ELSE "dispatch"
  /\ UNCHANGED <<deleted, batchSize, currentBatch, sentCount, recipientRows, topic, job, call,
                 ops, faults, history>>

SchedulerDispatches ==
  /\ sched = "dispatch"
  /\ Publish(Started)
  /\ startedEvents' = startedEvents + 1
  /\ sched' = "idle"
  /\ UNCHANGED <<blastRow, recipientRows, job, call, ops, faults, resumes>>

SchedulerDispatchFails ==
  /\ faults < MaxFaults /\ faults' = faults + 1
  /\ sched = "dispatch"
  /\ SetStatus("failed")
  /\ sched' = "idle"
  /\ UNCHANGED <<deleted, batchSize, currentBatch, sentCount, recipientRows, topic, job, call,
                 ops, history>>

-----------------------------------------------------------------------------
(* The consumer's workers: taking an event and the ends of a handler.      *)

Goto(w, pc) == job' = [job EXCEPT ![w].pc = pc]

Take(w) ==
  /\ job[w].pc = "idle"
  /\ \E e \in Events :
       /\ topic[e] > 0
       /\ topic' = [topic EXCEPT ![e] = @ - 1]
       /\ job' = [job EXCEPT ![w] = [IdleJob EXCEPT !.pc = "read", !.event = e]]
  /\ UNCHANGED <<blastRow, recipientRows, call, sched, ops, faults, history>>

Finish(w) ==
  /\ job[w].pc = "done"
  /\ job' = [job EXCEPT ![w] = IdleJob]
  /\ UNCHANGED <<blastRow, recipientRows, topic, call, sched, ops, faults, history>>

\* A crash or an error of the database: the event is not committed.  It is
\* delivered again, unless a later commit of its partition passed over it.
Crash(w) ==
  /\ faults < MaxFaults /\ faults' = faults + 1
  /\ job[w].pc # "idle"
  /\ Publish(job[w].event) \/ UNCHANGED topic
  /\ job' = [job EXCEPT ![w] = IdleJob]
  /\ UNCHANGED <<blastRow, recipientRows, call, sched, ops, history>>

LoseEvent ==
  /\ faults < MaxFaults /\ faults' = faults + 1
  /\ \E e \in Events : topic[e] > 0 /\ topic' = [topic EXCEPT ![e] = @ - 1]
  /\ UNCHANGED <<blastRow, recipientRows, job, call, sched, ops, history>>

\* Any failure past the first read of a handler ends in failBlast.
FailBlast(w) ==
  /\ faults < MaxFaults /\ faults' = faults + 1
  /\ job[w].pc \in {"create", "sending", "first", "load", "next"}
  /\ SetStatus("failed")
  /\ Goto(w, "done")
  /\ UNCHANGED <<deleted, batchSize, currentBatch, sentCount, recipientRows, topic, call, sched,
                 ops, history>>

-----------------------------------------------------------------------------
(* handleBlastStarted.                                                     *)

ReadStarted(w) ==
  /\ job[w].pc = "read" /\ job[w].event = Started
  /\ job' = [job EXCEPT
       ![w].pc = IF ~deleted /\ status = "processing" THEN "create" ELSE "done",
       ![w].base = batchSize]
  /\ UNCHANGED <<blastRow, recipientRows, topic, call, sched, ops, faults, history>>

\* Mutant: ON CONFLICT DO UPDATE.
CreateRecipientsAnew(w) ==
  /\ job[w].pc = "create"
  /\ batchOf' = [u \in Users |-> IF u \in members THEN Position(u) \div job[w].base
                                 ELSE batchOf[u]]
  /\ Goto(w, IF members = {} THEN "empty" ELSE "sending")
  /\ UNCHANGED <<blastRow, members, rstatus, mails, topic, call, sched, ops, faults, history>>

\* One transaction; rows that exist stay as they are.  Without any recipient
\* the blast is completed at once.
CreateRecipients(w) ==
  /\ job[w].pc = "create"
  /\ batchOf' = [u \in Users |-> IF u \in members /\ batchOf[u] = NoBatch
                                 THEN Position(u) \div job[w].base ELSE batchOf[u]]
  /\ Goto(w, IF members = {} THEN "empty" ELSE "sending")
  /\ UNCHANGED <<blastRow, members, rstatus, mails, topic, call, sched, ops, faults, history>>

CompleteEmpty(w) ==
  /\ job[w].pc = "empty"
  /\ SetStatus("completed")
  /\ Goto(w, "done")
  /\ UNCHANGED <<deleted, batchSize, currentBatch, sentCount, recipientRows, topic, call, sched,
                 ops, faults, history>>

StartSending(w) ==
  /\ job[w].pc = "sending"
  /\ SetStatus("sending")
  /\ Goto(w, IF deleted THEN "done" ELSE "first")
  /\ UNCHANGED <<deleted, batchSize, currentBatch, sentCount, recipientRows, topic, call, sched,
                 ops, faults, history>>

DispatchFirstBatch(w) ==
  /\ job[w].pc = "first"
  /\ Publish(Batch(1))
  /\ Goto(w, "done")
  /\ UNCHANGED <<blastRow, recipientRows, call, sched, ops, faults, history>>

-----------------------------------------------------------------------------
(* handleBlastBatch.                                                       *)

ReadBatch(w) ==
  /\ job[w].pc = "read" /\ job[w].event.type = "batch"
  /\ job' = [job EXCEPT ![w].pc = IF ~deleted /\ status = "sending" THEN "load" ELSE "done",
                        ![w].base = sentCount]
  /\ UNCHANGED <<blastRow, recipientRows, topic, call, sched, ops, faults, history>>

\* All recipients of the batch, whatever their status.  They come by created_at,
\* which the rows of one transaction share: in any order.
LoadRecipients(w) ==
  /\ job[w].pc = "load"
  /\ LET rs == Recipients(job[w].event.batch) IN
       job' = [job EXCEPT ![w].pc = IF rs = {} THEN "check" ELSE "look", ![w].todo = rs]
  /\ UNCHANGED <<blastRow, recipientRows, topic, call, sched, ops, faults, history>>

\* Mutant: the status is looked at once, before the first mail of the batch.
MustLookOnce(j) == j.event.batch > 1 /\ j.sent = 0

MustLook(j) == j.event.batch > 1 /\ j.sent % Window = 0

\* Before a recipient of a later batch, every so many mails: read the blast
\* again and stop, without recording any progress, when it is not sending.
LookAgain(w) ==
  /\ job[w].pc = "look"
  /\ job' = [job EXCEPT ![w] =
       IF ~MustLook(@) THEN [@ EXCEPT !.pc = "mail"]
       ELSE IF ~deleted /\ status = "sending"
       THEN [@ EXCEPT !.pc = "mail", !.base = sentCount, !.late = 0]
       ELSE [@ EXCEPT !.pc = "done"]]
  /\ UNCHANGED <<blastRow, recipientRows, topic, call, sched, ops, faults, history>>

\* Two errors are swallowed: a failed look stops the batch, an unwritten
\* progress does not.
IgnoreError(w) ==
  /\ faults < MaxFaults /\ faults' = faults + 1
  /\ \/ job[w].pc = "look" /\ MustLook(job[w]) /\ Goto(w, "done")
     \/ job[w].pc = "progress" /\ Goto(w, "next")
  /\ UNCHANGED <<blastRow, recipientRows, topic, call, sched, ops, history>>

AfterMail(j, u, sent) ==
  [j EXCEPT !.pc = IF j.todo = {u} THEN "progress" ELSE "look",
            !.todo = @ \ {u}, !.sent = @ + sent,
            !.late = @ + (IF status # "sending" THEN sent ELSE 0)]

\* The result of marking the recipient is ignored: the mark may be missing.
MailRecipient(w) ==
  /\ job[w].pc = "mail"
  /\ \E u \in job[w].todo :
       /\ mails' = [mails EXCEPT ![u] = @ + 1]
       /\ \/ rstatus' = [rstatus EXCEPT ![u] = "sent"] /\ UNCHANGED faults
          \/ faults < MaxFaults /\ faults' = faults + 1 /\ UNCHANGED rstatus
       /\ job' = [job EXCEPT ![w] = AfterMail(@, u, 1)]
  /\ UNCHANGED <<blastRow, members, batchOf, topic, call, sched, ops, history>>

MailFails(w) ==
  /\ faults < MaxFaults /\ faults' = faults + 1
  /\ job[w].pc = "mail"
  /\ \E u \in job[w].todo :
       /\ rstatus' = [rstatus EXCEPT ![u] = "failed"]
       /\ job' = [job EXCEPT ![w] = AfterMail(@, u, 0)]
  /\ UNCHANGED <<blastRow, members, batchOf, mails, topic, call, sched, ops, history>>

\* Mutant: every recipient of the batch is counted, the failed ones too.
WriteProgressOfAll(w) ==
  /\ job[w].pc = "progress"
  /\ IF deleted THEN UNCHANGED <<sentCount, currentBatch>>
     ELSE /\ sentCount' = job[w].base + Cardinality(Recipients(job[w].event.batch))
          /\ currentBatch' = job[w].event.batch
  /\ Goto(w, "next")
  /\ UNCHANGED <<status, deleted, batchSize, recipientRows, topic, call, sched, ops, faults,
                 history>>

\* UpdateEmailBlastProgressWithSent writes the count it read, plus its own.
WriteProgress(w) ==
  /\ job[w].pc = "progress"
  /\ IF deleted THEN UNCHANGED <<sentCount, currentBatch>>
     ELSE sentCount' = job[w].base + job[w].sent /\ currentBatch' = job[w].event.batch
  /\ Goto(w, "next")
  /\ UNCHANGED <<status, deleted, batchSize, recipientRows, topic, call, sched, ops, faults,
                 history>>

\* Mutant: the batch just sent is dispatched again.
DispatchSameBatch(w) ==
  /\ job[w].pc = "next"
  /\ LET n == job[w].event.batch IN
       IF Recipients(n) # {}
       THEN Publish(Batch(n)) /\ Goto(w, "done")
       ELSE Goto(w, "check") /\ UNCHANGED topic
  /\ UNCHANGED <<blastRow, recipientRows, call, sched, ops, faults, history>>

DispatchNextBatch(w) ==
  /\ job[w].pc = "next"
  /\ LET n == job[w].event.batch + 1 IN
       IF Recipients(n) # {}
       THEN Publish(Batch(n)) /\ Goto(w, "done")
       ELSE Goto(w, "check") /\ UNCHANGED topic
  /\ UNCHANGED <<blastRow, recipientRows, call, sched, ops, faults, history>>

\* checkBlastCompletion
CheckCompletion(w) ==
  /\ job[w].pc = "check"
  /\ IF \E u \in Users : batchOf[u] # NoBatch /\ rstatus[u] = "pending"
     THEN UNCHANGED topic ELSE Publish(Completed)
  /\ Goto(w, "done")
  /\ UNCHANGED <<blastRow, recipientRows, call, sched, ops, faults, history>>

-----------------------------------------------------------------------------
(* handleBlastCompleted.                                                   *)

ReadCompleted(w) ==
  /\ job[w].pc = "read" /\ job[w].event = Completed
  /\ Goto(w, IF ~deleted /\ status = "sending" THEN "complete" ELSE "done")
  /\ UNCHANGED <<blastRow, recipientRows, topic, call, sched, ops, faults, history>>

CompleteBlast(w) ==
  /\ job[w].pc = "complete"
  /\ SetStatus("completed")
  /\ Goto(w, "done")
  /\ UNCHANGED <<deleted, batchSize, currentBatch, sentCount, recipientRows, topic, call, sched,
                 ops, faults, history>>

-----------------------------------------------------------------------------
HandleStarted(w) ==
  \/ ReadStarted(w)
  \/ CreateRecipients(w)
  \/ CompleteEmpty(w)
  \/ StartSending(w)
  \/ DispatchFirstBatch(w)

HandleBatch(w) ==
  \/ ReadBatch(w)
  \/ LoadRecipients(w)
  \/ LookAgain(w)
  \/ IgnoreError(w)
  \/ MailRecipient(w)
  \/ MailFails(w)
  \/ WriteProgress(w)
  \/ DispatchNextBatch(w)
  \/ CheckCompletion(w)

HandleCompleted(w) == ReadCompleted(w) \/ CompleteBlast(w)

WorkerStep(w) ==
  \/ Take(w)
  \/ HandleStarted(w)
  \/ HandleBatch(w)
  \/ HandleCompleted(w)
  \/ FailBlast(w)
  \/ Finish(w)
  \/ Crash(w)

ClientStep(c) ==
  \/ CallReads(c)
  \/ CallWrites(c)
  \/ CallDispatches(c)
  \/ CallDispatchFails(c)

SchedulerStep ==
  \/ SchedulerFinds
  \/ SchedulerWrites
  \/ SchedulerDispatches
  \/ SchedulerDispatchFails

Next ==
  \/ SegmentsChange
  \/ UpdateEmailBlast
  \/ ScheduleBlast
  \/ DeleteEmailBlast
  \/ \E c \in Clients : ClientStep(c)
  \/ SchedulerStep
  \/ \E w \in Workers : WorkerStep(w)
  \/ LoseEvent

Spec == Init /\ [][Next]_vars

-----------------------------------------------------------------------------
(* Properties.                                                             *)

\* The mails that went out, each user's numbered.
Mailed == UNION {{u} \X (1 .. mails[u]) : u \in Users}

\* The count shown to the user never exceeds the mails that went out, although
\* handlers write it from stale reads (workers/blast/processor.go:213, 233).
SentCountNeverOverstates == sentCount <= Cardinality(Mailed)

\* Without a fault, a second start or a resume, the chain of batch events mails
\* nobody twice (workers/blast/processor.go:148, 248).
OneMailEach ==
  faults = 0 /\ startedEvents <= 1 /\ resumes = 0 => \A u \in Users : mails[u] <= 1

\* A pause or a cancellation stops a later batch within the window of recipients
\* between two looks at the status (workers/blast/processor.go:211-218).
StopsWithinWindow ==
  \A w \in Workers : job[w].event.batch > 1 => job[w].late <= Window

\* A recipient keeps its batch, however often the blast is started and with
\* whatever batch size (store/email_blast.go:325-329).
BatchesAreStable ==
  [][\A u \in Users : batchOf[u] # NoBatch => batchOf'[u] = batchOf[u]]_vars

\* workers/blast/processor.go:157-161: a batch either dispatches the next one or
\* completes the blast, so a sending blast always has a step under way.
SendingIsUnderWay ==
  \/ status # "sending" \/ deleted \/ faults > 0
  \/ \E e \in Events : topic[e] > 0
  \/ \E w \in Workers : job[w].pc # "idle"
  \/ \E c \in Clients : call[c].pc # "idle"
=============================================================================
