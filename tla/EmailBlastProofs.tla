-------------------------- MODULE EmailBlastProofs --------------------------
(***************************************************************************)
(* Proofs about an email blast, for every number of workers, requests,     *)
(* users and faults, every selection of users, batch size and window.      *)
(***************************************************************************)
EXTENDS EmailBlast, FiniteSetTheorems, TLAPS

-----------------------------------------------------------------------------
(* Types, and what a handler holds at each of its steps.                   *)

Batches == 0 .. NumUsers - 1
Statuses == {"draft", "scheduled", "processing", "sending", "paused", "cancelled", "completed",
             "failed"}
Row ==
  /\ status \in Statuses /\ deleted \in BOOLEAN
  /\ batchSize \in BatchSizes /\ currentBatch \in 0 .. NumUsers /\ sentCount \in Nat

StartedSteps == {"create", "empty", "sending", "first"}
MailSteps == {"look", "mail"}
Counting == {"look", "mail", "progress"}
BatchSteps == {"load", "look", "mail", "progress", "next"}
Steps == {"idle", "read", "check", "complete", "done"} \cup StartedSteps \cup BatchSteps

Job == [pc : Steps, event : Events, todo : SUBSET Users, base : Nat, sent : Nat, late : Nat]
Call == [op : {"none", "send", "pause", "resume", "cancel"}, pc : {"idle", "write", "dispatch"},
         next : 0 .. NumUsers + 1]

\* The variables keep their types; a batch number stays below the number of users.
TypeOK ==
  /\ Row
  /\ members \in SUBSET Users
  /\ batchOf \in [Users -> Batches \cup {NoBatch}]
  /\ mails \in [Users -> Nat]
  /\ topic \in [Events -> Nat]
  /\ job \in [Workers -> Job]
  /\ call \in [Clients -> Call]
  /\ \A c \in Clients :
       /\ call[c].pc # "idle" => call[c].op # "none"
       /\ call[c].pc = "dispatch" => call[c].op \in {"send", "resume"}
  /\ {faults, startedEvents, resumes} \subseteq Nat

\* A handler is at a step of its event; the batch it mails has recipients.
JobFits(j) ==
  /\ j.pc \in StartedSteps => j.event = Started
  /\ j.pc = "create" => j.base \in BatchSizes
  /\ j.pc \in BatchSteps => j.event.type = "batch"
  /\ j.pc \in BatchSteps \ {"load"} => j.event.batch \in Batches
  /\ j.pc \in {"read", "load"} => j.sent = 0 /\ j.late = 0

JobsFit == \A w \in Workers : JobFits(job[w])

-----------------------------------------------------------------------------

\* A batch number is a natural number, below the number of users.
LEMMA BatchNumbers ==
  ASSUME members \in SUBSET Users, NEW u \in Users, NEW b \in BatchSizes
  PROVE  Position(u) \div b \in Batches
<1> DEFINE p == Cardinality({v \in members : v < u})
<1>1. NumUsers \in Nat /\ u \in 1 .. NumUsers /\ b \in Nat \ {0}
  BY BlastAssumption DEF Users
<1>2. IsFiniteSet(1 .. u - 1) /\ Cardinality(1 .. u - 1) = u - 1
  BY <1>1, FS_Interval
<1>3. \A v \in members : v < u => v \in 1 .. u - 1
  <2> TAKE v \in members
  <2>1. v \in 1 .. NumUsers
    BY DEF Users
  <2> QED
    BY <1>1, <2>1
<1>4. p \in Nat /\ p <= u - 1
  <2>1. {v \in members : v < u} \in SUBSET (1 .. u - 1)
    BY <1>3
  <2> QED
    BY <1>2, <2>1, FS_Subset, FS_CardinalityType
<1> HIDE DEF p
<1>5. \A n \in Nat : n \div b \in Nat /\ n \div b <= n
  BY <1>1
<1>6. p \div b \in 0 .. NumUsers - 1
  BY <1>1, <1>4, <1>5
<1> QED
  BY <1>6 DEF p, Position, Batches

LEMMA EventTypes ==
  /\ Started \in Events /\ Completed \in Events
  /\ \A n \in 0 .. NumUsers + 1 : Batch(n) \in Events
  /\ \A e \in Events : e.type = "batch" => e.batch \in 0 .. NumUsers + 1 /\ e = Batch(e.batch)
  /\ Started.type = "started" /\ Completed.type = "completed"
  /\ \A n \in Int : Batch(n).type = "batch" /\ Batch(n).batch = n
<1>1. Started \in Events /\ Completed \in Events /\ \A n \in 0 .. NumUsers + 1 : Batch(n) \in Events
  BY DEF Events
<1>2. /\ Started.type = "started" /\ Completed.type = "completed"
      /\ \A n \in Int : Batch(n).type = "batch" /\ Batch(n).batch = n
  BY DEF Started, Completed, Batch
<1>3. ASSUME NEW e \in Events, e.type = "batch"
      PROVE  e.batch \in 0 .. NumUsers + 1 /\ e = Batch(e.batch)
  <2>1. PICK n \in 0 .. NumUsers + 1 : e = Batch(n)
    BY <1>2, <1>3 DEF Events
  <2> QED
    BY <2>1, <1>2
<1> QED
  BY <1>1, <1>2, <1>3

\* Initially.
LEMMA InitTypes == Init => TypeOK /\ JobsFit
<1> SUFFICES ASSUME Init PROVE TypeOK /\ JobsFit
  OBVIOUS
<1>1. IdleJob \in Job /\ JobFits(IdleJob)
  BY EventTypes, BlastAssumption DEF IdleJob, Job, JobFits, Steps, StartedSteps, BatchSteps
<1>2. IdleCall \in Call
  BY BlastAssumption DEF IdleCall, Call
<1>3. Row
  <2>1. status \in Statuses
    BY DEF Init, Statuses
  <2>2. currentBatch \in 0 .. NumUsers /\ sentCount \in Nat
    BY BlastAssumption DEF Init
  <2> QED
    BY <2>1, <2>2 DEF Init, Row
<1>4. members \in SUBSET Users /\ batchOf \in [Users -> Batches \cup {NoBatch}]
  BY BlastAssumption DEF Init, Users
<1> QED
  BY <1>1, <1>2, <1>3, <1>4 DEF Init, TypeOK, JobsFit, IdleCall

\* A step of a worker changes its own job only.
LEMMA OneJob ==
  ASSUME job \in [Workers -> Job], NEW w \in Workers, WorkerStep(w)
  PROVE  job' = [job EXCEPT ![w] = job'[w]]
<1> USE DEF Job
<1>1. CASE Take(w)
  BY <1>1 DEF Take, Goto
<1>2. CASE ReadStarted(w)
  BY <1>2 DEF ReadStarted, Goto
<1>3. CASE CreateRecipients(w)
  BY <1>3 DEF CreateRecipients, Goto
<1>4. CASE CompleteEmpty(w)
  BY <1>4 DEF CompleteEmpty, Goto
<1>5. CASE StartSending(w)
  BY <1>5 DEF StartSending, Goto
<1>6. CASE DispatchFirstBatch(w)
  BY <1>6 DEF DispatchFirstBatch, Goto
<1>7. CASE ReadBatch(w)
  BY <1>7 DEF ReadBatch, Goto
<1>8. CASE LoadRecipients(w)
  BY <1>8 DEF LoadRecipients, Goto
<1>9. CASE LookAgain(w)
  BY <1>9 DEF LookAgain, Goto
<1>10. CASE IgnoreError(w)
  BY <1>10 DEF IgnoreError, Goto
<1>11. CASE MailRecipient(w)
  BY <1>11 DEF MailRecipient, Goto
<1>12. CASE MailFails(w)
  BY <1>12 DEF MailFails, Goto
<1>13. CASE WriteProgress(w)
  BY <1>13 DEF WriteProgress, Goto
<1>14. CASE DispatchNextBatch(w)
  BY <1>14 DEF DispatchNextBatch, Goto
<1>15. CASE CheckCompletion(w)
  BY <1>15 DEF CheckCompletion, Goto
<1>16. CASE ReadCompleted(w)
  BY <1>16 DEF ReadCompleted, Goto
<1>17. CASE CompleteBlast(w)
  BY <1>17 DEF CompleteBlast, Goto
<1>18. CASE FailBlast(w)
  BY <1>18 DEF FailBlast, Goto
<1>19. CASE Finish(w)
  BY <1>19 DEF Finish, Goto
<1>20. CASE Crash(w)
  BY <1>20 DEF Crash, Goto
<1> QED
  BY <1>1, <1>2, <1>3, <1>4, <1>5, <1>6, <1>7, <1>8, <1>9, <1>10, <1>11, <1>12, <1>13, <1>14,
     <1>15, <1>16, <1>17, <1>18, <1>19, <1>20 DEF WorkerStep, HandleStarted, HandleBatch,
     HandleCompleted

\* What a recipient changes in its handler.
LEMMA AfterARecipient ==
  ASSUME NEW j \in Job, NEW u, NEW n \in Nat
  PROVE  LET k == AfterMail(j, u, n) IN
           /\ k.pc = IF j.todo = {u} THEN "progress" ELSE "look"
           /\ k.event = j.event /\ k.base = j.base /\ k.todo = j.todo \ {u}
           /\ k.sent = j.sent + n
           /\ k.late = j.late \/ k.late = j.late + n
<1> DEFINE k == AfterMail(j, u, n)
<1>1. /\ k.pc = IF j.todo = {u} THEN "progress" ELSE "look"
      /\ k.event = j.event /\ k.base = j.base /\ k.todo = j.todo \ {u}
      /\ k.sent = j.sent + n
  BY DEF Job, AfterMail
<1>2. k.late = j.late + (IF status # "sending" THEN n ELSE 0) /\ j.late \in Nat
  BY DEF Job, AfterMail
<1> QED
  BY <1>1, <1>2

\* The new job of a worker.
LEMMA NewJob ==
  ASSUME TypeOK, JobsFit, NEW w \in Workers, WorkerStep(w)
  PROVE  job'[w] \in Job /\ JobFits(job'[w])
<1> DEFINE j == job[w]
<1> USE BlastAssumption, EventTypes
<1>0. j \in Job /\ JobFits(j) /\ job \in [Workers -> Job]
  BY DEF TypeOK, JobsFit
<1>a. /\ batchSize \in BatchSizes /\ batchSize \in Nat /\ sentCount \in Nat
      /\ batchOf \in [Users -> Batches \cup {NoBatch}]
  BY DEF TypeOK, Row
<1>b. NoBatch \notin 0 .. NumUsers + 1
  BY DEF NoBatch
<1>1. CASE Take(w)
  <2>1. PICK e \in Events : job'[w] = [IdleJob EXCEPT !.pc = "read", !.event = e]
    BY <1>0, <1>1 DEF Take
  <2>2. job'[w] = [pc |-> "read", event |-> e, todo |-> {}, base |-> 0, sent |-> 0, late |-> 0]
    BY <2>1 DEF IdleJob
  <2> QED
    BY <2>2 DEF Job, JobFits, Steps, StartedSteps, BatchSteps
<1>2. CASE ReadStarted(w)
  <2>1. j.event = Started
    BY <1>2 DEF ReadStarted
  <2>2. PICK pc \in {"create", "done"} : job'[w] = [j EXCEPT !.pc = pc, !.base = batchSize]
    BY <1>0, <1>2 DEF ReadStarted
  <2> QED
    BY ZenonT(40), <1>0, <1>a, <2>1, <2>2 DEF Job, IdleJob, JobFits, Steps, StartedSteps, BatchSteps
<1>3. CASE CreateRecipients(w)
  BY <1>0, <1>3 DEF CreateRecipients, Goto, Job, IdleJob, JobFits, Steps, StartedSteps, BatchSteps
<1>4. CASE CompleteEmpty(w)
  BY <1>0, <1>4 DEF CompleteEmpty, Goto, Job, IdleJob, JobFits, Steps, StartedSteps, BatchSteps
<1>5. CASE StartSending(w)
  BY <1>0, <1>5 DEF StartSending, Goto, Job, IdleJob, JobFits, Steps, StartedSteps, BatchSteps
<1>6. CASE DispatchFirstBatch(w)
  BY <1>0, <1>6 DEF DispatchFirstBatch, Goto, Job, IdleJob, JobFits, Steps, StartedSteps, BatchSteps
<1>7. CASE ReadBatch(w)
  <2>1. j.event.type = "batch" /\ j.pc = "read"
    BY <1>7 DEF ReadBatch
  <2>2. PICK pc \in {"load", "done"} : job'[w] = [j EXCEPT !.pc = pc, !.base = sentCount]
    BY <1>0, <1>7 DEF ReadBatch
  <2> QED
    BY ZenonT(40), <1>0, <1>a, <2>1, <2>2 DEF Job, IdleJob, JobFits, Steps, StartedSteps, BatchSteps
<1>8. CASE LoadRecipients(w)
  <2> DEFINE rs == Recipients(j.event.batch)
  <2>1. j.event.type = "batch" /\ j.event.batch \in 0 .. NumUsers + 1
    BY <1>0, <1>8 DEF LoadRecipients, JobFits, BatchSteps, Job
  <2>2. rs \in SUBSET Users /\ (rs # {} => j.event.batch \in Batches)
    BY <1>a, <1>b, <2>1 DEF Recipients
  <2>3. PICK pc \in {"check", "look"} :
          job'[w] = [j EXCEPT !.pc = pc, !.todo = rs] /\ (pc = "look" => rs # {})
    BY <1>0, <1>8 DEF LoadRecipients
  <2> HIDE DEF rs
  <2> QED
    BY <1>0, <2>1, <2>2, <2>3 DEF Job, IdleJob, JobFits, Steps, StartedSteps, BatchSteps
<1>9. CASE LookAgain(w)
  <2>1. j.event.type = "batch" /\ j.event.batch \in Batches
    BY <1>0, <1>9 DEF LookAgain, JobFits, BatchSteps
  <2>2. \/ job'[w] = [j EXCEPT !.pc = "mail"]
        \/ job'[w] = [j EXCEPT !.pc = "mail", !.base = sentCount, !.late = 0]
        \/ job'[w] = [j EXCEPT !.pc = "done"]
    BY <1>0, <1>9 DEF LookAgain
  <2>3. /\ job'[w].pc \in {"mail", "done"} /\ job'[w].event = j.event /\ job'[w].todo = j.todo
        /\ job'[w].sent = j.sent /\ job'[w].base \in Nat /\ job'[w].late \in Nat
        /\ job'[w] \in Job
    <3>1. CASE job'[w] = [j EXCEPT !.pc = "mail"]
      BY <1>0, <3>1 DEF Job, Steps, BatchSteps
    <3>2. CASE job'[w] = [j EXCEPT !.pc = "mail", !.base = sentCount, !.late = 0]
      <4>1. job'[w] = [pc |-> "mail", event |-> j.event, todo |-> j.todo, base |-> sentCount,
                       sent |-> j.sent, late |-> 0]
        BY <1>0, <3>2 DEF Job
      <4>2. sentCount \in Nat
        BY <1>a
      <4> QED
        BY <1>0, <4>1, <4>2 DEF Job, Steps, BatchSteps
    <3>3. CASE job'[w] = [j EXCEPT !.pc = "done"]
      BY <1>0, <3>3 DEF Job, Steps
    <3> QED
      BY <2>2, <3>1, <3>2, <3>3
  <2> QED
    BY <2>1, <2>3 DEF JobFits, StartedSteps, BatchSteps
<1>10. CASE IgnoreError(w)
  BY <1>0, <1>10 DEF IgnoreError, Goto, Job, IdleJob, JobFits, Steps, StartedSteps, BatchSteps
<1>11. CASE MailRecipient(w)
  <2>1. j.event.type = "batch" /\ j.event.batch \in Batches
    BY <1>0, <1>11 DEF MailRecipient, JobFits, BatchSteps
  <2>2. PICK u \in j.todo : job'[w] = AfterMail(j, u, 1)
    BY <1>0, <1>11 DEF MailRecipient
  <2>3. /\ job'[w].pc \in {"look", "progress"} /\ job'[w].event = j.event
        /\ job'[w].todo \in SUBSET Users /\ job'[w].base = j.base
        /\ job'[w].sent \in Nat /\ job'[w].late \in Nat
    BY <1>0, <2>2 DEF Job, AfterMail
  <2>4. job'[w] \in Job
    BY <1>0, <2>2, <2>3 DEF Job, AfterMail, Steps, BatchSteps
  <2> QED
    BY <2>1, <2>3, <2>4 DEF JobFits, StartedSteps, BatchSteps
<1>12. CASE MailFails(w)
  <2>1. j.event.type = "batch" /\ j.event.batch \in Batches
    BY <1>0, <1>12 DEF MailFails, JobFits, BatchSteps
  <2>2. PICK u \in j.todo : job'[w] = AfterMail(j, u, 0)
    BY <1>0, <1>12 DEF MailFails
  <2>3. /\ job'[w].pc \in {"look", "progress"} /\ job'[w].event = j.event
        /\ job'[w].todo \in SUBSET Users /\ job'[w].base = j.base
        /\ job'[w].sent \in Nat /\ job'[w].late \in Nat
    BY <1>0, <2>2 DEF Job, AfterMail
  <2>4. job'[w] \in Job
    BY <1>0, <2>2, <2>3 DEF Job, AfterMail, Steps, BatchSteps
  <2> QED
    BY <2>1, <2>3, <2>4 DEF JobFits, StartedSteps, BatchSteps
<1>13. CASE WriteProgress(w)
  BY <1>0, <1>13 DEF WriteProgress, Goto, Job, IdleJob, JobFits, Steps, StartedSteps, BatchSteps
<1>14. CASE DispatchNextBatch(w)
  BY <1>0, <1>14 DEF DispatchNextBatch, Goto, Job, IdleJob, JobFits, Steps, StartedSteps, BatchSteps
<1>15. CASE CheckCompletion(w)
  BY <1>0, <1>15 DEF CheckCompletion, Goto, Job, IdleJob, JobFits, Steps, StartedSteps, BatchSteps
<1>16. CASE ReadCompleted(w)
  BY <1>0, <1>16 DEF ReadCompleted, Goto, Job, IdleJob, JobFits, Steps, StartedSteps, BatchSteps
<1>17. CASE CompleteBlast(w)
  BY <1>0, <1>17 DEF CompleteBlast, Goto, Job, IdleJob, JobFits, Steps, StartedSteps, BatchSteps
<1>18. CASE FailBlast(w)
  BY <1>0, <1>18 DEF FailBlast, Goto, Job, IdleJob, JobFits, Steps, StartedSteps, BatchSteps
<1>19. CASE Finish(w)
  BY <1>0, <1>19 DEF Finish, Goto, Job, IdleJob, JobFits, Steps, StartedSteps, BatchSteps
<1>20. CASE Crash(w)
  BY <1>0, <1>20 DEF Crash, Goto, Job, IdleJob, JobFits, Steps, StartedSteps, BatchSteps
<1> QED
  BY <1>1, <1>2, <1>3, <1>4, <1>5, <1>6, <1>7, <1>8, <1>9, <1>10, <1>11, <1>12, <1>13, <1>14,
     <1>15, <1>16, <1>17, <1>18, <1>19, <1>20 DEF WorkerStep, HandleStarted, HandleBatch,
     HandleCompleted

\* The rows and the topic after a step of a worker.
LEMMA NewRows ==
  ASSUME TypeOK, JobsFit, NEW w \in Workers, WorkerStep(w)
  PROVE  /\ Row' /\ members' = members /\ call' = call
         /\ batchOf' \in [Users -> Batches \cup {NoBatch}] /\ mails' \in [Users -> Nat]
         /\ topic' \in [Events -> Nat] /\ {faults', startedEvents', resumes'} \subseteq Nat
<1>0. job[w] \in Job /\ JobFits(job[w])
  BY DEF TypeOK, JobsFit
<1> USE BlastAssumption, EventTypes
<1> USE DEF TypeOK, Row, Statuses, SetStatus, Publish, blastRow, recipientRows, history
<1>1. CASE Take(w)
  BY <1>1 DEF Take
<1>2. CASE ReadStarted(w)
  BY <1>2 DEF ReadStarted
<1>3. CASE CreateRecipients(w)
  <2>1. job[w].base \in BatchSizes
    BY <1>0, <1>3 DEF CreateRecipients, JobFits
  <2>2. \A u \in Users : Position(u) \div job[w].base \in Batches
    BY <2>1, BatchNumbers
  <2> QED
    BY <1>3, <2>2 DEF CreateRecipients
<1>4. CASE CompleteEmpty(w)
  BY <1>4 DEF CompleteEmpty
<1>5. CASE StartSending(w)
  BY <1>5 DEF StartSending
<1>6. CASE DispatchFirstBatch(w)
  BY <1>6 DEF DispatchFirstBatch
<1>7. CASE ReadBatch(w)
  BY <1>7 DEF ReadBatch
<1>8. CASE LoadRecipients(w)
  BY <1>8 DEF LoadRecipients
<1>9. CASE LookAgain(w)
  BY <1>9 DEF LookAgain
<1>10. CASE IgnoreError(w)
  BY <1>10 DEF IgnoreError
<1>11. CASE MailRecipient(w)
  <2>1. PICK u \in job[w].todo : mails' = [mails EXCEPT ![u] = @ + 1]
    BY <1>11 DEF MailRecipient
  <2>2. u \in Users /\ mails' \in [Users -> Nat]
    BY <2>1 DEF Job
  <2>3. faults' \in Nat
    BY <1>11 DEF MailRecipient
  <2> QED
    BY <1>11, <2>2, <2>3 DEF MailRecipient
<1>12. CASE MailFails(w)
  BY <1>12 DEF MailFails
<1>13. CASE WriteProgress(w)
  <2>1. job[w].event.batch \in Batches /\ job[w].base \in Nat /\ job[w].sent \in Nat
    BY <1>0, <1>13 DEF WriteProgress, JobFits, BatchSteps, Job
  <2>2. currentBatch' \in 0 .. NumUsers /\ sentCount' \in Nat
    BY <1>13, <2>1 DEF WriteProgress, Batches
  <2> QED
    BY <1>13, <2>2 DEF WriteProgress
<1>14. CASE DispatchNextBatch(w)
  BY <1>14 DEF DispatchNextBatch
<1>15. CASE CheckCompletion(w)
  BY <1>15 DEF CheckCompletion
<1>16. CASE ReadCompleted(w)
  BY <1>16 DEF ReadCompleted
<1>17. CASE CompleteBlast(w)
  BY <1>17 DEF CompleteBlast
<1>18. CASE FailBlast(w)
  BY <1>18 DEF FailBlast
<1>19. CASE Finish(w)
  BY <1>19 DEF Finish
<1>20. CASE Crash(w)
  BY <1>20 DEF Crash
<1> QED
  BY <1>1, <1>2, <1>3, <1>4, <1>5, <1>6, <1>7, <1>8, <1>9, <1>10, <1>11, <1>12, <1>13, <1>14,
     <1>15, <1>16, <1>17, <1>18, <1>19, <1>20 DEF WorkerStep, HandleStarted, HandleBatch,
     HandleCompleted

LEMMA StepTypes == TypeOK /\ JobsFit /\ [Next]_vars => TypeOK' /\ JobsFit'
<1> SUFFICES ASSUME TypeOK, JobsFit, [Next]_vars PROVE TypeOK' /\ JobsFit'
  OBVIOUS
<1> USE BlastAssumption, EventTypes
<1> USE DEF TypeOK, JobsFit, Row, Statuses, SetStatus, Publish, blastRow, recipientRows, history
<1>1. CASE SegmentsChange
  <2>1. members' \in SUBSET Users
    BY <1>1 DEF SegmentsChange, Users
  <2> QED
    BY <1>1, <2>1 DEF SegmentsChange
<1>2. CASE UpdateEmailBlast
  BY <1>2 DEF UpdateEmailBlast
<1>3. CASE ScheduleBlast
  BY <1>3 DEF ScheduleBlast
<1>4. CASE DeleteEmailBlast
  BY <1>4 DEF DeleteEmailBlast
<1>5. CASE SchedulerFinds
  BY <1>5 DEF SchedulerFinds
<1>6. CASE SchedulerWrites
  BY <1>6 DEF SchedulerWrites
<1>7. CASE SchedulerDispatches
  BY <1>7 DEF SchedulerDispatches
<1>8. CASE SchedulerDispatchFails
  BY <1>8 DEF SchedulerDispatchFails
<1>9. CASE LoseEvent
  BY <1>9 DEF LoseEvent
<1>10. ASSUME NEW c \in Clients, CallReads(c) PROVE TypeOK' /\ JobsFit'
  BY <1>10 DEF CallReads, Call, IdleCall, Allowed, Written
<1>11. ASSUME NEW c \in Clients, CallWrites(c) PROVE TypeOK' /\ JobsFit'
  BY <1>11 DEF CallWrites, Call, IdleCall, Allowed, Written
<1>12. ASSUME NEW c \in Clients, CallDispatches(c) PROVE TypeOK' /\ JobsFit'
  BY <1>12 DEF CallDispatches, Call, IdleCall, Allowed, Written
<1>13. ASSUME NEW c \in Clients, CallDispatchFails(c) PROVE TypeOK' /\ JobsFit'
  BY <1>13 DEF CallDispatchFails, Call, IdleCall, Allowed, Written
<1>14. ASSUME NEW w \in Workers, WorkerStep(w) PROVE TypeOK' /\ JobsFit'
  <2>1. job' = [job EXCEPT ![w] = job'[w]]
    BY <1>14, OneJob
  <2>2. job'[w] \in Job /\ JobFits(job'[w])
    BY <1>14, NewJob
  <2>3. job' \in [Workers -> Job] /\ JobsFit'
    BY <2>1, <2>2
  <2> QED
    BY <1>14, <2>3, NewRows
<1>15. CASE UNCHANGED vars
  BY <1>15 DEF vars
<1> QED
  BY <1>1, <1>2, <1>3, <1>4, <1>5, <1>6, <1>7, <1>8, <1>9, <1>10, <1>11, <1>12, <1>13, <1>14,
     <1>15 DEF Next, ClientStep, SchedulerStep

\* Every variable keeps its type, and every handler holds what its step needs.
THEOREM TypeCorrect == Spec => [](TypeOK /\ JobsFit)
<1>1. Init => TypeOK /\ JobsFit
  BY InitTypes
<1>2. TypeOK /\ JobsFit /\ [Next]_vars => TypeOK' /\ JobsFit'
  BY StepTypes
<1> QED
  BY <1>1, <1>2, PTL DEF Spec

-----------------------------------------------------------------------------
(* Batches.                                                                *)

\* CreateBlastRecipientsBulk inserts ON CONFLICT DO NOTHING: whoever starts the
\* blast, as often as they do and with whatever batch size, no recipient that has
\* a row moves to another batch.
THEOREM BatchesStable == Spec => BatchesAreStable
<1> DEFINE Stable == \A u \in Users : batchOf[u] # NoBatch => batchOf'[u] = batchOf[u]
<1>1. [Next]_vars => Stable
  <2> SUFFICES ASSUME [Next]_vars PROVE Stable
    OBVIOUS
  <2>1. ASSUME NEW w \in Workers, CreateRecipients(w) PROVE Stable
    BY <2>1 DEF CreateRecipients
  <2>2. CASE batchOf' = batchOf
    BY <2>2
  <2>3. (\A w \in Workers : ~CreateRecipients(w)) => batchOf' = batchOf
    BY DEF Next, vars, recipientRows, SegmentsChange, UpdateEmailBlast, ScheduleBlast,
      DeleteEmailBlast, ClientStep, CallReads, CallWrites, CallDispatches, CallDispatchFails,
      SchedulerStep, SchedulerFinds, SchedulerWrites, SchedulerDispatches,
      SchedulerDispatchFails, LoseEvent, WorkerStep, HandleStarted, HandleBatch,
      HandleCompleted, Take, ReadStarted, CompleteEmpty, StartSending, DispatchFirstBatch,
      ReadBatch, LoadRecipients, LookAgain, IgnoreError, MailRecipient, MailFails,
      WriteProgress, DispatchNextBatch, CheckCompletion, ReadCompleted, CompleteBlast,
      FailBlast, Finish, Crash
  <2> QED
    BY <2>1, <2>2, <2>3
<1> QED
  BY <1>1, PTL DEF Spec, BatchesAreStable

-----------------------------------------------------------------------------
(* Pauses and cancellations.                                               *)

\* The mails since the last look at the status are at most those counted since.
Watched(j) ==
  j.event.batch > 1 =>
    /\ j.late <= Window
    /\ j.pc \in Counting /\ j.sent % Window # 0 => j.late <= j.sent % Window
    /\ j.pc = "mail" /\ j.sent % Window = 0 => j.late = 0

\* The remainder by the window counts up, and starts again at zero.
LEMMA WindowCounts ==
  ASSUME NEW n \in Nat
  PROVE  /\ n % Window \in 0 .. Window - 1
         /\ (n + 1) % Window = IF n % Window = Window - 1 THEN 0 ELSE (n % Window) + 1
         /\ 0 % Window = 0
<1>1. Window \in Nat /\ Window > 0
  BY BlastAssumption
<1>2. /\ n = Window * (n \div Window) + (n % Window)
      /\ n % Window \in 0 .. Window - 1
  BY <1>1
<1>3. /\ n + 1 = Window * ((n + 1) \div Window) + ((n + 1) % Window)
      /\ (n + 1) % Window \in 0 .. Window - 1
  BY <1>1
<1> DEFINE r == n % Window
           s == (n + 1) % Window
           d == ((n + 1) \div Window) - (n \div Window)
<1>4. d \in Int /\ r \in 0 .. Window - 1 /\ s \in 0 .. Window - 1 /\ Window * d = r - s + 1
  BY <1>1, <1>2, <1>3
<1>5. 0 % Window = 0
  BY <1>1
<1> HIDE DEF r, s, d
<1>6. d <= 1
  <2>1. d >= 2 => Window * d >= Window * 2
    BY <1>1, <1>4
  <2> QED
    BY <1>1, <1>4, <2>1
<1>7. d >= 0
  <2>1. d <= -1 => Window * d <= -Window
    BY <1>1, <1>4
  <2> QED
    BY <1>1, <1>4, <2>1
<1>8. s = IF r = Window - 1 THEN 0 ELSE r + 1
  <2>1. d = 0 => Window * d = 0
    BY <1>1
  <2>2. d = 1 => Window * d = Window
    BY <1>1
  <2> QED
    BY <1>1, <1>4, <1>6, <1>7, <2>1, <2>2
<1> QED
  BY <1>4, <1>5, <1>8 DEF r, s

\* Steps that are no part of the loop over the recipients: the handler is elsewhere
\* afterwards, and its counts are those it had.
OutsideLoop(w) ==
  \/ ReadStarted(w) \/ CreateRecipients(w) \/ CompleteEmpty(w) \/ StartSending(w)
  \/ DispatchFirstBatch(w) \/ ReadBatch(w) \/ IgnoreError(w) \/ WriteProgress(w)
  \/ DispatchNextBatch(w) \/ CheckCompletion(w) \/ ReadCompleted(w) \/ CompleteBlast(w)
  \/ FailBlast(w)

LEMMA OutsideTheLoop ==
  ASSUME job \in [Workers -> Job], NEW w \in Workers, OutsideLoop(w)
  PROVE  /\ job'[w].pc \notin Counting /\ job'[w].event = job[w].event
         /\ job'[w].sent = job[w].sent /\ job'[w].late = job[w].late
<1> USE DEF Job, Goto, Counting
<1>1. CASE ReadStarted(w)
  BY <1>1 DEF ReadStarted
<1>2. CASE CreateRecipients(w)
  BY <1>2 DEF CreateRecipients
<1>3. CASE CompleteEmpty(w)
  BY <1>3 DEF CompleteEmpty
<1>4. CASE StartSending(w)
  BY <1>4 DEF StartSending
<1>5. CASE DispatchFirstBatch(w)
  BY <1>5 DEF DispatchFirstBatch
<1>6. CASE ReadBatch(w)
  BY <1>6 DEF ReadBatch
<1>7. CASE WriteProgress(w)
  BY <1>7 DEF WriteProgress
<1>8. CASE DispatchNextBatch(w)
  BY <1>8 DEF DispatchNextBatch
<1>9. CASE CheckCompletion(w)
  BY <1>9 DEF CheckCompletion
<1>10. CASE ReadCompleted(w)
  BY <1>10 DEF ReadCompleted
<1>11. CASE CompleteBlast(w)
  BY <1>11 DEF CompleteBlast
<1>12. CASE FailBlast(w)
  BY <1>12 DEF FailBlast
<1>13. CASE IgnoreError(w)
  BY <1>13 DEF IgnoreError
<1> QED
  BY <1>1, <1>2, <1>3, <1>4, <1>5, <1>6, <1>7, <1>8, <1>9, <1>10, <1>11, <1>12, <1>13 DEF
     OutsideLoop

\* sendBlastEmail is called for a later batch only with the status looked at no
\* more than Window counted mails ago: after a pause or a cancellation a handler
\* sends at most Window mails, however the other workers, the requests and the
\* scheduler interleave.
THEOREM PausesTakeEffect == Spec => []StopsWithinWindow
<1> DEFINE Inv == \A w \in Workers : Watched(job[w])
<1>1. Init => Inv
  BY DEF Init, Watched, IdleJob, Started, NoBatch
<1>2. TypeOK /\ JobsFit /\ Inv /\ [Next]_vars => Inv'
  <2> SUFFICES ASSUME TypeOK, JobsFit, Inv, [Next]_vars PROVE Inv'
    OBVIOUS
  <2>0. Window \in Nat /\ Window > 0 /\ job \in [Workers -> Job]
    BY BlastAssumption DEF TypeOK
  <2>1. ASSUME NEW w \in Workers, WorkerStep(w) PROVE Inv'
    <3> DEFINE j == job[w]
               k == job'[w]
    <3>0. j \in Job /\ JobFits(j) /\ Watched(j)
      BY <2>0 DEF JobsFit
    <3>1. job' = [job EXCEPT ![w] = job'[w]]
      BY <2>0, <2>1, OneJob
    <3>2. SUFFICES Watched(k)
      BY <2>0, <3>1
    <3>3. CASE OutsideLoop(w)
      BY <3>0, <3>3, <2>0, OutsideTheLoop DEF Watched, Counting
    <3>4. CASE Take(w)
      BY <2>0, <3>4, WindowCounts DEF Take, IdleJob, Watched
    <3>5. CASE Finish(w) \/ Crash(w)
      BY <2>0, <3>5 DEF Finish, Crash, IdleJob, Watched, Started, NoBatch
    <3>6. CASE LoadRecipients(w)
      <4>1. k.sent = 0 /\ k.late = 0
        BY <2>0, <3>0, <3>6 DEF LoadRecipients, JobFits
      <4> QED
        BY <2>0, <4>1, WindowCounts DEF Watched
    <3>7. CASE LookAgain(w)
      <4>1. \/ ~MustLook(j) /\ k = [j EXCEPT !.pc = "mail"]
            \/ k = [j EXCEPT !.pc = "mail", !.base = sentCount, !.late = 0]
            \/ k = [j EXCEPT !.pc = "done"]
        BY <2>0, <3>7 DEF LookAgain
      <4> QED
        BY <2>0, <3>0, <3>7, <4>1, WindowCounts DEF LookAgain, Watched, MustLook, Counting, Job
    <3>8. CASE MailRecipient(w)
      <4>1. PICK u \in j.todo : k = AfterMail(j, u, 1)
        BY <2>0, <3>8 DEF MailRecipient
      <4>2. /\ k.event = j.event /\ k.sent = j.sent + 1 /\ k.late \in {j.late, j.late + 1}
            /\ k.pc # "mail" /\ j.pc = "mail" /\ j.sent \in Nat /\ j.late \in Nat
        <5>1. j.pc = "mail" /\ j.sent \in Nat /\ j.late \in Nat
          BY <3>0, <3>8 DEF Job, MailRecipient
        <5> QED
          BY <3>0, <4>1, <5>1, AfterARecipient
      <4>3. j.sent % Window \in 0 .. Window - 1
        BY <4>2, WindowCounts
      <4>4. k.sent % Window = IF j.sent % Window = Window - 1 THEN 0 ELSE (j.sent % Window) + 1
        BY <4>2, WindowCounts
      <4>5. ASSUME j.event.batch > 1
            PROVE  /\ j.late <= j.sent % Window
                   /\ k.late <= Window
                   /\ k.sent % Window # 0 => k.late <= k.sent % Window
        <5>1. j.late <= j.sent % Window
          BY <2>0, <3>0, <4>2, <4>3, <4>5 DEF Watched, Counting
        <5> HIDE DEF j, k
        <5> QED
          BY <2>0, <4>2, <4>3, <4>4, <5>1
      <4> QED
        BY <4>2, <4>5 DEF Watched
    <3>9. CASE MailFails(w)
      <4>1. PICK u \in j.todo : k = AfterMail(j, u, 0)
        BY <2>0, <3>9 DEF MailFails
      <4>2. /\ k.event = j.event /\ k.sent = j.sent /\ k.late = j.late
            /\ k.pc # "mail" /\ j.pc = "mail"
        <5>1. j.pc = "mail" /\ j.sent \in Nat /\ j.late \in Nat
          BY <3>0, <3>9 DEF Job, MailFails
        <5> QED
          BY <3>0, <4>1, <5>1, AfterARecipient
      <4> QED
        BY <2>0, <3>0, <4>2 DEF Watched, Counting
    <3> QED
      BY <2>1, <3>3, <3>4, <3>5, <3>6, <3>7, <3>8, <3>9
        DEF WorkerStep, HandleStarted, HandleBatch, HandleCompleted, OutsideLoop
  <2>2. CASE job' = job
    BY <2>2
  <2>3. (\A w \in Workers : ~WorkerStep(w)) => job' = job
    BY DEF Next, vars, SegmentsChange, UpdateEmailBlast, ScheduleBlast, DeleteEmailBlast,
      ClientStep, CallReads, CallWrites, CallDispatches, CallDispatchFails, SchedulerStep,
      SchedulerFinds, SchedulerWrites, SchedulerDispatches, SchedulerDispatchFails, LoseEvent
  <2> QED
    BY <2>1, <2>2, <2>3
<1>3. Inv => StopsWithinWindow
  BY DEF Watched, StopsWithinWindow
<1> QED
  BY <1>1, <1>2, <1>3, TypeCorrect, PTL DEF Spec

-----------------------------------------------------------------------------
(* The count shown to the user.                                            *)

\* The mails of the handlers that have not written their progress.
Unwritten ==
  {x \in Workers \X Nat : job[x[1]].pc \in Counting /\ x[2] \in 1 .. job[x[1]].sent}

\* The count, and the count that a handler has read, leave out the mails no handler
\* has written: adding them does not exceed the mails that went out.
Counted ==
  /\ IsFiniteSet(Mailed) /\ IsFiniteSet(Unwritten)
  /\ sentCount + Cardinality(Unwritten) <= Cardinality(Mailed)
  /\ \A w \in Workers : job[w].pc \in Counting \cup {"load"} =>
       job[w].base + Cardinality(Unwritten) <= Cardinality(Mailed)

LEMMA MailedMembers ==
  \A x : x \in Mailed <=> \E u \in Users : \E i \in 1 .. mails[u] : x = <<u, i>>
BY DEF Mailed

\* A worker's mails are as many as it counts.
LEMMA OwnMails ==
  ASSUME NEW w, NEW n \in Nat
  PROVE  IsFiniteSet({w} \X (1 .. n)) /\ Cardinality({w} \X (1 .. n)) = n
<1> DEFINE f == [i \in 1 .. n |-> <<w, i>>]
<1>1. f \in Bijection(1 .. n, {w} \X (1 .. n))
  <2>1. f \in [1 .. n -> {w} \X (1 .. n)] /\ \A a, b \in 1 .. n : f[a] = f[b] => a = b
    OBVIOUS
  <2>2. \A x \in {w} \X (1 .. n) : \E a \in 1 .. n : f[a] = x
    OBVIOUS
  <2>3. f \in Injection(1 .. n, {w} \X (1 .. n))
    BY <2>1 DEF Injection, IsInjective
  <2>4. f \in Surjection(1 .. n, {w} \X (1 .. n))
    BY <2>1, <2>2 DEF Surjection
  <2> QED
    BY <2>3, <2>4 DEF Bijection
<1>2. ExistsBijection(1 .. n, {w} \X (1 .. n))
  BY <1>1 DEF ExistsBijection
<1>3. IsFiniteSet(1 .. n) /\ Cardinality(1 .. n) = n
  BY FS_Interval
<1> QED
  BY <1>2, <1>3, FS_Bijection

\* A handler that counts no more than before leaves no more unwritten.
LEMMA NoMoreUnwritten ==
  ASSUME job \in [Workers -> Job], NEW w \in Workers, job' = [job EXCEPT ![w] = job'[w]],
         IsFiniteSet(Unwritten),
         job'[w].pc \in Counting => job'[w].sent = 0 \/ (job[w].pc \in Counting /\ job'[w].sent = job[w].sent)
  PROVE  /\ IsFiniteSet(Unwritten') /\ Cardinality(Unwritten') <= Cardinality(Unwritten)
         /\ Cardinality(Unwritten) \in Nat /\ Cardinality(Unwritten') \in Nat
<1>1. ASSUME NEW x \in Unwritten' PROVE x \in Unwritten
  BY <1>1 DEF Unwritten
<1>2. Unwritten' \in SUBSET Unwritten
  BY <1>1
<1> QED
  BY <1>2, FS_Subset, FS_CardinalityType

\* UpdateEmailBlastProgressWithSent writes a sum of a count read earlier and of the
\* handler's own mails; with any number of handlers at work, started again after
\* crashes or cut short, the stored count stays at or below the mails accepted.
THEOREM CountNeverOverstates == Spec => []SentCountNeverOverstates
<1>1. Init => Counted
  <2> SUFFICES ASSUME Init PROVE Counted
    OBVIOUS
  <2>1. Mailed = {}
    <3>1. \A u \in Users : mails[u] = 0
      BY DEF Init
    <3> QED
      BY <3>1, MailedMembers
  <2>2. Unwritten = {}
    BY DEF Init, Unwritten, IdleJob
  <2> QED
    BY <2>1, <2>2, FS_EmptySet DEF Counted, Init, IdleJob, Counting
<1>2. TypeOK /\ JobsFit /\ Counted /\ [Next]_vars => Counted'
  <2> SUFFICES ASSUME TypeOK, JobsFit, Counted, [Next]_vars PROVE Counted'
    OBVIOUS
  <2> DEFINE M == Cardinality(Mailed)
             U == Cardinality(Unwritten)
  <2>0. /\ job \in [Workers -> Job] /\ sentCount \in Nat /\ mails \in [Users -> Nat]
        /\ M \in Nat /\ U \in Nat
    BY FS_CardinalityType DEF TypeOK, Row, Counted
  <2>1. ASSUME NEW w \in Workers, WorkerStep(w) PROVE Counted'
    <3> DEFINE j == job[w]
               k == job'[w]
    <3>0. j \in Job /\ JobFits(j) /\ j.sent \in Nat /\ j.base \in Nat
      BY <2>0 DEF JobsFit, Job
    <3>1. job' = [job EXCEPT ![w] = job'[w]]
      BY <2>0, <2>1, OneJob
    <3>2. k \in Job
      BY <2>1, NewJob
    <3> DEFINE CountsNothing ==
          /\ mails' = mails /\ sentCount' = sentCount
          /\ k.pc \in Counting => k.sent = 0 \/ (j.pc \in Counting /\ k.sent = j.sent)
          /\ k.pc \in Counting \cup {"load"} =>
               k.base = sentCount \/ (j.pc \in Counting \cup {"load"} /\ k.base = j.base)
    <3>3. ASSUME CountsNothing PROVE Counted'
      <4>1. IsFiniteSet(Unwritten') /\ Cardinality(Unwritten') <= U /\ Cardinality(Unwritten') \in Nat
        <5>1. job'[w].pc \in Counting =>
                job'[w].sent = 0 \/ (job[w].pc \in Counting /\ job'[w].sent = job[w].sent)
          BY <3>3
        <5>2. IsFiniteSet(Unwritten)
          BY DEF Counted
        <5> HIDE DEF j, k
        <5> QED
          BY <2>0, <3>1, <5>1, <5>2, NoMoreUnwritten
      <4>2. Mailed' = Mailed
        BY <3>3 DEF Mailed
      <4>3. \A v \in Workers : job'[v].base \in Nat /\ job[v].base \in Nat
        BY <2>0, <3>1, <3>2 DEF Job
      <4>4. sentCount' + Cardinality(Unwritten') <= Cardinality(Mailed')
        BY <2>0, <3>3, <4>1, <4>2 DEF Counted
      <4>5. ASSUME NEW v \in Workers, job'[v].pc \in Counting \cup {"load"}
            PROVE  job'[v].base + Cardinality(Unwritten') <= Cardinality(Mailed')
        <5>1. job'[v] = IF v = w THEN k ELSE job[v]
          BY <2>0, <3>1
        <5>2. job'[v].base + U <= M
          BY <2>0, <3>3, <4>5, <5>1 DEF Counted
        <5> QED
          BY <2>0, <4>1, <4>2, <4>3, <5>2
      <4> QED
        BY <4>1, <4>2, <4>4, <4>5 DEF Counted
    <3>4. CASE OutsideLoop(w) /\ ~WriteProgress(w)
      <4>1. mails' = mails /\ sentCount' = sentCount
        BY <3>4 DEF OutsideLoop, ReadStarted, CreateRecipients, CompleteEmpty, StartSending,
          DispatchFirstBatch, ReadBatch, IgnoreError, DispatchNextBatch, CheckCompletion,
          ReadCompleted, CompleteBlast, FailBlast, blastRow, recipientRows
      <4>2. k.pc \notin Counting
        BY <2>0, <3>4, OutsideTheLoop
      <4>3. k.pc = "load" => k.base = sentCount
        BY <2>0, <3>4 DEF OutsideLoop, ReadStarted, CreateRecipients, CompleteEmpty, StartSending,
          DispatchFirstBatch, ReadBatch, IgnoreError, DispatchNextBatch, CheckCompletion,
          ReadCompleted, CompleteBlast, FailBlast, Goto, Job
      <4>4. CountsNothing
        BY <4>1, <4>2, <4>3
      <4> QED
        BY <3>3, <4>4
    <3>5. CASE Take(w)
      <4>1. CountsNothing
        BY <2>0, <3>5 DEF Take, IdleJob, blastRow, recipientRows, Counting
      <4> QED
        BY <3>3, <4>1
    <3>6. CASE Finish(w) \/ Crash(w)
      <4>1. CountsNothing
        BY <2>0, <3>6 DEF Finish, Crash, IdleJob, blastRow, recipientRows, Counting
      <4> QED
        BY <3>3, <4>1
    <3>7. CASE LoadRecipients(w)
      <4>1. k.sent = 0 /\ k.base = j.base /\ j.pc = "load"
        BY <2>0, <3>0, <3>7 DEF LoadRecipients, JobFits, Job
      <4>2. mails' = mails /\ sentCount' = sentCount
        BY <3>7 DEF LoadRecipients, blastRow, recipientRows
      <4>3. CountsNothing
        BY <4>1, <4>2 DEF Counting
      <4> QED
        BY <3>3, <4>3
    <3>8. CASE LookAgain(w)
      <4>1. /\ k.sent = j.sent /\ j.pc = "look"
            /\ k.base = j.base \/ k.base = sentCount
        BY <2>0, <3>0, <3>8 DEF LookAgain, Job
      <4>2. mails' = mails /\ sentCount' = sentCount /\ j.pc \in Counting
        BY <3>8, <4>1 DEF LookAgain, blastRow, recipientRows, Counting
      <4>3. CountsNothing
        BY <4>1, <4>2 DEF Counting
      <4> QED
        BY <3>3, <4>3
    <3>9. CASE MailFails(w)
      <4>1. PICK u \in j.todo : k = AfterMail(j, u, 0)
        BY <2>0, <3>9 DEF MailFails
      <4>2. k.sent = j.sent /\ k.base = j.base /\ j.pc = "mail"
        BY <3>0, <3>9, <4>1, AfterARecipient DEF MailFails
      <4> QED
        <5>1. CountsNothing
          BY <3>9, <4>2 DEF MailFails, blastRow, Counting
        <5> QED
          BY <3>3, <5>1
    <3>10. CASE MailRecipient(w)
      <4>1. PICK u \in j.todo : mails' = [mails EXCEPT ![u] = @ + 1] /\ k = AfterMail(j, u, 1)
        BY <2>0, <3>10 DEF MailRecipient
      <4>2. /\ k.sent = j.sent + 1 /\ k.base = j.base /\ j.pc = "mail" /\ k.pc \in Counting
            /\ sentCount' = sentCount /\ u \in Users
        <5>1. j.pc = "mail" /\ sentCount' = sentCount /\ u \in Users
          BY <3>0, <3>10 DEF MailRecipient, blastRow, Job
        <5> QED
          BY <3>0, <4>1, <5>1, AfterARecipient DEF Counting
      <4>3. Mailed' = Mailed \cup {<<u, mails[u] + 1>>} /\ <<u, mails[u] + 1>> \notin Mailed
        <5>1. mails[u] \in Nat
          BY <2>0, <4>2
        <5>2. \A x : x \in Mailed' <=> \E v \in Users : \E i \in 1 .. mails'[v] : x = <<v, i>>
          BY DEF Mailed
        <5>3. 1 .. (mails[u] + 1) = 1 .. mails[u] \cup {mails[u] + 1}
          BY <5>1
        <5>4. \A v \in Users : mails'[v] = IF v = u THEN mails[u] + 1 ELSE mails[v]
          BY <2>0, <4>1
        <5>5. \A v, i : <<v, i>> \in Mailed <=> v \in Users /\ i \in 1 .. mails[v]
          BY MailedMembers
        <5>6. mails[u] + 1 \notin 1 .. mails[u]
          BY <5>1
        <5>7. <<u, mails[u] + 1>> \notin Mailed
          BY <5>5, <5>6
        <5>8. ASSUME NEW x PROVE x \in Mailed' <=> x \in Mailed \/ x = <<u, mails[u] + 1>>
          BY <4>2, <5>1, <5>2, <5>3, <5>4, MailedMembers
        <5> QED
          BY <5>7, <5>8
      <4>4. Unwritten' = Unwritten \cup {<<w, j.sent + 1>>} /\ <<w, j.sent + 1>> \notin Unwritten
        <5>1. \A v \in Workers : job'[v] = IF v = w THEN k ELSE job[v]
          BY <2>0, <3>1
        <5>2. <<w, j.sent + 1>> \notin Unwritten
          BY <3>0 DEF Unwritten
        <5>3. 1 .. k.sent = 1 .. j.sent \cup {j.sent + 1}
          BY <3>0, <4>2
        <5>4. j.pc \in Counting
          BY <4>2 DEF Counting
        <5>5. ASSUME NEW x \in Workers \X Nat
              PROVE  x \in Unwritten' <=> x \in Unwritten \/ x = <<w, j.sent + 1>>
          <6>1. PICK v \in Workers, i \in Nat : x = <<v, i>>
            BY <5>5
          <6> QED
            BY <6>1, <5>1, <5>3, <5>4, <4>2 DEF Unwritten
        <5>6. <<w, j.sent + 1>> \in Workers \X Nat
          BY <3>0
        <5> QED
          BY <5>2, <5>5, <5>6 DEF Unwritten
      <4>5. IsFiniteSet(Mailed') /\ Cardinality(Mailed') = M + 1
        BY <4>3, FS_AddElement DEF Counted
      <4>6. IsFiniteSet(Unwritten') /\ Cardinality(Unwritten') = U + 1
        BY <4>4, FS_AddElement DEF Counted
      <4>7. \A v \in Workers : job'[v].base = job[v].base /\ job[v].base \in Nat
                               /\ (job'[v].pc \in Counting \cup {"load"} => job[v].pc \in Counting \cup {"load"})
        BY <2>0, <3>1, <4>2 DEF Job, Counting
      <4> QED
        BY <2>0, <4>2, <4>5, <4>6, <4>7 DEF Counted
    <3>11. CASE WriteProgress(w)
      <4> DEFINE own == {w} \X (1 .. j.sent)
      <4>1. k.pc = "next" /\ j.pc = "progress" /\ mails' = mails
        BY <2>0, <3>11 DEF WriteProgress, Goto, Job, recipientRows
      <4>2. Mailed' = Mailed
        BY <4>1 DEF Mailed
      <4>3. Unwritten = Unwritten' \cup own /\ Unwritten' \cap own = {} /\ Unwritten' \in SUBSET Unwritten
        <5>1. \A v \in Workers : job'[v] = IF v = w THEN k ELSE job[v]
          BY <2>0, <3>1
        <5>2. ASSUME NEW x \in Workers \X Nat
              PROVE  /\ x \in Unwritten <=> x \in Unwritten' \/ x \in own
                     /\ ~(x \in Unwritten' /\ x \in own)
          <6>1. PICK v \in Workers, i \in Nat : x = <<v, i>>
            BY <5>2
          <6> QED
            BY <6>1, <5>1, <4>1, <3>0 DEF Unwritten, Counting
        <5>3. own \subseteq Workers \X Nat
          BY <3>0
        <5> QED
          BY <5>2, <5>3 DEF Unwritten
      <4>4. IsFiniteSet(own) /\ Cardinality(own) = j.sent
        BY <3>0, OwnMails
      <4>5. IsFiniteSet(Unwritten') /\ Cardinality(Unwritten') \in Nat
            /\ Cardinality(Unwritten') <= U
        BY <4>3, FS_Subset, FS_CardinalityType DEF Counted
      <4> HIDE DEF own
      <4>6. U = Cardinality(Unwritten') + j.sent
        <5>1. U = Cardinality(Unwritten') + Cardinality(own) - Cardinality(Unwritten' \cap own)
          BY <4>3, <4>4, <4>5, FS_Union
        <5>2. Cardinality(Unwritten' \cap own) = 0
          BY <4>3, FS_EmptySet
        <5> QED
          BY <5>1, <5>2, <4>4, <4>5, <3>0
      <4>7. sentCount' + Cardinality(Unwritten') <= M
        <5>1. sentCount' \in {sentCount, j.base + j.sent}
          BY <3>11 DEF WriteProgress
        <5>2. sentCount + U <= M /\ j.base + U <= M
          BY <4>1 DEF Counted, Counting
        <5> QED
          BY <5>1, <5>2, <4>5, <4>6, <2>0, <3>0
      <4>8. \A v \in Workers : job'[v].pc \in Counting \cup {"load"} =>
              job'[v].base = job[v].base /\ job[v].base \in Nat /\ job[v].pc \in Counting \cup {"load"}
        BY <2>0, <3>1, <4>1 DEF Job, Counting
      <4> QED
        BY <2>0, <4>2, <4>5, <4>7, <4>8 DEF Counted
    <3> QED
      BY <2>1, <3>4, <3>5, <3>6, <3>7, <3>8, <3>9, <3>10, <3>11
        DEF WorkerStep, HandleStarted, HandleBatch, HandleCompleted, OutsideLoop
  <2>2. CASE job' = job /\ mails' = mails /\ sentCount' = sentCount
    <3>1. Mailed' = Mailed /\ Unwritten' = Unwritten
      BY <2>2 DEF Mailed, Unwritten
    <3> QED
      BY <2>2, <3>1 DEF Counted
  <2>3. (\A w \in Workers : ~WorkerStep(w)) => job' = job /\ mails' = mails /\ sentCount' = sentCount
    BY DEF Next, vars, SegmentsChange, UpdateEmailBlast, ScheduleBlast, DeleteEmailBlast,
      ClientStep, CallReads, CallWrites, CallDispatches, CallDispatchFails, SchedulerStep,
      SchedulerFinds, SchedulerWrites, SchedulerDispatches, SchedulerDispatchFails, LoseEvent,
      blastRow, recipientRows
  <2> QED
    BY <2>1, <2>2, <2>3
<1>3. TypeOK /\ Counted => SentCountNeverOverstates
  BY FS_CardinalityType DEF TypeOK, Row, Counted, SentCountNeverOverstates
<1> QED
  BY <1>1, <1>2, <1>3, TypeCorrect, PTL DEF Spec

-----------------------------------------------------------------------------
(* The chain of batches.                                                   *)

\* Nothing failed, the blast was started at most once and never resumed.
Quiet == faults = 0 /\ startedEvents <= 1 /\ resumes = 0

Active(w) == job[w].pc \notin {"idle", "done"}

\* One event, or the worker that handles it, carries the whole blast.
OneToken ==
  /\ \A e, f \in Events : topic[e] > 0 /\ topic[f] > 0 => e = f /\ topic[e] = 1
  /\ \A e \in Events, w \in Workers : topic[e] > 0 => ~Active(w)
  /\ \A v, w \in Workers : Active(v) /\ Active(w) => v = w
  /\ startedEvents = 0 => /\ \A e \in Events : topic[e] = 0
                          /\ \A w \in Workers : ~Active(w)
                          /\ \A u \in Users : mails[u] = 0

NoMails == \A u \in Users : mails[u] = 0
MailedUpTo(n) == \A u \in Users : mails[u] > 0 => batchOf[u] <= n

\* Whom a handler of the chain has mailed, and whom it has not.
Reached(j) ==
  /\ j.event = Started => NoMails
  /\ j.event.type = "batch" /\ j.pc \in {"read", "load"} => MailedUpTo(j.event.batch - 1)
  /\ j.pc \in {"look", "mail", "progress", "next"} => MailedUpTo(j.event.batch)
  /\ j.pc \in MailSteps => \A u \in j.todo : mails[u] = 0 /\ batchOf[u] = j.event.batch

TopicReached ==
  /\ topic[Started] > 0 => NoMails
  /\ \A n \in 0 .. NumUsers + 1 : topic[Batch(n)] > 0 => MailedUpTo(n - 1)

Chain ==
  /\ OneToken /\ TopicReached
  /\ \A u \in Users : mails[u] <= 1
  /\ \A w \in Workers : Active(w) => Reached(job[w])

\* An active worker is alone.
LEMMA Alone ==
  ASSUME TypeOK, OneToken, NEW w \in Workers, Active(w)
  PROVE  /\ \A e \in Events : topic[e] = 0
         /\ \A v \in Workers : Active(v) => v = w
         /\ startedEvents # 0
BY DEF TypeOK, OneToken

\* The worker with the token goes on, or ends without passing it on.
LEMMA TokenStays ==
  ASSUME TypeOK, Chain, NEW w \in Workers, Active(w), job' = [job EXCEPT ![w] = job'[w]],
         topic' = topic, startedEvents' = startedEvents,
         \A u \in Users : mails'[u] <= 1,
         Active(w)' => Reached(job[w])'
  PROVE  Chain'
<1>1. /\ \A e \in Events : topic[e] = 0
      /\ \A v \in Workers : Active(v) => v = w
      /\ startedEvents # 0
  BY Alone DEF Chain
<1>2. \A v \in Workers : v # w => job'[v] = job[v]
  BY DEF TypeOK
<1>3. \A v \in Workers : Active(v)' => v = w
  BY <1>1, <1>2 DEF Active
<1>4. OneToken'
  BY <1>1, <1>3 DEF OneToken
<1>5. TopicReached'
  BY <1>1, EventTypes DEF TopicReached
<1>6. ASSUME NEW v \in Workers, Active(v)' PROVE Reached(job[v])'
  BY <1>3, <1>6
<1> QED
  BY <1>4, <1>5, <1>6 DEF Chain

\* The worker with the token passes it on in an event.
LEMMA TokenPassed ==
  ASSUME TypeOK, Chain, NEW w \in Workers, Active(w), job' = [job EXCEPT ![w] = job'[w]],
         ~Active(w)', NEW e \in Events, Publish(e), startedEvents' = startedEvents,
         mails' = mails, batchOf' = batchOf,
         e = Started => NoMails,
         e.type = "batch" => MailedUpTo(e.batch - 1)
  PROVE  Chain'
<1>1. /\ \A f \in Events : topic[f] = 0
      /\ \A v \in Workers : Active(v) => v = w
      /\ startedEvents # 0
  BY Alone DEF Chain
<1>2. \A v \in Workers : v # w => job'[v] = job[v]
  BY DEF TypeOK
<1>3. \A v \in Workers : ~Active(v)'
  BY <1>1, <1>2 DEF Active
<1>4. \A f \in Events : topic'[f] = IF f = e THEN 1 ELSE 0
  BY <1>1 DEF TypeOK, Publish
<1>5. OneToken'
  BY <1>1, <1>3, <1>4 DEF OneToken
<1>6. TopicReached'
  <2>1. topic'[Started] > 0 => NoMails'
    BY <1>4, EventTypes DEF NoMails
  <2>2. ASSUME NEW n \in 0 .. NumUsers + 1, topic'[Batch(n)] > 0 PROVE MailedUpTo(n - 1)'
    <3>1. e = Batch(n) /\ e.type = "batch" /\ e.batch = n
      BY <1>4, <2>2, EventTypes, BlastAssumption
    <3> QED
      BY <3>1 DEF MailedUpTo
  <2> QED
    BY <2>1, <2>2 DEF TopicReached
<1> QED
  BY <1>3, <1>5, <1>6 DEF Chain

\* A start, by a request or by the scheduler, makes the token.
LEMMA TokenMade ==
  ASSUME TypeOK, Chain, Publish(Started), startedEvents = 0, startedEvents' = 1, job' = job,
         mails' = mails, batchOf' = batchOf
  PROVE  Chain'
<1>1. /\ \A e \in Events : topic[e] = 0
      /\ \A w \in Workers : ~Active(w)
      /\ NoMails
  BY DEF Chain, OneToken, NoMails
<1>2. \A f \in Events : topic'[f] = IF f = Started THEN 1 ELSE 0
  BY <1>1, EventTypes DEF TypeOK, Publish
<1>3. \A w \in Workers : ~Active(w)'
  BY <1>1 DEF Active
<1>4. OneToken'
  BY <1>2, <1>3 DEF OneToken
<1>5. TopicReached'
  <2>1. NoMails'
    BY <1>1 DEF NoMails
  <2>2. \A n \in 0 .. NumUsers + 1 : MailedUpTo(n - 1)'
    BY <2>1 DEF NoMails, MailedUpTo
  <2> QED
    BY <2>1, <2>2 DEF TopicReached
<1> QED
  BY <1>1, <1>3, <1>4, <1>5 DEF Chain, NoMails

\* The chain goes on with a step of a worker.
LEMMA ChainOfWorkers ==
  ASSUME TypeOK, JobsFit, Chain, NEW w \in Workers, WorkerStep(w), faults = 0, faults' = 0
  PROVE  Chain'
<1> DEFINE j == job[w]
           k == job'[w]
<1>a. /\ job \in [Workers -> Job] /\ j \in Job /\ JobFits(j)
      /\ Active(w) => Reached(j)
      /\ \A u \in Users : mails[u] <= 1
      /\ mails \in [Users -> Nat]
      /\ batchOf \in [Users -> Batches \cup {NoBatch}]
      /\ topic \in [Events -> Nat]
  BY DEF TypeOK, JobsFit, Chain
<1>b. job' = [job EXCEPT ![w] = job'[w]]
  BY <1>a, OneJob
<1>c. Active(w) <=> j.pc \notin {"idle", "done"}
  BY DEF Active
<1>d. Active(w)' <=> k.pc \notin {"idle", "done"}
  BY DEF Active
<1> DEFINE Calm == Active(w) /\ topic' = topic /\ startedEvents' = startedEvents
<1>1. CASE Take(w)
  <2>1. PICK e \in Events : /\ topic[e] > 0
                            /\ topic' = [topic EXCEPT ![e] = @ - 1]
                            /\ k = [IdleJob EXCEPT !.pc = "read", !.event = e]
    BY <1>a, <1>1 DEF Take
  <2>2. /\ \A f \in Events : topic[f] > 0 => f = e /\ topic[f] = 1
        /\ \A v \in Workers : ~Active(v)
        /\ startedEvents # 0
    BY <2>1 DEF Chain, OneToken
  <2>3. \A f \in Events : topic'[f] = 0
    BY <1>a, <2>1, <2>2
  <2>4. k.pc = "read" /\ k.event = e
    BY <2>1 DEF IdleJob
  <2>5. \A v \in Workers : Active(v)' => v = w
    BY <1>a, <1>b, <2>2 DEF Active
  <2>6. startedEvents' = startedEvents /\ mails' = mails /\ batchOf' = batchOf
    BY <1>1 DEF Take, recipientRows, history
  <2>7. OneToken'
    BY <2>2, <2>3, <2>5, <2>6 DEF OneToken
  <2>8. TopicReached'
    BY <2>3, EventTypes DEF TopicReached
  <2>9. Reached(job[w])'
    <3>1. e = Started => NoMails'
      BY <2>1, <2>6 DEF Chain, TopicReached, NoMails
    <3>2. e.type = "batch" => MailedUpTo(e.batch - 1)'
      <4> SUFFICES ASSUME e.type = "batch" PROVE MailedUpTo(e.batch - 1)'
        OBVIOUS
      <4>1. e.batch \in 0 .. NumUsers + 1 /\ topic[Batch(e.batch)] > 0
        BY <2>1, EventTypes
      <4>2. MailedUpTo(e.batch - 1)
        BY <4>1 DEF Chain, TopicReached
      <4> QED
        BY <2>6, <4>2 DEF MailedUpTo
    <3> QED
      BY <2>4, <3>1, <3>2 DEF Reached, MailSteps
  <2> QED
    BY <1>a, <2>5, <2>6, <2>7, <2>8, <2>9 DEF Chain
<1>2. ASSUME Calm, mails' = mails, batchOf' = batchOf, Reached(k)
      PROVE  Chain'
  <2>1. Reached(job[w])'
    BY <1>2 DEF Reached, NoMails, MailedUpTo
  <2> QED
    BY <1>a, <1>b, <1>2, <2>1, TokenStays
<1>3. ASSUME Calm, mails' = mails, batchOf' = batchOf, k.pc = "done"
      PROVE  Chain'
  BY <1>a, <1>b, <1>d, <1>3, TokenStays
<1>4. CASE ReadStarted(w)
  <2>1. Calm /\ mails' = mails /\ batchOf' = batchOf
    BY <1>4 DEF ReadStarted, Active, recipientRows, history
  <2>2. k.pc \in {"create", "done"} /\ k.event = j.event /\ j.event = Started
    BY <1>a, <1>4 DEF ReadStarted, Job
  <2> QED
    BY <1>a, <1>2, <1>3, <2>1, <2>2, EventTypes DEF Reached, MailSteps
<1>5. CASE CreateRecipients(w)
  <2>1. Calm /\ mails' = mails /\ j.event = Started /\ k.event = Started
        /\ k.pc \in {"empty", "sending"}
    BY <1>a, <1>5 DEF CreateRecipients, Active, history, JobFits, StartedSteps, Goto, Job
  <2>2. NoMails'
    BY <1>a, <2>1 DEF Reached, NoMails
  <2>3. Reached(job[w])'
    BY <2>1, <2>2, EventTypes DEF Reached, MailSteps
  <2> QED
    BY <1>a, <1>b, <2>1, <2>3, TokenStays
<1>6. CASE CompleteEmpty(w) \/ CompleteBlast(w)
  <2>1. Calm /\ mails' = mails /\ batchOf' = batchOf /\ k.pc = "done"
    BY <1>a, <1>6 DEF CompleteEmpty, CompleteBlast, Active, recipientRows, history, Goto, Job
  <2> QED
    BY <1>3, <2>1
<1>7. CASE StartSending(w)
  <2>1. Calm /\ mails' = mails /\ batchOf' = batchOf
    BY <1>7 DEF StartSending, Active, recipientRows, history
  <2>2. k.pc \in {"first", "done"} /\ k.event = j.event /\ j.event = Started
    BY <1>a, <1>7 DEF StartSending, JobFits, StartedSteps, Goto, Job
  <2> QED
    BY <1>a, <1>2, <1>3, <2>1, <2>2, EventTypes DEF Reached, MailSteps
<1>8. CASE DispatchFirstBatch(w)
  <2>1. Active(w) /\ mails' = mails /\ batchOf' = batchOf /\ startedEvents' = startedEvents
        /\ k.pc = "done" /\ Publish(Batch(1)) /\ j.event = Started
    BY <1>a, <1>8 DEF DispatchFirstBatch, Active, recipientRows, history, Goto, Job, JobFits,
      StartedSteps
  <2>2. Batch(1) \in Events /\ Batch(1).batch = 1 /\ Batch(1) # Started
    BY EventTypes, BlastAssumption
  <2>3. MailedUpTo(0)
    BY <1>a, <2>1 DEF Reached, NoMails, MailedUpTo
  <2> QED
    BY <1>a, <1>b, <1>d, <2>1, <2>2, <2>3, TokenPassed
<1>9. CASE ReadBatch(w)
  <2>1. Calm /\ mails' = mails /\ batchOf' = batchOf
    BY <1>9 DEF ReadBatch, Active, recipientRows, history
  <2>2. k.pc \in {"load", "done"} /\ k.event = j.event /\ j.event.type = "batch" /\ j.pc = "read"
    BY <1>a, <1>9 DEF ReadBatch, Job
  <2> QED
    BY <1>a, <1>2, <1>3, <1>c, <2>1, <2>2, EventTypes DEF Reached, MailSteps
<1>10. CASE LoadRecipients(w)
  <2> DEFINE n == j.event.batch
  <2>1. Calm /\ mails' = mails /\ batchOf' = batchOf
    BY <1>10 DEF LoadRecipients, Active, recipientRows, history
  <2>2. /\ k.pc \in {"check", "look"} /\ k.event = j.event /\ k.todo = Recipients(n)
        /\ j.event.type = "batch" /\ j.pc = "load" /\ n \in Int
    BY <1>a, <1>10, EventTypes, BlastAssumption DEF LoadRecipients, Job, JobFits, BatchSteps
  <2>3. MailedUpTo(n - 1)
    BY <1>a, <1>c, <2>2 DEF Reached
  <2> HIDE DEF n
  <2>4. MailedUpTo(n)
    BY <1>a, <2>2, <2>3 DEF MailedUpTo, Batches, NoBatch
  <2>5. \A u \in Recipients(n) : mails[u] = 0 /\ batchOf[u] = n
    <3>1. \A u \in Users : batchOf[u] = n => mails[u] = 0
      BY <1>a, <2>2, <2>3 DEF MailedUpTo
    <3> QED
      BY <3>1 DEF Recipients
  <2>6. Reached(k)
    BY <2>2, <2>4, <2>5, EventTypes DEF Reached, MailSteps, n
  <2> QED
    BY <1>2, <2>1, <2>6
<1>11. CASE LookAgain(w)
  <2>1. Calm /\ mails' = mails /\ batchOf' = batchOf
    BY <1>11 DEF LookAgain, Active, recipientRows, history
  <2>2. /\ k.pc \in {"mail", "done"} /\ k.event = j.event /\ k.todo = j.todo
        /\ j.event.type = "batch" /\ j.pc = "look"
    BY <1>a, <1>11 DEF LookAgain, Job, JobFits, BatchSteps
  <2> QED
    BY <1>a, <1>2, <1>3, <1>c, <2>1, <2>2, EventTypes DEF Reached, MailSteps
<1>12. CASE MailRecipient(w)
  <2>1. PICK u \in j.todo : mails' = [mails EXCEPT ![u] = @ + 1] /\ k = AfterMail(j, u, 1)
    BY <1>a, <1>12 DEF MailRecipient
  <2>2. Calm /\ batchOf' = batchOf /\ j.pc = "mail" /\ u \in Users /\ j.event.type = "batch"
        /\ j.event.batch \in Int
    BY <1>a, <1>12, BlastAssumption DEF MailRecipient, Active, history, Job, JobFits,
       BatchSteps, Batches
  <2>3. k.pc \in {"look", "progress"} /\ k.event = j.event /\ k.todo = j.todo \ {u}
    BY <1>a, <2>1, AfterARecipient
  <2>4. /\ MailedUpTo(j.event.batch)
        /\ \A v \in j.todo : mails[v] = 0 /\ batchOf[v] = j.event.batch
    BY <1>a, <1>c, <2>2 DEF Reached, MailSteps
  <2>5. \A v \in Users : mails'[v] = IF v = u THEN 1 ELSE mails[v]
    BY <1>a, <2>1, <2>2, <2>4
  <2>6. MailedUpTo(j.event.batch)'
    BY <2>1, <2>2, <2>3, <2>4, <2>5 DEF MailedUpTo
  <2>7. \A v \in k.todo : mails'[v] = 0 /\ batchOf'[v] = j.event.batch
    <3>1. j.todo \in SUBSET Users
      BY <1>a DEF Job
    <3> QED
      BY <2>2, <2>3, <2>4, <2>5, <3>1
  <2>8. Reached(job[w])'
    BY <2>2, <2>3, <2>6, <2>7, EventTypes DEF Reached, MailSteps
  <2>9. \A v \in Users : mails'[v] <= 1
    BY <1>a, <2>5
  <2> QED
    BY <1>a, <1>b, <2>2, <2>8, <2>9, TokenStays
<1>13. CASE WriteProgress(w)
  <2>1. Calm /\ mails' = mails /\ batchOf' = batchOf
    BY <1>13 DEF WriteProgress, Active, recipientRows, history
  <2>2. k.pc = "next" /\ k.event = j.event /\ j.event.type = "batch" /\ j.pc = "progress"
    BY <1>a, <1>13 DEF WriteProgress, Job, JobFits, BatchSteps, Goto
  <2> QED
    BY <1>a, <1>2, <1>c, <2>1, <2>2, EventTypes DEF Reached, MailSteps
<1>14. CASE DispatchNextBatch(w)
  <2> DEFINE n == j.event.batch + 1
  <2>1. Active(w) /\ mails' = mails /\ batchOf' = batchOf /\ startedEvents' = startedEvents
        /\ j.pc = "next" /\ j.event.type = "batch" /\ n \in 0 .. NumUsers + 1 /\ n - 1 = j.event.batch
    BY <1>a, <1>14, BlastAssumption DEF DispatchNextBatch, Active, recipientRows, history,
       JobFits, BatchSteps,
      Batches
  <2>2. MailedUpTo(n - 1)
    BY <1>a, <1>c, <2>1 DEF Reached
  <2>3. CASE Publish(Batch(n)) /\ Goto(w, "done")
    <3>1. k.pc = "done"
      BY <1>a, <2>3 DEF Goto, Job
    <3>2. Batch(n) \in Events /\ Batch(n).batch = n /\ Batch(n) # Started
      BY <2>1, EventTypes, BlastAssumption
    <3> HIDE DEF n
    <3> QED
      BY <1>a, <1>b, <1>d, <2>1, <2>2, <2>3, <3>1, <3>2, TokenPassed
  <2>4. CASE Goto(w, "check") /\ topic' = topic
    <3>1. k.pc = "check" /\ k.event = j.event /\ Calm
      BY <1>a, <2>1, <2>4 DEF Goto, Job
    <3> QED
      BY <1>2, <2>1, <3>1, EventTypes DEF Reached, MailSteps
  <2> QED
    BY <1>14, <2>3, <2>4 DEF DispatchNextBatch
<1>15. CASE CheckCompletion(w)
  <2>1. Active(w) /\ mails' = mails /\ batchOf' = batchOf /\ startedEvents' = startedEvents
        /\ k.pc = "done"
    BY <1>a, <1>15 DEF CheckCompletion, Active, recipientRows, history, Goto, Job
  <2>2. CASE topic' = topic
    BY <1>3, <2>1, <2>2
  <2>3. CASE Publish(Completed)
    BY <1>a, <1>b, <1>d, <2>1, <2>3, EventTypes, TokenPassed
  <2> QED
    BY <1>15, <2>2, <2>3 DEF CheckCompletion
<1>16. CASE ReadCompleted(w)
  <2>1. Calm /\ mails' = mails /\ batchOf' = batchOf
    BY <1>16 DEF ReadCompleted, Active, recipientRows, history
  <2>2. k.pc \in {"complete", "done"} /\ k.event = j.event /\ j.event = Completed
    BY <1>a, <1>16 DEF ReadCompleted, Goto, Job
  <2> QED
    BY <1>a, <1>2, <1>3, <2>1, <2>2, EventTypes DEF Reached, MailSteps
<1>17. CASE Finish(w)
  <2>1. k = IdleJob /\ ~Active(w) /\ topic' = topic /\ startedEvents' = startedEvents
        /\ mails' = mails /\ batchOf' = batchOf
    BY <1>a, <1>17 DEF Finish, Active, recipientRows, history
  <2>2. \A v \in Workers : Active(v)' => Active(v) /\ v # w /\ job'[v] = job[v]
    BY <1>a, <1>b, <2>1 DEF Active, IdleJob
  <2>3. OneToken'
    BY <2>1, <2>2 DEF Chain, OneToken
  <2>4. TopicReached'
    BY <2>1 DEF Chain, TopicReached, NoMails, MailedUpTo
  <2>5. ASSUME NEW v \in Workers, Active(v)' PROVE Reached(job[v])'
    BY <2>1, <2>2, <2>5 DEF Chain, Reached, NoMails, MailedUpTo
  <2> QED
    BY <1>a, <2>1, <2>3, <2>4, <2>5 DEF Chain
<1>18. ~MailFails(w) /\ ~IgnoreError(w) /\ ~Crash(w) /\ ~FailBlast(w)
  BY DEF MailFails, IgnoreError, Crash, FailBlast
<1> QED
  BY <1>1, <1>4, <1>5, <1>6, <1>7, <1>8, <1>9, <1>10, <1>11, <1>12, <1>13, <1>14, <1>15, <1>16,
     <1>17, <1>18 DEF WorkerStep, HandleStarted, HandleBatch, HandleCompleted

\* A batch event mails the recipients of its batch and only then makes the event of
\* the next one: as long as nothing fails, the blast is started once and not resumed,
\* nobody gets the mail twice, whatever the number of workers, whoever takes the
\* events, and however pauses, cancellations and changes of the segments fall.
THEOREM NobodyIsMailedTwice == Spec => []OneMailEach
<1> DEFINE Inv == Quiet => Chain
<1>1. Init => Inv
  <2> SUFFICES ASSUME Init PROVE Chain
    OBVIOUS
  <2>1. \A w \in Workers : ~Active(w)
    BY DEF Init, Active, IdleJob
  <2>2. \A e \in Events : topic[e] = 0
    BY DEF Init
  <2>3. OneToken
    BY <2>1, <2>2 DEF OneToken, Init
  <2>4. TopicReached
    BY <2>2, EventTypes DEF TopicReached
  <2>5. \A u \in Users : mails[u] <= 1
    BY DEF Init
  <2> QED
    BY <2>1, <2>3, <2>4, <2>5 DEF Chain
<1>2. TypeOK /\ JobsFit /\ Inv /\ [Next]_vars => Inv'
  <2> SUFFICES ASSUME TypeOK, JobsFit, Inv, [Next]_vars, Quiet' PROVE Chain'
    OBVIOUS
  <2>0. /\ faults \in Nat /\ startedEvents \in Nat /\ resumes \in Nat
        /\ faults' = 0 /\ startedEvents' <= 1 /\ resumes' = 0
    BY DEF TypeOK, Quiet
  <2>1. ASSUME NEW w \in Workers, WorkerStep(w) PROVE Chain'
    <3>1. faults = 0 /\ startedEvents' = startedEvents /\ resumes' = resumes
      <4>1. startedEvents' = startedEvents /\ resumes' = resumes
        BY <2>1 DEF WorkerStep, HandleStarted, HandleBatch, HandleCompleted, Take, ReadStarted,
          CreateRecipients, CompleteEmpty, StartSending, DispatchFirstBatch, ReadBatch,
          LoadRecipients, LookAgain, IgnoreError, MailRecipient, MailFails, WriteProgress,
          DispatchNextBatch, CheckCompletion, ReadCompleted, CompleteBlast, FailBlast, Finish,
          Crash, history
      <4>2. faults' = faults \/ faults' = faults + 1
        BY <2>1 DEF WorkerStep, HandleStarted, HandleBatch, HandleCompleted, Take, ReadStarted,
          CreateRecipients, CompleteEmpty, StartSending, DispatchFirstBatch, ReadBatch,
          LoadRecipients, LookAgain, IgnoreError, MailRecipient, MailFails, WriteProgress,
          DispatchNextBatch, CheckCompletion, ReadCompleted, CompleteBlast, FailBlast, Finish,
          Crash
      <4> QED
        BY <2>0, <4>1, <4>2
    <3>2. Chain
      BY <2>0, <3>1 DEF Quiet
    <3> QED
      BY <2>0, <2>1, <3>1, <3>2, ChainOfWorkers
  <2> DEFINE Frame == /\ job' = job /\ mails' = mails /\ batchOf' = batchOf
  <2>2. CASE Frame /\ topic' = topic /\ faults' = faults /\ startedEvents' = startedEvents /\ resumes' = resumes
    <3>1. Chain
      BY <2>0, <2>2 DEF Quiet
    <3> QED
      BY <2>2, <3>1 DEF Chain, OneToken, TopicReached, Active, Reached, NoMails, MailedUpTo
  <2>3. CASE /\ Frame /\ Publish(Started) /\ startedEvents' = startedEvents + 1
             /\ faults' = faults /\ resumes' = resumes
    <3>1. startedEvents = 0 /\ startedEvents' = 1 /\ Chain
      BY <2>0, <2>3 DEF Quiet
    <3> QED
      BY <2>3, <3>1, TokenMade
  <2>4. ASSUME NEW c \in Clients, CallDispatches(c) PROVE Chain'
    <3>1. call[c].op \in {"send", "resume"}
      BY <2>4 DEF TypeOK, CallDispatches
    <3>2. call[c].op # "resume"
      BY <2>0, <2>4 DEF CallDispatches
    <3>3. /\ Frame /\ Publish(Started) /\ startedEvents' = startedEvents + 1
          /\ faults' = faults /\ resumes' = resumes
      BY <2>0, <2>4, <3>1, <3>2 DEF CallDispatches, recipientRows
    <3> QED
      BY <2>3, <3>3
  <2>5. CASE SchedulerDispatches
    BY <2>3, <2>5 DEF SchedulerDispatches, recipientRows
  <2>6. ~SchedulerDispatchFails /\ ~LoseEvent /\ \A c \in Clients : ~CallDispatchFails(c)
    BY <2>0 DEF SchedulerDispatchFails, LoseEvent, CallDispatchFails
  <2>7. CASE \/ SegmentsChange \/ UpdateEmailBlast \/ ScheduleBlast \/ DeleteEmailBlast
             \/ SchedulerFinds \/ SchedulerWrites
             \/ \E c \in Clients : CallReads(c) \/ CallWrites(c)
             \/ UNCHANGED vars
    BY <2>2, <2>7 DEF SegmentsChange, UpdateEmailBlast, ScheduleBlast, DeleteEmailBlast,
      SchedulerFinds, SchedulerWrites, CallReads, CallWrites, vars, recipientRows, history
  <2> QED
    BY <2>1, <2>4, <2>5, <2>6, <2>7 DEF Next, ClientStep, SchedulerStep
<1>3. TypeOK /\ Inv => OneMailEach
  BY DEF Quiet, Chain, OneMailEach
<1> QED
  BY <1>1, <1>2, <1>3, TypeCorrect, PTL DEF Spec
=============================================================================
