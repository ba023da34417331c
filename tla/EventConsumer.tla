---------------------------- MODULE EventConsumer ----------------------------
(***************************************************************************)
(* The Kafka event consumer of internal/workers/consumer.go: one goroutine *)
(* fetches messages into a bounded channel, NumWorkers goroutines process  *)
(* them and commit their offsets, and Stop shuts everything down.  The     *)
(* webhook, email, position, spam, integration and blast consumers are all *)
(* instances of it.                                                        *)
(*                                                                         *)
(* One partition of the topic is modelled; offsets count from 1.  The      *)
(* process may be killed between any two steps; the broker keeps the log   *)
(* and the committed position.  A commit writes the position it is given,  *)
(* so a commit that arrives late moves the position back.                  *)
(***************************************************************************)
EXTENDS Naturals, Sequences

CONSTANTS
  Workers,         \* the worker goroutines, NumWorkers of them
  QueueSize,       \* capacity of eventCh
  MaxOffset,       \* bound: messages ever published
  MaxRestarts,     \* bound: times the process is killed and started again
  Malformed,       \* offsets whose value json.Unmarshal rejects
  ProcessErrors    \* why Process may return an error: for reasons of its own
                   \* ("own"), or because its context was cancelled ("cancelled")

ASSUME ConsumerAssumption ==
  /\ Workers # {}
  /\ QueueSize \in Nat \ {0}
  /\ MaxOffset \in Nat
  /\ MaxRestarts \in Nat
  /\ Malformed \subseteq 1 .. MaxOffset
  /\ ProcessErrors \subseteq {"own", "cancelled"}

Offsets == 1 .. MaxOffset
None == 0

VARIABLES
  published,   \* broker: offset of the last message of the log
  committed,   \* broker: position of the consumer group
  position,    \* reader: the next offset FetchMessage returns
  phase,       \* where the goroutine running Start is
  hand,        \* the message fetchLoop waits to put on eventCh
  eventCh,     \* the channel of parsed messages
  wstate,      \* per worker: what it is doing
  wevent,      \* per worker: the offset it holds
  stopping,    \* the atomic flag of the consumer
  cancelSet,   \* cancelFetch is no longer nil
  ctxDone,     \* the fetch context is cancelled
  stopper,     \* where the goroutine calling Stop is
  handled,     \* history: offsets whose Process returned nil
  failed,      \* history: offsets whose Process returned an error
  taken,       \* history: how often a worker took each offset
  restarts     \* history: kills of the process so far

brokerVars  == <<published, committed>>
fetchVars   == <<position, phase, hand>>
workerVars  == <<wstate, wevent>>
stopVars    == <<stopping, cancelSet, ctxDone, stopper>>
historyVars == <<handled, failed, taken, restarts>>
vars == <<published, committed, position, phase, hand, eventCh, wstate, wevent,
          stopping, cancelSet, ctxDone, stopper, handled, failed, taken, restarts>>

\* "created": NewConsumer returned, Start not running yet; "closed": doneCh closed.
Phases == {"created", "loop", "fetching", "sending", "draining", "closed"}
WorkerStates == {"idle", "busy", "done", "exited"}
StopperStates == {"none", "signalled", "waiting", "returned"}

Init ==
  /\ published = 0 /\ committed = 1
  /\ position = 1 /\ phase = "created" /\ hand = None
  /\ eventCh = <<>>
  /\ wstate = [w \in Workers |-> "idle"]
  /\ wevent = [w \in Workers |-> None]
  /\ stopping = FALSE /\ cancelSet = FALSE /\ ctxDone = FALSE /\ stopper = "none"
  /\ handled = {} /\ failed = {}
  /\ taken = [o \in Offsets |-> 0]
  /\ restarts = 0

-----------------------------------------------------------------------------
(* The producer side: any component of the system publishes an event.      *)

PublishEvent ==
  /\ published < MaxOffset
  /\ published' = published + 1
  /\ UNCHANGED <<committed, fetchVars, eventCh, workerVars, stopVars, historyVars>>

-----------------------------------------------------------------------------
(* The goroutine running Start.                                            *)

\* Creates the cancellable context and the workers; the reader resumes from
\* the group's committed position.
Start ==
  /\ phase = "created"
  /\ cancelSet' = TRUE
  /\ phase' = "loop"
  /\ position' = committed
  /\ UNCHANGED <<brokerVars, hand, eventCh, workerVars, stopping, ctxDone, stopper,
                 historyVars>>

\* The top of the fetch loop; leaving the loop closes eventCh.
CheckStopping ==
  /\ phase = "loop"
  /\ phase' = IF stopping THEN "draining" ELSE "fetching"
  /\ UNCHANGED <<brokerVars, position, hand, eventCh, workerVars, stopVars, historyVars>>

\* Mutant: the reader returns a message the log does not hold yet.
FetchMessageBeyond ==
  /\ phase = "fetching"
  /\ hand' = position
  /\ position' = position + 1
  /\ phase' = "sending"
  /\ UNCHANGED <<brokerVars, eventCh, workerVars, stopVars, historyVars>>

\* Mutant: the reader commits what it returns (ReadMessage for FetchMessage).
FetchMessageCommits ==
  /\ phase = "fetching"
  /\ position <= published
  /\ hand' = position
  /\ position' = position + 1
  /\ committed' = position + 1
  /\ phase' = "sending"
  /\ UNCHANGED <<published, eventCh, workerVars, stopVars, historyVars>>

\* Mutant: the reader may return the message it has just returned.
FetchMessageStuck ==
  /\ phase = "fetching"
  /\ position <= published
  /\ hand' = position
  /\ position' \in {position, position + 1}
  /\ phase' = "sending"
  /\ UNCHANGED <<brokerVars, eventCh, workerVars, stopVars, historyVars>>

\* FetchMessage may still return a message when the context is already done.
FetchMessage ==
  /\ phase = "fetching"
  /\ position <= published
  /\ position \notin Malformed
  /\ hand' = position
  /\ position' = position + 1
  /\ phase' = "sending"
  /\ UNCHANGED <<brokerVars, eventCh, workerVars, stopVars, historyVars>>

\* A message that does not parse is committed at once and skipped; the
\* result of the commit is ignored.
SkipMalformed ==
  /\ phase = "fetching"
  /\ position <= published
  /\ position \in Malformed
  /\ committed' \in {committed, position + 1}
  /\ position' = position + 1
  /\ phase' = "loop"
  /\ UNCHANGED <<published, hand, eventCh, workerVars, stopVars, historyVars>>

\* Mutant: any error ends the loop.
FetchErrorReturns ==
  /\ phase = "fetching"
  /\ phase' = "draining"
  /\ UNCHANGED <<brokerVars, position, hand, eventCh, workerVars, stopVars, historyVars>>

\* A broker error ends the loop when stopping, else it is slept over.
FetchError ==
  /\ phase = "fetching"
  /\ phase' = IF stopping \/ ctxDone THEN "draining" ELSE "loop"
  /\ UNCHANGED <<brokerVars, position, hand, eventCh, workerVars, stopVars, historyVars>>

\* The cancelled context unblocks a fetch that waits for a message.
FetchCancelled ==
  /\ phase = "fetching"
  /\ ctxDone
  /\ phase' = "draining"
  /\ UNCHANGED <<brokerVars, position, hand, eventCh, workerVars, stopVars, historyVars>>

\* Mutant: a full channel drops the message instead of blocking.
SendOrDrop ==
  /\ phase = "sending"
  /\ eventCh' = IF Len(eventCh) < QueueSize THEN Append(eventCh, hand) ELSE eventCh
  /\ hand' = None
  /\ phase' = "loop"
  /\ UNCHANGED <<brokerVars, position, workerVars, stopVars, historyVars>>

SendToWorkers ==
  /\ phase = "sending"
  /\ Len(eventCh) < QueueSize
  /\ eventCh' = Append(eventCh, hand)
  /\ hand' = None
  /\ phase' = "loop"
  /\ UNCHANGED <<brokerVars, position, workerVars, stopVars, historyVars>>

\* The other branch of the select: the message in hand is dropped.
AbandonSend ==
  /\ phase = "sending"
  /\ ctxDone
  /\ hand' = None
  /\ phase' = "draining"
  /\ UNCHANGED <<brokerVars, position, eventCh, workerVars, stopVars, historyVars>>

DrainDone ==
  /\ phase = "draining"
  /\ \A w \in Workers : wstate[w] = "exited"
  /\ phase' = "closed"
  /\ UNCHANGED <<brokerVars, position, hand, eventCh, workerVars, stopVars, historyVars>>

\* Start gives up waiting; the workers keep running without a reader.
DrainTimeout ==
  /\ phase = "draining"
  /\ \E w \in Workers : wstate[w] # "exited"
  /\ phase' = "closed"
  /\ UNCHANGED <<brokerVars, position, hand, eventCh, workerVars, stopVars, historyVars>>

-----------------------------------------------------------------------------
(* The worker goroutines.                                                  *)

Take(w) ==
  /\ phase # "created"
  /\ wstate[w] = "idle"
  /\ eventCh # <<>>
  /\ wstate' = [wstate EXCEPT ![w] = "busy"]
  /\ wevent' = [wevent EXCEPT ![w] = Head(eventCh)]
  /\ eventCh' = Tail(eventCh)
  /\ taken' = [taken EXCEPT ![Head(eventCh)] = @ + 1]
  /\ UNCHANGED <<brokerVars, fetchVars, stopVars, handled, failed, restarts>>

ProcessSucceeds(w) ==
  /\ wstate[w] = "busy"
  /\ wstate' = [wstate EXCEPT ![w] = "done"]
  /\ handled' = handled \cup {wevent[w]}
  /\ UNCHANGED <<brokerVars, fetchVars, eventCh, wevent, stopVars, failed, taken, restarts>>

\* Mutant: the error of Process is logged and the offset committed all the same.
ProcessFailsCommits(w) ==
  /\ wstate[w] = "busy"
  /\ wstate' = [wstate EXCEPT ![w] = "done"]
  /\ failed' = failed \cup {wevent[w]}
  /\ UNCHANGED <<brokerVars, fetchVars, eventCh, wevent, stopVars, handled, taken, restarts>>

\* No commit: the worker just goes on with the next event.  The context given
\* to Process derives from the fetch context, which Stop cancels.
ProcessFails(w) ==
  /\ \/ "own" \in ProcessErrors
     \/ "cancelled" \in ProcessErrors /\ ctxDone
  /\ wstate[w] = "busy"
  /\ wstate' = [wstate EXCEPT ![w] = "idle"]
  /\ wevent' = [wevent EXCEPT ![w] = None]
  /\ failed' = failed \cup {wevent[w]}
  /\ UNCHANGED <<brokerVars, fetchVars, eventCh, stopVars, handled, taken, restarts>>

\* A commit can fail, and does once the reader is closed; the error is logged.
CommitOffset(w) ==
  /\ wstate[w] = "done"
  /\ committed' \in IF phase = "closed" THEN {committed} ELSE {committed, wevent[w] + 1}
  /\ wstate' = [wstate EXCEPT ![w] = "idle"]
  /\ wevent' = [wevent EXCEPT ![w] = None]
  /\ UNCHANGED <<published, fetchVars, eventCh, stopVars, historyVars>>

\* Mutant: a worker leaves as soon as the consumer drains.
WorkerExitEarly(w) ==
  /\ phase \in {"draining", "closed"}
  /\ wstate[w] = "idle"
  /\ wstate' = [wstate EXCEPT ![w] = "exited"]
  /\ UNCHANGED <<brokerVars, fetchVars, eventCh, wevent, stopVars, historyVars>>

WorkerExit(w) ==
  /\ phase \in {"draining", "closed"}
  /\ wstate[w] = "idle"
  /\ eventCh = <<>>
  /\ wstate' = [wstate EXCEPT ![w] = "exited"]
  /\ UNCHANGED <<brokerVars, fetchVars, eventCh, wevent, stopVars, historyVars>>

-----------------------------------------------------------------------------
(* The goroutine that calls Stop, from the server's WaitForShutdown.  It   *)
(* may run before Start has, since Start runs in a goroutine of its own.   *)

\* Mutant: Stop relies on the cancellation alone.
StopSignalNoFlag ==
  /\ stopper = "none"
  /\ stopper' = "signalled"
  /\ UNCHANGED <<brokerVars, fetchVars, eventCh, workerVars, stopping, cancelSet, ctxDone,
                 historyVars>>

StopSignal ==
  /\ stopper = "none"
  /\ stopping' = TRUE
  /\ stopper' = "signalled"
  /\ UNCHANGED <<brokerVars, fetchVars, eventCh, workerVars, cancelSet, ctxDone, historyVars>>

StopCancel ==
  /\ stopper = "signalled"
  /\ ctxDone' = cancelSet
  /\ stopper' = "waiting"
  /\ UNCHANGED <<brokerVars, fetchVars, eventCh, workerVars, stopping, cancelSet, historyVars>>

StopReturn ==
  /\ stopper = "waiting"
  /\ phase = "closed"
  /\ stopper' = "returned"
  /\ UNCHANGED <<brokerVars, fetchVars, eventCh, workerVars, stopping, cancelSet, ctxDone,
                 historyVars>>

-----------------------------------------------------------------------------
\* The process ends, by a kill or after Stop, and a new one is created: only
\* the broker's state survives.
Restart ==
  /\ restarts < MaxRestarts
  /\ restarts' = restarts + 1
  /\ position' = committed /\ phase' = "created" /\ hand' = None
  /\ eventCh' = <<>>
  /\ wstate' = [w \in Workers |-> "idle"]
  /\ wevent' = [w \in Workers |-> None]
  /\ stopping' = FALSE /\ cancelSet' = FALSE /\ ctxDone' = FALSE /\ stopper' = "none"
  /\ UNCHANGED <<brokerVars, handled, failed, taken>>

WorkerStep(w) ==
  \/ Take(w)
  \/ ProcessSucceeds(w)
  \/ ProcessFails(w)
  \/ CommitOffset(w)
  \/ WorkerExit(w)

StartStep ==
  \/ Start
  \/ CheckStopping
  \/ FetchMessage
  \/ SkipMalformed
  \/ FetchError
  \/ FetchCancelled
  \/ SendToWorkers
  \/ AbandonSend
  \/ DrainDone
  \/ DrainTimeout

StopStep == StopSignal \/ StopCancel \/ StopReturn

Next ==
  \/ PublishEvent
  \/ StartStep
  \/ \E w \in Workers : WorkerStep(w)
  \/ StopStep
  \/ Restart

Spec == Init /\ [][Next]_vars

(***************************************************************************)
(* A goroutine that can run eventually runs, Process returns, and the      *)
(* drain timer fires.  A fetch is retried for ever, so a message that is   *)
(* there is eventually returned: the broker is not down for good.  Nothing *)
(* is assumed of PublishEvent, StopSignal, Restart, nor of FetchError: a   *)
(* fetch on an idle topic blocks until a message or the cancellation.      *)
(***************************************************************************)
Fairness ==
  /\ WF_vars(Start)
  /\ WF_vars(CheckStopping)
  /\ SF_vars(FetchMessage \/ SkipMalformed)
  /\ WF_vars(FetchCancelled)
  /\ WF_vars(SendToWorkers \/ AbandonSend)
  /\ WF_vars(DrainDone \/ DrainTimeout)
  /\ \A w \in Workers : WF_vars(WorkerStep(w))
  /\ WF_vars(StopCancel)
  /\ WF_vars(StopReturn)

FairSpec == Spec /\ Fairness

-----------------------------------------------------------------------------
(* Properties.                                                             *)

\* Every variable has its type; the reader is never beyond the end of the log.
TypeOK ==
  /\ published \in 0 .. MaxOffset
  /\ committed \in 1 .. MaxOffset + 1
  /\ position \in 1 .. published + 1
  /\ phase \in Phases
  /\ hand \in Offsets \cup {None}
  /\ hand # None <=> phase = "sending"
  /\ eventCh \in Seq(Offsets)
  /\ wstate \in [Workers -> WorkerStates]
  /\ wevent \in [Workers -> Offsets \cup {None}]
  /\ \A w \in Workers : wevent[w] = None <=> wstate[w] \in {"idle", "exited"}
  /\ stopping \in BOOLEAN /\ cancelSet \in BOOLEAN /\ ctxDone \in BOOLEAN
  /\ stopper \in StopperStates
  /\ handled \subseteq Offsets /\ failed \subseteq Offsets
  /\ taken \in [Offsets -> Nat]
  /\ restarts \in 0 .. MaxRestarts

\* The group's position stands right behind an event that was handled or that
\* does not parse: workers commit on success only (consumer.go:226-234), the
\* fetch loop only over a message it rejects (consumer.go:192-196).
CommittedIsHandled ==
  committed > 1 => committed - 1 \in handled \cup Malformed

\* One process hands an event to a worker at most once: what delivers it again
\* is a restart and nothing else.
OneDeliveryPerRun ==
  \A o \in Offsets : taken[o] <= restarts + 1

\* consumer.go:145-158: workers leave only when the closed channel is empty, so
\* a shutdown that waited for them has left no fetched event behind.
ExitedWorkersLeaveNothing ==
  (\A w \in Workers : wstate[w] = "exited") =>
     eventCh = <<>> /\ hand = None /\ \A w \in Workers : wevent[w] = None

\* With one worker, every event the position has passed was decided: handled, or
\* failed by Process.  Crashes, Stop and the drain timeout lose nothing.
NoEventLost ==
  \A o \in Offsets : o < committed => o \in handled \cup failed

\* Stop returns whenever it is called, even before Start has run: it waits on
\* doneCh, which only Start closes (consumer.go:121, 250-259).
StopTerminates ==
  stopper = "signalled" ~> stopper \in {"returned", "none"}

\* While the consumer is not stopped every published event is decided.
EveryEventDecided ==
  \A o \in Offsets :
     published >= o ~> o \in handled \cup failed \/ stopper # "none"

\* With one worker the consumer implements the at-least-once queue.
Queue == INSTANCE DurableQueue WITH acked <- committed, decided <- handled \cup failed
QueueSpec == Queue!QSpec
=============================================================================
