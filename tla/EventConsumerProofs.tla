------------------------ MODULE EventConsumerProofs ------------------------
(***************************************************************************)
(* Proofs about the event consumer, for every number of workers, channel   *)
(* capacity, log length and number of restarts; and, from "The users of    *)
(* the campaign" on, about the consumer that detects spam beside the users *)
(* whose events it reads (Leads), for every set of addresses, requests and *)
(* workers, every plan and every threshold.                                *)
(***************************************************************************)
EXTENDS EventConsumer, Leads, FiniteSetTheorems, SequenceTheorems, TLAPS

\* The elements of a channel a message is sent on.
LEMMA SendElements ==
  ASSUME NEW S, NEW q \in Seq(S), NEW x \in S
  PROVE  /\ Append(q, x) \in Seq(S)
         /\ Len(Append(q, x)) = Len(q) + 1
         /\ \A i \in 1 .. Len(q) : Append(q, x)[i] = q[i]
         /\ Append(q, x)[Len(q) + 1] = x
OBVIOUS

\* The elements of a channel a message is received from.
LEMMA ReceiveElements ==
  ASSUME NEW S, NEW q \in Seq(S), q # <<>>
  PROVE  /\ Len(q) \in Nat /\ Len(q) > 0
         /\ Head(q) = q[1] /\ Head(q) \in S
         /\ Tail(q) \in Seq(S)
         /\ Len(Tail(q)) = Len(q) - 1
         /\ \A i \in 1 .. Len(q) - 1 : Tail(q)[i] = q[i + 1]
OBVIOUS

\* A channel of increasing elements keeps increasing when a larger one is sent.
LEMMA SendIncreasing ==
  ASSUME NEW S, S \subseteq Nat, NEW q \in Seq(S), NEW x \in S,
         \A i, j \in 1 .. Len(q) : i < j => q[i] < q[j],
         \A i \in 1 .. Len(q) : q[i] < x
  PROVE  /\ \A i, j \in 1 .. Len(Append(q, x)) : i < j => Append(q, x)[i] < Append(q, x)[j]
         /\ \A i \in 1 .. Len(Append(q, x)) : Append(q, x)[i] < x + 1
<1> DEFINE r == Append(q, x)
<1>0. Len(q) \in Nat /\ \A i \in 1 .. Len(q) : q[i] \in S
  OBVIOUS
<1>1. Len(q) \in Nat /\ x \in Nat /\ \A i \in 1 .. Len(q) : q[i] \in Nat
  BY <1>0
<1>2. /\ Len(r) = Len(q) + 1
      /\ \A i \in 1 .. Len(q) : r[i] = q[i]
      /\ r[Len(q) + 1] = x
  BY SendElements
<1> HIDE DEF r
<1>3. ASSUME NEW i \in 1 .. Len(r), NEW j \in 1 .. Len(r), i < j PROVE r[i] < r[j]
  <2>1. i \in 1 .. Len(q) /\ r[i] = q[i]
    BY <1>1, <1>2, <1>3
  <2>2. CASE j \in 1 .. Len(q)
    BY <1>2, <1>3, <2>1, <2>2
  <2>3. CASE j = Len(q) + 1
    BY <1>2, <2>1, <2>3
  <2> QED
    BY <1>1, <1>2, <2>2, <2>3
<1>4. \A i \in 1 .. Len(r) : r[i] < x + 1
  BY <1>1, <1>2
<1> QED
  BY <1>3, <1>4 DEF r

\* What stays in a channel of increasing elements is larger than what was received.
LEMMA ReceiveIncreasing ==
  ASSUME NEW S, S \subseteq Nat, NEW q \in Seq(S), q # <<>>,
         \A i, j \in 1 .. Len(q) : i < j => q[i] < q[j]
  PROVE  \A i \in 1 .. Len(Tail(q)) : Tail(q)[i] \in S /\ Head(q) < Tail(q)[i]
<1>1. ASSUME NEW i \in 1 .. Len(Tail(q)) PROVE Tail(q)[i] \in S /\ Head(q) < Tail(q)[i]
  <2>1. /\ Tail(q)[i] = q[i + 1] /\ Head(q) = q[1]
        /\ 1 \in 1 .. Len(q) /\ i + 1 \in 1 .. Len(q) /\ 1 < i + 1
    BY ReceiveElements
  <2> QED
    BY <2>1
<1> QED
  BY <1>1

(***************************************************************************)
(* Types.  The position stays within the published log, which needs the    *)
(* committed offset to be within it: only fetched offsets are committed.   *)
(***************************************************************************)
InLog ==
  /\ committed \in 1 .. published + 1
  /\ hand \in 0 .. published
  /\ \A i \in 1 .. Len(eventCh) : eventCh[i] \in 1 .. published
  /\ \A w \in Workers : wevent[w] \in 0 .. published

TypeInv == TypeOK /\ InLog

\* A fresh process over an empty topic is well typed.
LEMMA TypeInit == Init => TypeInv
<1> SUFFICES ASSUME Init PROVE TypeInv
  OBVIOUS
<1> USE ConsumerAssumption DEF Init, Offsets, None
<1>1. TypeOK
  <2>1. eventCh \in Seq(Offsets)
    OBVIOUS
  <2>2. wstate \in [Workers -> WorkerStates] /\ wevent \in [Workers -> Offsets \cup {None}]
    BY DEF WorkerStates
  <2>3. taken \in [Offsets -> Nat]
    OBVIOUS
  <2>4. \A w \in Workers : wevent[w] = None <=> wstate[w] \in {"idle", "exited"}
    OBVIOUS
  <2>5. stopping \in BOOLEAN /\ cancelSet \in BOOLEAN /\ ctxDone \in BOOLEAN
    BY Zenon
  <2>6. phase \in Phases /\ stopper \in StopperStates
    BY DEF Phases, StopperStates
  <2> QED
    BY <2>1, <2>2, <2>3, <2>4, <2>5, <2>6 DEF TypeOK
<1>2. InLog
  BY DEF InLog
<1> QED
  BY <1>1, <1>2 DEF TypeInv

\* Every handler step keeps the types and keeps offsets within the log.
LEMMA TypeStep == TypeInv /\ [Next]_vars => TypeInv'
<1> SUFFICES ASSUME TypeInv, [Next]_vars PROVE TypeInv'
  OBVIOUS
<1> USE ConsumerAssumption DEF TypeInv, TypeOK, InLog, Offsets, None, Phases,
        WorkerStates, StopperStates
<1>1. CASE PublishEvent
  <2> USE <1>1 DEF PublishEvent, fetchVars, workerVars, stopVars, historyVars
  <2>1. TypeOK'
    OBVIOUS
  <2>2. InLog'
    OBVIOUS
  <2> QED
    BY <2>1, <2>2
<1>2. CASE StartStep
  <2>1. CASE Start
    BY <2>1 DEF Start, brokerVars, workerVars, historyVars
  <2>2. CASE CheckStopping
    BY <2>2 DEF CheckStopping, brokerVars, workerVars, stopVars, historyVars
  <2>3. CASE FetchMessage
    BY <2>3 DEF FetchMessage, brokerVars, workerVars, stopVars, historyVars
  <2>4. CASE SkipMalformed
    BY <2>4 DEF SkipMalformed, workerVars, stopVars, historyVars
  <2>5. CASE FetchError
    BY <2>5 DEF FetchError, brokerVars, workerVars, stopVars, historyVars
  <2>6. CASE FetchCancelled
    BY <2>6 DEF FetchCancelled, brokerVars, workerVars, stopVars, historyVars
  <2>7. CASE SendToWorkers
    <3> USE <2>7 DEF SendToWorkers, brokerVars, workerVars, stopVars, historyVars
    <3>1. hand \in Offsets
      OBVIOUS
    <3>2. eventCh' \in Seq(Offsets)
      BY <3>1, SendElements
    <3>3. TypeOK'
      BY <3>2
    <3>4. InLog'
      BY <3>1, SendElements
    <3> QED
      BY <3>3, <3>4
  <2>8. CASE AbandonSend
    BY <2>8 DEF AbandonSend, brokerVars, workerVars, stopVars, historyVars
  <2>9. CASE DrainDone \/ DrainTimeout
    BY <2>9 DEF DrainDone, DrainTimeout, brokerVars, workerVars, stopVars, historyVars
  <2> QED
    BY <1>2, <2>1, <2>2, <2>3, <2>4, <2>5, <2>6, <2>7, <2>8, <2>9 DEF StartStep
<1>3. ASSUME NEW w \in Workers, WorkerStep(w) PROVE TypeInv'
  <2>1. CASE Take(w)
    <3> USE <2>1 DEF Take, brokerVars, fetchVars, stopVars
    <3>1. Head(eventCh) \in Offsets /\ eventCh' \in Seq(Offsets)
      BY ReceiveElements
    <3>2. /\ taken' \in [Offsets -> Nat]
          /\ wstate' \in [Workers -> WorkerStates]
          /\ wevent' \in [Workers -> Offsets \cup {None}]
      <4>1. taken' \in [Offsets -> Nat]
        BY <3>1
      <4>2. wstate' \in [Workers -> WorkerStates]
        OBVIOUS
      <4>3. wevent' \in [Workers -> Offsets \cup {None}]
        BY <3>1
      <4> QED
        BY <4>1, <4>2, <4>3
    <3>3. \A v \in Workers : wevent'[v] = None <=> wstate'[v] \in {"idle", "exited"}
      BY <3>1
    <3>4. TypeOK'
      BY <3>1, <3>2, <3>3
    <3>5. \A i \in 1 .. Len(eventCh') : eventCh'[i] \in 1 .. published
      BY ReceiveElements
    <3>6. Head(eventCh) \in 1 .. published
      BY ReceiveElements
    <3>7. \A v \in Workers : wevent'[v] \in 0 .. published
      BY <3>6
    <3>8. InLog'
      BY <3>5, <3>7
    <3> QED
      BY <3>4, <3>8
  <2>2. CASE ProcessSucceeds(w)
    BY <2>2 DEF ProcessSucceeds, brokerVars, fetchVars, stopVars
  <2>3. CASE ProcessFails(w)
    <3> USE <2>3 DEF ProcessFails, brokerVars, fetchVars, stopVars
    <3>1. wevent[w] \in Offsets
      OBVIOUS
    <3>2. TypeOK'
      BY <3>1
    <3>3. InLog'
      OBVIOUS
    <3> QED
      BY <3>2, <3>3
  <2>4. CASE CommitOffset(w)
    BY <2>4 DEF CommitOffset, fetchVars, stopVars, historyVars
  <2>5. CASE WorkerExit(w)
    BY <2>5 DEF WorkerExit, brokerVars, fetchVars, stopVars, historyVars
  <2> QED
    BY <1>3, <2>1, <2>2, <2>3, <2>4, <2>5 DEF WorkerStep
<1>4. CASE StopStep
  BY <1>4 DEF StopStep, StopSignal, StopCancel, StopReturn, brokerVars, fetchVars,
     workerVars, historyVars
<1>5. CASE Restart
  <2> USE <1>5 DEF Restart, brokerVars
  <2>1. eventCh' \in Seq(Offsets)
    OBVIOUS
  <2>2. (stopping \in BOOLEAN /\ cancelSet \in BOOLEAN /\ ctxDone \in BOOLEAN)'
    OBVIOUS
  <2>3. TypeOK'
    BY <2>1, <2>2
  <2>4. InLog'
    OBVIOUS
  <2> QED
    BY <2>3, <2>4
<1>6. CASE UNCHANGED vars
  BY <1>6 DEF vars
<1> QED
  BY <1>1, <1>2, <1>3, <1>4, <1>5, <1>6 DEF Next

\* The consumer is well typed: in particular a worker holds an event exactly
\* while it is processing or committing one.
THEOREM TypeCorrect == Spec => []TypeOK
<1>1. TypeInv => TypeOK
  BY DEF TypeInv
<1> QED
  BY TypeInit, TypeStep, <1>1, PTL DEF Spec

-----------------------------------------------------------------------------
(***************************************************************************)
(* What holds with any number of workers.  A worker about to commit has    *)
(* handled its event; one that has left saw the closed channel empty, and  *)
(* nothing is sent on a closed channel.                                    *)
(***************************************************************************)
PoolInv ==
  /\ CommittedIsHandled
  /\ \A w \in Workers : wstate[w] = "done" => wevent[w] \in handled
  /\ \A w \in Workers : wstate[w] = "exited" =>
        phase \in {"draining", "closed"} /\ eventCh = <<>>

\* Before Start no worker has exited and nothing is committed.
LEMMA PoolInit == Init => PoolInv
BY DEF Init, PoolInv, CommittedIsHandled

\* A worker exits only from a closed, empty channel; a commit follows a success.
LEMMA PoolStep == TypeInv /\ PoolInv /\ [Next]_vars => PoolInv'
<1> SUFFICES ASSUME TypeInv, PoolInv, [Next]_vars PROVE PoolInv'
  OBVIOUS
<1> USE DEF PoolInv, CommittedIsHandled
<1>1. CASE PublishEvent
  BY <1>1 DEF PublishEvent, fetchVars, workerVars, stopVars, historyVars
<1>2. CASE StartStep
  <2>1. CASE SkipMalformed
    BY <2>1 DEF SkipMalformed, workerVars, stopVars, historyVars, TypeInv, TypeOK
  <2>2. CASE SendToWorkers
    BY <2>2 DEF SendToWorkers, brokerVars, workerVars, stopVars, historyVars
  <2>3. CASE Start
    BY <2>3 DEF Start, brokerVars, workerVars, historyVars
  <2>4. CASE \/ CheckStopping \/ FetchMessage \/ FetchError \/ FetchCancelled
             \/ AbandonSend \/ DrainDone \/ DrainTimeout
    BY <2>4 DEF CheckStopping, FetchMessage, FetchError, FetchCancelled, AbandonSend,
       DrainDone, DrainTimeout, brokerVars, workerVars, stopVars, historyVars
  <2> QED
    BY <1>2, <2>1, <2>2, <2>3, <2>4 DEF StartStep
<1>3. ASSUME NEW w \in Workers, WorkerStep(w) PROVE PoolInv'
  <2> USE DEF TypeInv, TypeOK
  <2>1. CASE Take(w)
    BY <2>1 DEF Take, brokerVars, fetchVars, stopVars
  <2>2. CASE ProcessSucceeds(w)
    BY <2>2 DEF ProcessSucceeds, brokerVars, fetchVars, stopVars
  <2>3. CASE ProcessFails(w)
    BY <2>3 DEF ProcessFails, brokerVars, fetchVars, stopVars
  <2>4. CASE CommitOffset(w)
    BY <2>4 DEF CommitOffset, fetchVars, stopVars, historyVars, Offsets, None
  <2>5. CASE WorkerExit(w)
    BY <2>5 DEF WorkerExit, brokerVars, fetchVars, stopVars, historyVars
  <2> QED
    BY <1>3, <2>1, <2>2, <2>3, <2>4, <2>5 DEF WorkerStep
<1>4. CASE StopStep
  BY <1>4 DEF StopStep, StopSignal, StopCancel, StopReturn, brokerVars, fetchVars,
     workerVars, historyVars
<1>5. CASE Restart
  BY <1>5 DEF Restart, brokerVars
<1>6. CASE UNCHANGED vars
  BY <1>6 DEF vars
<1> QED
  BY <1>1, <1>2, <1>3, <1>4, <1>5, <1>6 DEF Next

\* The pool's invariant holds of the consumer (Start, worker, Stop).
LEMMA PoolInvariant == Spec => [](TypeInv /\ PoolInv)
BY TypeInit, TypeStep, PoolInit, PoolStep, PTL DEF Spec

\* The event right below the committed position was handled or does not parse,
\* however many workers commit in whatever order (consumer.go:224-234).
THEOREM CommittedHandled == Spec => []CommittedIsHandled
<1>1. PoolInv => CommittedIsHandled
  BY DEF PoolInv
<1> QED
  BY PoolInvariant, <1>1, PTL

\* A shutdown that waited for its workers leaves no fetched event behind
\* (consumer.go:145-158).
THEOREM ShutdownDrains == Spec => []ExitedWorkersLeaveNothing
<1>1. TypeInv /\ PoolInv => ExitedWorkersLeaveNothing
  BY ConsumerAssumption DEF TypeInv, TypeOK, PoolInv, ExitedWorkersLeaveNothing
<1> QED
  BY PoolInvariant, <1>1, PTL

-----------------------------------------------------------------------------
(***************************************************************************)
(* The order of the events in flight.  The channel holds increasing        *)
(* offsets below the frontier, the first offset not yet on its way to the  *)
(* workers; fetching leaves the frontier in place, sending advances it.    *)
(***************************************************************************)
Frontier == IF hand # None THEN hand ELSE position
Feeding == phase \in {"loop", "fetching", "sending"}

OrderInv ==
  /\ hand # None => position = hand + 1
  /\ \A i, j \in 1 .. Len(eventCh) : i < j => eventCh[i] < eventCh[j]
  /\ \A i \in 1 .. Len(eventCh) : eventCh[i] < Frontier
  /\ phase = "created" => eventCh = <<>> /\ \A w \in Workers : wstate[w] = "idle"

\* What is still to be taken in this run was taken in earlier runs only.
TakenInv ==
  /\ OneDeliveryPerRun
  /\ phase = "created" => \A o \in Offsets : taken[o] <= restarts
  /\ Feeding => \A o \in Offsets : o >= Frontier => taken[o] <= restarts
  /\ \A i \in 1 .. Len(eventCh) : taken[eventCh[i]] <= restarts

\* Nothing is fetched or taken at the start.
LEMMA OrderInit == Init => OrderInv /\ TakenInv
BY DEF Init, OrderInv, TakenInv, OneDeliveryPerRun, Frontier, Feeding, None, Offsets

\* The fetch loop feeds the channel in offset order, above what workers took.
LEMMA OrderStep == TypeInv /\ OrderInv /\ [Next]_vars => OrderInv'
<1> SUFFICES ASSUME TypeInv, OrderInv, [Next]_vars PROVE OrderInv'
  OBVIOUS
<1> USE ConsumerAssumption DEF TypeInv, TypeOK, InLog, OrderInv, Frontier, Offsets, None,
        Phases, WorkerStates
<1>1. CASE PublishEvent
  BY <1>1 DEF PublishEvent, fetchVars, workerVars, stopVars, historyVars
<1>2. CASE StartStep
  <2>1. CASE Start
    BY <2>1 DEF Start, brokerVars, workerVars, historyVars
  <2>2. CASE FetchMessage
    BY <2>2 DEF FetchMessage, brokerVars, workerVars, stopVars, historyVars
  <2>3. CASE SkipMalformed
    <3> USE <2>3 DEF SkipMalformed, workerVars, stopVars, historyVars
    <3>1. /\ hand = None /\ hand' = None /\ phase' # "created" /\ eventCh' = eventCh
          /\ position \in Nat /\ position' = position + 1
      OBVIOUS
    <3>2. /\ \A i, j \in 1 .. Len(eventCh) : i < j => eventCh[i] < eventCh[j]
          /\ \A i \in 1 .. Len(eventCh) : eventCh[i] \in Nat /\ eventCh[i] < position
      BY <3>1
    <3> HIDE <2>3 DEF TypeInv, TypeOK, InLog, OrderInv, Frontier, SkipMalformed, Offsets, None
    <3> QED
      BY <3>1, <3>2 DEF OrderInv, Frontier
  <2>4. CASE SendToWorkers
    <3> USE <2>4 DEF SendToWorkers, brokerVars, workerVars, stopVars, historyVars
    <3>1. hand \in Offsets /\ Frontier = hand /\ Frontier' = hand + 1
      OBVIOUS
    <3>2. /\ \A i, j \in 1 .. Len(eventCh') : i < j => eventCh'[i] < eventCh'[j]
          /\ \A i \in 1 .. Len(eventCh') : eventCh'[i] < hand + 1
      <4>1. Offsets \subseteq Nat
        OBVIOUS
      <4>2. /\ \A i, j \in 1 .. Len(eventCh) : i < j => eventCh[i] < eventCh[j]
            /\ \A i \in 1 .. Len(eventCh) : eventCh[i] < hand
            /\ eventCh \in Seq(Offsets) /\ eventCh' = Append(eventCh, hand)
        BY <3>1
      <4> HIDE DEF TypeInv, TypeOK, InLog, OrderInv, Offsets, SendToWorkers
      <4> QED
        BY <3>1, <4>1, <4>2, SendIncreasing
    <3> QED
      BY <3>1, <3>2
  <2>5. CASE AbandonSend
    BY <2>5 DEF AbandonSend, brokerVars, workerVars, stopVars, historyVars
  <2>6. CASE CheckStopping \/ FetchError \/ FetchCancelled \/ DrainDone \/ DrainTimeout
    BY <2>6 DEF CheckStopping, FetchError, FetchCancelled, DrainDone, DrainTimeout,
       brokerVars, workerVars, stopVars, historyVars
  <2> QED
    BY <1>2, <2>1, <2>2, <2>3, <2>4, <2>5, <2>6 DEF StartStep
<1>3. ASSUME NEW w \in Workers, WorkerStep(w) PROVE OrderInv'
  <2>1. CASE Take(w)
    <3> USE <2>1 DEF Take, brokerVars, fetchVars, stopVars
    <3>1. /\ Len(eventCh') = Len(eventCh) - 1
          /\ \A i \in 1 .. Len(eventCh) - 1 : eventCh'[i] = eventCh[i + 1]
          /\ Len(eventCh) \in Nat
      BY ReceiveElements
    <3>2. /\ \A i, j \in 1 .. Len(eventCh) : i < j => eventCh[i] < eventCh[j]
          /\ \A i \in 1 .. Len(eventCh) : eventCh[i] < Frontier
      OBVIOUS
    <3>3. /\ hand' = hand /\ position' = position /\ phase' = phase /\ phase # "created"
          /\ (hand # None => position = hand + 1)
      OBVIOUS
    <3> HIDE <2>1 DEF TypeInv, TypeOK, InLog, OrderInv, Frontier, Take, Offsets
    <3>4. \A i, j \in 1 .. Len(eventCh') : i < j => eventCh'[i] < eventCh'[j]
      BY <3>1, <3>2
    <3>5. \A i \in 1 .. Len(eventCh') : eventCh'[i] < Frontier
      BY <3>1, <3>2
    <3> QED
      BY <3>3, <3>4, <3>5 DEF OrderInv, Frontier
  <2>2. CASE ProcessSucceeds(w) \/ ProcessFails(w) \/ CommitOffset(w) \/ WorkerExit(w)
    BY <2>2 DEF ProcessSucceeds, ProcessFails, CommitOffset, WorkerExit, brokerVars,
       fetchVars, stopVars, historyVars
  <2> QED
    BY <1>3, <2>1, <2>2 DEF WorkerStep
<1>4. CASE StopStep
  BY <1>4 DEF StopStep, StopSignal, StopCancel, StopReturn, brokerVars, fetchVars,
     workerVars, historyVars
<1>5. CASE Restart
  BY <1>5 DEF Restart, brokerVars
<1>6. CASE UNCHANGED vars
  BY <1>6 DEF vars
<1> QED
  BY <1>1, <1>2, <1>3, <1>4, <1>5, <1>6 DEF Next

\* Taking an event from the channel counts it once for the current run.
LEMMA TakenStep == TypeInv /\ OrderInv /\ TakenInv /\ [Next]_vars => TakenInv'
<1> SUFFICES ASSUME TypeInv, OrderInv, TakenInv, [Next]_vars PROVE TakenInv'
  OBVIOUS
<1> USE ConsumerAssumption DEF TypeInv, TypeOK, InLog, OrderInv, TakenInv,
        OneDeliveryPerRun, Feeding, Frontier, Offsets, None, Phases, WorkerStates
<1>1. CASE PublishEvent
  BY <1>1 DEF PublishEvent, fetchVars, workerVars, stopVars, historyVars
<1>2. CASE StartStep
  <2>1. CASE Start
    BY <2>1 DEF Start, brokerVars, workerVars, historyVars
  <2>2. CASE FetchMessage
    BY <2>2 DEF FetchMessage, brokerVars, workerVars, stopVars, historyVars
  <2>3. CASE SkipMalformed
    BY <2>3 DEF SkipMalformed, workerVars, stopVars, historyVars
  <2>4. CASE SendToWorkers
    <3> USE <2>4 DEF SendToWorkers, brokerVars, workerVars, stopVars, historyVars
    <3>1. hand \in Offsets /\ Frontier = hand /\ Frontier' = hand + 1
      OBVIOUS
    <3>2. taken[hand] <= restarts
      BY <3>1
    <3>3. \A i \in 1 .. Len(eventCh') : taken[eventCh'[i]] <= restarts
      <4>1. /\ Len(eventCh') = Len(eventCh) + 1 /\ Len(eventCh) \in Nat
            /\ \A i \in 1 .. Len(eventCh) : eventCh'[i] = eventCh[i]
            /\ eventCh'[Len(eventCh) + 1] = hand
        BY <3>1, SendElements
      <4>2. \A i \in 1 .. Len(eventCh) : taken[eventCh[i]] <= restarts
        OBVIOUS
      <4> HIDE DEF TypeInv, TypeOK, InLog, OrderInv, TakenInv, SendToWorkers
      <4>3. \A i \in 1 .. Len(eventCh') : i \in 1 .. Len(eventCh) \/ i = Len(eventCh) + 1
        BY <4>1
      <4> QED
        BY <3>2, <4>1, <4>2, <4>3
    <3>4. /\ taken' = taken /\ restarts' = restarts
          /\ phase = "sending" /\ phase' = "loop"
      OBVIOUS
    <3>5. OneDeliveryPerRun'
      BY <3>4
    <3>6. Feeding' => \A o \in Offsets : o >= Frontier' => taken'[o] <= restarts'
      <4>1. Frontier \in Nat /\ Frontier' = Frontier + 1 /\ Offsets \subseteq Nat
        BY <3>1
      <4>2. \A o \in Offsets : o >= Frontier => taken[o] <= restarts
        BY <3>4
      <4> HIDE <2>4 DEF TypeInv, TypeOK, InLog, OrderInv, TakenInv, SendToWorkers,
                       Offsets, Frontier, OneDeliveryPerRun
      <4> QED
        BY <3>4, <4>1, <4>2
    <3> HIDE <2>4 DEF TypeInv, TypeOK, InLog, OrderInv, SendToWorkers, Offsets, Frontier,
                     Feeding, OneDeliveryPerRun
    <3> QED
      BY <3>3, <3>4, <3>5, <3>6 DEF TakenInv
  <2>5. CASE AbandonSend
    BY <2>5 DEF AbandonSend, brokerVars, workerVars, stopVars, historyVars
  <2>6. CASE CheckStopping \/ FetchError \/ FetchCancelled \/ DrainDone \/ DrainTimeout
    BY <2>6 DEF CheckStopping, FetchError, FetchCancelled, DrainDone, DrainTimeout,
       brokerVars, workerVars, stopVars, historyVars
  <2> QED
    BY <1>2, <2>1, <2>2, <2>3, <2>4, <2>5, <2>6 DEF StartStep
<1>3. ASSUME NEW w \in Workers, WorkerStep(w) PROVE TakenInv'
  <2>1. CASE Take(w)
    <3> USE <2>1 DEF Take, brokerVars, fetchVars, stopVars
    <3>1. /\ Len(eventCh') = Len(eventCh) - 1
          /\ \A i \in 1 .. Len(eventCh) - 1 : eventCh'[i] = eventCh[i + 1]
          /\ Len(eventCh) \in Nat \ {0} /\ Head(eventCh) = eventCh[1]
          /\ eventCh[1] \in Offsets
      BY ReceiveElements
    <3>2. /\ taken'[eventCh[1]] = taken[eventCh[1]] + 1
          /\ \A o \in Offsets : o # eventCh[1] => taken'[o] = taken[o]
      BY <3>1
    <3>3. \A i \in 1 .. Len(eventCh') :
             eventCh'[i] \in Offsets /\ eventCh[1] < eventCh'[i]
      <4>1. Offsets \subseteq Nat
        OBVIOUS
      <4>2. /\ \A i, j \in 1 .. Len(eventCh) : i < j => eventCh[i] < eventCh[j]
            /\ eventCh \in Seq(Offsets) /\ eventCh # <<>> /\ eventCh' = Tail(eventCh)
        OBVIOUS
      <4> HIDE DEF TypeInv, TypeOK, InLog, OrderInv, TakenInv, Offsets, Take
      <4> QED
        BY <3>1, <4>1, <4>2, ReceiveIncreasing
    <3>4. \A i \in 1 .. Len(eventCh') : taken'[eventCh'[i]] <= restarts
      BY <3>1, <3>2, <3>3
    <3>5. OneDeliveryPerRun'
      <4>1. taken[eventCh[1]] \in Nat /\ taken[eventCh[1]] <= restarts
        BY <3>1
      <4>2. restarts' = restarts /\ restarts \in Nat
        OBVIOUS
      <4>3. \A o \in Offsets : taken[o] <= restarts + 1
        OBVIOUS
      <4> HIDE <2>1 DEF TypeInv, TypeOK, InLog, OrderInv, TakenInv, OneDeliveryPerRun,
                       Offsets, Take
      <4> QED
        BY <3>2, <4>1, <4>2, <4>3 DEF OneDeliveryPerRun
    <3>6. eventCh[1] < Frontier
      BY <3>1
    <3>7. Feeding => \A o \in Offsets : o >= Frontier => taken'[o] <= restarts
      <4>1. Feeding => \A o \in Offsets : o >= Frontier => taken[o] <= restarts
        OBVIOUS
      <4>2. Offsets \subseteq Nat /\ Frontier \in Nat
        OBVIOUS
      <4> HIDE <2>1 DEF TypeInv, TypeOK, InLog, OrderInv, TakenInv, OneDeliveryPerRun,
                       Feeding, Frontier, Offsets, Take
      <4> QED
        BY <3>1, <3>2, <3>6, <4>1, <4>2
    <3>8. /\ hand' = hand /\ position' = position /\ phase' = phase /\ restarts' = restarts
          /\ phase # "created"
      OBVIOUS
    <3> HIDE <2>1 DEF TypeInv, TypeOK, InLog, OrderInv, OneDeliveryPerRun, Offsets, Take
    <3> QED
      BY <3>4, <3>5, <3>7, <3>8 DEF TakenInv
  <2>2. CASE ProcessSucceeds(w) \/ ProcessFails(w) \/ CommitOffset(w) \/ WorkerExit(w)
    BY <2>2 DEF ProcessSucceeds, ProcessFails, CommitOffset, WorkerExit, brokerVars,
       fetchVars, stopVars, historyVars
  <2> QED
    BY <1>3, <2>1, <2>2 DEF WorkerStep
<1>4. CASE StopStep
  BY <1>4 DEF StopStep, StopSignal, StopCancel, StopReturn, brokerVars, fetchVars,
     workerVars, historyVars
<1>5. CASE Restart
  BY <1>5 DEF Restart, brokerVars
<1>6. CASE UNCHANGED vars
  BY <1>6 DEF vars
<1> QED
  BY <1>1, <1>2, <1>3, <1>4, <1>5, <1>6 DEF Next

\* The order of deliveries holds of the consumer (fetchLoop, worker).
LEMMA OrderInvariant == Spec => [](TypeInv /\ OrderInv /\ TakenInv)
BY TypeInit, TypeStep, OrderInit, OrderStep, TakenStep, PTL DEF Spec

\* Only a restart delivers an event again: within a run each offset reaches at
\* most one worker, at most once.
THEOREM DeliveredOncePerRun == Spec => []OneDeliveryPerRun
<1>1. TakenInv => OneDeliveryPerRun
  BY DEF TakenInv
<1> QED
  BY OrderInvariant, <1>1, PTL

-----------------------------------------------------------------------------
(***************************************************************************)
(* One worker.  Events are then decided in offset order: whatever precedes *)
(* an offset on its way is decided or further on its way, so the offset    *)
(* that gets committed has nothing undecided behind it.                    *)
(***************************************************************************)
SingleWorker == Malformed = {} /\ \E w \in Workers : Workers = {w}

Decided == handled \cup failed
InHands(o) == \E w \in Workers : wevent[w] = o
InChannel(o) == \E i \in 1 .. Len(eventCh) : eventCh[i] = o

\* The event a worker holds is the oldest undecided one.
HandsInv ==
  \A w \in Workers : wevent[w] # None =>
     /\ committed <= wevent[w]
     /\ wevent[w] < Frontier
     /\ \A i \in 1 .. Len(eventCh) : wevent[w] < eventCh[i]
     /\ \A o \in Offsets : o < wevent[w] => o \in Decided

\* Before an event of the channel: decided, in hands, or earlier in the channel.
ChannelInv ==
  \A i \in 1 .. Len(eventCh) :
     /\ committed <= eventCh[i]
     /\ \A o \in Offsets : o < eventCh[i] =>
           o \in Decided \/ InHands(o) \/ InChannel(o)

\* Nothing before the frontier was dropped while the loop feeds the channel.
FrontierInv ==
  /\ phase # "created" => committed <= Frontier
  /\ Feeding => \A o \in Offsets : o < Frontier =>
        o \in Decided \/ InHands(o) \/ InChannel(o)

SoloInv == NoEventLost /\ HandsInv /\ ChannelInv /\ FrontierInv

\* With nothing published nothing is lost.
LEMMA SoloInit == Init => SoloInv
BY DEF Init, SoloInv, NoEventLost, HandsInv, ChannelInv, FrontierInv, Frontier, Feeding,
   None, Offsets

\* The invariant speaks of these variables and of the phase's two boundaries.
LEMMA SoloFrame ==
  ASSUME SoloInv,
         UNCHANGED <<committed, position, hand, eventCh, wevent, handled, failed>>,
         Feeding' => Feeding, phase' # "created" => phase # "created"
  PROVE  SoloInv'
<1> USE DEF SoloInv, Frontier, Decided
<1>1. NoEventLost'
  BY DEF NoEventLost
<1>2. HandsInv'
  BY DEF HandsInv
<1>3. ChannelInv'
  BY DEF ChannelInv, InHands, InChannel
<1>4. FrontierInv'
  BY DEF FrontierInv, InHands, InChannel
<1> QED
  BY <1>1, <1>2, <1>3, <1>4

\* With one worker, commits follow the log: every step keeps the frontier.
LEMMA SoloStep ==
  ASSUME SingleWorker
  PROVE  TypeInv /\ PoolInv /\ OrderInv /\ SoloInv /\ [Next]_vars => SoloInv'
<1> SUFFICES ASSUME TypeInv, PoolInv, OrderInv, SoloInv, [Next]_vars PROVE SoloInv'
  OBVIOUS
<1>w. PICK v \in Workers : Workers = {v} /\ Malformed = {}
  BY DEF SingleWorker
<1>t. /\ committed \in Nat /\ position \in Nat \ {0} /\ hand \in Nat
      /\ hand = None <=> phase # "sending"
      /\ wevent \in [Workers -> Nat]
      /\ \A w \in Workers : wevent[w] = None <=> wstate[w] \in {"idle", "exited"}
      /\ \A w \in Workers : wevent[w] \in Offsets \cup {None}
      /\ eventCh \in Seq(Offsets) /\ Offsets \subseteq Nat \ {0} /\ Len(eventCh) \in Nat
      /\ \A i \in 1 .. Len(eventCh) : eventCh[i] \in Offsets
  <2>1. /\ \A w \in Workers : wevent[w] = None <=> wstate[w] \in {"idle", "exited"}
        /\ eventCh \in Seq(Offsets) /\ Offsets \subseteq Nat \ {0}
        /\ hand = None <=> phase # "sending"
    BY DEF TypeInv, TypeOK, Offsets
  <2>2. Len(eventCh) \in Nat /\ \A i \in 1 .. Len(eventCh) : eventCh[i] \in Offsets
    BY <2>1
  <2>3. committed \in Nat /\ position \in Nat \ {0} /\ hand \in Nat /\ wevent \in [Workers -> Nat]
    BY ConsumerAssumption DEF TypeInv, TypeOK, Offsets, None
  <2>4. \A w \in Workers : wevent[w] \in Offsets \cup {None}
    BY DEF TypeInv, TypeOK
  <2> QED
    BY <2>1, <2>2, <2>3, <2>4
<1>1. CASE PublishEvent
  BY <1>1, SoloFrame DEF PublishEvent, fetchVars, workerVars, stopVars, historyVars, Feeding
<1>2. CASE StartStep
  <2>1. CASE Start
    BY <2>1, <1>t DEF Start, brokerVars, workerVars, historyVars, SoloInv, OrderInv, NoEventLost,
       HandsInv, ChannelInv, FrontierInv, Frontier, Feeding, Decided, InHands, InChannel, None
  <2>2. CASE FetchMessage
    <3> USE <2>2 DEF FetchMessage, brokerVars, workerVars, stopVars, historyVars, SoloInv
    <3>1. Frontier' = Frontier /\ Feeding /\ phase # "created" /\ phase' # "created"
      BY <1>t DEF Frontier, Feeding, None
    <3>2. NoEventLost' /\ HandsInv'
      BY <3>1 DEF NoEventLost, HandsInv, Decided
    <3>3. ChannelInv' /\ FrontierInv'
      BY <3>1 DEF ChannelInv, FrontierInv, Decided, InHands, InChannel
    <3> QED
      BY <3>2, <3>3
  <2>3. CASE SkipMalformed
    BY <2>3, <1>w DEF SkipMalformed
  <2>4. CASE SendToWorkers
    <3> USE <2>4 DEF SendToWorkers, brokerVars, workerVars, stopVars, historyVars, SoloInv
    <3>1. /\ hand \in Offsets /\ Frontier = hand /\ Frontier' = hand + 1
          /\ Feeding /\ phase # "created" /\ phase' # "created"
      BY <1>t DEF TypeInv, TypeOK, OrderInv, Frontier, Feeding, None
    <3>2. /\ Len(eventCh') = Len(eventCh) + 1
          /\ \A i \in 1 .. Len(eventCh) : eventCh'[i] = eventCh[i]
          /\ eventCh'[Len(eventCh) + 1] = hand
      BY <1>t, <3>1, SendElements
    <3>3. \A i \in 1 .. Len(eventCh') :
             \/ i \in 1 .. Len(eventCh) /\ eventCh'[i] = eventCh[i]
             \/ eventCh'[i] = hand
      BY <1>t, <3>2
    <3>4. \A o : InChannel(o) => InChannel(o)'
      BY <1>t, <3>2 DEF InChannel
    <3>5. \A o : o = hand => InChannel(o)'
      BY <1>t, <3>2 DEF InChannel
    <3>6. NoEventLost'
      BY DEF NoEventLost
    <3>7. HandsInv'
      BY <1>t, <3>1, <3>3 DEF HandsInv, Decided
    <3>8. ChannelInv'
      <4> SUFFICES ASSUME NEW i \in 1 .. Len(eventCh')
                   PROVE  /\ committed <= eventCh'[i]
                          /\ \A o \in Offsets : o < eventCh'[i] =>
                                o \in Decided \/ InHands(o) \/ InChannel(o)'
        BY DEF ChannelInv, InHands, Decided
      <4>1. CASE i \in 1 .. Len(eventCh) /\ eventCh'[i] = eventCh[i]
        BY <4>1, <3>4 DEF ChannelInv
      <4>2. CASE eventCh'[i] = hand
        BY <4>2, <3>1, <3>4 DEF FrontierInv
      <4> QED
        BY <3>3, <4>1, <4>2
    <3>9. FrontierInv'
      <4> SUFFICES /\ committed <= hand + 1
                   /\ \A o \in Offsets : o < hand + 1 =>
                         o \in Decided \/ InHands(o) \/ InChannel(o)'
        BY <3>1 DEF FrontierInv, InHands, Decided
      <4>1. committed <= hand + 1
        BY <1>t, <3>1 DEF FrontierInv
      <4>2. ASSUME NEW o \in Offsets, o < hand + 1
            PROVE  o \in Decided \/ InHands(o) \/ InChannel(o)'
        <5>1. o < hand \/ o = hand
          BY <1>t, <4>2
        <5> QED
          BY <5>1, <3>1, <3>4, <3>5 DEF FrontierInv
      <4> QED
        BY <4>1, <4>2
    <3> QED
      BY <3>6, <3>7, <3>8, <3>9
  <2>5. CASE AbandonSend
    BY <2>5, <1>t DEF AbandonSend, brokerVars, workerVars, stopVars, historyVars, SoloInv, OrderInv,
       NoEventLost, HandsInv, ChannelInv, FrontierInv, Frontier, Feeding, Decided, InHands,
       InChannel, None
  <2>6. CASE CheckStopping
    BY <2>6, SoloFrame DEF CheckStopping, brokerVars, workerVars, stopVars, historyVars, Feeding
  <2>7. CASE FetchError \/ FetchCancelled
    BY <2>7, SoloFrame DEF FetchError, FetchCancelled, brokerVars, workerVars, stopVars,
       historyVars, Feeding
  <2>8. CASE DrainDone \/ DrainTimeout
    BY <2>8, SoloFrame DEF DrainDone, DrainTimeout, brokerVars, workerVars, stopVars,
       historyVars, Feeding
  <2> QED
    BY <1>2, <2>1, <2>2, <2>3, <2>4, <2>5, <2>6, <2>7, <2>8 DEF StartStep
<1>3. ASSUME NEW w \in Workers, WorkerStep(w) PROVE SoloInv'
  <2>0. Workers = {w}
    BY <1>w
  <2>1. CASE Take(w)
    <3> USE <2>1 DEF Take, brokerVars, fetchVars, stopVars, SoloInv
    <3> DEFINE h == Head(eventCh)
    <3>1. /\ 1 \in 1 .. Len(eventCh) /\ h = eventCh[1] /\ h \in Offsets
          /\ Len(eventCh') = Len(eventCh) - 1
          /\ \A i \in 1 .. Len(eventCh') :
                i + 1 \in 1 .. Len(eventCh) /\ eventCh'[i] = eventCh[i + 1]
      BY <1>t, ReceiveElements
    <3>2. \A i \in 1 .. Len(eventCh') : h < eventCh'[i]
      BY <1>t, ReceiveIncreasing DEF OrderInv
    <3>3. wevent'[w] = h /\ wevent[w] = None
      BY <1>t
    <3>4. Frontier' = Frontier /\ Feeding' = Feeding /\ Decided' = Decided
      BY DEF Frontier, Feeding, Decided
    <3> HIDE DEF h
    <3>5. \A o \in Offsets : ~InHands(o)
      BY <1>t, <2>0, <3>3 DEF InHands, None
    <3>6. \A o : InChannel(o) => InHands(o)' \/ InChannel(o)'
      <4> SUFFICES ASSUME NEW o, NEW i \in 1 .. Len(eventCh), eventCh[i] = o
                   PROVE  InHands(o)' \/ InChannel(o)'
        BY DEF InChannel
      <4>1. CASE i = 1
        BY <4>1, <3>1, <3>3 DEF InHands
      <4>2. CASE i # 1
        <5>1. i - 1 \in 1 .. Len(eventCh') /\ eventCh'[i - 1] = eventCh[i]
          <6>1. i - 1 \in 1 .. Len(eventCh')
            BY <1>t, <4>2, <3>1
          <6> QED
            BY <6>1, <3>1
        <5> QED
          BY <5>1 DEF InChannel
      <4> QED
        BY <4>1, <4>2
    <3>7. HandsInv'
      <4>1. committed <= h
        BY <3>1 DEF ChannelInv
      <4>2. h < Frontier
        BY <3>1 DEF OrderInv
      <4>3. \A o \in Offsets : o < h => ~InChannel(o)
        <5> SUFFICES ASSUME NEW i \in 1 .. Len(eventCh) PROVE ~ (eventCh[i] < h)
          BY DEF InChannel
        <5>1. eventCh[i] \in Nat /\ h \in Nat
          BY <1>t, <3>1
        <5>2. i = 1 \/ eventCh[1] < eventCh[i]
          BY <1>t, <3>1 DEF OrderInv
        <5> QED
          BY <5>1, <5>2, <3>1
      <4>4. \A o \in Offsets : o < h => o \in Decided
        BY <3>1, <3>5, <4>3 DEF ChannelInv
      <4> QED
        BY <2>0, <3>2, <3>3, <3>4, <4>1, <4>2, <4>4 DEF HandsInv
    <3>8. ChannelInv'
      <4> SUFFICES ASSUME NEW i \in 1 .. Len(eventCh')
                   PROVE  /\ committed <= eventCh'[i]
                          /\ \A o \in Offsets : o < eventCh'[i] =>
                                o \in Decided \/ InHands(o)' \/ InChannel(o)'
        BY <3>4 DEF ChannelInv
      <4> QED
        BY <3>1, <3>5, <3>6 DEF ChannelInv
    <3>9. FrontierInv'
      BY <3>4, <3>5, <3>6 DEF FrontierInv
    <3> QED
      BY <3>7, <3>8, <3>9 DEF NoEventLost
  <2>2. CASE ProcessSucceeds(w)
    BY <2>2, <1>t, <2>0 DEF ProcessSucceeds, brokerVars, fetchVars, stopVars, SoloInv, NoEventLost,
       HandsInv, ChannelInv, FrontierInv, Frontier, Feeding, Decided, InHands, InChannel, None
  <2>3. CASE ProcessFails(w)
    BY <2>3, <1>t, <2>0 DEF ProcessFails, brokerVars, fetchVars, stopVars, SoloInv, NoEventLost,
       HandsInv, ChannelInv, FrontierInv, Frontier, Feeding, Decided, InHands, InChannel, None
  <2>4. CASE CommitOffset(w)
    <3> USE <2>4 DEF CommitOffset, fetchVars, stopVars, historyVars, SoloInv
    <3>1. /\ wevent[w] \in Offsets /\ wevent[w] \in Decided /\ wevent'[w] = None
          /\ committed' \in {committed, wevent[w] + 1}
      BY <1>t DEF PoolInv, Decided
    <3>2. Frontier' = Frontier /\ Feeding' = Feeding /\ Decided' = Decided /\ phase' = phase
      BY DEF Frontier, Feeding, Decided
    <3>3. /\ wevent[w] < Frontier
          /\ \A i \in 1 .. Len(eventCh) : wevent[w] < eventCh[i]
          /\ \A o \in Offsets : o < wevent[w] => o \in Decided
      BY <3>1, <1>t DEF HandsInv
    <3>4. \A o : InHands(o) /\ o # None => o \in Decided
      BY <2>0, <3>1 DEF InHands
    <3>5. Frontier \in Nat
      BY <1>t DEF Frontier
    <3>6. NoEventLost'
      BY <1>t, <3>1, <3>3 DEF NoEventLost, Decided
    <3>7. HandsInv'
      BY <2>0, <3>1 DEF HandsInv
    <3>8. ChannelInv'
      <4> SUFFICES ASSUME NEW i \in 1 .. Len(eventCh)
                   PROVE  /\ committed' <= eventCh[i]
                          /\ \A o \in Offsets : o < eventCh[i] => o \in Decided \/ InChannel(o)
        BY <3>2 DEF ChannelInv, InChannel
      <4>1. committed' <= eventCh[i]
        <5>1. wevent[w] \in Nat /\ eventCh[i] \in Nat /\ wevent[w] < eventCh[i]
          BY <1>t, <3>1, <3>3
        <5>2. committed <= eventCh[i]
          BY DEF ChannelInv
        <5> QED
          BY <5>1, <5>2, <3>1
      <4>2. \A o \in Offsets : o < eventCh[i] => o \in Decided \/ InChannel(o)
        BY <1>t, <3>4 DEF ChannelInv, None
      <4> QED
        BY <4>1, <4>2
    <3>9. FrontierInv'
      <4>1. phase # "created" => committed' <= Frontier
        BY <1>t, <3>1, <3>3, <3>5 DEF FrontierInv
      <4>2. Feeding => \A o \in Offsets : o < Frontier => o \in Decided \/ InChannel(o)
        BY <1>t, <3>4 DEF FrontierInv, None
      <4> QED
        BY <3>2, <4>1, <4>2 DEF FrontierInv, InChannel
    <3> QED
      BY <3>6, <3>7, <3>8, <3>9
  <2>5. CASE WorkerExit(w)
    BY <2>5, SoloFrame DEF WorkerExit, brokerVars, fetchVars, stopVars, historyVars, Feeding
  <2> QED
    BY <1>3, <2>1, <2>2, <2>3, <2>4, <2>5 DEF WorkerStep
<1>4. CASE StopStep
  BY <1>4, SoloFrame DEF StopStep, StopSignal, StopCancel, StopReturn, brokerVars, fetchVars,
     workerVars, historyVars, Feeding
<1>5. CASE Restart
  BY <1>5, <1>t DEF Restart, brokerVars, SoloInv, NoEventLost, HandsInv, ChannelInv, FrontierInv,
     Frontier, Feeding, Decided, InHands, InChannel, None
<1>6. CASE UNCHANGED vars
  BY <1>6, SoloFrame DEF vars, Feeding
<1> QED
  BY <1>1, <1>2, <1>3, <1>4, <1>5, <1>6 DEF Next

\* The single worker's invariant holds of the consumer.
LEMMA SoloInvariant ==
  ASSUME SingleWorker
  PROVE  Spec => [](TypeInv /\ PoolInv /\ OrderInv /\ SoloInv)
<1>1. TypeInv /\ PoolInv /\ OrderInv /\ SoloInv /\ [Next]_vars => SoloInv'
  BY SoloStep
<1> QED
  BY <1>1, TypeInit, TypeStep, PoolInit, PoolStep, OrderInit, OrderStep, SoloInit, PTL DEF Spec

\* With one worker and well-formed messages, the committed position passes no
\* event that was not handled or failed, whatever crashes and stops interfere.
THEOREM SingleWorkerLosesNothing ==
  ASSUME SingleWorker
  PROVE  Spec => []NoEventLost
<1>1. SoloInv => NoEventLost
  BY DEF SoloInv
<1> QED
  BY <1>1, SoloInvariant, PTL

\* With one worker and well-formed messages, the consumer implements the
\* at-least-once queue: a step publishes, decides, acknowledges or stutters.
THEOREM ImplementsDurableQueue ==
  ASSUME SingleWorker
  PROVE  Spec => QueueSpec
<1> USE DEF Queue!qvars, Queue!QNext, Queue!QPublish, Queue!QDecide, Queue!QAck
<1>1. Init => Queue!QInit
  BY DEF Init, Queue!QInit
<1>2. ASSUME TypeInv, PoolInv, SoloInv, [Next]_vars
      PROVE  [Queue!QNext]_(Queue!qvars)
  <2> USE <1>2
  <2>w. Malformed = {} /\ \A v, w \in Workers : v = w
    BY DEF SingleWorker
  <2>1. CASE PublishEvent
    BY <2>1 DEF PublishEvent, historyVars
  <2>2. CASE StartStep
    <3>1. CASE SkipMalformed
      BY <3>1, <2>w DEF SkipMalformed
    <3>2. CASE ~SkipMalformed
      BY <2>2, <3>2 DEF StartStep, Start, CheckStopping, FetchMessage, FetchError, FetchCancelled,
         SendToWorkers, AbandonSend, DrainDone, DrainTimeout, brokerVars, historyVars
    <3> QED
      BY <3>1, <3>2
  <2>3. ASSUME NEW w \in Workers, WorkerStep(w)
        PROVE  [Queue!QNext]_(Queue!qvars)
    <3>0. wevent[w] # None => wevent[w] \in 1 .. published
      BY DEF TypeInv, TypeOK, InLog, Offsets, None
    <3>1. CASE Take(w) \/ WorkerExit(w)
      BY <3>1 DEF Take, WorkerExit, brokerVars, historyVars
    <3>2. CASE ProcessSucceeds(w) \/ ProcessFails(w)
      <4>1. wevent[w] \in 1 .. published
        BY <3>0, <3>2 DEF ProcessSucceeds, ProcessFails, TypeInv, TypeOK
      <4>2. (handled \cup failed)' = (handled \cup failed) \cup {wevent[w]}
        BY <3>2 DEF ProcessSucceeds, ProcessFails
      <4> QED
        BY <4>1, <4>2, <3>2 DEF ProcessSucceeds, ProcessFails, brokerVars
    <3>3. CASE CommitOffset(w)
      <4>1. wevent[w] \in 1 .. published /\ wevent[w] \in handled
        BY <3>0, <3>3 DEF CommitOffset, TypeInv, TypeOK, PoolInv
      <4>2. committed <= wevent[w]
        BY <4>1 DEF SoloInv, HandsInv, None
      <4>3. 1 .. wevent[w] \subseteq handled \cup failed
        <5>1. \A o \in Offsets : o < wevent[w] => o \in handled \cup failed
          BY <4>1 DEF SoloInv, HandsInv, None, Decided
        <5>2. \A o \in 1 .. wevent[w] : o \in Offsets /\ (o < wevent[w] \/ o = wevent[w])
          BY <4>1, ConsumerAssumption DEF TypeInv, TypeOK, Offsets
        <5> QED
          BY <4>1, <5>1, <5>2
      <4>4. wevent[w] \in committed .. published
        BY <4>1, <4>2, ConsumerAssumption DEF TypeInv, TypeOK
      <4> QED
        BY <3>3, <4>3, <4>4 DEF CommitOffset, historyVars
    <3> QED
      BY <2>3, <3>1, <3>2, <3>3 DEF WorkerStep
  <2>4. CASE StopStep
    BY <2>4 DEF StopStep, StopSignal, StopCancel, StopReturn, brokerVars, historyVars
  <2>5. CASE Restart
    BY <2>5 DEF Restart, brokerVars
  <2>6. CASE UNCHANGED vars
    BY <2>6 DEF vars
  <2> QED
    BY <2>1, <2>2, <2>3, <2>4, <2>5, <2>6 DEF Next
<1> QED
  BY <1>1, <1>2, SoloInvariant, PTL DEF Spec, QueueSpec, Queue!QSpec

-----------------------------------------------------------------------------
(* The users of the campaign: types.                                       *)

\* The rows, the locals of a request, the results of the checks, the locals of a worker.
Addresses == Emails \cup {"none"}
CodesAnywhere == [form : {"none", "user", "channel"}, of : Nat]
AnySource == Sources \cup {"twitter"}
Row == [email : Addresses, ip : Ips \cup {NoIp}, by : Nat, source : AnySource,
        status : Statuses, verified : BOOLEAN, token : Nat, deleted : BOOLEAN]
LeadRequest == [pc : {"idle", "refer", "insert", "rows", "verify", "resend"},
            email : Addresses, ip : Ips \cup {NoIp}, code : CodesAnywhere, by : Nat,
            source : AnySource, quota : Nat \cup {-1}, lead : Nat]
Result == [type : {"self_referral", "velocity", "fake_email"}, score : {70, 95}]
Job == [pc : {"idle", "self", "velocity", "record", "block"}, lead : Nat, found : Seq(Result)]

Recorded(u, result) == [lead |-> u, type |-> result.type, score |-> result.score]

\* An analysis is of a user there is, and one that records has something to record.
Analyses(j) ==
  /\ j.pc = "idle" => j.lead = NoOne
  /\ j.pc # "idle" => j.lead \in DOMAIN lead
  /\ j.pc \in {"record", "block"} => j.found # <<>>
  /\ j.pc = "block" => /\ j.found[1].score >= AutoBlockThreshold
                       /\ Recorded(j.lead, j.found[1]) \in detection

\* An import inserts a row only while something is left of what it may add.
Signs(q) ==
  /\ q.pc = "insert" => q.quota # 0
  /\ q.pc \notin {"insert", "rows"} => q.quota = -1
  /\ q.pc = "rows" => q.quota \in Nat

LeadsTypeOK ==
  /\ lead \in Seq(Row) /\ pending \in Seq(Nat) /\ Len(pending) = Len(lead)
  /\ old \in Nat /\ tokens \in Nat
  /\ \A d \in detection : d.lead \in DOMAIN lead
  /\ req \in [Requests -> LeadRequest]
  /\ job \in [Analysts -> Job]

LeadsFit == LeadsTypeOK /\ (\A w \in Analysts : Analyses(job[w])) /\ (\A r \in Requests : Signs(req[r]))

\* A request and a worker at rest are well formed.
LEMMA IdleFits ==
  /\ Idle \in LeadRequest /\ Idle.pc = "idle" /\ Idle.quota = -1
  /\ IdleJob \in Job /\ IdleJob.pc = "idle" /\ IdleJob.lead = NoOne
BY DEF Idle, IdleJob, LeadRequest, Job, Addresses, CodesAnywhere, AnySource, Sources,
   NoCode, NoOne, Result

\* The tables are well formed at first.
LEMMA LeadsInitFits == LeadsInit => LeadsFit
<1> SUFFICES ASSUME LeadsInit PROVE LeadsFit
  OBVIOUS
<1>1. lead = <<>> /\ pending = <<>> /\ lead \in Seq(Row) /\ pending \in Seq(Nat) /\ Len(pending) = Len(lead)
  BY DEF LeadsInit
<1>2. /\ req = [r \in Requests |-> Idle] /\ job = [w \in Analysts |-> IdleJob]
      /\ old = 0 /\ tokens = 0 /\ detection = {}
  BY DEF LeadsInit
<1>3. LeadsTypeOK
  BY <1>1, <1>2, IdleFits DEF LeadsTypeOK
<1>4. \A w \in Analysts : Analyses(job[w])
  BY <1>2, IdleFits DEF Analyses
<1>5. \A r \in Requests : Signs(req[r])
  BY <1>2, IdleFits DEF Signs
<1> QED
  BY <1>3, <1>4, <1>5 DEF LeadsFit

\* Users are the numbers of their rows, each with its deliveries.
LEMMA LeadsAreNumbers ==
  ASSUME LeadsFit
  PROVE  /\ DOMAIN lead = 1 .. Len(lead) /\ Len(lead) \in Nat /\ DOMAIN pending = DOMAIN lead
         /\ \A u \in DOMAIN lead : lead[u] \in Row /\ pending[u] \in Nat
         /\ LiveLeads \subseteq 1 .. Len(lead) /\ IsFiniteSet(LiveLeads)
         /\ \A u \in DOMAIN lead : u \in LiveLeads <=> ~lead[u].deleted
<1>1. lead \in Seq(Row) /\ pending \in Seq(Nat) /\ Len(pending) = Len(lead)
  BY DEF LeadsFit, LeadsTypeOK
<1>2. DOMAIN lead = 1 .. Len(lead) /\ Len(lead) \in Nat /\ DOMAIN pending = DOMAIN lead
  BY <1>1
<1>3. LiveLeads \subseteq 1 .. Len(lead)
  BY <1>2 DEF LiveLeads, Live
<1>4. IsFiniteSet(1 .. Len(lead))
  BY <1>2, FS_Interval
<1>5. IsFiniteSet(LiveLeads)
  BY <1>3, <1>4, FS_Subset
<1> QED
  BY <1>1, <1>2, <1>3, <1>5 DEF LiveLeads, Live

-----------------------------------------------------------------------------
(* What requests and the account do.                                       *)

\* A request moves on.
LeadRequestMoves(r) ==
  /\ req' \in [Requests -> LeadRequest] /\ Signs(req'[r])
  /\ \A q \in Requests \ {r} : req'[q] = req[q]

Quiet == UNCHANGED <<lead, old, detection, pending, job, decided, excused, interrupted>>

\* A row is written: the address and the place it came from stay.
Edits(u, entry) ==
  /\ u \in LiveLeads /\ entry \in Row /\ entry.ip = lead[u].ip
  /\ lead' = [lead EXCEPT ![u] = entry]
  /\ UNCHANGED <<old, detection, pending, job, excused, interrupted>>
  /\ \/ entry.status = lead[u].status /\ decided' = decided
     \/ decided' = decided \cup {u}

\* A row is added; its event goes out or is lost.
Adds(entry) ==
  /\ entry \in Row /\ ~entry.deleted /\ entry.status = "pending"
  /\ lead' = Append(lead, entry)
  /\ \/ pending' = Append(pending, 1) /\ excused' = excused
     \/ pending' = Append(pending, 0) /\ excused' = excused \cup {Len(lead) + 1}
  /\ UNCHANGED <<old, detection, job, decided, interrupted>>

Affects == Quiet \/ (\E u, entry : Edits(u, entry)) \/ (\E entry : Adds(entry))

\* A request that becomes q moves.
LEMMA MovesTo ==
  ASSUME LeadsFit, NEW r \in Requests, NEW q \in LeadRequest, Signs(q), req' = [req EXCEPT ![r] = q]
  PROVE  LeadRequestMoves(r) /\ req'[r] = q
BY DEF LeadsFit, LeadsTypeOK, LeadRequestMoves

\* The handlers that begin a request.
RequestBegins(r) ==
  \/ \E email \in Emails, ip \in Ips, code \in Codes : HandleSignupUser(r, email, ip, code)
  \/ HandleImportUsers(r)
  \/ \E t \in 1 .. tokens : HandleVerifyEmail(r, t)
  \/ \E u \in DOMAIN lead : HandleVerifyUser(r, u) \/ HandleResendVerification(r, u)

\* A request that begins touches no row; one that is an import counts the users
\* (HandleSignupUser, HandleImportUsers, HandleVerifyEmail, HandleVerifyUser).
LEMMA BeginningMoves ==
  ASSUME LeadsFit, LeadsAssumption, NEW r \in Requests, RequestBegins(r)
  PROVE  /\ LeadRequestMoves(r) /\ Quiet /\ tokens' = tokens /\ req[r].pc = "idle"
         /\ \/ imports' = imports /\ req'[r].quota = -1
            \/ /\ CanAdd > 0 /\ last' = r /\ apart' = {} /\ req'[r].quota = CanAdd
<1>1. CanAdd \in Int
  BY LeadsAreNumbers, FS_CardinalityType DEF CanAdd, CountWaitlistUsersByCampaign, LeadsAssumption
<1> DEFINE idle == Idle
<1>2. idle \in LeadRequest /\ idle.pc = "idle" /\ idle.quota = -1 /\ Idle = idle
  BY IdleFits
<1> HIDE DEF idle
<1>3. ASSUME NEW q \in LeadRequest, Signs(q), Begins(r, q)
      PROVE  LeadRequestMoves(r) /\ Quiet /\ tokens' = tokens /\ req[r].pc = "idle" /\ req'[r] = q
  BY <1>3, MovesTo DEF Begins, Quiet, tables, excuses
<1>4. ASSUME NEW email \in Emails, NEW ip \in Ips, NEW code \in Codes,
             HandleSignupUser(r, email, ip, code)
      PROVE  \E q \in LeadRequest : Signs(q) /\ q.quota = -1 /\ Begins(r, q) /\ imports' = imports
  <2> DEFINE q == [idle EXCEPT !.pc = "refer", !.email = email, !.ip = ip, !.code = code]
  <2>1. code \in CodesAnywhere /\ email \in Addresses
    BY LeadsAreNumbers DEF Codes, CodesAnywhere, NoCode, NoOne, Addresses
  <2>2. q \in LeadRequest /\ q.pc = "refer" /\ q.quota = -1
    BY <1>2, <2>1 DEF LeadRequest
  <2>3. Begins(r, idle) \/ Begins(r, q)
    BY <1>2, <1>4 DEF HandleSignupUser
  <2>4. imports' = imports
    BY <1>4 DEF HandleSignupUser
  <2> HIDE DEF q
  <2> QED
    BY <1>2, <2>2, <2>3, <2>4 DEF Signs
<1>5. ASSUME HandleImportUsers(r)
      PROVE  \E q \in LeadRequest : Signs(q) /\ q.quota = CanAdd /\ Begins(r, q)
  <2> DEFINE n == CanAdd
             q == [idle EXCEPT !.pc = "rows", !.quota = n]
  <2>1. n \in Int /\ n > 0
    BY <1>1, <1>5 DEF HandleImportUsers
  <2>2. Begins(r, q)
    BY <1>2, <1>5 DEF HandleImportUsers, NextRow
  <2> HIDE DEF n
  <2>3. n \in Nat \cup {-1}
    BY <2>1
  <2>4. q \in LeadRequest /\ q.pc = "rows" /\ q.quota = n
    BY <1>2, <2>3 DEF LeadRequest
  <2> HIDE DEF q
  <2> QED
    BY <2>1, <2>2, <2>4 DEF Signs, n
<1>6. ASSUME NEW u \in DOMAIN lead, NEW pc \in {"verify", "resend"},
             Begins(r, [Idle EXCEPT !.pc = pc, !.lead = u])
      PROVE  \E q \in LeadRequest : Signs(q) /\ q.quota = -1 /\ Begins(r, q)
  <2> DEFINE q == [idle EXCEPT !.pc = pc, !.lead = u]
  <2>1. u \in Nat
    BY LeadsAreNumbers
  <2>2. q \in LeadRequest /\ q.pc = pc /\ q.quota = -1
    BY <1>2, <2>1 DEF LeadRequest
  <2>3. Begins(r, q)
    BY <1>2, <1>6
  <2> HIDE DEF q
  <2> QED
    BY <2>2, <2>3 DEF Signs
<1>7. ASSUME NEW t, HandleVerifyEmail(r, t)
      PROVE  /\ imports' = imports
             /\ \E u \in DOMAIN lead : Begins(r, [Idle EXCEPT !.pc = "verify", !.lead = u])
  BY <1>7 DEF HandleVerifyEmail, VerifyUserByToken, GetWaitlistUserByVerificationToken, LiveLeads
<1>8. ASSUME NEW u \in DOMAIN lead, HandleVerifyUser(r, u) \/ HandleResendVerification(r, u)
      PROVE  /\ imports' = imports
             /\ \E pc \in {"verify", "resend"} : Begins(r, [Idle EXCEPT !.pc = pc, !.lead = u])
  BY <1>8 DEF HandleVerifyUser, HandleResendVerification
<1>9. \E q \in LeadRequest : /\ Signs(q) /\ Begins(r, q)
                         /\ \/ imports' = imports /\ q.quota = -1
                            \/ CanAdd > 0 /\ last' = r /\ apart' = {} /\ q.quota = CanAdd
  <2>1. CASE \E email \in Emails, ip \in Ips, code \in Codes : HandleSignupUser(r, email, ip, code)
    BY <1>4, <2>1
  <2>2. CASE HandleImportUsers(r)
    BY <1>5, <2>2 DEF HandleImportUsers
  <2>3. CASE \E t \in 1 .. tokens : HandleVerifyEmail(r, t)
    BY <1>6, <1>7, <2>3
  <2>4. CASE \E u \in DOMAIN lead : HandleVerifyUser(r, u) \/ HandleResendVerification(r, u)
    BY <1>6, <1>8, <2>4
  <2> QED
    BY <2>1, <2>2, <2>3, <2>4 DEF RequestBegins
<1> QED
  BY <1>3, <1>9

\* What an import has left to add, and who added what beside it.
Keeps(r) == imports' = imports /\ req'[r].quota \in {req[r].quota, -1}
Counts(r) ==
  /\ last' = last
  /\ req'[r].quota = IF req[r].quota < 0 THEN -1 ELSE req[r].quota - 1
  /\ apart' = IF req[r].quota < 0 \/ r # last THEN apart \cup {Len(lead) + 1} ELSE apart
  /\ req[r].quota # 0

\* A statement of a request leaves the rows, writes one or adds one.
LEMMA StepMoves ==
  ASSUME LeadsFit, NEW r \in Requests, RequestStep(r)
  PROVE  /\ LeadRequestMoves(r) /\ tokens' \in Nat
         /\ \/ Quiet /\ Keeps(r)
            \/ (\E u, entry : Edits(u, entry)) /\ Keeps(r)
            \/ (\E entry : Adds(entry)) /\ Counts(r)
<1> DEFINE q == req[r]
           idle == Idle
<1>1. q \in LeadRequest /\ Signs(q) /\ tokens \in Nat
  BY DEF LeadsFit, LeadsTypeOK
<1>2. idle \in LeadRequest /\ idle.pc = "idle" /\ idle.quota = -1 /\ Idle = idle /\ Signs(idle)
  BY IdleFits DEF Signs
<1> HIDE DEF idle
<1>3. ASSUME NEW n \in Nat \cup {-1}, req' = [req EXCEPT ![r] = NextRow(r, n)], n # -1
      PROVE  LeadRequestMoves(r) /\ req'[r].quota = n
  <2> DEFINE x == [idle EXCEPT !.pc = "rows", !.quota = n]
  <2>1. x \in LeadRequest /\ x.pc = "rows" /\ x.quota = n
    BY <1>2, <1>3 DEF LeadRequest
  <2>2. req' = [req EXCEPT ![r] = x]
    BY <1>2, <1>3 DEF NextRow
  <2> HIDE DEF x
  <2>3. Signs(x)
    BY <1>3, <2>1 DEF Signs
  <2> QED
    BY <2>1, <2>2, <2>3, MovesTo
<1>4. ASSUME Answers(r) PROVE LeadRequestMoves(r) /\ req'[r].quota = -1
  BY <1>2, <1>4, MovesTo DEF Answers
<1>5. CASE FindsReferrer(r)
  <2>1. PICK by \in Nat, source \in AnySource :
          req' = [req EXCEPT ![r].pc = "insert", ![r].code = NoCode, ![r].by = by, ![r].source = source]
    <3>1. "twitter" \in AnySource /\ "referral" \in AnySource /\ "direct" \in AnySource /\ NoOne \in Nat
      BY DEF AnySource, Sources, NoOne
    <3>2. \A u \in LiveLeads : u \in Nat
      BY LeadsAreNumbers
    <3> QED
      BY <1>5, <3>1, <3>2 DEF FindsReferrer, GetUserByChannelCode, GetWaitlistUserByReferralCode
  <2> DEFINE none == NoCode
             x == [q EXCEPT !.pc = "insert", !.code = none, !.by = by, !.source = source]
  <2>2. none \in CodesAnywhere
    BY DEF CodesAnywhere, NoCode, NoOne
  <2>3. req' = [req EXCEPT ![r] = x]
    BY <2>1 DEF LeadsFit, LeadsTypeOK
  <2> HIDE DEF none
  <2>4. x \in LeadRequest /\ x.pc = "insert" /\ x.quota = q.quota
    BY <1>1, <2>2 DEF LeadRequest
  <2> HIDE DEF x
  <2>5. Signs(x)
    <3>1. q.quota = -1
      BY <1>1, <1>5 DEF Signs, FindsReferrer
    <3>2. x.quota # 0 /\ x.pc = "insert"
      BY <2>4, <3>1
    <3> QED
      BY <3>2 DEF Signs
  <2>6. LeadRequestMoves(r) /\ req'[r] = x
    BY <2>3, <2>4, <2>5, MovesTo
  <2> QED
    BY <1>1, <1>5, <2>4, <2>6 DEF FindsReferrer, Quiet, Keeps, tables, history, excuses, imports
<1>6. CASE SignupUser(r)
  <2>1. q.pc = "insert" /\ q.quota # 0
    BY <1>1, <1>6 DEF SignupUser, Signs
  <2>2. CASE Refused(r) /\ UNCHANGED <<tables, acts, history>>
    <3>1. CASE q.quota < 0
      BY <1>1, <1>4, <1>6, <2>2, <3>1 DEF SignupUser, Answers, Refused, Quiet, Keeps, tables,
         history, excuses, imports
    <3>2. CASE ~(q.quota < 0)
      <4>1. q.quota \in Nat \cup {-1} /\ q.quota # -1
        BY <1>1, <3>2 DEF LeadRequest
      <4>2. req' = [req EXCEPT ![r] = NextRow(r, q.quota)]
        BY <2>2, <3>2 DEF Refused
      <4>3. LeadRequestMoves(r) /\ req'[r].quota = q.quota
        BY <1>3, <4>1, <4>2
      <4> QED
        BY <1>1, <1>6, <2>2, <4>3 DEF SignupUser, Quiet, Keeps, tables, history, excuses, imports
    <3> QED
      BY <3>1, <3>2
  <2>3. CASE ~(EmailTaken(q.email) \/ q.source \notin Sources)
    <3> DEFINE entry == [email |-> q.email, ip |-> q.ip, by |-> q.by, source |-> q.source, status |-> "pending",
                       verified |-> FALSE, token |-> tokens + 1, deleted |-> FALSE]
    <3>1. entry \in Row /\ ~entry.deleted /\ entry.status = "pending"
      BY <1>1, <2>3 DEF LeadRequest, Row, Statuses, AnySource
    <3>2. lead' = Append(lead, entry) /\ tokens' = tokens + 1
      BY <1>6, <2>3 DEF SignupUser, CreateWaitlistUser
    <3> HIDE DEF entry
    <3>3. /\ \/ pending' = Append(pending, 1) /\ excused' = excused
             \/ pending' = Append(pending, 0) /\ excused' = excused \cup {Len(lead) + 1}
          /\ UNCHANGED <<old, detection, job, decided, interrupted, last>>
          /\ apart' = IF q.quota < 0 \/ r # last THEN apart \cup {Len(lead) + 1} ELSE apart
      BY <1>6, <2>3 DEF SignupUser
    <3>4. Adds(entry)
      BY <3>1, <3>2, <3>3 DEF Adds
    <3>5. req' = [req EXCEPT ![r] = IF q.quota < 0 THEN Idle ELSE NextRow(r, q.quota - 1)]
      BY <1>6, <2>3 DEF SignupUser, LeadsFit, LeadsTypeOK
    <3>6. LeadRequestMoves(r) /\ req'[r].quota = IF q.quota < 0 THEN -1 ELSE q.quota - 1
      <4>1. CASE q.quota < 0
        BY <1>4, <3>5, <4>1 DEF Answers
      <4>2. CASE ~(q.quota < 0)
        <5>1. q.quota - 1 \in Nat \cup {-1} /\ q.quota - 1 # -1
          BY <1>1, <2>1, <4>2 DEF LeadRequest
        <5> QED
          BY <1>3, <3>5, <4>2, <5>1
      <4> QED
        BY <4>1, <4>2
    <3>7. Counts(r)
      BY <2>1, <3>3, <3>6 DEF Counts
    <3> QED
      BY <1>1, <3>2, <3>4, <3>6, <3>7
  <2> QED
    BY <1>6, <2>2, <2>3 DEF SignupUser
<1>7. ASSUME NEW u, NEW entry, req[r].lead = u, 
             u \in LiveLeads => entry \in Row /\ entry.ip = lead[u].ip /\ entry.status = lead[u].status,
             IF Live(u) THEN lead' = [lead EXCEPT ![u] = entry] ELSE UNCHANGED lead, Answers(r),
             UNCHANGED <<old, detection, pending, job, history>>
      PROVE  /\ LeadRequestMoves(r)
             /\ \/ Quiet /\ Keeps(r)
                \/ (\E v, x : Edits(v, x)) /\ Keeps(r)
  <2>1. LeadRequestMoves(r) /\ Keeps(r)
    BY <1>4, <1>7 DEF Keeps, history
  <2>2. CASE u \in LiveLeads
    <3>1. lead' = [lead EXCEPT ![u] = entry]
      BY <1>7, <2>2 DEF LiveLeads
    <3>2. Edits(u, entry)
      BY <1>7, <2>2, <3>1 DEF Edits, history, excuses
    <3> QED
      BY <2>1, <3>2
  <2>3. CASE u \notin LiveLeads
    <3>1. lead' = lead
      BY <1>7, <2>3 DEF LiveLeads, Live
    <3> QED
      BY <1>7, <2>1, <3>1 DEF Quiet, history, excuses
  <2> QED
    BY <2>2, <2>3
<1>8. CASE VerifyUser(r)
  <2> DEFINE u == req[r].lead
             entry == [lead[u] EXCEPT !.verified = TRUE, !.token = NoToken]
  <2>1. u \in LiveLeads => entry \in Row /\ entry.ip = lead[u].ip /\ entry.status = lead[u].status
    <3> SUFFICES ASSUME u \in LiveLeads
                 PROVE  entry \in Row /\ entry.ip = lead[u].ip /\ entry.status = lead[u].status
      OBVIOUS
    <3>1. lead[u] \in Row
      BY LeadsAreNumbers
    <3> QED
      BY <3>1 DEF Row, NoToken
  <2>2. Live(u) => u \in LiveLeads
    BY DEF Live, LiveLeads
  <2>3. IF Live(u) THEN lead' = [lead EXCEPT ![u] = entry] ELSE UNCHANGED lead
    BY <1>8 DEF VerifyUser, VerifyWaitlistUserEmail, Live, LeadsFit, LeadsTypeOK
  <2>4. Answers(r) /\ UNCHANGED <<old, detection, pending, job, history>> /\ tokens' = tokens
    BY <1>8 DEF VerifyUser
  <2> HIDE DEF entry
  <2> QED
    BY <1>1, <1>7, <2>1, <2>3, <2>4
<1>9. CASE ResendVerificationToken(r)
  <2> DEFINE u == req[r].lead
             entry == [lead[u] EXCEPT !.token = tokens + 1]
  <2>1. u \in LiveLeads => entry \in Row /\ entry.ip = lead[u].ip /\ entry.status = lead[u].status
    <3> SUFFICES ASSUME u \in LiveLeads
                 PROVE  entry \in Row /\ entry.ip = lead[u].ip /\ entry.status = lead[u].status
      OBVIOUS
    <3>1. lead[u] \in Row
      BY LeadsAreNumbers
    <3> QED
      BY <1>1, <3>1 DEF Row
  <2>3. IF Live(u) THEN lead' = [lead EXCEPT ![u] = entry] ELSE UNCHANGED lead
    BY <1>9 DEF ResendVerificationToken, UpdateVerificationToken, Live, LeadsFit, LeadsTypeOK
  <2>4. Answers(r) /\ UNCHANGED <<old, detection, pending, job, history>> /\ tokens' = tokens + 1
    BY <1>9 DEF ResendVerificationToken
  <2> HIDE DEF entry
  <2> QED
    BY <1>1, <1>7, <2>1, <2>3, <2>4
<1>10. CASE EndsImport(r)
  BY <1>1, <1>4, <1>10 DEF EndsImport, Quiet, Keeps, tables, history, excuses, imports
<1>11. CASE \E email \in Emails : ImportsRow(r, email)
  <2>1. PICK email \in Emails : ImportsRow(r, email)
    BY <1>11
  <2> DEFINE x == [q EXCEPT !.pc = "insert", !.email = email]
  <2>2. req' = [req EXCEPT ![r] = x] /\ q.quota > 0
    BY <2>1 DEF ImportsRow, LeadsFit, LeadsTypeOK
  <2>3. x \in LeadRequest /\ x.pc = "insert" /\ x.quota = q.quota
    BY <1>1 DEF LeadRequest, Addresses
  <2> HIDE DEF x
  <2>4. Signs(x)
    BY <1>1, <2>2, <2>3 DEF Signs, LeadRequest
  <2>5. LeadRequestMoves(r) /\ req'[r] = x
    BY <2>2, <2>3, <2>4, MovesTo
  <2> QED
    BY <1>1, <2>1, <2>3, <2>5 DEF ImportsRow, Quiet, Keeps, tables, history, excuses, imports
<1> QED
  BY <1>5, <1>6, <1>8, <1>9, <1>10, <1>11 DEF RequestStep

\* The account writes a row.
LEMMA AccountEdits ==
  ASSUME LeadsFit, NEW u, NEW status, HandleUpdateUser(u, status) \/ HandleDeleteUser(u)
  PROVE  UNCHANGED <<req, tokens, last, apart>> /\ \E entry : Edits(u, entry)
<1>1. u \in LiveLeads /\ lead[u] \in Row
  BY LeadsAreNumbers DEF HandleUpdateUser, UpdateUser, HandleDeleteUser, DeleteUser, Live, LiveLeads
<1>2. CASE HandleUpdateUser(u, status)
  <2> DEFINE entry == [lead[u] EXCEPT !.status = status]
  <2>1. status \in Statuses
    BY <1>2 DEF HandleUpdateUser, UpdateUser, isValidUserStatus
  <2>2. entry \in Row /\ entry.ip = lead[u].ip
    BY <1>1, <2>1 DEF Row
  <2>3. lead' = [lead EXCEPT ![u] = entry] /\ decided' = decided \cup {u}
    BY <1>1, <1>2 DEF HandleUpdateUser, UpdateUser, UpdateWaitlistUser
  <2> HIDE DEF entry
  <2>4. Edits(u, entry)
    BY <1>1, <1>2, <2>2, <2>3 DEF Edits, HandleUpdateUser, excuses
  <2> QED
    BY <1>2, <2>4 DEF HandleUpdateUser, imports
<1>3. CASE HandleDeleteUser(u)
  <2> DEFINE entry == [lead[u] EXCEPT !.deleted = TRUE]
  <2>2. entry \in Row /\ entry.ip = lead[u].ip /\ entry.status = lead[u].status
    BY <1>1 DEF Row
  <2>3. lead' = [lead EXCEPT ![u] = entry] /\ decided' = decided
    BY <1>1, <1>3 DEF HandleDeleteUser, DeleteUser, DeleteWaitlistUser, history
  <2> HIDE DEF entry
  <2>4. Edits(u, entry)
    BY <1>1, <1>3, <2>2, <2>3 DEF Edits, HandleDeleteUser, history, excuses
  <2> QED
    BY <1>3, <2>4 DEF HandleDeleteUser, history, imports
<1> QED
  BY <1>2, <1>3

-----------------------------------------------------------------------------
(* What an analysis does.                                                  *)

\* A worker is at pc, with user u and the results found; the others stay.
Becomes(w, pc, u, found) ==
  /\ job' \in [Analysts -> Job]
  /\ job'[w].pc = pc /\ job'[w].lead = u /\ job'[w].found = found
  /\ \A v \in Analysts \ {w} : job'[v] = job[v]
\* The next result, or the end.
Turns(w, found) ==
  IF found = <<>> THEN Becomes(w, "idle", NoOne, found)
  ELSE Becomes(w, "record", job[w].lead, found)

\* What the three ways to move an analysis on leave behind.
LEMMA JobBecomes ==
  ASSUME LeadsFit, NEW w \in Analysts
  PROVE  /\ Ends(w) => Becomes(w, "idle", NoOne, <<>>)
         /\ \A pc \in {"velocity", "record", "block"}, found \in Seq(Result) :
              Step(w, pc, found) => Becomes(w, pc, job[w].lead, found)
         /\ \A found \in Seq(Result) : Proceeds(w, found) => Turns(w, found)
<1>1. Ends(w) => Becomes(w, "idle", NoOne, <<>>)
  <2> DEFINE idle == IdleJob
  <2>1. idle \in Job /\ idle.pc = "idle" /\ idle.lead = NoOne /\ idle.found = <<>> /\ IdleJob = idle
    BY IdleFits DEF IdleJob
  <2> HIDE DEF idle
  <2> QED
    BY <2>1 DEF Ends, Becomes, LeadsFit, LeadsTypeOK
<1>2. ASSUME NEW pc \in {"velocity", "record", "block"}, NEW found \in Seq(Result), Step(w, pc, found)
      PROVE  Becomes(w, pc, job[w].lead, found)
  <2> DEFINE n == [job[w] EXCEPT !.pc = pc, !.found = found]
  <2>1. job[w] \in Job
    BY DEF LeadsFit, LeadsTypeOK
  <2>2. n \in Job /\ n.pc = pc /\ n.lead = job[w].lead /\ n.found = found
    BY <2>1 DEF Job
  <2>3. job' = [job EXCEPT ![w] = n]
    BY <1>2 DEF Step, LeadsFit, LeadsTypeOK
  <2> HIDE DEF n
  <2> QED
    BY <2>2, <2>3 DEF Becomes, LeadsFit, LeadsTypeOK
<1>3. ASSUME NEW found \in Seq(Result), Proceeds(w, found) PROVE Turns(w, found)
  BY <1>1, <1>2, <1>3 DEF Proceeds, Turns
<1> QED
  BY <1>1, <1>2, <1>3

\* What is found of a burst.
FindsBurst(u, found) ==
  lead[u].ip # NoIp /\ CountRecentSignupsByIP(lead[u].ip) > High
    => \E i \in DOMAIN found : found[i] = Score("velocity", 95)

\* What the six kinds of steps do to users, detections and deliveries.
Starts(w, u) ==
  /\ job[w].pc = "idle" /\ u \in DOMAIN lead /\ pending[u] > 0
  /\ pending' = [pending EXCEPT ![u] = pending[u] - 1]
  /\ \/ u \in LiveLeads /\ Becomes(w, "self", u, <<>>) /\ excused' = excused
     \/ job' = job /\ excused' = excused \cup {u}
  /\ UNCHANGED <<lead, old, detection, decided, interrupted>>
Looks(w) ==
  /\ \/ job[w].pc = "self" /\ \E found \in Seq(Result) : Becomes(w, "velocity", job[w].lead, found)
     \/ /\ job[w].pc = "velocity"
        /\ \E found \in Seq(Result) : FindsBurst(job[w].lead, found) /\ Turns(w, found)
  /\ UNCHANGED <<lead, old, detection, pending, decided, excused, interrupted>>
Records(w) ==
  LET result == job[w].found[1] IN
  /\ job[w].pc = "record"
  /\ detection' = detection \cup {Recorded(job[w].lead, result)}
  /\ IF result.score >= AutoBlockThreshold THEN Becomes(w, "block", job[w].lead, job[w].found)
     ELSE Turns(w, Tail(job[w].found))
  /\ UNCHANGED <<lead, old, pending, decided, excused, interrupted>>
Blocks(w) ==
  LET u == job[w].lead IN
  /\ job[w].pc = "block"
  /\ Turns(w, Tail(job[w].found))
  /\ \/ /\ u \in LiveLeads /\ decided' = decided \ {u}
        /\ \E entry \in Row : /\ entry.status = "blocked" /\ entry.ip = lead[u].ip
                            /\ lead' = [lead EXCEPT ![u] = entry]
     \/ u \notin LiveLeads /\ UNCHANGED <<lead, decided>>
  /\ UNCHANGED <<old, detection, pending, excused, interrupted>>
Fails(w) ==
  /\ job[w].pc # "idle" /\ excused' = excused \cup {job[w].lead}
  /\ \E found \in Seq(Result) : Becomes(w, "velocity", job[w].lead, found) \/ Turns(w, found)
  /\ UNCHANGED <<lead, old, detection, pending, decided, interrupted>>
Crashes(w) ==
  LET u == job[w].lead IN
  /\ job[w].pc # "idle" /\ Becomes(w, "idle", NoOne, <<>>)
  /\ pending' = [pending EXCEPT ![u] = pending[u] + 1]
  /\ interrupted' = IF job[w].pc = "block" THEN interrupted \cup {u} ELSE interrupted
  /\ UNCHANGED <<lead, old, detection, decided, excused>>

\* What the checks find are results.
LEMMA ResultsFit ==
  /\ \A type \in {"self_referral", "velocity", "fake_email"}, score \in {70, 95} :
       Score(type, score) \in Result /\ <<Score(type, score)>> \in Seq(Result)
  /\ \A n : Velocity(n) \in Seq(Result)
  /\ \A u : IsDisposableDomain(u) \in Seq(Result)
<1>1. ASSUME NEW type \in {"self_referral", "velocity", "fake_email"}, NEW score \in {70, 95}
      PROVE  Score(type, score) \in Result /\ <<Score(type, score)>> \in Seq(Result)
  <2>1. Score(type, score) \in Result
    BY DEF Score, Result
  <2> HIDE DEF Score
  <2> QED
    BY <2>1
<1>2. <<>> \in Seq(Result)
  OBVIOUS
<1>3. \A n : Velocity(n) \in Seq(Result)
  BY <1>1, <1>2 DEF Velocity
<1>4. \A u : IsDisposableDomain(u) \in Seq(Result)
  BY <1>1, <1>2 DEF IsDisposableDomain
<1> QED
  BY <1>1, <1>3, <1>4

\* Two sequences, one after the other.
LEMMA AtTheEnd ==
  ASSUME NEW S, NEW a \in Seq(S), NEW b \in Seq(S)
  PROVE  /\ a \o b \in Seq(S) /\ Len(a \o b) = Len(a) + Len(b)
         /\ \A i \in 1 .. Len(b) : (a \o b)[Len(a) + i] = b[i]
         /\ \A i \in 1 .. Len(a) : (a \o b)[i] = a[i]
<1>1. a \o b \in Seq(S)
  OBVIOUS
<1>2. Len(a \o b) = Len(a) + Len(b)
  OBVIOUS
<1>3. ASSUME NEW i \in 1 .. Len(b) PROVE (a \o b)[Len(a) + i] = b[i]
  OBVIOUS
<1>4. ASSUME NEW i \in 1 .. Len(a) PROVE (a \o b)[i] = a[i]
  OBVIOUS
<1> QED
  BY <1>1, <1>2, <1>3, <1>4

\* What a sequence begins with is found between two others.
LEMMA InTheMiddle ==
  ASSUME NEW S, NEW a \in Seq(S), NEW b \in Seq(S), NEW c \in Seq(S), 1 \in DOMAIN b
  PROVE  \E i \in DOMAIN (a \o b \o c) : (a \o b \o c)[i] = b[1]
<1>1. /\ a \o b \in Seq(S) /\ Len(a \o b) = Len(a) + Len(b)
      /\ \A i \in 1 .. Len(b) : (a \o b)[Len(a) + i] = b[i]
  BY AtTheEnd
<1>2. Len(a) \in Nat /\ 1 \in 1 .. Len(b)
  OBVIOUS
<1>3. Len(a) + 1 \in 1 .. Len(a \o b) /\ (a \o b)[Len(a) + 1] = b[1]
  BY <1>1, <1>2
<1> DEFINE ab == a \o b
<1> HIDE DEF ab
<1>4. ab \in Seq(S) /\ Len(a) + 1 \in 1 .. Len(ab) /\ ab[Len(a) + 1] = b[1]
  BY <1>1, <1>3 DEF ab
<1>5. /\ ab \o c \in Seq(S) /\ Len(ab \o c) = Len(ab) + Len(c)
      /\ \A i \in 1 .. Len(ab) : (ab \o c)[i] = ab[i]
  BY <1>4, AtTheEnd
<1>6. Len(ab) \in Nat /\ Len(c) \in Nat
  BY <1>4
<1>7. Len(a) + 1 \in 1 .. Len(ab \o c)
  BY <1>2, <1>4, <1>5, <1>6
<1>8. DOMAIN (ab \o c) = 1 .. Len(ab \o c)
  BY <1>5
<1>9. \E i \in DOMAIN (ab \o c) : (ab \o c)[i] = b[1]
  BY <1>4, <1>5, <1>7, <1>8
<1> QED
  BY <1>9 DEF ab

\* The checks find what FindsBurst says (CheckVelocity).
LEMMA CheckLooks ==
  ASSUME LeadsFit, LeadsAssumption, NEW w \in Analysts, CheckSelfReferral(w) \/ CheckVelocity(w)
  PROVE  Looks(w)
<1> DEFINE u == job[w].lead
<1>1. /\ job[w] \in Job /\ Analyses(job[w]) /\ High \in Nat
      /\ UNCHANGED <<lead, old, detection, pending, decided, excused, interrupted>>
  BY DEF LeadsFit, LeadsTypeOK, CheckSelfReferral, CheckVelocity, tables,
     history, excuses, LeadsAssumption
<1>2. CASE CheckSelfReferral(w)
  <2> DEFINE by == lead[u].by
             found == CASE ~Live(by) -> <<>>
                        [] Live(by) /\ lead[u].ip = lead[by].ip /\ lead[u].ip # NoIp ->
                             <<Score("self_referral", 95)>>
                        [] Live(by) /\ (lead[u].ip # lead[by].ip \/ lead[u].ip = NoIp) ->
                             IF Similar(lead[u].email, lead[by].email) THEN <<Score("self_referral", 70)>>
                             ELSE <<>>
  <2>1. /\ <<>> \in Seq(Result) /\ <<Score("self_referral", 95)>> \in Seq(Result)
        /\ <<Score("self_referral", 70)>> \in Seq(Result)
    BY ResultsFit
  <2>2. found \in Seq(Result)
    BY <2>1
  <2>3. Step(w, "velocity", found) /\ job[w].pc = "self"
    BY <1>2 DEF CheckSelfReferral
  <2> HIDE DEF found
  <2> QED
    BY <1>1, <2>2, <2>3, JobBecomes DEF Looks
<1>3. CASE CheckVelocity(w)
  <2> DEFINE n == CountRecentSignupsByIP(lead[u].ip)
             others == IF n > 0 THEN n - 1 ELSE 0
             velocity == IF lead[u].ip = NoIp THEN <<>> ELSE Velocity(others)
             disposable == IsDisposableDomain(u)
             before == job[w].found
             found == before \o velocity \o disposable
  <2>1. n \in Nat
    <3>1. {v \in LiveLeads : lead[v].ip = lead[u].ip /\ v > old} \subseteq LiveLeads
      OBVIOUS
    <3> QED
      BY <3>1, LeadsAreNumbers, FS_Subset, FS_CardinalityType DEF CountRecentSignupsByIP
  <2>2. velocity \in Seq(Result) /\ disposable \in Seq(Result) /\ before \in Seq(Result)
    BY <1>1, ResultsFit DEF Job
  <2>3. Proceeds(w, found) /\ job[w].pc = "velocity"
    BY <1>3 DEF CheckVelocity
  <2>4. ASSUME lead[u].ip # NoIp, n > High PROVE velocity = <<Score("velocity", 95)>>
    <3>1. others >= High
      BY <1>1, <2>1, <2>4
    <3> QED
      BY <2>4, <3>1 DEF Velocity
  <2> HIDE DEF velocity, disposable, before, n
  <2>5. found \in Seq(Result)
    BY <2>2
  <2>6. ASSUME lead[u].ip # NoIp, n > High PROVE \E i \in DOMAIN found : found[i] = Score("velocity", 95)
    <3> DEFINE s == Score("velocity", 95)
    <3>1. velocity = <<s>>
      BY <2>4, <2>6
    <3> HIDE DEF s
    <3>2. 1 \in DOMAIN velocity /\ velocity[1] = s
      BY <3>1
    <3>3. \E k \in DOMAIN found : found[k] = s
      BY <2>2, <3>2, InTheMiddle
    <3> QED
      BY <3>3 DEF s
  <2>7. FindsBurst(u, found)
    BY <2>6 DEF FindsBurst, n
  <2> HIDE DEF found
  <2> QED
    BY <1>1, <2>3, <2>5, <2>7, JobBecomes DEF Looks
<1> QED
  BY <1>2, <1>3

\* The six kinds of steps, one lemma each: a result is recorded,
LEMMA ProcessRecords ==
  ASSUME LeadsFit, NEW w \in Analysts, ProcessResult(w)
  PROVE  Records(w)
<1> DEFINE found == job[w].found
<1>1. job[w] \in Job /\ Analyses(job[w]) /\ job[w].pc = "record"
  BY DEF LeadsFit, LeadsTypeOK, ProcessResult
<1>2. found \in Seq(Result) /\ found # <<>>
  BY <1>1 DEF Job, Analyses
<1>3. Head(found) = found[1] /\ Tail(found) \in Seq(Result)
  BY <1>2
<1>4. detection' = detection \cup {Recorded(job[w].lead, found[1])}
  BY <1>3 DEF ProcessResult, CreateFraudDetection, Recorded
<1>5. IF found[1].score >= AutoBlockThreshold THEN Step(w, "block", found) ELSE Proceeds(w, Tail(found))
  BY <1>3 DEF ProcessResult
<1>6. IF found[1].score >= AutoBlockThreshold THEN Becomes(w, "block", job[w].lead, found)
      ELSE Turns(w, Tail(found))
  BY <1>2, <1>3, <1>5, JobBecomes
<1>7. UNCHANGED <<lead, old, pending, decided, excused, interrupted>>
  BY DEF ProcessResult, history, excuses
<1> QED
  BY <1>1, <1>4, <1>6, <1>7 DEF Records

\* a user is blocked,
LEMMA BlocksBlock ==
  ASSUME LeadsFit, NEW w \in Analysts, BlocksUser(w)
  PROVE  Blocks(w)
<1> DEFINE found == job[w].found
           u == job[w].lead
<1>1. job[w] \in Job /\ Analyses(job[w]) /\ job[w].pc = "block"
  BY DEF LeadsFit, LeadsTypeOK, BlocksUser
<1>2. found \in Seq(Result) /\ found # <<>>
  BY <1>1 DEF Job, Analyses
<1>3. Tail(found) \in Seq(Result)
  BY <1>2
<1>4. Turns(w, Tail(found))
  BY <1>3, JobBecomes DEF BlocksUser
<1>5. UNCHANGED <<old, detection, pending, excused, interrupted>>
  BY DEF BlocksUser, excuses
<1>6. CASE u \in LiveLeads
  <2> DEFINE entry == [lead[u] EXCEPT !.status = "blocked"]
  <2>1. lead[u] \in Row
    BY <1>6, LeadsAreNumbers
  <2>2. entry \in Row /\ entry.status = "blocked" /\ entry.ip = lead[u].ip
    BY <2>1 DEF Row, Statuses
  <2>3. lead' = [lead EXCEPT ![u] = entry] /\ decided' = decided \ {u}
    BY <1>6 DEF BlocksUser, BlockWaitlistUser, LiveLeads
  <2> HIDE DEF entry
  <2> QED
    BY <1>1, <1>4, <1>5, <1>6, <2>2, <2>3 DEF Blocks
<1>7. CASE u \notin LiveLeads
  <2>1. UNCHANGED <<lead, decided>>
    BY <1>7 DEF BlocksUser, LiveLeads, Live
  <2> QED
    BY <1>1, <1>4, <1>5, <1>7, <2>1 DEF Blocks
<1> QED
  BY <1>6, <1>7

\* a statement fails,
LEMMA FailureFails ==
  ASSUME LeadsFit, NEW w \in Analysts, StatementFails(w)
  PROVE  Fails(w)
<1> DEFINE found == job[w].found
<1>1. job[w] \in Job /\ Analyses(job[w]) /\ job[w].pc # "idle"
  BY DEF LeadsFit, LeadsTypeOK, StatementFails
<1>2. found \in Seq(Result) /\ <<>> \in Seq(Result) /\ IsDisposableDomain(job[w].lead) \in Seq(Result)
  BY <1>1, ResultsFit DEF Job
<1>3. found # <<>> => Tail(found) \in Seq(Result)
  BY <1>2
<1> DEFINE more == found \o IsDisposableDomain(job[w].lead)
<1>4. more \in Seq(Result)
  BY <1>2
<1>5. /\ job[w].pc = "self" => Step(w, "velocity", <<>>)
      /\ job[w].pc = "velocity" => Proceeds(w, more)
      /\ job[w].pc \in {"record", "block"} => Proceeds(w, Tail(found)) /\ found # <<>>
  BY <1>1 DEF StatementFails, Analyses
<1> HIDE DEF more
<1>6. \E f \in Seq(Result) : Step(w, "velocity", f) \/ Proceeds(w, f)
  BY <1>1, <1>2, <1>3, <1>4, <1>5 DEF Job
<1>7. \E f \in Seq(Result) : Becomes(w, "velocity", job[w].lead, f) \/ Turns(w, f)
  BY <1>6, JobBecomes
<1>8. excused' = excused \cup {job[w].lead} /\ UNCHANGED <<lead, old, detection, pending, decided, interrupted>>
  BY DEF StatementFails, Excuse, tables
<1> QED
  BY <1>1, <1>7, <1>8 DEF Fails

\* a process ends,
LEMMA CrashCrashes ==
  ASSUME LeadsFit, NEW w \in Analysts, Crash(w)
  PROVE  Crashes(w)
<1>1. Becomes(w, "idle", NoOne, <<>>)
  BY JobBecomes DEF Crash
<1>2. job[w] \in Job /\ Analyses(job[w]) /\ job[w].pc # "idle"
  BY DEF LeadsFit, LeadsTypeOK, Crash
<1>3. pending' = [pending EXCEPT ![job[w].lead] = pending[job[w].lead] + 1]
  BY DEF Crash
<1> QED
  BY <1>1, <1>2, <1>3 DEF Crash, Crashes

\* an event is taken.
LEMMA CreatedStarts ==
  ASSUME LeadsFit, NEW w \in Analysts, NEW u \in DOMAIN lead, HandleUserCreated(w, u)
  PROVE  Starts(w, u)
<1>1. /\ job[w].pc = "idle" /\ pending[u] > 0 /\ pending' = [pending EXCEPT ![u] = pending[u] - 1]
      /\ UNCHANGED <<lead, old, detection, decided, interrupted>>
  BY DEF HandleUserCreated, Excuse, history, excuses
<1>2. CASE /\ Live(u) /\ excused' = excused
           /\ job' = [job EXCEPT ![w] = [pc |-> "self", lead |-> u, found |-> <<>>]]
  <2> DEFINE n == [pc |-> "self", lead |-> u, found |-> <<>>]
  <2>1. n \in Job /\ n.pc = "self" /\ n.lead = u /\ n.found = <<>>
    BY LeadsAreNumbers DEF Job
  <2>2. job' = [job EXCEPT ![w] = n]
    BY <1>2
  <2> HIDE DEF n
  <2>3. Becomes(w, "self", u, <<>>)
    BY <2>1, <2>2 DEF Becomes, LeadsFit, LeadsTypeOK
  <2>4. u \in LiveLeads
    BY <1>2 DEF LiveLeads
  <2> QED
    BY <1>1, <1>2, <2>3, <2>4 DEF Starts
<1>3. CASE job' = job /\ excused' = excused \cup {u}
  BY <1>1, <1>3 DEF Starts
<1> QED
  BY <1>2, <1>3 DEF HandleUserCreated, Excuse, history, excuses

AnalysisStep(w) ==
  \/ \E u \in DOMAIN lead : HandleUserCreated(w, u)
  \/ JobStep(w) \/ StatementFails(w) \/ Crash(w)
Effect(w) ==
  \/ \E u : Starts(w, u)
  \/ Looks(w) \/ Records(w) \/ Blocks(w) \/ Fails(w) \/ Crashes(w)

\* Every step of an analysis is of one of six kinds (consumer and processor of spam).
LEMMA EffectOfWorker ==
  ASSUME LeadsFit, LeadsAssumption, NEW w \in Analysts, AnalysisStep(w)
  PROVE  Effect(w) /\ UNCHANGED <<req, tokens, last, apart>>
<1>1. Effect(w)
  BY CreatedStarts, CheckLooks, ProcessRecords, BlocksBlock, FailureFails, CrashCrashes
  DEF AnalysisStep, JobStep, Effect
<1>2. UNCHANGED <<req, tokens, last, apart>>
  BY DEF AnalysisStep, JobStep, HandleUserCreated, CheckSelfReferral, CheckVelocity, ProcessResult,
     BlocksUser,
     StatementFails, Crash, Excuse, tables, history, imports
<1> QED
  BY <1>1, <1>2

-----------------------------------------------------------------------------
(* Types are kept.                                                         *)

\* Rows and detections there are stay: what an analysis is of is not lost.
LEMMA AnalysesStay ==
  ASSUME LeadsFit, DOMAIN lead \subseteq (DOMAIN lead)', detection \subseteq detection', NEW j \in Job, Analyses(j)
  PROVE  Analyses(j)'
BY DEF Analyses

\* A row written, or added, leaves the table well formed.
LEMMA EditsFit ==
  ASSUME LeadsFit, NEW u, NEW entry, Edits(u, entry)
  PROVE  /\ lead' \in Seq(Row) /\ Len(lead') = Len(lead)
         /\ lead'[u] = entry /\ \A v \in DOMAIN lead \ {u} : lead'[v] = lead[v]
<1>1. lead \in Seq(Row) /\ u \in DOMAIN lead
  BY DEF LeadsFit, LeadsTypeOK, Edits, LiveLeads
<1>2. lead' = [lead EXCEPT ![u] = entry] /\ entry \in Row
  BY DEF Edits
<1> QED
  BY <1>1, <1>2

\* A row added is the last one, and its event is delivered, or lost and excused.
LEMMA AddsFit ==
  ASSUME LeadsFit, NEW entry, Adds(entry)
  PROVE  /\ lead' \in Seq(Row) /\ Len(lead') = Len(lead) + 1 /\ DOMAIN lead' = 1 .. Len(lead) + 1
         /\ lead'[Len(lead) + 1] = entry /\ \A v \in DOMAIN lead : lead'[v] = lead[v]
         /\ pending' \in Seq(Nat) /\ Len(pending') = Len(lead')
         /\ \A v \in DOMAIN lead : pending'[v] = pending[v]
         /\ pending'[Len(lead) + 1] > 0 \/ Len(lead) + 1 \in excused'
<1>1. lead \in Seq(Row) /\ pending \in Seq(Nat) /\ Len(pending) = Len(lead)
  BY DEF LeadsFit, LeadsTypeOK
<1>2. lead' = Append(lead, entry) /\ entry \in Row
  BY DEF Adds
<1>3. PICK n \in Nat : pending' = Append(pending, n) /\ (n > 0 \/ Len(lead) + 1 \in excused')
  BY DEF Adds
<1>4. /\ lead' \in Seq(Row) /\ Len(lead') = Len(lead) + 1 /\ DOMAIN lead' = 1 .. Len(lead) + 1
      /\ lead'[Len(lead) + 1] = entry /\ \A v \in DOMAIN lead : lead'[v] = lead[v]
  BY <1>1, <1>2
<1>5. /\ pending' \in Seq(Nat) /\ Len(pending') = Len(pending) + 1
      /\ pending'[Len(pending) + 1] = n /\ \A v \in DOMAIN pending : pending'[v] = pending[v]
  BY <1>1, <1>3
<1>6. DOMAIN pending = DOMAIN lead
  BY LeadsAreNumbers
<1> QED
  BY <1>1, <1>3, <1>4, <1>5, <1>6

\* What requests and the account do keeps the types.
LEMMA AffectsFit ==
  ASSUME LeadsFit, req' \in [Requests -> LeadRequest], \A r \in Requests : Signs(req'[r]), tokens' \in Nat, Affects
  PROVE  LeadsFit'
<1>2. /\ lead' \in Seq(Row) /\ pending' \in Seq(Nat) /\ Len(pending') = Len(lead')
      /\ DOMAIN lead \subseteq DOMAIN lead'
  <2>1. CASE Quiet
    BY <2>1 DEF Quiet, LeadsFit, LeadsTypeOK
  <2>2. ASSUME NEW u, NEW entry, Edits(u, entry)
        PROVE  /\ lead' \in Seq(Row) /\ pending' \in Seq(Nat) /\ Len(pending') = Len(lead')
               /\ DOMAIN lead \subseteq DOMAIN lead'
    <3>1. lead \in Seq(Row) /\ pending \in Seq(Nat) /\ Len(pending) = Len(lead) /\ pending' = pending
      BY <2>2 DEF Edits, LeadsFit, LeadsTypeOK
    <3> QED
      BY <2>2, <3>1, EditsFit
  <2>3. ASSUME NEW entry, Adds(entry)
        PROVE  /\ lead' \in Seq(Row) /\ pending' \in Seq(Nat) /\ Len(pending') = Len(lead')
               /\ DOMAIN lead \subseteq DOMAIN lead'
    <3>1. DOMAIN lead = 1 .. Len(lead) /\ Len(lead) \in Nat
      BY LeadsAreNumbers
    <3> QED
      BY <2>3, <3>1, AddsFit
  <2> QED
    BY <2>1, <2>2, <2>3 DEF Affects
<1>3. UNCHANGED <<old, detection, job>>
  BY DEF Affects, Quiet, Edits, Adds
<1>4. LeadsTypeOK'
  BY <1>2, <1>3 DEF LeadsFit, LeadsTypeOK
<1>5. \A w \in Analysts : Analyses(job[w])'
  BY <1>2, <1>3, AnalysesStay DEF LeadsFit, LeadsTypeOK
<1> QED
  BY <1>3, <1>4, <1>5 DEF LeadsFit

\* A worker does not touch the analyses of others.
LEMMA OthersWait ==
  ASSUME LeadsFit, NEW w \in Analysts, Effect(w)
  PROVE  job' \in [Analysts -> Job] /\ \A v \in Analysts \ {w} : job'[v] = job[v]
<1>1. ASSUME NEW pc, NEW u, NEW found, Becomes(w, pc, u, found)
      PROVE  job' \in [Analysts -> Job] /\ \A v \in Analysts \ {w} : job'[v] = job[v]
  BY <1>1 DEF Becomes
<1>2. CASE job' = job
  BY <1>2 DEF LeadsFit, LeadsTypeOK
<1> QED
  BY <1>1, <1>2 DEF Effect, Starts, Looks, Records, Blocks, Fails, Crashes, Turns

\* An analysis moves on.
LEMMA WorkerFits ==
  ASSUME LeadsFit, NEW w \in Analysts, Effect(w), UNCHANGED <<req, tokens>>
  PROVE  LeadsFit'
<1>1. job[w] \in Job /\ Analyses(job[w])
  BY DEF LeadsFit, LeadsTypeOK
<1>2. detection \subseteq detection' /\ \A d \in detection' : d.lead \in DOMAIN lead
  <2>1. ASSUME Records(w) PROVE detection \subseteq detection' /\ \A d \in detection' : d.lead \in DOMAIN lead
    <3>1. detection' = detection \cup {Recorded(job[w].lead, job[w].found[1])} /\ job[w].lead \in DOMAIN lead
      BY <1>1, <2>1 DEF Records, Analyses
    <3>2. Recorded(job[w].lead, job[w].found[1]).lead = job[w].lead
      BY DEF Recorded
    <3> QED
      BY <3>1, <3>2 DEF LeadsFit, LeadsTypeOK
  <2>2. CASE detection' = detection
    BY <2>2 DEF LeadsFit, LeadsTypeOK
  <2> QED
    BY <2>1, <2>2 DEF Effect, Starts, Looks, Blocks, Fails, Crashes
<1>3. lead' \in Seq(Row) /\ DOMAIN lead' = DOMAIN lead /\ Len(lead') = Len(lead)
  <2>1. CASE lead' = lead
    BY <2>1 DEF LeadsFit, LeadsTypeOK
  <2>2. ASSUME NEW u \in DOMAIN lead, NEW entry \in Row, lead' = [lead EXCEPT ![u] = entry]
        PROVE  lead' \in Seq(Row) /\ DOMAIN lead' = DOMAIN lead /\ Len(lead') = Len(lead)
    <3>1. lead \in Seq(Row)
      BY DEF LeadsFit, LeadsTypeOK
    <3> QED
      BY <2>2, <3>1
  <2>3. ASSUME Blocks(w)
        PROVE  lead' = lead \/ \E u \in DOMAIN lead, entry \in Row : lead' = [lead EXCEPT ![u] = entry]
    BY <1>1, <2>3 DEF Blocks, Analyses
  <2> QED
    BY <2>1, <2>2, <2>3 DEF Effect, Starts, Looks, Records, Fails, Crashes
<1>4. pending' \in Seq(Nat) /\ Len(pending') = Len(pending)
  <2>1. CASE pending' = pending
    BY <2>1 DEF LeadsFit, LeadsTypeOK
  <2>2. ASSUME NEW u \in DOMAIN pending, NEW n \in Nat, pending' = [pending EXCEPT ![u] = n]
        PROVE  pending' \in Seq(Nat) /\ Len(pending') = Len(pending)
    <3>1. pending \in Seq(Nat)
      BY DEF LeadsFit, LeadsTypeOK
    <3> QED
      BY <2>2, <3>1
  <2>3. ASSUME NEW u, Starts(w, u) PROVE \E v \in DOMAIN pending, n \in Nat : pending' = [pending EXCEPT ![v] = n]
    <3>1. u \in DOMAIN pending /\ pending[u] \in Nat /\ pending[u] > 0
          /\ pending' = [pending EXCEPT ![u] = pending[u] - 1]
      BY <2>3, LeadsAreNumbers DEF Starts
    <3>2. pending[u] - 1 \in Nat
      BY <3>1
    <3> QED
      BY <3>1, <3>2
  <2>4. ASSUME Crashes(w) PROVE \E v \in DOMAIN pending, n \in Nat : pending' = [pending EXCEPT ![v] = n]
    <3> DEFINE u == job[w].lead
    <3>1. u \in DOMAIN pending /\ pending[u] \in Nat /\ pending' = [pending EXCEPT ![u] = pending[u] + 1]
      BY <1>1, <2>4, LeadsAreNumbers DEF Crashes, Analyses
    <3>2. pending[u] + 1 \in Nat
      BY <3>1
    <3> HIDE DEF u
    <3> QED
      BY <3>1, <3>2
  <2> QED
    BY <2>1, <2>2, <2>3, <2>4 DEF Effect, Looks, Records, Blocks, Fails
<1>5. old' = old
  BY DEF Effect, Starts, Looks, Records, Blocks, Fails, Crashes
<1>6. /\ job' \in [Analysts -> Job] /\ \A v \in Analysts \ {w} : job'[v] = job[v]
      /\ Analyses(job[w])'
  <2>1. ASSUME NEW pc \in {"self", "velocity"}, NEW u \in DOMAIN lead, NEW found, Becomes(w, pc, u, found)
        PROVE  Analyses(job[w])'
    BY <1>3, <2>1 DEF Becomes, Analyses
  <2>2. ASSUME job[w].pc # "idle", NEW found \in Seq(Result), Turns(w, found)
        PROVE  Analyses(job[w])'
    <3>1. job[w].lead \in DOMAIN lead'
      BY <1>1, <1>3, <2>2 DEF Analyses
    <3> QED
      BY <2>2, <3>1 DEF Turns, Becomes, Analyses
  <2>3. ASSUME Records(w), job[w].found[1].score >= AutoBlockThreshold
        PROVE  Analyses(job[w])'
    <3>1. /\ Becomes(w, "block", job[w].lead, job[w].found) /\ job[w].lead \in DOMAIN lead' /\ job[w].found # <<>>
          /\ Recorded(job[w].lead, job[w].found[1]) \in detection'
      BY <1>1, <1>3, <2>3 DEF Records, Analyses
    <3> QED
      BY <2>3, <3>1 DEF Becomes, Analyses, AutoBlockThreshold
  <2>4. CASE job' = job
    BY <1>1, <1>2, <1>3, <2>4, AnalysesStay DEF LeadsFit, LeadsTypeOK
  <2>5. ASSUME NEW u, Starts(w, u) PROVE (Becomes(w, "self", u, <<>>) /\ u \in DOMAIN lead) \/ job' = job
    BY <2>5 DEF Starts
  <2>6. ASSUME Crashes(w) PROVE Analyses(job[w])'
    BY <2>6 DEF Crashes, Becomes, Analyses
  <2>7. job[w].pc # "idle" => job[w].lead \in DOMAIN lead
    BY <1>1 DEF Analyses
  <2>8. job[w].pc \in {"record", "block"} => Tail(job[w].found) \in Seq(Result)
    BY <1>1 DEF Analyses, Job
  <2>9. ASSUME Looks(w) PROVE Analyses(job[w])'
    BY <2>1, <2>2, <2>7, <2>9 DEF Looks
  <2>10. ASSUME Records(w) PROVE Analyses(job[w])'
    BY <2>2, <2>3, <2>8, <2>10 DEF Records
  <2>11. ASSUME Blocks(w) PROVE Analyses(job[w])'
    BY <2>2, <2>8, <2>11 DEF Blocks
  <2>12. ASSUME Fails(w) PROVE Analyses(job[w])'
    BY <2>1, <2>2, <2>7, <2>12 DEF Fails
  <2>13. ASSUME NEW u, Starts(w, u) PROVE Analyses(job[w])'
    BY <2>1, <2>4, <2>5, <2>13
  <2>14. Analyses(job[w])'
    BY <2>6, <2>9, <2>10, <2>11, <2>12, <2>13 DEF Effect
  <2>15. job' \in [Analysts -> Job] /\ \A v \in Analysts \ {w} : job'[v] = job[v]
    BY OthersWait
  <2> QED
    BY <2>14, <2>15
<1>7. ASSUME NEW v \in Analysts \ {w} PROVE Analyses(job[v])'
  BY <1>2, <1>3, <1>6, <1>7, AnalysesStay DEF LeadsFit, LeadsTypeOK
<1>8. LeadsTypeOK'
  BY <1>2, <1>3, <1>4, <1>5, <1>6 DEF LeadsFit, LeadsTypeOK
<1> QED
  BY <1>6, <1>7, <1>8 DEF LeadsFit

\* The steps of the program, by what they touch: a request and the rows, a row and
\* what the account decided, the window, or an analysis.
RequestActs(r) ==
  /\ LeadRequestMoves(r) /\ tokens' \in Nat
  /\ \/ /\ Quiet /\ req[r].pc = "idle"
        /\ \/ imports' = imports /\ req'[r].quota = -1
           \/ CanAdd > 0 /\ last' = r /\ apart' = {} /\ req'[r].quota = CanAdd
     \/ Quiet /\ Keeps(r)
     \/ (\E u, entry : Edits(u, entry)) /\ Keeps(r)
     \/ (\E entry : Adds(entry)) /\ Counts(r)
AccountActs == UNCHANGED <<req, tokens, last, apart>> /\ \E u, entry : Edits(u, entry)
WindowMoves ==
  /\ old' = Len(lead)
  /\ UNCHANGED <<lead, detection, tokens, pending, req, job, decided, excused, interrupted, last, apart>>
WorkerActs(w) == Effect(w) /\ UNCHANGED <<req, tokens, last, apart>>
Stays == UNCHANGED <<lead, old, detection, tokens, pending, req, job, decided, excused, interrupted, last, apart>>
Moves ==
  (\E r \in Requests : RequestActs(r)) \/ AccountActs \/ WindowMoves \/ (\E w \in Analysts : WorkerActs(w)) \/ Stays

\* Every step of Leads is one of these.
LEMMA EveryStepMoves ==
  ASSUME LeadsFit, LeadsAssumption, [LeadsNext]_leadsVars
  PROVE  Moves
<1>1. CASE UNCHANGED leadsVars
  <2>1. Stays
    BY <1>1 DEF leadsVars, tables, history, excuses, imports, Stays
  <2> QED
    BY <2>1 DEF Moves
<1>2. ASSUME NEW r \in Requests, RequestBegins(r) PROVE RequestActs(r)
  <2>1. tokens \in Nat
    BY DEF LeadsFit, LeadsTypeOK
  <2> QED
    BY <1>2, <2>1, BeginningMoves DEF RequestActs
<1>3. ASSUME NEW r \in Requests, RequestStep(r) PROVE RequestActs(r)
  BY <1>3, StepMoves DEF RequestActs
<1>4. ASSUME NEW u, NEW status, HandleUpdateUser(u, status) \/ HandleDeleteUser(u)
      PROVE  AccountActs
  <2>1. tokens' = tokens
    BY <1>4 DEF HandleUpdateUser, HandleDeleteUser
  <2> QED
    BY <1>4, <2>1, AccountEdits DEF AccountActs
<1>5. ASSUME WindowPasses PROVE WindowMoves
  BY <1>5 DEF WindowPasses, WindowMoves, history, excuses, imports
<1>6. ASSUME NEW w \in Analysts, AnalysisStep(w) PROVE WorkerActs(w)
  BY <1>6, EffectOfWorker DEF WorkerActs
<1>7. CASE LeadsNext
  <2>1. \/ \E r \in Requests : RequestBegins(r) \/ RequestStep(r)
        \/ \E u, status : HandleUpdateUser(u, status) \/ HandleDeleteUser(u)
        \/ WindowPasses
        \/ \E w \in Analysts : AnalysisStep(w)
    BY <1>7 DEF LeadsNext, RequestBegins, AnalysisStep
  <2> QED
    BY <1>2, <1>3, <1>4, <1>5, <1>6, <2>1 DEF Moves
<1> QED
  BY <1>1, <1>7

\* Every step keeps the types.
LEMMA MovesFit ==
  ASSUME LeadsFit, Moves
  PROVE  LeadsFit'
<1>1. ASSUME NEW r \in Requests, RequestActs(r) PROVE LeadsFit'
  <2>1. Affects /\ tokens' \in Nat /\ LeadRequestMoves(r)
    BY <1>1 DEF RequestActs, Affects
  <2>2. req' \in [Requests -> LeadRequest] /\ \A q \in Requests : Signs(req'[q])
    BY <2>1 DEF LeadRequestMoves, LeadsFit
  <2> QED
    BY <2>1, <2>2, AffectsFit
<1>2. CASE AccountActs
  <2>1. Affects
    BY <1>2 DEF AccountActs, Affects
  <2>2. req' \in [Requests -> LeadRequest] /\ tokens' \in Nat /\ \A q \in Requests : Signs(req'[q])
    BY <1>2 DEF AccountActs, LeadsFit, LeadsTypeOK
  <2> QED
    BY <2>1, <2>2, AffectsFit
<1>3. CASE WindowMoves
  <2>1. Len(lead) \in Nat
    BY LeadsAreNumbers
  <2>2. LeadsTypeOK' /\ \A r \in Requests : Signs(req'[r])
    BY <1>3, <2>1 DEF WindowMoves, LeadsFit, LeadsTypeOK
  <2>3. \A w \in Analysts : Analyses(job[w])'
    BY <1>3 DEF WindowMoves, LeadsFit, Analyses
  <2> QED
    BY <2>2, <2>3 DEF LeadsFit
<1>4. ASSUME NEW w \in Analysts, WorkerActs(w) PROVE LeadsFit'
  BY <1>4, WorkerFits DEF WorkerActs
<1>5. CASE Stays
  BY <1>5 DEF Stays, LeadsFit, LeadsTypeOK, Analyses, Signs
<1> QED
  BY <1>1, <1>2, <1>3, <1>4, <1>5 DEF Moves

-----------------------------------------------------------------------------
(* Blocks.                                                                 *)

\* A status the account did not write is the block of a detection, and a detection of
\* high confidence is a block, or is about to be one.
Blocking(u) == \E w \in Analysts : job[w].pc = "block" /\ job[w].lead = u
BlockInv ==
  /\ \A u \in DOMAIN lead \ decided : lead[u].status = "blocked" => Frauds(u) # {}
  /\ \A u \in LiveLeads \ decided :
       Frauds(u) # {} /\ u \notin excused \cup interrupted => lead[u].status = "blocked" \/ Blocking(u)

\* A row that is written keeps what the account did not write.
LEMMA EditsKeepBlocks ==
  ASSUME LeadsFit, BlockInv, NEW u, NEW entry, Edits(u, entry)
  PROVE  BlockInv'
<1>1. /\ lead'[u] = entry /\ \A v \in DOMAIN lead \ {u} : lead'[v] = lead[v]
      /\ DOMAIN lead' = DOMAIN lead /\ u \in DOMAIN lead
  BY EditsFit, LeadsAreNumbers DEF Edits, LeadsFit, LeadsTypeOK
<1>2. UNCHANGED <<detection, job, excused, interrupted>> /\ decided \subseteq decided'
      /\ (u \in decided' \/ entry.status = lead[u].status)
  BY DEF Edits
<1>3. u \in LiveLeads
  BY DEF Edits
<1>4. LiveLeads' \subseteq LiveLeads
  BY <1>1, <1>3 DEF LiveLeads, Live
<1>5. \A v : Frauds(v)' = Frauds(v) /\ Blocking(v)' = Blocking(v)
  BY <1>2 DEF Frauds, Blocking
<1>6. \A v \in DOMAIN lead \ decided' : lead'[v].status = lead[v].status /\ v \in DOMAIN lead \ decided
  BY <1>1, <1>2
<1>7. \A v \in DOMAIN lead' \ decided' : lead'[v].status = "blocked" => Frauds(v)' # {}
  BY <1>1, <1>5, <1>6 DEF BlockInv
<1>8. ASSUME NEW v \in LiveLeads' \ decided', Frauds(v)' # {}, v \notin excused' \cup interrupted'
      PROVE  lead'[v].status = "blocked" \/ Blocking(v)'
  <2>1. v \in LiveLeads \ decided /\ v \in DOMAIN lead \ decided'
    BY <1>2, <1>4, <1>8 DEF LiveLeads
  <2>2. Frauds(v) # {} /\ v \notin excused \cup interrupted
    BY <1>2, <1>5, <1>8
  <2>3. lead[v].status = "blocked" \/ Blocking(v)
    BY <2>1, <2>2 DEF BlockInv
  <2> QED
    BY <1>5, <1>6, <2>1, <2>3
<1> QED
  BY <1>7, <1>8 DEF BlockInv

\* A new row is not blocked, and nothing is recorded of it.
LEMMA AddsKeepBlocks ==
  ASSUME LeadsFit, BlockInv, NEW entry, Adds(entry)
  PROVE  BlockInv'
<1> DEFINE new == Len(lead) + 1
<1>1. /\ lead'[new] = entry /\ \A v \in DOMAIN lead : lead'[v] = lead[v]
      /\ DOMAIN lead' = DOMAIN lead \cup {new} /\ new \notin DOMAIN lead
  <2>1. DOMAIN lead = 1 .. Len(lead) /\ Len(lead) \in Nat
    BY LeadsAreNumbers
  <2>2. /\ DOMAIN lead' = 1 .. Len(lead) + 1 /\ lead'[Len(lead) + 1] = entry
        /\ \A v \in DOMAIN lead : lead'[v] = lead[v]
    BY AddsFit
  <2>3. 1 .. Len(lead) + 1 = (1 .. Len(lead)) \cup {Len(lead) + 1} /\ Len(lead) + 1 \notin 1 .. Len(lead)
    BY <2>1
  <2> QED
    BY <2>1, <2>2, <2>3
<1> HIDE DEF new
<1>2. UNCHANGED <<detection, job, decided, interrupted>> /\ excused \subseteq excused' /\ entry.status = "pending"
  BY DEF Adds
<1>3. \A v : Frauds(v)' = Frauds(v) /\ Blocking(v)' = Blocking(v)
  BY <1>2 DEF Frauds, Blocking
<1>4. Frauds(new) = {}
  BY <1>1 DEF LeadsFit, LeadsTypeOK, Frauds
<1>5. \A v \in DOMAIN lead' \ decided' : lead'[v].status = "blocked" => Frauds(v)' # {}
  BY <1>1, <1>2, <1>3 DEF BlockInv
<1>6. ASSUME NEW v \in LiveLeads' \ decided', Frauds(v)' # {}, v \notin excused' \cup interrupted'
      PROVE  lead'[v].status = "blocked" \/ Blocking(v)'
  <2>1. v \in DOMAIN lead
    BY <1>1, <1>3, <1>4, <1>6 DEF LiveLeads
  <2>2. v \in LiveLeads \ decided
    BY <1>1, <1>2, <1>6, <2>1 DEF LiveLeads, Live
  <2>3. Frauds(v) # {} /\ v \notin excused \cup interrupted
    BY <1>2, <1>3, <1>6
  <2>4. lead[v].status = "blocked" \/ Blocking(v)
    BY <2>2, <2>3 DEF BlockInv
  <2> QED
    BY <1>1, <1>3, <2>1, <2>4
<1> QED
  BY <1>5, <1>6 DEF BlockInv

\* What an analysis does to the blocks there are and the blocks to come.
LEMMA WorkersKeepBlocks ==
  ASSUME LeadsFit, BlockInv, NEW w \in Analysts, Effect(w)
  PROVE  BlockInv'
<1> DEFINE u == job[w].lead
<1>1. Analyses(job[w]) /\ job[w] \in Job
  BY DEF LeadsFit, LeadsTypeOK
<1>2. \A v \in Analysts \ {w} : job'[v] = job[v]
  BY OthersWait
<1>3. detection \subseteq detection' /\ excused \subseteq excused' /\ interrupted \subseteq interrupted'
  BY DEF Effect, Starts, Looks, Records, Blocks, Fails, Crashes
<1>4. \A v : Frauds(v) \subseteq Frauds(v)'
  BY <1>3 DEF Frauds
\* A block that was coming is written, failed, was cut off, or still comes.
<1>5. ASSUME NEW v, Blocking(v)
      PROVE  Blocking(v)' \/ (v = u /\ (Blocks(w) \/ v \in excused' \cup interrupted'))
  <2>1. PICK x \in Analysts : job[x].pc = "block" /\ job[x].lead = v
    BY <1>5 DEF Blocking
  <2>2. CASE x # w
    BY <1>2, <2>1, <2>2 DEF Blocking
  <2>3. CASE x = w
    <3>1. job[w].pc = "block" /\ v = u
      BY <2>1, <2>3
    <3>2. Blocks(w) \/ Fails(w) \/ Crashes(w)
      BY <3>1 DEF Effect, Starts, Looks, Records
    <3> QED
      BY <3>1, <3>2 DEF Fails, Crashes
  <2> QED
    BY <2>2, <2>3
<1>6. ASSUME NEW v, v # u \/ ~Records(w), UNCHANGED detection \/ Records(w)
      PROVE  Frauds(v)' = Frauds(v)
  <2>1. CASE detection' = detection
    BY <2>1 DEF Frauds
  <2>2. CASE Records(w) /\ v # u
    <3>1. detection' = detection \cup {Recorded(u, job[w].found[1])} /\ Recorded(u, job[w].found[1]).lead = u
      BY <2>2 DEF Records, Recorded
    <3> QED
      BY <2>2, <3>1 DEF Frauds
  <2> QED
    BY <1>6, <2>1, <2>2
<1>7. CASE Blocks(w)
  <2>1. Frauds(u) # {} /\ u \in DOMAIN lead
    <3>1. /\ Recorded(u, job[w].found[1]) \in detection /\ u \in DOMAIN lead
          /\ job[w].found[1].score >= AutoBlockThreshold
      BY <1>1, <1>7 DEF Analyses, Blocks
    <3> QED
      BY <3>1 DEF Frauds, Recorded
  <2>2. UNCHANGED <<detection, excused, interrupted>>
    BY <1>7 DEF Blocks
  <2>3. CASE u \in LiveLeads
    <3>1. decided' = decided \ {u}
      BY <1>7, <2>3 DEF Blocks
    <3>2. PICK entry \in Row : entry.status = "blocked" /\ lead' = [lead EXCEPT ![u] = entry]
      BY <1>7, <2>3 DEF Blocks
    <3>3. /\ DOMAIN lead' = DOMAIN lead /\ lead'[u].status = "blocked"
          /\ \A v \in DOMAIN lead \ {u} : lead'[v] = lead[v]
      BY <2>1, <3>2
    <3>4. LiveLeads' \subseteq LiveLeads
      BY <2>3, <3>3 DEF LiveLeads, Live
    <3>5. \A v \in DOMAIN lead' \ decided' : lead'[v].status = "blocked" => Frauds(v)' # {}
      BY <1>4, <2>1, <3>1, <3>3 DEF BlockInv
    <3>6. ASSUME NEW v \in LiveLeads' \ decided', Frauds(v)' # {}, v \notin excused' \cup interrupted', v # u
          PROVE  lead'[v].status = "blocked" \/ Blocking(v)'
      <4>1. v \in LiveLeads \ decided /\ v \in DOMAIN lead
        BY <3>1, <3>4, <3>6 DEF LiveLeads
      <4>2. Frauds(v) # {} /\ v \notin excused \cup interrupted
        BY <2>2, <3>6 DEF Frauds
      <4>3. lead[v].status = "blocked" \/ Blocking(v)
        BY <4>1, <4>2 DEF BlockInv
      <4> QED
        BY <1>5, <3>3, <3>6, <4>1, <4>3
    <3> QED
      BY <3>3, <3>5, <3>6 DEF BlockInv
  <2>4. CASE u \notin LiveLeads
    <3>1. UNCHANGED <<lead, decided>>
      BY <1>7, <2>4 DEF Blocks
    <3>2. LiveLeads' = LiveLeads
      BY <3>1 DEF LiveLeads, Live
    <3>3. \A v : Frauds(v)' = Frauds(v)
      BY <2>2 DEF Frauds
    <3>4. \A v \in DOMAIN lead' \ decided' : lead'[v].status = "blocked" => Frauds(v)' # {}
      BY <3>1, <3>3 DEF BlockInv
    <3>5. ASSUME NEW v \in LiveLeads' \ decided', Frauds(v)' # {}, v \notin excused' \cup interrupted'
          PROVE  lead'[v].status = "blocked" \/ Blocking(v)'
      <4>1. lead[v].status = "blocked" \/ Blocking(v)
        BY <2>2, <3>1, <3>2, <3>3, <3>5 DEF BlockInv
      <4> QED
        BY <1>5, <2>4, <3>1, <3>2, <3>5, <4>1
    <3> QED
      BY <3>4, <3>5 DEF BlockInv
  <2> QED
    BY <2>3, <2>4
<1>8. CASE ~Blocks(w)
  <2>1. UNCHANGED <<lead, decided>>
    BY <1>8 DEF Effect, Starts, Looks, Records, Fails, Crashes
  <2>2. LiveLeads' = LiveLeads
    BY <2>1 DEF LiveLeads, Live
  <2>3. \A v \in DOMAIN lead' \ decided' : lead'[v].status = "blocked" => Frauds(v)' # {}
    BY <1>4, <2>1 DEF BlockInv
  <2>4. detection' = detection \/ Records(w)
    BY <1>8 DEF Effect, Starts, Looks, Fails, Crashes
  <2>5. ASSUME NEW v \in LiveLeads' \ decided', Frauds(v)' # {}, v \notin excused' \cup interrupted'
        PROVE  lead'[v].status = "blocked" \/ Blocking(v)'
    <3>1. v \in LiveLeads \ decided /\ v \notin excused \cup interrupted
      BY <1>3, <2>1, <2>2, <2>5
    <3>2. CASE Frauds(v) # {}
      <4>1. lead[v].status = "blocked" \/ Blocking(v)
        BY <3>1, <3>2 DEF BlockInv
      <4> QED
        BY <1>5, <1>8, <2>1, <2>5, <4>1
    <3>3. CASE Frauds(v) = {}
      <4>1. Records(w) /\ v = u
        BY <1>6, <2>4, <2>5, <3>3
      <4>2. job[w].found[1].score >= AutoBlockThreshold
        <5>1. detection' = detection \cup {Recorded(u, job[w].found[1])}
          BY <4>1 DEF Records
        <5>2. Recorded(u, job[w].found[1]).score >= AutoBlockThreshold
          BY <2>5, <3>3, <5>1 DEF Frauds
        <5> QED
          BY <5>2 DEF Recorded
      <4>3. Becomes(w, "block", u, job[w].found)
        BY <4>1, <4>2 DEF Records
      <4> QED
        BY <4>1, <4>3 DEF Becomes, Blocking
    <3> QED
      BY <3>2, <3>3
  <2> QED
    BY <2>3, <2>5 DEF BlockInv
<1> QED
  BY <1>7, <1>8

\* Every step keeps the invariant of the blocks.
LEMMA BlocksKept ==
  ASSUME LeadsFit, BlockInv, Moves
  PROVE  BlockInv'
<1>1. ASSUME UNCHANGED <<lead, detection, job, decided, excused, interrupted>> PROVE BlockInv'
  BY <1>1 DEF BlockInv, Blocking, LiveLeads, Live, Frauds
<1>2. ASSUME NEW w \in Analysts, WorkerActs(w) PROVE BlockInv'
  BY <1>2, WorkersKeepBlocks DEF WorkerActs
<1>3. \/ UNCHANGED <<lead, detection, job, decided, excused, interrupted>>
      \/ \E u, entry : Edits(u, entry)
      \/ \E entry : Adds(entry)
      \/ \E w \in Analysts : WorkerActs(w)
  BY DEF Moves, RequestActs, AccountActs, WindowMoves, Stays, Quiet
<1> QED
  BY <1>1, <1>2, <1>3, EditsKeepBlocks, AddsKeepBlocks

-----------------------------------------------------------------------------
(* Bursts.                                                                 *)

\* The users of one address up to u, in the window.
Upto(u) == {v \in LiveLeads : lead[v].ip = lead[u].ip /\ v > old /\ v <= u}
Burst(u) == u > old /\ lead[u].ip # NoIp /\ Cardinality(Upto(u)) > High
Velocity95 == Score("velocity", 95)
Looking(w, u) == job[w].lead = u /\ job[w].pc \in {"self", "velocity"}
Found(w, u) ==
  /\ job[w].lead = u /\ job[w].pc \in {"record", "block"}
  /\ \E i \in DOMAIN job[w].found : job[w].found[i] = Velocity95
Coming(u) ==
  \/ pending[u] > 0
  \/ \E w \in Analysts : Looking(w, u) \/ Found(w, u)
  \/ Recorded(u, Velocity95) \in detection
\* The last of a burst is to be analysed, or found, or recorded.
BurstInv == \A u \in LiveLeads : Burst(u) /\ u \notin excused => Coming(u)

\* Rows stay where they are, with their address; a deleted one stays deleted.
LEMMA RowsStay ==
  ASSUME LeadsFit, Moves
  PROVE  /\ \A v \in DOMAIN lead : /\ v \in DOMAIN lead' /\ lead'[v].ip = lead[v].ip
                                   /\ v \in LiveLeads' => v \in LiveLeads
         /\ old' = old \/ old' = Len(lead)
<1>1. CASE lead' = lead
  <2>1. LiveLeads' = LiveLeads
    BY <1>1 DEF LiveLeads, Live
  <2> QED
    BY <1>1, <2>1
       DEF Moves, RequestActs, Quiet, AccountActs, WindowMoves, WorkerActs, Stays, Edits, Adds,
           Effect, Starts, Looks, Records, Blocks, Fails, Crashes
<1>2. ASSUME NEW u \in LiveLeads, NEW entry \in Row, entry.ip = lead[u].ip, lead' = [lead EXCEPT ![u] = entry]
      PROVE  \A v \in DOMAIN lead : /\ v \in DOMAIN lead' /\ lead'[v].ip = lead[v].ip
                                    /\ v \in LiveLeads' => v \in LiveLeads
  <2>1. u \in DOMAIN lead
    BY DEF LiveLeads
  <2>2. DOMAIN lead' = DOMAIN lead /\ lead'[u] = entry /\ \A v \in DOMAIN lead \ {u} : lead'[v] = lead[v]
    BY <1>2, <2>1
  <2> QED
    BY <1>2, <2>2 DEF LiveLeads, Live
<1>3. ASSUME NEW entry, Adds(entry)
      PROVE  \A v \in DOMAIN lead : /\ v \in DOMAIN lead' /\ lead'[v].ip = lead[v].ip
                                    /\ v \in LiveLeads' => v \in LiveLeads
  <2>1. DOMAIN lead = 1 .. Len(lead) /\ Len(lead) \in Nat
    BY LeadsAreNumbers
  <2>2. DOMAIN lead' = 1 .. Len(lead) + 1 /\ \A v \in DOMAIN lead : lead'[v] = lead[v]
    BY <1>3, AddsFit
  <2>3. DOMAIN lead \subseteq DOMAIN lead'
    BY <2>1, <2>2
  <2> QED
    BY <2>2, <2>3 DEF LiveLeads, Live
<1>4. \/ lead' = lead
      \/ /\ old' = old
         /\ \E u \in LiveLeads, entry \in Row : entry.ip = lead[u].ip /\ lead' = [lead EXCEPT ![u] = entry]
      \/ old' = old /\ \E entry : Adds(entry)
  <2>1. ASSUME NEW w \in Analysts, WorkerActs(w), lead' # lead
        PROVE  /\ old' = old
               /\ \E u \in LiveLeads, entry \in Row : entry.ip = lead[u].ip /\ lead' = [lead EXCEPT ![u] = entry]
    <3>1. Blocks(w)
      BY <2>1 DEF WorkerActs, Effect, Starts, Looks, Records, Fails, Crashes
    <3> QED
      BY <2>1, <3>1 DEF Blocks
  <2>2. ASSUME NEW u, NEW entry, Edits(u, entry)
        PROVE  /\ old' = old
               /\ \E v \in LiveLeads, r \in Row : r.ip = lead[v].ip /\ lead' = [lead EXCEPT ![v] = r]
    BY <2>2 DEF Edits
  <2>3. ASSUME NEW entry, Adds(entry) PROVE old' = old
    BY <2>3 DEF Adds
  <2> QED
    BY <2>1, <2>2, <2>3 DEF Moves, RequestActs, Quiet, AccountActs, WindowMoves, Stays
<1> QED
  BY <1>1, <1>2, <1>3, <1>4

\* What is a burst after a step was one before.
LEMMA BurstsShrink ==
  ASSUME LeadsFit, Moves, LeadsAssumption, NEW u \in DOMAIN lead, u \in LiveLeads', Burst(u)'
  PROVE  u \in LiveLeads /\ Burst(u)
<1>1. DOMAIN lead = 1 .. Len(lead) /\ Len(lead) \in Nat /\ IsFiniteSet(LiveLeads) /\ u \in Nat
  BY LeadsAreNumbers
<1>2. u \in DOMAIN lead' /\ lead'[u].ip = lead[u].ip /\ u \in LiveLeads
  BY RowsStay
<1>3. u > old'
  BY DEF Burst
<1>4. old' = old
  BY <1>1, <1>3, RowsStay
<1>5. Upto(u)' \subseteq Upto(u)
  <2> SUFFICES ASSUME NEW v \in Upto(u)' PROVE v \in Upto(u)
    OBVIOUS
  <2>1. v \in LiveLeads' /\ lead'[v].ip = lead'[u].ip /\ v > old' /\ v <= u
    BY DEF Upto
  <2>2. LeadsFit'
    BY MovesFit
  <2>3. v \in Nat /\ v >= 1
    <3>1. lead' \in Seq(Row)
      BY <2>2 DEF LeadsFit, LeadsTypeOK
    <3>2. v \in DOMAIN lead'
      BY <2>1 DEF LiveLeads
    <3> QED
      BY <3>1, <3>2
  <2>4. v \in DOMAIN lead
    BY <1>1, <2>1, <2>3
  <2>5. lead'[v].ip = lead[v].ip /\ v \in LiveLeads
    BY <2>1, <2>4, RowsStay
  <2> QED
    BY <1>2, <1>4, <2>1, <2>5 DEF Upto
<1>6. Upto(u) \subseteq LiveLeads
  BY DEF Upto
<1>7. IsFiniteSet(Upto(u))
  BY <1>1, <1>6, FS_Subset
<1>8. /\ Cardinality(Upto(u)') <= Cardinality(Upto(u)) /\ Cardinality(Upto(u)) \in Nat
      /\ Cardinality(Upto(u)') \in Nat
  BY <1>5, <1>7, FS_Subset, FS_CardinalityType
<1>9. Cardinality(Upto(u)') > High /\ lead'[u].ip # NoIp /\ High \in Nat
  BY DEF Burst, LeadsAssumption
<1>10. Cardinality(Upto(u)) > High
  BY <1>8, <1>9
<1> QED
  BY <1>2, <1>3, <1>4, <1>9, <1>10 DEF Burst

\* The check counts every user of the address in the window, those up to u among them.
LEMMA BurstIsFound ==
  ASSUME LeadsFit, LeadsAssumption, NEW u \in DOMAIN lead, Burst(u), NEW found, FindsBurst(u, found)
  PROVE  \E i \in DOMAIN found : found[i] = Velocity95
<1> DEFINE all == {v \in LiveLeads : lead[v].ip = lead[u].ip /\ v > old}
<1>1. Upto(u) \subseteq all /\ all \subseteq LiveLeads
  BY DEF Upto
<1>2. IsFiniteSet(all)
  BY <1>1, LeadsAreNumbers, FS_Subset
<1>3. CountRecentSignupsByIP(lead[u].ip) = Cardinality(all)
  BY DEF CountRecentSignupsByIP
<1> HIDE DEF all
<1>4. Cardinality(Upto(u)) <= Cardinality(all) /\ Cardinality(Upto(u)) \in Nat /\ Cardinality(all) \in Nat
  BY <1>1, <1>2, FS_Subset, FS_CardinalityType
<1>5. lead[u].ip # NoIp /\ Cardinality(Upto(u)) > High /\ High \in Nat
  BY DEF Burst, LeadsAssumption
<1>6. CountRecentSignupsByIP(lead[u].ip) > High
  BY <1>3, <1>4, <1>5
<1> QED
  BY <1>5, <1>6 DEF FindsBurst, Velocity95

\* The results after the first are those of the rest.
LEMMA RestOfResults ==
  ASSUME NEW found \in Seq(Result), NEW i \in DOMAIN found, i # 1
  PROVE  \E k \in DOMAIN Tail(found) : Tail(found)[k] = found[i]
<1>1. i \in 1 .. Len(found) /\ i > 1 /\ Len(found) \in Nat
  OBVIOUS
<1>2. found # <<>>
  BY <1>1
<1>3. Len(Tail(found)) = Len(found) - 1 /\ \A k \in 1 .. Len(found) - 1 : Tail(found)[k] = found[k + 1]
  BY <1>2
<1>4. i - 1 \in 1 .. Len(found) - 1 /\ (i - 1) + 1 = i
  BY <1>1
<1>5. DOMAIN Tail(found) = 1 .. Len(Tail(found))
  BY <1>2
<1> QED
  BY <1>3, <1>4, <1>5

\* What an analysis is to find, or found, it finds or records, unless it fails.
LEMMA WorkerFinds ==
  ASSUME LeadsFit, LeadsAssumption, NEW w \in Analysts, Effect(w), NEW u \in DOMAIN lead, Burst(u),
         Looking(w, u) \/ Found(w, u), u \notin excused'
  PROVE  Coming(u)'
<1>1. job[w] \in Job /\ Analyses(job[w]) /\ job[w].lead = u /\ u # NoOne /\ pending[u] \in Nat
  BY LeadsAreNumbers DEF LeadsFit, LeadsTypeOK, Looking, Found, NoOne
<1>2. ASSUME NEW found, Turns(w, found), \E i \in DOMAIN found : found[i] = Velocity95
      PROVE  Found(w, u)'
  <2>1. found # <<>>
    BY <1>2
  <2>2. job'[w].pc = "record" /\ job'[w].lead = u /\ job'[w].found = found
    BY <1>1, <1>2, <2>1 DEF Turns, Becomes
  <2> QED
    BY <1>2, <2>2 DEF Found
<1>3. CASE Crashes(w)
  <2>1. pending' = [pending EXCEPT ![u] = pending[u] + 1]
    BY <1>1, <1>3 DEF Crashes
  <2>2. pending'[u] > 0
    BY <1>1, <2>1, LeadsAreNumbers
  <2> QED
    BY <2>2 DEF Coming
<1>4. CASE Looks(w)
  <2>1. CASE job[w].pc = "self"
    <3>1. Looking(w, u)'
      BY <1>1, <1>4, <2>1 DEF Looks, Becomes, Looking
    <3> QED
      BY <3>1 DEF Coming
  <2>2. CASE job[w].pc # "self"
    <3>1. PICK found \in Seq(Result) : FindsBurst(u, found) /\ Turns(w, found)
      BY <1>1, <1>4, <2>2 DEF Looks
    <3>2. \E i \in DOMAIN found : found[i] = Velocity95
      BY <3>1, BurstIsFound
    <3>3. Found(w, u)'
      BY <1>2, <3>1, <3>2
    <3> QED
      BY <3>3 DEF Coming
  <2> QED
    BY <2>1, <2>2
<1>5. ASSUME Records(w) \/ Blocks(w)
      PROVE  Coming(u)'
  <2>1. PICK i \in DOMAIN job[w].found : job[w].found[i] = Velocity95
    BY <1>5 DEF Records, Blocks, Looking, Found
  <2>2. CASE i = 1
    <3>1. Recorded(u, Velocity95) \in detection'
      BY <1>1, <1>5, <2>1, <2>2 DEF Records, Blocks, Analyses
    <3> QED
      BY <3>1 DEF Coming
  <2>3. CASE i # 1
    <3>1. \E k \in DOMAIN Tail(job[w].found) : Tail(job[w].found)[k] = Velocity95
      BY <1>1, <2>1, <2>3, RestOfResults DEF Job
    <3>2. CASE Turns(w, Tail(job[w].found))
      <4>1. Found(w, u)'
        BY <1>2, <3>1, <3>2
      <4> QED
        BY <4>1 DEF Coming
    <3>3. CASE Becomes(w, "block", job[w].lead, job[w].found)
      <4>1. Found(w, u)'
        BY <1>1, <2>1, <3>3 DEF Becomes, Found
      <4> QED
        BY <4>1 DEF Coming
    <3> QED
      BY <1>5, <3>2, <3>3 DEF Records, Blocks
  <2> QED
    BY <2>2, <2>3
<1>6. ~Fails(w)
  BY <1>1 DEF Fails
<1>7. \A v : ~Starts(w, v)
  BY DEF Starts, Looking, Found
<1> QED
  BY <1>3, <1>4, <1>5, <1>6, <1>7 DEF Effect

\* What is to come of a burst stays to come, or comes.
LEMMA ComingStays ==
  ASSUME LeadsFit, LeadsAssumption, Moves, NEW u \in DOMAIN lead, Burst(u), Coming(u), u \notin excused'
  PROVE  Coming(u)'
<1>1. ASSUME detection \subseteq detection', job' = job, pending'[u] = pending[u] PROVE Coming(u)'
  BY <1>1 DEF Coming, Looking, Found
<1>2. CASE UNCHANGED <<detection, job, pending>>
  BY <1>1, <1>2
<1>3. ASSUME NEW entry, Adds(entry) PROVE Coming(u)'
  <2>1. pending'[u] = pending[u]
    BY <1>3, AddsFit
  <2> QED
    BY <1>1, <1>3, <2>1 DEF Adds
<1>4. ASSUME NEW w \in Analysts, WorkerActs(w) PROVE Coming(u)'
  <2>1. Effect(w) /\ \A x \in Analysts \ {w} : job'[x] = job[x]
    BY <1>4, OthersWait DEF WorkerActs
  <2>2. CASE pending[u] > 0
    <3>1. pending[u] \in Nat /\ u # NoOne /\ u \in DOMAIN pending
      BY LeadsAreNumbers DEF NoOne
    <3>2. ASSUME NEW v, Starts(w, v) PROVE Coming(u)'
      <4>1. CASE v = u
        <5>1. Becomes(w, "self", u, <<>>)
          BY <3>2, <4>1 DEF Starts
        <5>2. Looking(w, u)'
          BY <5>1 DEF Becomes, Looking
        <5> QED
          BY <5>2 DEF Coming
      <4>2. CASE v # u
        <5>1. pending'[u] = pending[u]
          BY <3>1, <3>2, <4>2 DEF Starts
        <5> QED
          BY <2>2, <5>1 DEF Coming
      <4> QED
        BY <4>1, <4>2
    <3>3. ASSUME Crashes(w) PROVE Coming(u)'
      <4>1. pending' = [pending EXCEPT ![job[w].lead] = pending[job[w].lead] + 1]
        BY <3>3 DEF Crashes
      <4>2. pending'[u] > 0
        BY <2>2, <3>1, <4>1
      <4> QED
        BY <4>2 DEF Coming
    <3>4. CASE pending' = pending
      BY <2>2, <3>4 DEF Coming
    <3> QED
      BY <2>1, <3>2, <3>3, <3>4 DEF Effect, Looks, Records, Blocks, Fails
  <2>3. CASE Recorded(u, Velocity95) \in detection
    <3>1. detection \subseteq detection'
      BY <2>1 DEF Effect, Starts, Looks, Records, Blocks, Fails, Crashes
    <3> QED
      BY <2>3, <3>1 DEF Coming
  <2>4. ASSUME NEW x \in Analysts, Looking(x, u) \/ Found(x, u) PROVE Coming(u)'
    <3>1. CASE x = w
      BY <2>1, <2>4, <3>1, WorkerFinds
    <3>2. CASE x # w
      <4>1. Looking(x, u)' \/ Found(x, u)'
        BY <2>1, <2>4, <3>2 DEF Looking, Found
      <4> QED
        BY <4>1 DEF Coming
    <3> QED
      BY <3>1, <3>2
  <2> QED
    BY <2>2, <2>3, <2>4 DEF Coming
<1>5. \/ UNCHANGED <<detection, job, pending>>
      \/ \E entry : Adds(entry)
      \/ \E w \in Analysts : WorkerActs(w)
  BY DEF Moves, RequestActs, AccountActs, WindowMoves, Stays, Quiet, Edits
<1> QED
  BY <1>2, <1>3, <1>4, <1>5

\* Nobody excused is excused no longer.
LEMMA ExcusesStay ==
  ASSUME Moves
  PROVE  excused \subseteq excused'
BY DEF Moves, RequestActs, AccountActs, WindowMoves, Stays, Quiet, Edits, Adds, WorkerActs,
       Effect, Starts, Looks, Records, Blocks, Fails, Crashes

\* No step but the addition of a row changes which rows there are.
LEMMA OnlyAddsGrow ==
  ASSUME LeadsFit, Moves, DOMAIN lead' # DOMAIN lead
  PROVE  \E entry : Adds(entry)
<1>1. ASSUME NEW v \in DOMAIN lead, NEW entry, lead' = [lead EXCEPT ![v] = entry] PROVE DOMAIN lead' = DOMAIN lead
  BY <1>1 DEF LeadsFit, LeadsTypeOK
<1>2. ASSUME NEW w \in Analysts, WorkerActs(w) PROVE DOMAIN lead' = DOMAIN lead
  <2>1. lead' = lead \/ \E v \in DOMAIN lead, entry \in Row : lead' = [lead EXCEPT ![v] = entry]
    BY <1>2 DEF WorkerActs, Effect, Starts, Looks, Records, Blocks, Fails, Crashes, LiveLeads
  <2> QED
    BY <1>1, <2>1
<1>3. ASSUME NEW v, NEW entry, Edits(v, entry) PROVE DOMAIN lead' = DOMAIN lead
  BY <1>1, <1>3 DEF Edits, LiveLeads
<1> QED
  BY <1>2, <1>3 DEF Moves, RequestActs, Quiet, AccountActs, WindowMoves, Stays

\* Every step keeps the invariant of the bursts.
LEMMA BurstsKept ==
  ASSUME LeadsFit, LeadsAssumption, BurstInv, Moves
  PROVE  BurstInv'
<1> SUFFICES ASSUME NEW u \in LiveLeads', Burst(u)', u \notin excused' PROVE Coming(u)'
  BY DEF BurstInv
<1>1. CASE u \in DOMAIN lead
  <2>1. u \in LiveLeads /\ Burst(u)
    BY <1>1, BurstsShrink
  <2>2. u \notin excused
    BY ExcusesStay
  <2>3. Coming(u)
    BY <2>1, <2>2 DEF BurstInv
  <2> QED
    BY <1>1, <2>1, <2>3, ComingStays
<1>2. CASE u \notin DOMAIN lead
  <2>1. u \in DOMAIN lead'
    BY DEF LiveLeads
  <2>2. DOMAIN lead' # DOMAIN lead
    BY <1>2, <2>1
  <2>3. \E entry : Adds(entry)
    BY <2>2, OnlyAddsGrow
  <2>4. PICK entry : Adds(entry)
    BY <2>3
  <2>5. /\ DOMAIN lead = 1 .. Len(lead) /\ Len(lead) \in Nat /\ DOMAIN lead' = 1 .. Len(lead) + 1
        /\ pending'[Len(lead) + 1] > 0 \/ Len(lead) + 1 \in excused'
    BY <2>4, AddsFit, LeadsAreNumbers
  <2>6. u = Len(lead) + 1
    BY <1>2, <2>1, <2>5
  <2> QED
    BY <2>5, <2>6 DEF Coming
<1> QED
  BY <1>1, <1>2

\* The greatest of a finite set of numbers is in it, and none is above.
LEMMA MaxIsGreatest ==
  ASSUME NEW n \in Nat, NEW S \in SUBSET (1 .. n), S # {}
  PROVE  Max(S) \in S /\ \A x \in S : x <= Max(S)
<1> DEFINE T == {n - x : x \in S}
<1>1. T \subseteq Nat /\ T # {}
  <2>1. \A x \in 1 .. n : n - x \in Nat
    OBVIOUS
  <2> QED
    BY <2>1
<1>2. PICK t \in T : \A y \in T : ~(<<y, t>> \in OpToRel(<, Nat))
  BY <1>1, NatLessThanWellFounded, WFMin
<1>3. PICK m \in S : t = n - m
  OBVIOUS
<1>4. \A x \in S : ~(n - x < n - m)
  <2> SUFFICES ASSUME NEW x \in S PROVE ~(n - x < n - m)
    OBVIOUS
  <2>1. n - x \in T /\ n - x \in Nat /\ n - m \in Nat
    OBVIOUS
  <2> QED
    BY <1>2, <1>3, <2>1 DEF OpToRel
<1>5. \A x \in S : m >= x
  <2> SUFFICES ASSUME NEW x \in S PROVE m >= x
    OBVIOUS
  <2>1. x \in 1 .. n /\ m \in 1 .. n
    OBVIOUS
  <2> QED
    BY <1>4, <2>1
<1>6. \E y \in S : \A x \in S : y >= x
  BY <1>5
<1>7. Max(S) \in S /\ \A x \in S : Max(S) >= x
  BY <1>6 DEF Max
<1> QED
  BY <1>7

\* The newest of a burst is the last up to itself.
LEMMA BurstsCaught ==
  ASSUME LeadsFit, LeadsAssumption, BurstInv
  PROVE  BurstsAreCaught
<1> SUFFICES ASSUME NEW ip \in Ips
             PROVE  LET burst == {u \in LiveLeads : lead[u].ip = ip /\ u > old}
                        newest == Max(burst)
                    IN  Cardinality(burst) > High /\ newest \notin excused /\ ~Analysing(newest)
                        /\ pending[newest] = 0 => \E d \in Frauds(newest) : d.type = "velocity"
  BY DEF BurstsAreCaught
<1> DEFINE burst == {u \in LiveLeads : lead[u].ip = ip /\ u > old}
           newest == Max(burst)
<1> SUFFICES ASSUME Cardinality(burst) > High, newest \notin excused, ~Analysing(newest), pending[newest] = 0
             PROVE  \E d \in Frauds(newest) : d.type = "velocity"
  OBVIOUS
<1>0. Cardinality(burst) > High
  OBVIOUS
<1>1. High \in Nat
  BY LeadsAssumption DEF LeadsAssumption
<1>2. burst \subseteq 1 .. Len(lead) /\ Len(lead) \in Nat /\ burst \subseteq LiveLeads
  BY LeadsAreNumbers
<1>3. burst # {}
  <2>1. Cardinality({}) = 0
    BY FS_EmptySet
  <2> HIDE DEF burst
  <2>2. Cardinality(burst) # 0
    BY <1>0, <1>1
  <2> QED
    BY <2>1, <2>2
<1>4. newest \in burst /\ \A v \in burst : v <= newest
  BY <1>2, <1>3, MaxIsGreatest
<1>5. newest \in LiveLeads /\ lead[newest].ip = ip /\ newest > old
  BY <1>4
<1>6. Upto(newest) = burst
  BY <1>4, <1>5 DEF Upto
<1>7. ip # NoIp
  BY DEF LeadsAssumption
<1> HIDE DEF burst, newest
<1>8. Burst(newest)
  BY <1>0, <1>1, <1>5, <1>6, <1>7 DEF Burst
<1>9. Coming(newest)
  BY <1>5, <1>8 DEF BurstInv
<1>10. Recorded(newest, Velocity95) \in detection
  BY <1>9 DEF Coming, Looking, Found, Analysing
<1>11. Recorded(newest, Velocity95) \in Frauds(newest) /\ Recorded(newest, Velocity95).type = "velocity"
  BY <1>10 DEF Frauds, Recorded, Velocity95, Score, AutoBlockThreshold
<1> QED
  BY <1>11

-----------------------------------------------------------------------------
(* The leads limit.                                                        *)

\* What the import that counted last may still add.
Left == IF last \in Requests /\ req[last].quota > 0 THEN req[last].quota ELSE 0
ImportInv == Cardinality(LiveLeads \ apart) + Left <= LeadsLimit

\* Of users fewer or as many as before, no more are counted.
LEMMA CountsFall ==
  ASSUME NEW S, NEW T, IsFiniteSet(S), T \subseteq S
  PROVE  IsFiniteSet(T) /\ Cardinality(T) <= Cardinality(S) /\ Cardinality(T) \in Nat /\ Cardinality(S) \in Nat
BY FS_Subset, FS_CardinalityType

\* What is left to an import is a number.
LEMMA LeftIsNumber ==
  ASSUME LeadsFit
  PROVE  Left \in Nat
BY DEF Left, LeadsFit, LeadsTypeOK, LeadRequest

\* Every step keeps the invariant of the imports.
LEMMA ImportsKept ==
  ASSUME LeadsFit, LeadsAssumption, ImportInv, Moves
  PROVE  ImportInv'
<1> DEFINE own == LiveLeads \ apart
<1>1. IsFiniteSet(LiveLeads) /\ IsFiniteSet(own) /\ Cardinality(own) \in Nat /\ Cardinality(LiveLeads) \in Nat
  <2>1. IsFiniteSet(LiveLeads) /\ own \subseteq LiveLeads
    BY LeadsAreNumbers
  <2> QED
    BY <2>1, FS_Subset, FS_CardinalityType
<1>2. Left \in Nat /\ Left' \in Nat /\ LeadsLimit \in Nat
  <2>1. LeadsFit'
    BY MovesFit
  <2>2. Left' \in Nat
    BY <2>1 DEF Left, LeadsFit, LeadsTypeOK, LeadRequest
  <2> QED
    BY <2>2, LeftIsNumber DEF LeadsAssumption
<1>3. Cardinality(own) + Left <= LeadsLimit
  BY DEF ImportInv
<1>4. ASSUME own' \subseteq own, Left' <= Left PROVE ImportInv'
  <2>1. Cardinality(own') <= Cardinality(own) /\ Cardinality(own') \in Nat
    BY <1>1, <1>4, CountsFall
  <2> QED
    BY <1>1, <1>2, <1>3, <1>4, <2>1 DEF ImportInv
\* Everything but an import's beginning and its rows.
<1>5. ASSUME UNCHANGED <<last, apart>>, LiveLeads' \subseteq LiveLeads,
             req' = req \/ (\E r \in Requests : LeadRequestMoves(r) /\ req'[r].quota \in {req[r].quota, -1})
      PROVE  ImportInv'
  <2>1. own' \subseteq own
    BY <1>5
  <2>2. CASE req' = req
    <3>1. Left' = Left
      BY <1>5, <2>2 DEF Left
    <3> QED
      BY <1>2, <1>4, <2>1, <3>1
  <2>3. ASSUME NEW r \in Requests, LeadRequestMoves(r), req'[r].quota \in {req[r].quota, -1} PROVE ImportInv'
    <3>1. CASE req'[last].quota = req[last].quota
      <4>1. Left' = Left
        BY <1>5, <3>1 DEF Left
      <4> QED
        BY <1>2, <1>4, <2>1, <4>1
    <3>2. CASE last = r /\ req'[last].quota = -1
      <4>1. Left' = 0
        BY <1>5, <3>2 DEF Left
      <4> QED
        BY <1>2, <1>4, <2>1, <4>1
    <3>3. CASE last \notin Requests
      <4>1. Left' = Left
        BY <1>5, <3>3 DEF Left
      <4> QED
        BY <1>2, <1>4, <2>1, <4>1
    <3>4. last \in Requests => req'[last].quota = req[last].quota \/ (last = r /\ req'[last].quota = -1)
      BY <2>3 DEF LeadRequestMoves
    <3> QED
      BY <3>1, <3>2, <3>3, <3>4
  <2> QED
    BY <1>5, <2>2, <2>3
<1>6. lead' = lead => LiveLeads' = LiveLeads
  BY DEF LiveLeads, Live
\* An import that begins counts everybody.
<1>8. ASSUME NEW r \in Requests, lead' = lead, CanAdd > 0, last' = r, apart' = {}, req'[r].quota = CanAdd
      PROVE  ImportInv'
  <2>1. CanAdd = LeadsLimit - Cardinality(LiveLeads)
    BY DEF CanAdd, CountWaitlistUsersByCampaign
  <2>2. Left' = CanAdd
    BY <1>8 DEF Left
  <2>3. own' = LiveLeads
    BY <1>6, <1>8
  <2>4. Cardinality(LiveLeads) + CanAdd <= LeadsLimit
    BY <1>1, <1>2, <2>1
  <2>5. Cardinality(own') + Left' <= LeadsLimit
    BY <2>2, <2>3, <2>4
  <2> QED
    BY <2>5 DEF ImportInv
\* A row is added by that import, or beside it.
<1>9. ASSUME NEW r \in Requests, LeadRequestMoves(r), NEW entry, Adds(entry), Counts(r) PROVE ImportInv'
  <2> DEFINE new == Len(lead) + 1
             q == req[r].quota
  <2>1. LiveLeads' \subseteq LiveLeads \cup {new}
    <3>1. lead' \in Seq(Row) /\ DOMAIN lead' = DOMAIN lead \cup {new}
      <4>1. DOMAIN lead = 1 .. Len(lead) /\ Len(lead) \in Nat
        BY LeadsAreNumbers
      <4>2. lead' \in Seq(Row) /\ DOMAIN lead' = 1 .. Len(lead) + 1
        BY <1>9, AddsFit
      <4> QED
        BY <4>1, <4>2
    <3>2. \A v \in DOMAIN lead : v \in LiveLeads' => v \in LiveLeads
      BY RowsStay
    <3>3. LiveLeads' \subseteq DOMAIN lead'
      BY DEF LiveLeads
    <3> QED
      BY <3>1, <3>2, <3>3
  <2> HIDE DEF new
  <2>2. q \in Nat \cup {-1} /\ q # 0
    BY <1>9 DEF Counts, LeadsFit, LeadsTypeOK, LeadRequest
  <2>3. last' = last /\ req'[r].quota = (IF q < 0 THEN -1 ELSE q - 1)
        /\ apart' = (IF q < 0 \/ r # last THEN apart \cup {new} ELSE apart)
    BY <1>9 DEF Counts, new
  <2>4. CASE q < 0 \/ r # last
    <3>1. own' \subseteq own
      BY <2>1, <2>3, <2>4
    <3>2. CASE last \in Requests \ {r} \/ last \notin Requests
      <4>1. Left' = Left
        BY <1>9, <2>3, <3>2 DEF Left, LeadRequestMoves
      <4> QED
        BY <1>2, <1>4, <3>1, <4>1
    <3>3. CASE last = r
      <4>1. Left' = 0
        BY <2>3, <2>4, <3>3 DEF Left
      <4> QED
        BY <1>2, <1>4, <3>1, <4>1
    <3> QED
      BY <3>2, <3>3
  <2>5. CASE ~(q < 0) /\ r = last
    <3>1. q \in Nat /\ q > 0 /\ Left = q /\ Left' = q - 1
      BY <2>2, <2>3, <2>5 DEF Left
    <3>2. own' \subseteq own \cup {new}
      BY <2>1, <2>3, <2>5
    <3>3. Cardinality(own \cup {new}) <= Cardinality(own) + 1 /\ IsFiniteSet(own \cup {new})
          /\ Cardinality(own \cup {new}) \in Nat
      <4> HIDE DEF own
      <4>1. IsFiniteSet(own \cup {new})
        BY <1>1, FS_AddElement
      <4>2. Cardinality(own \cup {new}) \in Nat
        BY <4>1, FS_CardinalityType
      <4>3. Cardinality(own \cup {new}) <= Cardinality(own) + 1
        <5>1. Cardinality(own \cup {new}) = IF new \in own THEN Cardinality(own) ELSE Cardinality(own) + 1
          BY <1>1, FS_AddElement
        <5> QED
          BY <1>1, <5>1
      <4> QED
        BY <4>1, <4>2, <4>3
    <3>4. Cardinality(own') <= Cardinality(own \cup {new}) /\ Cardinality(own') \in Nat
      BY <3>2, <3>3, CountsFall
    <3> QED
      BY <1>1, <1>2, <1>3, <3>1, <3>3, <3>4 DEF ImportInv
  <2> QED
    BY <2>4, <2>5
<1> HIDE DEF own
<1>10. ASSUME NEW r \in Requests, RequestActs(r) PROVE ImportInv'
  <2>1. LeadRequestMoves(r)
    BY <1>10 DEF RequestActs
  <2>2. CASE Quiet /\ imports' = imports /\ req'[r].quota = -1
    BY <1>5, <1>6, <2>1, <2>2 DEF Quiet, imports
  <2>3. CASE Quiet /\ CanAdd > 0 /\ last' = r /\ apart' = {} /\ req'[r].quota = CanAdd
    BY <1>8, <2>3 DEF Quiet
  <2>4. CASE Quiet /\ Keeps(r)
    BY <1>5, <1>6, <2>1, <2>4 DEF Quiet, Keeps, imports
  <2>5. ASSUME NEW u, NEW entry, Edits(u, entry), Keeps(r) PROVE ImportInv'
    <3>1. DOMAIN lead' = DOMAIN lead
      BY <2>5, EditsFit, LeadsAreNumbers DEF Edits
    <3>2. LiveLeads' \subseteq LiveLeads
      BY <3>1, RowsStay DEF LiveLeads
    <3> QED
      BY <1>5, <2>1, <2>5, <3>2 DEF Keeps, imports
  <2>6. ASSUME NEW entry, Adds(entry), Counts(r) PROVE ImportInv'
    BY <1>9, <2>1, <2>6
  <2> QED
    BY <1>10, <2>2, <2>3, <2>4, <2>5, <2>6 DEF RequestActs
<1>11. ASSUME UNCHANGED <<req, last, apart>>, DOMAIN lead' = DOMAIN lead PROVE ImportInv'
  <2>1. LiveLeads' \subseteq LiveLeads
    BY <1>11, RowsStay DEF LiveLeads
  <2> QED
    BY <1>5, <1>11, <2>1
<1>12. ASSUME AccountActs \/ WindowMoves \/ Stays \/ (\E w \in Analysts : WorkerActs(w)) PROVE ImportInv'
  <2>1. UNCHANGED <<req, last, apart>>
    BY <1>12 DEF AccountActs, WindowMoves, Stays, WorkerActs
  <2>2. ASSUME NEW v \in DOMAIN lead, NEW entry, lead' = [lead EXCEPT ![v] = entry]
        PROVE  DOMAIN lead' = DOMAIN lead
    BY <2>2 DEF LeadsFit, LeadsTypeOK
  <2>3. lead' = lead \/ \E v \in DOMAIN lead, entry \in Row : lead' = [lead EXCEPT ![v] = entry]
    <3>1. ASSUME NEW w \in Analysts, WorkerActs(w)
          PROVE  lead' = lead \/ \E v \in DOMAIN lead, entry \in Row : lead' = [lead EXCEPT ![v] = entry]
      BY <3>1 DEF WorkerActs, Effect, Starts, Looks, Records, Blocks, Fails, Crashes, LiveLeads
    <3>2. CASE AccountActs
      BY <3>2 DEF AccountActs, Edits, LiveLeads
    <3> QED
      BY <1>12, <3>1, <3>2 DEF WindowMoves, Stays
  <2> QED
    BY <1>11, <2>1, <2>2, <2>3
<1> QED
  BY <1>10, <1>12 DEF Moves

\* The invariant bounds what an import adds.
LEMMA ImportsLimited ==
  ASSUME LeadsFit, LeadsAssumption, ImportInv
  PROVE  ImportsWithinLimit
<1> DEFINE own == LiveLeads \ apart
<1>1. IsFiniteSet(LiveLeads) /\ own \subseteq LiveLeads
  BY LeadsAreNumbers
<1>2. Cardinality(own) \in Nat
  BY <1>1, FS_Subset, FS_CardinalityType
<1>3. Left \in Nat /\ LeadsLimit \in Nat
  BY LeftIsNumber DEF LeadsAssumption
<1>4. Cardinality(own) + Left <= LeadsLimit
  BY DEF ImportInv
<1> HIDE DEF own
<1>5. Cardinality(own) <= LeadsLimit
  BY <1>2, <1>3, <1>4
<1> QED
  BY <1>5 DEF ImportsWithinLimit, own

-----------------------------------------------------------------------------
(* The theorems about the users.                                           *)

\* The inductive invariant.
LeadsInv == LeadsFit /\ BlockInv /\ BurstInv /\ ImportInv

\* The invariant holds at first,
LEMMA LeadsInvInit == LeadsAssumption /\ LeadsInit => LeadsInv
<1> SUFFICES ASSUME LeadsAssumption, LeadsInit PROVE LeadsInv
  OBVIOUS
<1>1. lead = <<>> /\ req = [r \in Requests |-> Idle]
  BY DEF LeadsInit
<1>2. DOMAIN lead = {} /\ LiveLeads = {}
  BY <1>1 DEF LiveLeads
<1>3. BlockInv /\ BurstInv
  BY <1>2 DEF BlockInv, BurstInv
<1>4. LiveLeads \ apart = {}
  BY <1>2
<1>5. Left = 0
  BY <1>1, IdleFits DEF Left
<1>6. ImportInv
  BY <1>4, <1>5, FS_EmptySet DEF ImportInv, LeadsAssumption
<1> QED
  BY <1>3, <1>6, LeadsInitFits DEF LeadsInv

\* and of every step.
LEMMA LeadsInvHolds == LeadsSpec => []LeadsInv
<1>1. LeadsInit => LeadsInv
  BY LeadsInvInit, LeadsAssumption
<1>2. LeadsInv /\ [LeadsNext]_leadsVars => LeadsInv'
  <2> SUFFICES ASSUME LeadsInv, [LeadsNext]_leadsVars PROVE LeadsInv'
    OBVIOUS
  <2>1. LeadsFit /\ BlockInv /\ BurstInv /\ ImportInv
    BY DEF LeadsInv
  <2>2. Moves
    BY <2>1, EveryStepMoves, LeadsAssumption
  <2>3. LeadsFit' /\ BlockInv'
    BY <2>1, <2>2, MovesFit, BlocksKept
  <2>4. BurstInv' /\ ImportInv'
    BY <2>1, <2>2, BurstsKept, ImportsKept, LeadsAssumption
  <2> QED
    BY <2>3, <2>4 DEF LeadsInv
<1> QED
  BY <1>1, <1>2, PTL DEF LeadsSpec

\* Rows, requests and analyses keep their types; an analysis that blocks is of a
\* result that is recorded (processResult).
THEOREM LeadsTypeCorrect == LeadsSpec => []LeadsFit
<1>1. LeadsInv => LeadsFit
  BY DEF LeadsInv
<1> QED
  BY <1>1, LeadsInvHolds, PTL

\* Unless the account wrote the status since, a user is blocked if and only if a
\* detection of high confidence is recorded and its analysis is over, failures and
\* processes that ended between the two apart (processResult, VerifyWaitlistUserEmail).
THEOREM BlocksFollowDetections == LeadsSpec => []BlockedForFraud
<1>1. LeadsInv => BlockedForFraud
  BY DEF LeadsInv, BlockInv, BlockedForFraud, LiveLeads, Analysing, Blocking
<1> QED
  BY <1>1, LeadsInvHolds, PTL

\* Of a burst of sign-ups from one address the newest has a detection of velocity once
\* it was analysed, whatever ran beside the analysis (checkVelocity).
THEOREM LastOfABurstIsCaught == LeadsSpec => []BurstsAreCaught
<1>1. LeadsInv => BurstsAreCaught
  BY BurstsCaught, LeadsAssumption DEF LeadsInv
<1> QED
  BY <1>1, LeadsInvHolds, PTL

\* What the import that counted last found and added is within the limit of the plan
\* (CheckLeadsLimit, importFromCSV).
THEOREM ImportsStayWithinLimit == LeadsSpec => []ImportsWithinLimit
<1>1. LeadsInv => ImportsWithinLimit
  BY ImportsLimited, LeadsAssumption DEF LeadsInv
<1> QED
  BY <1>1, LeadsInvHolds, PTL
=============================================================================
