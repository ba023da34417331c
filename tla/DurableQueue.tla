---------------------------- MODULE DurableQueue ----------------------------
(***************************************************************************)
(* What an event topic promises its consumer group, with the machinery of  *)
(* internal/workers/consumer.go hidden: events are published in order, the *)
(* group decides each of them at least once (it is handled, or handling it *)
(* failed), and the position acknowledged to the broker only moves         *)
(* forward, over events that have all been decided.                        *)
(***************************************************************************)
EXTENDS Naturals

CONSTANT MaxOffset  \* bound on the number of events published

VARIABLES
  published,  \* offset of the last event on the topic, 0 when empty
  decided,    \* offsets handled, or failed, at least once
  acked       \* the group's position: the next offset after a restart

qvars == <<published, decided, acked>>

QInit ==
  /\ published = 0
  /\ decided = {}
  /\ acked = 1

QPublish ==
  /\ published < MaxOffset
  /\ published' = published + 1
  /\ UNCHANGED <<decided, acked>>

\* Deciding an event again is allowed: delivery is at least once.
QDecide ==
  /\ \E o \in 1 .. published : decided' = decided \cup {o}
  /\ UNCHANGED <<published, acked>>

QAck ==
  /\ \E o \in acked .. published :
       /\ 1 .. o \subseteq decided
       /\ acked' = o + 1
  /\ UNCHANGED <<published, decided>>

QNext == QPublish \/ QDecide \/ QAck

QSpec == QInit /\ [][QNext]_qvars
=============================================================================
