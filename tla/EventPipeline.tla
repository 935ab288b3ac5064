--------------------------- MODULE EventPipeline ---------------------------
(***************************************************************************)
(* The outbox dispatchers and the consumers of one group, joined by the    *)
(* Kafka partition that the former append to and the latter read.          *)
(***************************************************************************)
EXTENDS Integers, Sequences, FiniteSets

CONSTANTS
  Rows, Dispatchers, NoDispatcher, NoRow, AggregateOf, Poison, MaxFaults,
  Orphans, Malformed, Consumers, Nobody, MaxRetries, WithDlq, Stalls, MaxLog,
  MaxConsumerFaults

VARIABLES
  row, created, before, lock, pc, cur, connected, stopping, stray, faults,
  log,
  committed, owner, status, token, live, dead, dlq, cpc, pos, off, att, cfaults

Outbox == INSTANCE OutboxDispatcher
Consumer == INSTANCE EventConsumer
              WITH Events <- Rows, MaxFaults <- MaxConsumerFaults, pc <- cpc, faults <- cfaults

\* The variables of each side apart from the partition they share.
outboxOwn == <<row, created, before, lock, pc, cur, connected, stopping, stray, faults>>
consumerOwn == <<committed, owner, status, token, live, dead, dlq, cpc, pos, off, att, cfaults>>
pipelineVars == <<outboxOwn, log, consumerOwn>>

\* The marker values are none of what they mark, and the partition is long
\* enough for one append per row and one per fault.
ASSUME PipelineAssumption ==
  /\ NoDispatcher \notin Dispatchers
  /\ NoRow \notin Rows
  /\ Poison \subseteq Rows
  /\ Malformed \notin Rows
  /\ MaxFaults \in Nat
  /\ MaxLog = Cardinality(Rows) + MaxFaults

PipelineInit == Outbox!OutboxInit /\ Consumer!ConsumerInit

OutboxSide == Outbox!OutboxNext /\ UNCHANGED consumerOwn
ConsumerSide == Consumer!ConsumerStep /\ UNCHANGED outboxOwn

PipelineNext == OutboxSide \/ ConsumerSide

PipelineSpec == PipelineInit /\ [][PipelineNext]_pipelineVars

\* The fairness of the two sides, each over its own steps.
PipelineFairness ==
  /\ \A d \in Dispatchers : WF_pipelineVars(Outbox!DispatcherProgress(d) /\ UNCHANGED consumerOwn)
  /\ \A c \in Consumers :
       /\ WF_pipelineVars(Consumer!ConsumerProgress(c) /\ UNCHANGED outboxOwn)
       /\ SF_pipelineVars(Consumer!Join(c) /\ UNCHANGED outboxOwn)
  /\ \A k \in Consumer!UsedKeys : WF_pipelineVars(Consumer!LeaseExpires(k) /\ UNCHANGED outboxOwn)

PipelineFairSpec == PipelineSpec /\ PipelineFairness

-----------------------------------------------------------------------------
(* The promise: EventDelivery, under the mapping of outbox row and ledger. *)

LifeOf(e) ==
  CASE row[e] \in {"absent", "staged"} -> "open"
    [] row[e] = "discarded" -> "discarded"
    [] row[e] \in Outbox!Committed /\ status[e] \notin Consumer!Terminal -> "accepted"
    [] row[e] \in Outbox!Committed /\ status[e] \in Consumer!Terminal -> "settled"

Delivery == INSTANCE EventDelivery WITH life <- [e \in Rows |-> LifeOf(e)]

\* Dispatchers and consumers together implement EventDelivery: only committed
\* events are settled, once and for all, despite duplicates and crashes.
ImplementsDelivery == Delivery!DeliverySpec

\* With one dispatcher, events of one aggregate whose transactions followed one
\* another reach the consumers in that order, duplicates apart.
PartitionOrder == Outbox!AggregateOrder

\* With finitely many faults, every event of a committed transaction reaches a
\* durable outcome.
EveryEventSettled == \A e \in Rows : (row[e] = "pending") ~> (status[e] \in Consumer!Terminal)
=============================================================================
