-------------------------- MODULE OutboxDispatcher --------------------------
(***************************************************************************)
(* The transactional outbox: business transactions that enqueue an event   *)
(* row (src/src/erp/events/outbox.py), and the OutboxDispatcher loops of   *)
(* the API processes that publish committed rows to Kafka                  *)
(* (src/src/erp/events/dispatcher.py, producer.py, api/app.py lifespan).   *)
(*                                                                         *)
(* One step is one database statement or one broker interaction, so other  *)
(* dispatchers, crashes and shutdowns interleave between them.  The log is *)
(* one Kafka partition: rows of one aggregate share topic and key.         *)
(***************************************************************************)
EXTENDS Integers, Sequences, FiniteSets, Functions

CONSTANTS
  Rows,          \* outbox rows (outbox_id, the stable event_id on the wire)
  Dispatchers,   \* API processes that run OutboxDispatcher.run
  NoDispatcher,  \* "no holder" of a row lock
  NoRow,         \* "no row" claimed
  AggregateOf,   \* AggregateOf[e]: the aggregate row e belongs to
  Poison,        \* rows the producer can never send (larger than the broker's limit)
  MaxFaults      \* bound: failed sends, failed commits, crashes and stops explored

ASSUME OutboxAssumption ==
  /\ NoDispatcher \notin Dispatchers
  /\ NoRow \notin Rows
  /\ Poison \subseteq Rows
  /\ MaxFaults \in Nat

VARIABLES
  row,       \* row[e]: life of the outbox row in the database
  created,   \* rows in the order of created_at (clock_timestamp at INSERT)
  before,    \* history: before[e] is the set of rows committed when e was inserted
  lock,      \* lock[e]: dispatcher whose open transaction locks the row
  pc,        \* pc[d]: where dispatcher d is in run/dispatch_once/send_event
  cur,       \* cur[d]: the row dispatcher d has claimed
  connected, \* connected[d]: event_producer.is_connected in d's process
  stopping,  \* stopping[d]: outbox_stop is set
  stray,     \* stray[e]: requests for e still on the network, their sender gone
  log,       \* the Kafka partition: event ids in the order the broker appended
  faults     \* faults so far, at most MaxFaults

outboxVars == <<row, created, before, lock, pc, cur, connected, stopping,
                stray, log, faults>>
dbVars == <<row, created, before>>
processVars == <<connected, stopping>>

-----------------------------------------------------------------------------
RowState == {"absent", "staged", "discarded", "pending", "processed"}

\* off: task not running          idle: top of the while loop
\* claimed: row locked            sending: send_and_wait, not yet appended
\* appended: the broker has it    acked: send_event returned True
\* failed: send_event returned False
DispatcherPC == {"off", "idle", "claimed", "sending", "appended", "acked", "failed"}

\* Program points inside dispatch_once's transaction, with the row locked.
Holding == {"claimed", "sending", "appended", "acked", "failed"}

Committed == {"pending", "processed"}

OutboxTypeOK ==
  /\ row \in [Rows -> RowState]
  /\ created \in Seq(Rows)
  /\ before \in [Rows -> SUBSET Rows]
  /\ lock \in [Rows -> Dispatchers \cup {NoDispatcher}]
  /\ pc \in [Dispatchers -> DispatcherPC]
  /\ cur \in [Dispatchers -> Rows \cup {NoRow}]
  /\ connected \in [Dispatchers -> BOOLEAN]
  /\ stopping \in [Dispatchers -> BOOLEAN]
  /\ stray \in [Rows -> Nat]
  /\ log \in Seq(Rows)
  /\ faults \in Nat

OutboxInit ==
  /\ row = [e \in Rows |-> "absent"]
  /\ created = <<>>
  /\ before = [e \in Rows |-> {}]
  /\ lock = [e \in Rows |-> NoDispatcher]
  /\ pc = [d \in Dispatchers |-> "off"]
  /\ cur = [d \in Dispatchers |-> NoRow]
  /\ connected = [d \in Dispatchers |-> FALSE]
  /\ stopping = [d \in Dispatchers |-> FALSE]
  /\ stray = [e \in Rows |-> 0]
  /\ log = <<>>
  /\ faults = 0

-----------------------------------------------------------------------------
(* Business transactions. *)

\* OutboxManager.enqueue_event: session.add and flush inside the caller's
\* open transaction; created_at is the wall clock at that INSERT.
EnqueueEvent(e) ==
  /\ row[e] = "absent"
  /\ row' = [row EXCEPT ![e] = "staged"]
  /\ created' = Append(created, e)
  /\ before' = [before EXCEPT ![e] = {f \in Rows : row[f] \in Committed}]
  /\ UNCHANGED <<lock, pc, cur, processVars, stray, log, faults>>

\* The parent transaction ends: the row commits or rolls back with it.
EndTransaction(e, outcome) ==
  /\ row[e] = "staged"
  /\ outcome \in {"pending", "discarded"}
  /\ row' = [row EXCEPT ![e] = outcome]
  /\ UNCHANGED <<created, before, lock, pc, cur, processVars, stray, log, faults>>

-----------------------------------------------------------------------------
(* The dispatcher. *)

\* lifespan startup: event_producer.start() connects and the task is created.
\* (When the broker is unreachable no task is created: the process is "off".)
StartDispatcher(d) ==
  /\ pc[d] = "off"
  /\ ~connected[d]
  /\ connected' = [connected EXCEPT ![d] = TRUE]
  /\ pc' = [pc EXCEPT ![d] = "idle"]
  /\ UNCHANGED <<dbVars, lock, cur, stopping, stray, log, faults>>

\* Mutants of Claimable: rows of open transactions; no FOR UPDATE SKIP LOCKED.
ClaimableUncommitted(e) == row[e] \in {"staged", "pending"} /\ lock[e] = NoDispatcher
ClaimableLocked(e) == row[e] = "pending"

\* Rows the SELECT can return: committed, processed_at IS NULL, not locked.
Claimable(e) == row[e] = "pending" /\ lock[e] = NoDispatcher

\* Mutant of OldestClaimable: no ORDER BY.
AnyClaimable(e) == e \in Range(created) /\ Claimable(e)

\* ORDER BY created_at ... LIMIT 1 ... FOR UPDATE SKIP LOCKED.
OldestClaimable(e) ==
  \E i \in DOMAIN created :
    /\ created[i] = e
    /\ Claimable(e)
    /\ \A j \in 1..(i - 1) : ~Claimable(created[j])

\* Mutant of ClaimRow: the result None of an empty queue is not tested.
ClaimNone(d, e) ==
  /\ pc[d] = "idle"
  /\ connected[d]
  /\ cur' = [cur EXCEPT ![d] = IF OldestClaimable(e) THEN e ELSE NoRow]
  /\ pc' = [pc EXCEPT ![d] = "claimed"]
  /\ UNCHANGED <<dbVars, lock, processVars, stray, log, faults>>

ClaimRow(d, e) ==
  /\ pc[d] = "idle"
  /\ ~stopping[d]
  /\ connected[d]
  /\ OldestClaimable(e)
  /\ lock' = [lock EXCEPT ![e] = d]
  /\ cur' = [cur EXCEPT ![d] = e]
  /\ pc' = [pc EXCEPT ![d] = "claimed"]
  /\ UNCHANGED <<dbVars, processVars, stray, log, faults>>

\* producer.send_event: send_and_wait hands the record to the network and
\* waits; a producer that is not started reports success without Kafka.
SendEvent(d) ==
  /\ pc[d] = "claimed"
  /\ connected[d] => cur[d] \notin Poison
  /\ pc' = [pc EXCEPT ![d] = IF connected[d] THEN "sending" ELSE "acked"]
  /\ UNCHANGED <<dbVars, lock, cur, processVars, stray, log, faults>>

\* The client refuses the record (MessageSizeTooLargeError): always, for it.
SendRefused(d) ==
  /\ pc[d] = "claimed"
  /\ connected[d]
  /\ cur[d] \in Poison
  /\ pc' = [pc EXCEPT ![d] = "failed"]
  /\ UNCHANGED <<dbVars, lock, cur, processVars, stray, log, faults>>

\* The broker appends the request of a sender that still waits for it.
BrokerAppend(d) ==
  /\ pc[d] = "sending"
  /\ log' = Append(log, cur[d])
  /\ pc' = [pc EXCEPT ![d] = "appended"]
  /\ UNCHANGED <<dbVars, lock, cur, processVars, stray, faults>>

\* The broker appends a late request whose sender gave up or died.
LateAppend(e) ==
  /\ stray[e] > 0
  /\ stray' = [stray EXCEPT ![e] = @ - 1]
  /\ log' = Append(log, e)
  /\ UNCHANGED <<dbVars, lock, pc, cur, processVars, faults>>

\* The broker's acknowledgement reaches the waiting sender.
ReceiveAck(d) ==
  /\ pc[d] = "appended"
  /\ pc' = [pc EXCEPT ![d] = "acked"]
  /\ UNCHANGED <<dbVars, lock, cur, processVars, stray, log, faults>>

Fault == faults < MaxFaults /\ faults' = faults + 1

\* The request of d, if it is on the network, is lost or travels on alone.
AbandonRequest(d) ==
  \/ UNCHANGED stray
  \/ /\ pc[d] = "sending"
     /\ stray' = [stray EXCEPT ![cur[d]] = @ + 1]

\* send_and_wait raises (timeout, broker down, ack lost): send_event is False.
SendFails(d) ==
  /\ pc[d] \in {"sending", "appended"}
  /\ Fault
  /\ AbandonRequest(d)
  /\ pc' = [pc EXCEPT ![d] = "failed"]
  /\ UNCHANGED <<dbVars, lock, cur, processVars, log>>

Release(d) ==
  /\ lock' = [e \in Rows |-> IF lock[e] = d THEN NoDispatcher ELSE lock[e]]
  /\ cur' = [cur EXCEPT ![d] = NoRow]

\* Mutant of MarkProcessed: processed_at is not set.
ForgetProcessed(d) ==
  /\ pc[d] = "acked"
  /\ Release(d)
  /\ pc' = [pc EXCEPT ![d] = "idle"]
  /\ UNCHANGED <<dbVars, processVars, stray, log, faults>>

\* entry.processed_at = now; session.begin() commits and frees the row lock.
MarkProcessed(d) ==
  /\ pc[d] = "acked"
  /\ row' = [row EXCEPT ![cur[d]] = "processed"]
  /\ Release(d)
  /\ pc' = [pc EXCEPT ![d] = "idle"]
  /\ UNCHANGED <<created, before, processVars, stray, log, faults>>

\* "Kafka publish failed": the RuntimeError rolls the transaction back.
RollBack(d) ==
  /\ pc[d] = "failed"
  /\ Release(d)
  /\ pc' = [pc EXCEPT ![d] = "idle"]
  /\ UNCHANGED <<dbVars, processVars, stray, log, faults>>

\* The commit itself fails after a successful publish.
CommitFails(d) ==
  /\ pc[d] = "acked"
  /\ Fault
  /\ Release(d)
  /\ pc' = [pc EXCEPT ![d] = "idle"]
  /\ UNCHANGED <<dbVars, processVars, stray, log>>

\* Graceful shutdown sets outbox_stop; the loop reads it at its top only.
RequestStop(d) ==
  /\ pc[d] # "off"
  /\ ~stopping[d]
  /\ Fault
  /\ stopping' = [stopping EXCEPT ![d] = TRUE]
  /\ UNCHANGED <<dbVars, lock, pc, cur, connected, stray, log>>

\* The loop sees outbox_stop and run returns.
FinishRun(d) ==
  /\ pc[d] = "idle"
  /\ stopping[d]
  /\ pc' = [pc EXCEPT ![d] = "off"]
  /\ UNCHANGED <<dbVars, lock, cur, processVars, stray, log, faults>>

\* Mutant of StopProducer: the shutdown does not wait for the task.
StopProducerEarly(d) ==
  /\ stopping[d]
  /\ connected' = [connected EXCEPT ![d] = FALSE]
  /\ stopping' = [stopping EXCEPT ![d] = FALSE]
  /\ UNCHANGED <<dbVars, lock, pc, cur, stray, log, faults>>

\* After "await outbox_task", event_producer.stop(); the process exits and a
\* new one may start later in its place.
StopProducer(d) ==
  /\ stopping[d]
  /\ pc[d] = "off"
  /\ connected' = [connected EXCEPT ![d] = FALSE]
  /\ stopping' = [stopping EXCEPT ![d] = FALSE]
  /\ UNCHANGED <<dbVars, lock, pc, cur, stray, log, faults>>

\* The process dies: PostgreSQL aborts its transaction and drops the lock,
\* but a request already on the wire may still reach the broker.
CrashDispatcher(d) ==
  /\ connected[d]
  /\ Fault
  /\ AbandonRequest(d)
  /\ Release(d)
  /\ pc' = [pc EXCEPT ![d] = "off"]
  /\ connected' = [connected EXCEPT ![d] = FALSE]
  /\ stopping' = [stopping EXCEPT ![d] = FALSE]
  /\ UNCHANGED <<dbVars, log>>

-----------------------------------------------------------------------------
BusinessStep ==
  \E e \in Rows :
    \/ EnqueueEvent(e)
    \/ \E outcome \in {"pending", "discarded"} : EndTransaction(e, outcome)

\* What the code and the broker do by themselves, and do eventually.
DispatcherProgress(d) ==
  \/ StartDispatcher(d)
  \/ \E e \in Rows : ClaimRow(d, e)
  \/ SendEvent(d)
  \/ SendRefused(d)
  \/ BrokerAppend(d)
  \/ ReceiveAck(d)
  \/ MarkProcessed(d)
  \/ RollBack(d)
  \/ FinishRun(d)
  \/ StopProducer(d)

Disturbance(d) ==
  \/ SendFails(d)
  \/ CommitFails(d)
  \/ RequestStop(d)
  \/ CrashDispatcher(d)

OutboxNext ==
  \/ BusinessStep
  \/ \E d \in Dispatchers : DispatcherProgress(d) \/ Disturbance(d)
  \/ \E e \in Rows : LateAppend(e)

OutboxSpec == OutboxInit /\ [][OutboxNext]_outboxVars

\* Every process keeps running its loop and the broker answers; transactions
\* may stay open for ever and nothing obliges a late request to arrive.
OutboxFairSpec ==
  OutboxSpec /\ \A d \in Dispatchers : WF_outboxVars(DispatcherProgress(d))

-----------------------------------------------------------------------------
(* Properties. *)

\* A row is marked processed only when the broker has appended its event
\* (dispatcher.py: "mark it processed only after Kafka acknowledges it").
ProcessedIsPublished ==
  \A e \in Rows : row[e] = "processed" => e \in Range(log)

\* Nothing reaches Kafka, now or from the network, for a transaction that is
\* still open or rolled back: no phantom events.
OnlyCommittedPublished ==
  \A e \in Rows : (e \in Range(log) \/ stray[e] > 0) => row[e] \in Committed

\* FOR UPDATE SKIP LOCKED: two dispatchers never work on the same row, and a
\* row somebody works on is not already processed.
ClaimIsExclusive ==
  \A d \in Dispatchers : pc[d] \in Holding =>
    /\ row[cur[d]] = "pending"
    /\ \A d2 \in Dispatchers \ {d} : pc[d2] \in Holding => cur[d2] # cur[d]

\* A duplicate on the partition is the price of a fault, never of the normal
\* path: the log holds at most one copy of each row beyond the faults.
DuplicatesOnlyFromFaults ==
  Len(log) <= Cardinality(Range(log)) + faults

\* Partition ordering: events of one aggregate whose transactions followed
\* one another are first published in that order.
AggregateOrder ==
  \A e, f \in Rows :
    (AggregateOf[e] = AggregateOf[f] /\ e \in before[f]) =>
      \A j \in DOMAIN log : log[j] = f => \E i \in 1..(j - 1) : log[i] = e

\* Every committed row that can be sent at all is eventually processed.
EventuallyProcessed ==
  \A e \in Rows \ Poison : (row[e] = "pending") ~> (row[e] = "processed")
=============================================================================
