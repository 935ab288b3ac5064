------------------------ MODULE EventPipelineProofs ------------------------
(***************************************************************************)
(* The dispatchers and the consumers together implement EventDelivery, for *)
(* every set of rows, any number of processes on either side and any       *)
(* number of faults.  The invariant of the outbox is that of its own       *)
(* proofs; the pipeline adds what a consumer has in hand.                  *)
(***************************************************************************)
EXTENDS EventPipeline, TLAPS

OutboxFacts == INSTANCE OutboxDispatcherProofs

-----------------------------------------------------------------------------
(* The steps of the outbox side are the steps its proofs are about. *)

LEMMA SameOutboxInit == Outbox!OutboxInit => OutboxFacts!OutboxInit
BY DEF Outbox!OutboxInit, OutboxFacts!OutboxInit

LEMMA SameOutboxStep == Outbox!OutboxNext => OutboxFacts!OutboxNext
<1> USE DEF Outbox!dbVars, Outbox!processVars, OutboxFacts!dbVars, OutboxFacts!processVars,
        Outbox!Committed, OutboxFacts!Committed, Outbox!Fault, OutboxFacts!Fault,
        Outbox!Release, OutboxFacts!Release, Outbox!AbandonRequest, OutboxFacts!AbandonRequest
<1>1. Outbox!BusinessStep => OutboxFacts!BusinessStep
  BY DEF Outbox!BusinessStep, OutboxFacts!BusinessStep, Outbox!EnqueueEvent,
     OutboxFacts!EnqueueEvent, Outbox!EndTransaction, OutboxFacts!EndTransaction
<1>2. ASSUME NEW e \in Rows, Outbox!LateAppend(e) PROVE OutboxFacts!LateAppend(e)
  BY <1>2 DEF Outbox!LateAppend, OutboxFacts!LateAppend
<1>3. ASSUME NEW d \in Dispatchers, Outbox!DispatcherProgress(d)
      PROVE  OutboxFacts!DispatcherProgress(d)
  <2>1. ASSUME NEW e \in Rows, Outbox!ClaimRow(d, e) PROVE OutboxFacts!ClaimRow(d, e)
    BY <2>1 DEF Outbox!ClaimRow, OutboxFacts!ClaimRow, Outbox!OldestClaimable,
       OutboxFacts!OldestClaimable, Outbox!Claimable, OutboxFacts!Claimable
  <2>2. CASE \E e \in Rows : Outbox!ClaimRow(d, e)
    BY <2>1, <2>2 DEF OutboxFacts!DispatcherProgress
  <2>3. CASE ~\E e \in Rows : Outbox!ClaimRow(d, e)
    BY <1>3, <2>3 DEF Outbox!DispatcherProgress, OutboxFacts!DispatcherProgress,
       Outbox!StartDispatcher, OutboxFacts!StartDispatcher, Outbox!SendEvent, OutboxFacts!SendEvent,
       Outbox!SendRefused, OutboxFacts!SendRefused, Outbox!BrokerAppend, OutboxFacts!BrokerAppend,
       Outbox!ReceiveAck, OutboxFacts!ReceiveAck, Outbox!MarkProcessed, OutboxFacts!MarkProcessed,
       Outbox!RollBack, OutboxFacts!RollBack, Outbox!FinishRun, OutboxFacts!FinishRun,
       Outbox!StopProducer, OutboxFacts!StopProducer
  <2> QED
    BY <2>2, <2>3
<1>4. ASSUME NEW d \in Dispatchers, Outbox!Disturbance(d) PROVE OutboxFacts!Disturbance(d)
  BY <1>4 DEF Outbox!Disturbance, OutboxFacts!Disturbance, Outbox!SendFails, OutboxFacts!SendFails,
     Outbox!CommitFails, OutboxFacts!CommitFails, Outbox!RequestStop, OutboxFacts!RequestStop,
     Outbox!CrashDispatcher, OutboxFacts!CrashDispatcher
<1> QED
  BY <1>1, <1>2, <1>3, <1>4 DEF Outbox!OutboxNext, OutboxFacts!OutboxNext

\* No step of a consumer writes the partition or a variable of the outbox.
LEMMA ConsumerLeavesLog == Consumer!ConsumerStep => UNCHANGED log
<1> USE DEF Consumer!Stop, Consumer!SetTerminal, Consumer!brokerVars
<1>1. ASSUME NEW c \in Consumers, Consumer!ConsumerProgress(c) PROVE UNCHANGED log
  BY <1>1 DEF Consumer!ConsumerProgress, Consumer!Start, Consumer!Poll, Consumer!RejectMalformed,
     Consumer!CheckDuplicate, Consumer!RecordAttempt, Consumer!RefuseOrphan, Consumer!Recheck,
     Consumer!BeginAttempt, Consumer!HandlerSucceeds, Consumer!HandlerFails,
     Consumer!MarkProcessed, Consumer!RouteToDlq, Consumer!PersistDeadLetter,
     Consumer!SettleDeadLetter, Consumer!MarkDeadLetter, Consumer!MarkRetryable,
     Consumer!CommitOffset
<1> QED
  BY <1>1 DEF Consumer!ConsumerStep, Consumer!Join, Consumer!Rebalance, Consumer!Assign,
     Consumer!AttemptError, Consumer!Crash, Consumer!LeaseExpires, Consumer!ReviewDeadLetter

LEMMA PipelineOutboxStep ==
  [PipelineNext]_pipelineVars => [OutboxFacts!OutboxNext]_OutboxFacts!outboxVars
BY SameOutboxStep, ConsumerLeavesLog
   DEF PipelineNext, OutboxSide, ConsumerSide, pipelineVars, outboxOwn, OutboxFacts!outboxVars

LEMMA OutboxInvHolds == PipelineSpec => []OutboxFacts!OutboxInv
<1>0. OutboxFacts!OutboxAssumption
  BY PipelineAssumption DEF OutboxFacts!OutboxAssumption
<1>1. PipelineInit => OutboxFacts!OutboxInv
  BY <1>0, SameOutboxInit, OutboxFacts!OutboxInvInit DEF PipelineInit
<1>2. OutboxFacts!OutboxInv /\ [PipelineNext]_pipelineVars => OutboxFacts!OutboxInv'
  BY <1>0, PipelineOutboxStep, OutboxFacts!OutboxInvNext
<1> QED
  BY <1>1, <1>2, PTL DEF PipelineSpec

-----------------------------------------------------------------------------
(* What the consumers have in hand: a message of the partition, hence an    *)
(* event of a committed row; only such an event has a terminal outcome.     *)
Reading(c) == cpc[c] \notin {"down", "poll"} => off[c] \in 1..Len(log)

Reads ==
  /\ committed \in Nat
  /\ status \in [Consumer!UsedKeys -> Consumer!Status]
  /\ cpc \in [Consumers -> Consumer!ConsumerPC]
  /\ pos \in [Consumers -> Nat \ {0}]
  /\ off \in [Consumers -> Nat]
  /\ \A c \in Consumers : Reading(c)

OnlyCommittedSettled ==
  \A e \in Rows : status[e] \in Consumer!Terminal => row[e] \in Outbox!Committed

PipelineInv ==
  /\ OutboxFacts!OutboxInv
  /\ Reads
  /\ OnlyCommittedSettled

LEMMA HandIsCommitted ==
  ASSUME OutboxFacts!OutboxInv, Reads, NEW c \in Consumers, cpc[c] \notin {"down", "poll"}
  PROVE  Consumer!Key(c) \in Rows /\ row[Consumer!Key(c)] \in Outbox!Committed
<1>1. off[c] \in 1..Len(log) /\ log \in Seq(Rows)
  BY DEF Reads, Reading, OutboxFacts!OutboxInv, OutboxFacts!OutboxTypeOK
<1>2. log[off[c]] \in Rows /\ off[c] \in DOMAIN log
  BY <1>1
<1>3. Consumer!Key(c) = log[off[c]]
  BY <1>2, PipelineAssumption DEF Consumer!Key, Consumer!KeyAt, Consumer!KeyOf
<1>4. log[off[c]] \in OutboxFacts!Range(log)
  BY <1>2 DEF OutboxFacts!Range
<1> QED
  BY <1>2, <1>3, <1>4 DEF OutboxFacts!OutboxInv, OutboxFacts!OnlyCommittedPublished,
     OutboxFacts!Committed, Outbox!Committed

\* What one step of a consumer may do to the ledger.
LedgerStep ==
  \/ UNCHANGED status
  \/ \E e \in Rows, v \in Consumer!Status :
       /\ row[e] \in Outbox!Committed
       /\ status[e] \in Consumer!Terminal => v \in Consumer!Terminal
       /\ status' = [status EXCEPT ![e] = v]

\* A consumer that has a message in hand keeps it, or gives it up.
LEMMA HandKept ==
  ASSUME PipelineInv, NEW c \in Consumers, cpc[c] \notin {"down", "poll"},
         NEW next \in Consumer!ConsumerPC, cpc' = [cpc EXCEPT ![c] = next],
         UNCHANGED <<log, off>>,
         committed' \in Nat, pos' \in [Consumers -> Nat \ {0}], LedgerStep
  PROVE  Reads'
<1>1. status' \in [Consumer!UsedKeys -> Consumer!Status]
  BY DEF LedgerStep, PipelineInv, Reads
<1>2. \A d \in Consumers : Reading(d)'
  BY DEF PipelineInv, Reads, Reading
<1>3. cpc' \in [Consumers -> Consumer!ConsumerPC]
  BY DEF PipelineInv, Reads
<1> QED
  BY <1>1, <1>2, <1>3 DEF PipelineInv, Reads

\* The steps of the loop with a message in hand.
Handles(c) ==
  \/ Consumer!RejectMalformed(c) \/ Consumer!CheckDuplicate(c) \/ Consumer!RecordAttempt(c)
  \/ Consumer!RefuseOrphan(c) \/ Consumer!Recheck(c) \/ Consumer!BeginAttempt(c)
  \/ Consumer!HandlerSucceeds(c) \/ Consumer!HandlerFails(c) \/ Consumer!MarkProcessed(c)
  \/ Consumer!RouteToDlq(c) \/ Consumer!PersistDeadLetter(c) \/ Consumer!SettleDeadLetter(c)
  \/ Consumer!MarkDeadLetter(c) \/ Consumer!MarkRetryable(c) \/ Consumer!AttemptError(c)

LEMMA HandlingStep ==
  ASSUME PipelineInv, NEW c \in Consumers, Handles(c)
  PROVE  Reads' /\ LedgerStep
<1> DEFINE k == Consumer!Key(c)
<1>1. cpc[c] \notin {"down", "poll"}
  BY DEF Handles, Consumer!RejectMalformed, Consumer!CheckDuplicate, Consumer!RecordAttempt,
     Consumer!RefuseOrphan, Consumer!Recheck, Consumer!BeginAttempt, Consumer!HandlerSucceeds,
     Consumer!HandlerFails, Consumer!MarkProcessed, Consumer!RouteToDlq,
     Consumer!PersistDeadLetter, Consumer!SettleDeadLetter, Consumer!MarkDeadLetter,
     Consumer!MarkRetryable, Consumer!AttemptError
<1>2. k \in Rows /\ row[k] \in Outbox!Committed
  BY <1>1, HandIsCommitted DEF PipelineInv
<1> HIDE DEF k
<1>3. UNCHANGED <<log, committed, pos, off>>
  BY DEF Handles, Consumer!RejectMalformed, Consumer!CheckDuplicate, Consumer!RecordAttempt,
     Consumer!RefuseOrphan, Consumer!Recheck, Consumer!BeginAttempt, Consumer!HandlerSucceeds,
     Consumer!HandlerFails, Consumer!MarkProcessed, Consumer!RouteToDlq,
     Consumer!PersistDeadLetter, Consumer!SettleDeadLetter, Consumer!MarkDeadLetter,
     Consumer!MarkRetryable, Consumer!AttemptError, Consumer!Stop, Consumer!SetTerminal,
     Consumer!brokerVars
<1>4. \E next \in Consumer!ConsumerPC : cpc' = [cpc EXCEPT ![c] = next]
  <2> DEFINE To(next) == cpc' = [cpc EXCEPT ![c] = next]
  <2> USE DEF Consumer!ConsumerPC
  <2>1. \A n : Consumer!AfterFailure(c, n) \in Consumer!ConsumerPC
    BY DEF Consumer!AfterFailure
  <2>2. Consumer!Stop(c) => To("down")
    BY DEF Consumer!Stop, Consumer!Goto
  <2>3. ASSUME NEW next \in Consumer!ConsumerPC, Consumer!Goto(c, next) PROVE To(next)
    BY <2>3 DEF Consumer!Goto
  <2>4. CASE \E next \in Consumer!ConsumerPC : Consumer!Goto(c, next)
    BY <2>3, <2>4
  <2>5. CASE Consumer!Stop(c)
    BY <2>2, <2>5
  <2>6. CASE Consumer!CheckDuplicate(c) \/ Consumer!RecordAttempt(c) \/ Consumer!Recheck(c)
    BY <2>4, <2>5, <2>6 DEF Consumer!CheckDuplicate, Consumer!RecordAttempt, Consumer!Recheck
  <2>7. CASE Consumer!BeginAttempt(c) \/ Consumer!AttemptError(c) \/ Consumer!HandlerFails(c)
    BY <2>1, <2>4, <2>7 DEF Consumer!BeginAttempt, Consumer!AttemptError, Consumer!HandlerFails
  <2>8. CASE Consumer!MarkProcessed(c) \/ Consumer!SettleDeadLetter(c) \/ Consumer!MarkRetryable(c)
    BY <2>4, <2>5, <2>8 DEF Consumer!MarkProcessed, Consumer!SettleDeadLetter,
       Consumer!MarkRetryable, Consumer!SetTerminal
  <2>9. CASE Consumer!RouteToDlq(c) \/ Consumer!PersistDeadLetter(c) \/ Consumer!MarkDeadLetter(c)
    BY <2>4, <2>9 DEF Consumer!RouteToDlq, Consumer!PersistDeadLetter, Consumer!MarkDeadLetter
  <2> QED
    BY <2>4, <2>5, <2>6, <2>7, <2>8, <2>9 DEF Handles, Consumer!RejectMalformed,
       Consumer!RefuseOrphan, Consumer!HandlerSucceeds
<1>5. LedgerStep
  <2>1. CASE Consumer!RecordAttempt(c)
    <3>1. CASE Consumer!CanClaim(k)
      <4>1. status' = [status EXCEPT ![k] = "PROCESSING"] /\ status[k] \notin Consumer!Terminal
        BY <2>1, <3>1 DEF Consumer!RecordAttempt, Consumer!CanClaim, k
      <4> QED
        BY <1>2, <4>1 DEF LedgerStep, Consumer!Status
    <3>2. CASE ~Consumer!CanClaim(k)
      BY <2>1, <3>2 DEF Consumer!RecordAttempt, Consumer!ledgerVars, LedgerStep, k
    <3> QED
      BY <3>1, <3>2
  <2>2. CASE Consumer!MarkProcessed(c) \/ Consumer!SettleDeadLetter(c) \/ Consumer!MarkRetryable(c)
    <3>1. \E v \in Consumer!Status, next \in Consumer!ConsumerPC : Consumer!SetTerminal(c, v, next)
      BY <2>2 DEF Consumer!MarkProcessed, Consumer!SettleDeadLetter, Consumer!MarkRetryable,
         Consumer!Status, Consumer!ConsumerPC
    <3>2. PICK v \in Consumer!Status, next \in Consumer!ConsumerPC : Consumer!SetTerminal(c, v, next)
      BY <3>1
    <3>3. CASE status[k] = "PROCESSING" /\ token[k] = c
      <4>1. status' = [status EXCEPT ![k] = v] /\ status[k] \notin Consumer!Terminal
        BY <3>2, <3>3 DEF Consumer!SetTerminal, Consumer!Terminal, k
      <4> QED
        BY <1>2, <4>1 DEF LedgerStep
    <3>4. CASE ~(status[k] = "PROCESSING" /\ token[k] = c)
      BY <3>2, <3>4 DEF Consumer!SetTerminal, Consumer!ledgerVars, LedgerStep, k
    <3> QED
      BY <3>3, <3>4
  <2>3. CASE Consumer!MarkDeadLetter(c)
    <3>1. PICK v : /\ v = IF status[k] = "PROCESSED" THEN status[k] ELSE "DEAD_LETTER"
                   /\ status' = [status EXCEPT ![k] = v]
      BY <2>3 DEF Consumer!MarkDeadLetter, k
    <3> QED
      BY <1>2, <3>1 DEF LedgerStep, Consumer!Status, Consumer!Terminal
  <2> QED
    BY <2>1, <2>2, <2>3 DEF Handles, Consumer!RejectMalformed, Consumer!CheckDuplicate,
       Consumer!RefuseOrphan, Consumer!Recheck, Consumer!BeginAttempt, Consumer!HandlerSucceeds,
       Consumer!HandlerFails, Consumer!RouteToDlq, Consumer!PersistDeadLetter,
       Consumer!AttemptError, Consumer!ledgerVars, LedgerStep
<1>6. committed' \in Nat /\ pos' \in [Consumers -> Nat \ {0}]
  BY <1>3 DEF PipelineInv, Reads
<1> QED
  BY <1>1, <1>3, <1>4, <1>5, <1>6, HandKept

\* The steps that open, move or end an assignment, and those of time and people.
LEMMA OtherStep ==
  ASSUME PipelineInv, Consumer!ConsumerStep, ~\E c \in Consumers : Handles(c)
  PROVE  Reads' /\ UNCHANGED status
<1>0. /\ UNCHANGED log
      /\ Len(log) \in Nat
  BY ConsumerLeavesLog DEF PipelineInv, OutboxFacts!OutboxInv, OutboxFacts!OutboxTypeOK
<1> USE DEF Consumer!brokerVars, Consumer!ledgerVars, Consumer!deadVars, Consumer!localVars,
        Consumer!Goto, Consumer!ConsumerPC
<1>1. ASSUME NEW c \in Consumers, Consumer!Start(c) PROVE Reads' /\ UNCHANGED status
  BY <1>0, <1>1 DEF Consumer!Start, PipelineInv, Reads, Reading
<1>2. ASSUME NEW c \in Consumers, Consumer!Poll(c) PROVE Reads' /\ UNCHANGED status
  <2>1. PICK next \in Consumer!ConsumerPC : cpc' = [cpc EXCEPT ![c] = next]
    BY <1>2 DEF Consumer!Poll
  <2>2. /\ off' = [off EXCEPT ![c] = pos[c]]
        /\ pos' = [pos EXCEPT ![c] = @ + 1]
        /\ pos[c] \in 1..Len(log)
        /\ UNCHANGED <<status, committed>>
    BY <1>0, <1>2 DEF Consumer!Poll, PipelineInv, Reads
  <2> QED
    BY <1>0, <2>1, <2>2 DEF PipelineInv, Reads, Reading
<1>3. ASSUME NEW c \in Consumers, Consumer!CommitOffset(c) PROVE Reads' /\ UNCHANGED status
  <2>1. PICK next \in Consumer!ConsumerPC : cpc' = [cpc EXCEPT ![c] = next]
    BY <1>3 DEF Consumer!CommitOffset, Consumer!Stop
  <2>2. cpc[c] = "commit" /\ committed' \in Nat /\ UNCHANGED <<status, pos, off>>
    BY <1>3 DEF Consumer!CommitOffset, Consumer!Stop, PipelineInv, Reads
  <2> QED
    BY <1>0, <2>1, <2>2 DEF PipelineInv, Reads, Reading
<1>4. ASSUME NEW c \in Consumers, Consumer!Join(c) \/ Consumer!Rebalance(c)
      PROVE  Reads' /\ UNCHANGED status
  <2>1. /\ pos' = [pos EXCEPT ![c] = committed + 1]
        /\ UNCHANGED <<status, committed, cpc, off>>
    BY <1>4 DEF Consumer!Join, Consumer!Rebalance, Consumer!Assign
  <2>2. committed + 1 \in Nat \ {0}
    BY DEF PipelineInv, Reads
  <2>3. pos' \in [Consumers -> Nat \ {0}]
    BY <2>1, <2>2 DEF PipelineInv, Reads
  <2> QED
    BY <1>0, <2>1, <2>3 DEF PipelineInv, Reads, Reading
<1>5. ASSUME NEW c \in Consumers, Consumer!Crash(c) PROVE Reads' /\ UNCHANGED status
  BY <1>0, <1>5 DEF Consumer!Crash, Consumer!Stop, PipelineInv, Reads, Reading
<1>6. ASSUME NEW k \in Consumer!UsedKeys, Consumer!LeaseExpires(k) \/ Consumer!ReviewDeadLetter(k)
      PROVE  Reads' /\ UNCHANGED status
  BY <1>0, <1>6 DEF Consumer!LeaseExpires, Consumer!ReviewDeadLetter, PipelineInv, Reads, Reading
<1> QED
  BY <1>1, <1>2, <1>3, <1>4, <1>5, <1>6
     DEF Consumer!ConsumerStep, Consumer!ConsumerProgress, Handles

LEMMA ConsumerSideStep ==
  ASSUME PipelineInv, Consumer!ConsumerStep
  PROVE  Reads' /\ LedgerStep
BY HandlingStep, OtherStep DEF LedgerStep

\* What one step of the outbox may do to a row.
Moves(from, to) ==
  \/ from = "absent" /\ to = "staged"
  \/ from = "staged" /\ to \in {"pending", "discarded"}
  \/ from = "pending" /\ to = "processed"

RowStep ==
  \/ UNCHANGED row
  \/ \E e \in Rows : \E to \in Outbox!RowState :
       Moves(row[e], to) /\ row' = [row EXCEPT ![e] = to]

LEMMA RowsMove ==
  ASSUME PipelineInv, Outbox!OutboxNext
  PROVE  RowStep
<1>1. ASSUME NEW d \in Dispatchers, Outbox!MarkProcessed(d) PROVE RowStep
  <2>1. cur[d] \in Rows /\ row[cur[d]] = "pending"
    BY <1>1 DEF Outbox!MarkProcessed, PipelineInv, OutboxFacts!OutboxInv, OutboxFacts!LockedRow,
       OutboxFacts!Holding
  <2> QED
    BY <1>1, <2>1 DEF Outbox!MarkProcessed, RowStep, Moves, Outbox!RowState
<1>2. ASSUME NEW e \in Rows, Outbox!EnqueueEvent(e) PROVE RowStep
  BY <1>2 DEF Outbox!EnqueueEvent, RowStep, Moves, Outbox!RowState
<1>3. ASSUME NEW e \in Rows, NEW to \in {"pending", "discarded"}, Outbox!EndTransaction(e, to)
      PROVE  RowStep
  BY <1>3 DEF Outbox!EndTransaction, RowStep, Moves, Outbox!RowState
<1>4. CASE UNCHANGED row
  BY <1>4 DEF RowStep
<1> QED
  BY <1>1, <1>2, <1>3, <1>4 DEF Outbox!OutboxNext, Outbox!BusinessStep, Outbox!LateAppend,
     Outbox!DispatcherProgress, Outbox!StartDispatcher, Outbox!ClaimRow, Outbox!SendEvent,
     Outbox!SendRefused, Outbox!BrokerAppend, Outbox!ReceiveAck, Outbox!RollBack,
     Outbox!FinishRun, Outbox!StopProducer, Outbox!Disturbance, Outbox!SendFails,
     Outbox!CommitFails, Outbox!RequestStop, Outbox!CrashDispatcher, Outbox!dbVars

\* The outbox appends to the partition and writes nothing of the consumers.
LEMMA OutboxSideStep ==
  ASSUME PipelineInv, OutboxSide
  PROVE  Reads' /\ RowStep
<1>1. Outbox!OutboxNext /\ UNCHANGED <<committed, status, cpc, pos, off>>
  BY DEF OutboxSide, consumerOwn
<1>2. \/ UNCHANGED log
      \/ \E e \in Rows : log' = Append(log, e)
  <2>1. ASSUME NEW d \in Dispatchers, Outbox!BrokerAppend(d)
        PROVE  cur[d] \in Rows /\ log' = Append(log, cur[d])
    BY <2>1 DEF Outbox!BrokerAppend, PipelineInv, OutboxFacts!OutboxInv, OutboxFacts!LockedRow,
       OutboxFacts!Holding
  <2>2. CASE \E d \in Dispatchers : Outbox!BrokerAppend(d)
    BY <2>1, <2>2
  <2>3. CASE ~\E d \in Dispatchers : Outbox!BrokerAppend(d)
    BY <1>1, <2>3 DEF Outbox!OutboxNext, Outbox!BusinessStep, Outbox!EnqueueEvent,
       Outbox!EndTransaction, Outbox!LateAppend, Outbox!DispatcherProgress, Outbox!StartDispatcher,
       Outbox!ClaimRow, Outbox!SendEvent, Outbox!SendRefused, Outbox!ReceiveAck,
       Outbox!MarkProcessed, Outbox!RollBack, Outbox!FinishRun, Outbox!StopProducer,
       Outbox!Disturbance, Outbox!SendFails, Outbox!CommitFails, Outbox!RequestStop,
       Outbox!CrashDispatcher
  <2> QED
    BY <2>2, <2>3
<1>3. log \in Seq(Rows) /\ Len(log) \in Nat /\ Len(log') \in Nat /\ Len(log') >= Len(log)
  BY <1>2 DEF PipelineInv, OutboxFacts!OutboxInv, OutboxFacts!OutboxTypeOK
<1>4. Reads'
  BY <1>1, <1>3 DEF PipelineInv, Reads, Reading
<1> QED
  BY <1>1, <1>4, RowsMove

-----------------------------------------------------------------------------
(* The invariant of the pipeline. *)

LEMMA PipelineInvInit == PipelineInit /\ OutboxFacts!OutboxInv => PipelineInv
<1> SUFFICES ASSUME PipelineInit, OutboxFacts!OutboxInv PROVE PipelineInv
  OBVIOUS
<1>1. Reads
  BY DEF PipelineInit, Consumer!ConsumerInit, Reads, Reading, Consumer!Status, Consumer!ConsumerPC
<1>2. OnlyCommittedSettled
  BY DEF PipelineInit, Consumer!ConsumerInit, OnlyCommittedSettled, Consumer!UsedKeys,
     Consumer!Terminal
<1> QED
  BY <1>1, <1>2 DEF PipelineInv

LEMMA PipelineInvNext ==
  ASSUME PipelineInv, [PipelineNext]_pipelineVars, OutboxFacts!OutboxInv'
  PROVE  PipelineInv'
<1>0. /\ row \in [Rows -> Outbox!RowState]
      /\ status \in [Consumer!UsedKeys -> Consumer!Status]
      /\ Rows \subseteq Consumer!UsedKeys
  BY DEF PipelineInv, OutboxFacts!OutboxInv, OutboxFacts!OutboxTypeOK, OutboxFacts!RowState,
     Outbox!RowState, Reads, Consumer!UsedKeys
<1>1. CASE OutboxSide
  <2>1. Reads' /\ RowStep /\ UNCHANGED status
    BY <1>1, OutboxSideStep DEF OutboxSide, consumerOwn
  <2>2. OnlyCommittedSettled'
    BY <1>0, <2>1 DEF RowStep, Moves, PipelineInv, OnlyCommittedSettled, Outbox!Committed
  <2> QED
    BY <2>1, <2>2 DEF PipelineInv
<1>2. CASE ConsumerSide
  <2>1. Reads' /\ LedgerStep /\ UNCHANGED row
    BY <1>2, ConsumerSideStep DEF ConsumerSide, outboxOwn
  <2>2. OnlyCommittedSettled'
    BY <1>0, <2>1 DEF LedgerStep, PipelineInv, OnlyCommittedSettled
  <2> QED
    BY <2>1, <2>2 DEF PipelineInv
<1>3. CASE UNCHANGED pipelineVars
  BY <1>3 DEF pipelineVars, outboxOwn, consumerOwn, PipelineInv, Reads, Reading, OnlyCommittedSettled
<1> QED
  BY <1>1, <1>2, <1>3 DEF PipelineNext

\* Whatever the two sides do, an event with a terminal outcome is one of a
\* committed transaction.
THEOREM PipelineInvariance == PipelineSpec => []PipelineInv
BY OutboxInvHolds, PipelineInvInit, PipelineInvNext, PTL DEF PipelineSpec

-----------------------------------------------------------------------------
(* The refinement: every step of the pipeline is a step of EventDelivery    *)
(* under the mapping LifeOf, or leaves it unchanged.                        *)

Mapped == [e \in Rows |-> LifeOf(e)]

LEMMA LifeKept ==
  ASSUME NEW e \in Rows, row'[e] = row[e],
         status'[e] \in Consumer!Terminal <=> status[e] \in Consumer!Terminal
  PROVE  LifeOf(e)' = LifeOf(e)
BY DEF LifeOf

\* One event moves, all others stay where they were.
LEMMA OneMoves ==
  ASSUME NEW e \in Rows, NEW from, NEW to, LifeOf(e) = from, LifeOf(e)' = to,
         \A f \in Rows \ {e} : LifeOf(f)' = LifeOf(f)
  PROVE  Delivery!Become(e, from, to)
BY DEF Delivery!Become

LEMMA OutboxSideDelivers ==
  ASSUME PipelineInv, OutboxSide
  PROVE  Delivery!DeliveryNext \/ UNCHANGED Mapped
<1>0. /\ row \in [Rows -> Outbox!RowState]
      /\ RowStep
      /\ UNCHANGED status
  BY OutboxSideStep DEF OutboxSide, consumerOwn, PipelineInv, OutboxFacts!OutboxInv,
     OutboxFacts!OutboxTypeOK, OutboxFacts!RowState, Outbox!RowState
<1>1. CASE UNCHANGED row
  BY <1>0, <1>1, LifeKept DEF Mapped
<1>2. ASSUME NEW e \in Rows, NEW to \in Outbox!RowState, Moves(row[e], to),
             row' = [row EXCEPT ![e] = to]
      PROVE  Delivery!DeliveryNext \/ UNCHANGED Mapped
  <2>1. \A f \in Rows \ {e} : LifeOf(f)' = LifeOf(f)
    BY <1>0, <1>2, LifeKept
  <2>2. row'[e] = to
    BY <1>0, <1>2
  <2>3. CASE row[e] = "absent" \/ row[e] = "pending"
    <3>1. LifeOf(e)' = LifeOf(e)
      BY <1>0, <1>2, <2>2, <2>3 DEF LifeOf, Moves, Outbox!Committed
    <3> QED
      BY <2>1, <3>1 DEF Mapped
  <2>4. CASE row[e] = "staged"
    <3>1. status[e] \notin Consumer!Terminal
      BY <2>4 DEF PipelineInv, OnlyCommittedSettled, Outbox!Committed
    <3>2. LifeOf(e) = "open"
      BY <2>4 DEF LifeOf, Outbox!Committed
    <3>3. LifeOf(e)' = IF to = "pending" THEN "accepted" ELSE "discarded"
      BY <1>0, <1>2, <2>2, <2>4, <3>1 DEF LifeOf, Moves, Outbox!Committed
    <3>4. Delivery!Accept(e) \/ Delivery!Discard(e)
      BY <2>1, <3>2, <3>3, OneMoves DEF Delivery!Accept, Delivery!Discard
    <3> QED
      BY <3>4 DEF Delivery!DeliveryNext
  <2> QED
    BY <1>2, <2>3, <2>4 DEF Moves
<1> QED
  BY <1>0, <1>1, <1>2 DEF RowStep

LEMMA ConsumerSideDelivers ==
  ASSUME PipelineInv, ConsumerSide
  PROVE  Delivery!DeliveryNext \/ UNCHANGED Mapped
<1>0. /\ status \in [Consumer!UsedKeys -> Consumer!Status]
      /\ Rows \subseteq Consumer!UsedKeys
      /\ LedgerStep
      /\ UNCHANGED row
  BY ConsumerSideStep DEF ConsumerSide, outboxOwn, PipelineInv, Reads, Consumer!UsedKeys
<1>1. CASE UNCHANGED status
  BY <1>0, <1>1, LifeKept DEF Mapped
<1>2. ASSUME NEW e \in Rows, NEW v \in Consumer!Status, row[e] \in Outbox!Committed,
             status[e] \in Consumer!Terminal => v \in Consumer!Terminal,
             status' = [status EXCEPT ![e] = v]
      PROVE  Delivery!DeliveryNext \/ UNCHANGED Mapped
  <2>1. \A f \in Rows \ {e} : LifeOf(f)' = LifeOf(f)
    BY <1>0, <1>2, LifeKept
  <2>2. status'[e] = v /\ row'[e] = row[e]
    BY <1>0, <1>2
  <2>3. CASE v \in Consumer!Terminal /\ status[e] \notin Consumer!Terminal
    <3>1. LifeOf(e) = "accepted" /\ LifeOf(e)' = "settled"
      BY <1>2, <2>2, <2>3 DEF LifeOf, Outbox!Committed
    <3>2. Delivery!Settle(e)
      BY <2>1, <3>1, OneMoves DEF Delivery!Settle
    <3> QED
      BY <3>2 DEF Delivery!DeliveryNext
  <2>4. CASE v \in Consumer!Terminal <=> status[e] \in Consumer!Terminal
    <3>1. LifeOf(e)' = LifeOf(e)
      BY <2>2, <2>4, LifeKept
    <3> QED
      BY <2>1, <3>1 DEF Mapped
  <2> QED
    BY <1>2, <2>3, <2>4
<1> QED
  BY <1>0, <1>1, <1>2 DEF LedgerStep

\* Only committed events are settled, once and for all: the dispatchers and
\* the consumers of one partition implement EventDelivery.
THEOREM PipelineDelivers == PipelineSpec => ImplementsDelivery
<1>1. PipelineInit => Delivery!DeliveryInit
  BY DEF PipelineInit, Outbox!OutboxInit, Delivery!DeliveryInit, LifeOf, Outbox!Committed
<1>2. PipelineInv /\ [PipelineNext]_pipelineVars => [Delivery!DeliveryNext]_Mapped
  <2>1. CASE UNCHANGED pipelineVars
    BY <2>1, LifeKept DEF pipelineVars, outboxOwn, consumerOwn, Mapped
  <2> QED
    BY <2>1, OutboxSideDelivers, ConsumerSideDelivers DEF PipelineNext
<1> QED
  BY <1>1, <1>2, PipelineInvariance, PTL
     DEF PipelineSpec, ImplementsDelivery, Delivery!DeliverySpec, Mapped

-----------------------------------------------------------------------------
(* What the consumers are handed. *)

\* With one dispatcher, consumers find the events of one aggregate whose
\* transactions followed one another in that order on the partition.
THEOREM PartitionInOrder ==
  ASSUME OutboxFacts!OneDispatcher
  PROVE  PipelineSpec => []PartitionOrder
<1>1. PipelineInit => OutboxFacts!OrderInv
  BY SameOutboxInit, OutboxFacts!OrderInvInit, PipelineAssumption DEF PipelineInit, OutboxFacts!OutboxAssumption
<1>2. OutboxFacts!OutboxInv /\ OutboxFacts!OutboxInv' /\ OutboxFacts!OrderInv
        /\ [PipelineNext]_pipelineVars => OutboxFacts!OrderInv'
  <2>1. OutboxFacts!OutboxAssumption
    BY PipelineAssumption DEF OutboxFacts!OutboxAssumption
  <2> QED
    BY <2>1, PipelineOutboxStep, OutboxFacts!OrderInvNext
<1>3. OutboxFacts!OrderInv => PartitionOrder
  BY DEF OutboxFacts!OrderInv, OutboxFacts!FirstCopyAfter, PartitionOrder, Outbox!AggregateOrder
<1> QED
  BY <1>1, <1>2, <1>3, OutboxInvHolds, PTL DEF PipelineSpec

LEMMA SameFinite == IsFiniteSet(Rows) => OutboxFacts!IsFiniteSet(Rows)
BY DEF IsFiniteSet, OutboxFacts!IsFiniteSet

LEMMA SameCardinality == Cardinality(Rows) = OutboxFacts!Cardinality(Rows)
BY DEF Cardinality, OutboxFacts!Cardinality

\* The bound MaxLog on what consumers read never cuts the partition short:
\* duplicates included, it has one append per row and one per fault at most.
THEOREM PartitionFits ==
  ASSUME IsFiniteSet(Rows)
  PROVE  PipelineSpec => [](Len(log) <= MaxLog)
<1>0. OutboxFacts!OutboxAssumption /\ OutboxFacts!IsFiniteSet(Rows)
  BY PipelineAssumption, SameFinite DEF OutboxFacts!OutboxAssumption
<1>1. PipelineInit => OutboxFacts!CopiesArePaid /\ faults <= MaxFaults
  <2>1. Outbox!OutboxInit => faults = 0 /\ 0 <= MaxFaults
    BY PipelineAssumption DEF Outbox!OutboxInit
  <2> QED
    BY <1>0, <2>1, SameOutboxInit, OutboxFacts!CopiesArePaidInit DEF PipelineInit
<1>2. OutboxFacts!OutboxInv /\ OutboxFacts!OutboxInv' /\ OutboxFacts!CopiesArePaid
        /\ [PipelineNext]_pipelineVars => OutboxFacts!CopiesArePaid'
  BY <1>0, PipelineOutboxStep, OutboxFacts!CopiesArePaidNext
<1>3. OutboxFacts!OutboxInv /\ faults <= MaxFaults /\ [PipelineNext]_pipelineVars
        => (faults <= MaxFaults)'
  <2> SUFFICES ASSUME OutboxFacts!OutboxInv, faults <= MaxFaults,
                      [OutboxFacts!OutboxNext]_OutboxFacts!outboxVars
               PROVE  faults' <= MaxFaults
    BY PipelineOutboxStep
  <2>1. UNCHANGED faults \/ OutboxFacts!Fault
    BY DEF OutboxFacts!outboxVars, OutboxFacts!OutboxNext, OutboxFacts!BusinessStep,
       OutboxFacts!EnqueueEvent, OutboxFacts!EndTransaction, OutboxFacts!LateAppend,
       OutboxFacts!DispatcherProgress, OutboxFacts!StartDispatcher, OutboxFacts!ClaimRow,
       OutboxFacts!SendEvent, OutboxFacts!SendRefused, OutboxFacts!BrokerAppend,
       OutboxFacts!ReceiveAck, OutboxFacts!MarkProcessed, OutboxFacts!RollBack,
       OutboxFacts!FinishRun, OutboxFacts!StopProducer, OutboxFacts!Disturbance,
       OutboxFacts!SendFails, OutboxFacts!CommitFails, OutboxFacts!RequestStop,
       OutboxFacts!CrashDispatcher
  <2> QED
    BY <2>1, PipelineAssumption DEF OutboxFacts!Fault, OutboxFacts!OutboxInv, OutboxFacts!OutboxTypeOK
<1>4. OutboxFacts!OutboxInv /\ OutboxFacts!CopiesArePaid /\ faults <= MaxFaults
        => Len(log) <= MaxLog
  <2> SUFFICES ASSUME OutboxFacts!OutboxInv, OutboxFacts!CopiesArePaid, faults <= MaxFaults
               PROVE  Len(log) <= MaxLog
    OBVIOUS
  <2>1. /\ Len(log) \in Nat /\ OutboxFacts!SumFunction(stray) \in Nat
        /\ OutboxFacts!Cardinality(OutboxFacts!Due) \in Nat
        /\ OutboxFacts!Cardinality(OutboxFacts!Range(log)) \in Nat /\ faults \in Nat
    BY <1>0, OutboxFacts!Counted
  <2>2. Len(log) <= OutboxFacts!Cardinality(OutboxFacts!Range(log)) + faults
    BY <2>1 DEF OutboxFacts!CopiesArePaid
  <2>3. OutboxFacts!Range(log) \subseteq Rows
    BY DEF OutboxFacts!Range, OutboxFacts!OutboxInv, OutboxFacts!OutboxTypeOK
  <2>4. OutboxFacts!Cardinality(OutboxFacts!Range(log)) <= Cardinality(Rows) /\ Cardinality(Rows) \in Nat
    BY <1>0, <2>3, SameCardinality, OutboxFacts!CardinalityWithin, OutboxFacts!FS_CardinalityType
  <2> QED
    BY <2>1, <2>2, <2>4, PipelineAssumption
<1> QED
  BY <1>1, <1>2, <1>3, <1>4, OutboxInvHolds, PTL DEF PipelineSpec
=============================================================================
