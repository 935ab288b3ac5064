----------------------- MODULE OutboxDispatcherProofs -----------------------
(***************************************************************************)
(* Machine-checked safety of the transactional outbox, for every set of    *)
(* rows and dispatchers and any number of faults.                          *)
(***************************************************************************)
EXTENDS OutboxDispatcher, SumTheorems, TLAPS

-----------------------------------------------------------------------------
(* What appending to the partition does to the set of published events. *)

LEMMA RangeOfAppend ==
  ASSUME NEW S, NEW s \in Seq(S), NEW x \in S
  PROVE  /\ Append(s, x) \in Seq(S)
         /\ Range(Append(s, x)) = Range(s) \cup {x}
<1> DEFINE t == Append(s, x)
<1>1. /\ t \in Seq(S)
      /\ Len(s) \in Nat
      /\ DOMAIN s = 1..Len(s)
      /\ DOMAIN t = 1..(Len(s) + 1)
      /\ \A i \in 1..Len(s) : t[i] = s[i]
      /\ t[Len(s) + 1] = x
  OBVIOUS
<1>2. ASSUME NEW y \in Range(t) PROVE y \in Range(s) \cup {x}
  <2>1. PICK i \in 1..(Len(s) + 1) : y = t[i]
    BY <1>1 DEF Range
  <2> QED
    BY <1>1, <2>1 DEF Range
<1>3. Range(s) \subseteq Range(t)
  BY <1>1 DEF Range
<1>4. x \in Range(t)
  BY <1>1 DEF Range
<1> QED
  BY <1>1, <1>2, <1>3, <1>4

LEMMA RangeOfEmpty == Range(<<>>) = {}
BY DEF Range

-----------------------------------------------------------------------------
(* The inductive invariant.  A dispatcher inside the transaction of         *)
(* dispatch_once owns the lock of one pending row, its producer is still   *)
(* connected, and past the broker's append its event is on the partition.  *)
LockedRow(d) ==
  pc[d] \in Holding =>
    /\ cur[d] \in Rows
    /\ lock[cur[d]] = d
    /\ row[cur[d]] = "pending"
    /\ connected[d]

AppendedBeforeAck(d) ==
  pc[d] \in {"appended", "acked"} => cur[d] \in Range(log)

OutboxInv ==
  /\ OutboxTypeOK
  /\ \A d \in Dispatchers : LockedRow(d) /\ AppendedBeforeAck(d)
  /\ ProcessedIsPublished
  /\ OnlyCommittedPublished

LEMMA OutboxInvInit == OutboxInit => OutboxInv
BY OutboxAssumption, RangeOfEmpty
   DEF OutboxInit, OutboxInv, OutboxTypeOK, RowState, DispatcherPC, LockedRow,
       AppendedBeforeAck, Holding, ProcessedIsPublished, OnlyCommittedPublished

-----------------------------------------------------------------------------
(* Each step preserves the invariant: the steps of business transactions,  *)
(* of the network, and of one dispatcher.                                  *)

LEMMA BusinessStepInv ==
  ASSUME OutboxInv, BusinessStep
  PROVE  OutboxInv'
<1> USE OutboxAssumption DEF OutboxInv, OutboxTypeOK, RowState, DispatcherPC,
        LockedRow, AppendedBeforeAck, Holding, Committed, ProcessedIsPublished,
        OnlyCommittedPublished, processVars
<1>1. ASSUME NEW e \in Rows, EnqueueEvent(e) PROVE OutboxInv'
  BY <1>1, RangeOfAppend DEF EnqueueEvent
<1>2. ASSUME NEW e \in Rows, NEW o \in {"pending", "discarded"}, EndTransaction(e, o)
      PROVE  OutboxInv'
  BY <1>2 DEF EndTransaction
<1> QED
  BY <1>1, <1>2 DEF BusinessStep

LEMMA LateAppendInv ==
  ASSUME OutboxInv, NEW e \in Rows, LateAppend(e)
  PROVE  OutboxInv'
<1>1. log' \in Seq(Rows) /\ Range(log') = Range(log) \cup {e}
  BY RangeOfAppend DEF LateAppend, OutboxInv, OutboxTypeOK
<1>2. /\ UNCHANGED <<row, created, before, lock, pc, cur, connected, stopping, faults>>
      /\ stray[e] > 0
      /\ stray' = [stray EXCEPT ![e] = @ - 1]
  BY DEF LateAppend, dbVars, processVars
<1> QED
  BY <1>1, <1>2 DEF OutboxInv, OutboxTypeOK, LockedRow, AppendedBeforeAck, Holding,
     Committed, ProcessedIsPublished, OnlyCommittedPublished

LEMMA ProgressInv ==
  ASSUME OutboxInv, NEW d \in Dispatchers, DispatcherProgress(d)
  PROVE  OutboxInv'
<1> USE OutboxAssumption DEF OutboxInv, OutboxTypeOK, RowState, DispatcherPC,
        LockedRow, AppendedBeforeAck, Holding, Committed, ProcessedIsPublished,
        OnlyCommittedPublished, dbVars, processVars
<1>1. CASE StartDispatcher(d)
  BY <1>1 DEF StartDispatcher
<1>2. ASSUME NEW e \in Rows, ClaimRow(d, e) PROVE OutboxInv'
  <2>1. row[e] = "pending" /\ lock[e] = NoDispatcher
    BY <1>2 DEF ClaimRow, OldestClaimable, Claimable
  <2> QED
    BY <1>2, <2>1 DEF ClaimRow
<1>3. CASE SendEvent(d)
  BY <1>3 DEF SendEvent
<1>4. CASE SendRefused(d)
  BY <1>4 DEF SendRefused
<1>5. CASE BrokerAppend(d)
  <2>1. cur[d] \in Rows /\ row[cur[d]] = "pending"
    BY <1>5 DEF BrokerAppend
  <2>2. log' \in Seq(Rows) /\ Range(log') = Range(log) \cup {cur[d]}
    BY <1>5, <2>1, RangeOfAppend DEF BrokerAppend
  <2> QED
    BY <1>5, <2>1, <2>2 DEF BrokerAppend
<1>6. CASE ReceiveAck(d)
  BY <1>6 DEF ReceiveAck
<1>7. CASE MarkProcessed(d)
  <2>1. /\ cur[d] \in Rows
        /\ cur[d] \in Range(log)
        /\ \A d2 \in Dispatchers \ {d} : pc[d2] \in Holding => cur[d2] # cur[d]
    BY <1>7 DEF MarkProcessed
  <2> QED
    BY <1>7, <2>1 DEF MarkProcessed, Release
<1>8. CASE RollBack(d)
  BY <1>8 DEF RollBack, Release
<1>9. CASE FinishRun(d)
  BY <1>9 DEF FinishRun
<1>10. CASE StopProducer(d)
  BY <1>10 DEF StopProducer
<1> QED
  BY <1>1, <1>2, <1>3, <1>4, <1>5, <1>6, <1>7, <1>8, <1>9, <1>10 DEF DispatcherProgress

LEMMA DisturbanceInv ==
  ASSUME OutboxInv, NEW d \in Dispatchers, Disturbance(d)
  PROVE  OutboxInv'
<1> USE OutboxAssumption DEF OutboxInv, OutboxTypeOK, RowState, DispatcherPC,
        LockedRow, AppendedBeforeAck, Holding, Committed, ProcessedIsPublished,
        OnlyCommittedPublished, dbVars, processVars, Fault
<1>0. ASSUME AbandonRequest(d)
      PROVE  /\ stray' \in [Rows -> Nat]
             /\ \A e \in Rows : stray'[e] > 0 => stray[e] > 0 \/ row[e] = "pending"
  <2>1. CASE UNCHANGED stray
    BY <2>1
  <2>2. CASE pc[d] = "sending" /\ stray' = [stray EXCEPT ![cur[d]] = @ + 1]
    <3>1. cur[d] \in Rows /\ row[cur[d]] = "pending"
      BY <2>2
    <3>2. stray[cur[d]] + 1 \in Nat
      BY <3>1
    <3> QED
      BY <2>2, <3>1, <3>2
  <2> QED
    BY <1>0, <2>1, <2>2 DEF AbandonRequest
<1>1. CASE SendFails(d)
  BY <1>0, <1>1 DEF SendFails
<1>2. CASE CommitFails(d)
  BY <1>2 DEF CommitFails, Release
<1>3. CASE RequestStop(d)
  BY <1>3 DEF RequestStop
<1>4. CASE CrashDispatcher(d)
  BY <1>0, <1>4 DEF CrashDispatcher, Release
<1> QED
  BY <1>1, <1>2, <1>3, <1>4 DEF Disturbance

LEMMA OutboxInvNext == OutboxInv /\ [OutboxNext]_outboxVars => OutboxInv'
<1> SUFFICES ASSUME OutboxInv, [OutboxNext]_outboxVars PROVE OutboxInv'
  OBVIOUS
<1>1. CASE OutboxNext
  BY <1>1, BusinessStepInv, LateAppendInv, ProgressInv, DisturbanceInv DEF OutboxNext
<1>2. CASE UNCHANGED outboxVars
  BY <1>2 DEF outboxVars, OutboxInv, OutboxTypeOK, LockedRow, AppendedBeforeAck,
     ProcessedIsPublished, OnlyCommittedPublished
<1> QED
  BY <1>1, <1>2

-----------------------------------------------------------------------------
(* Duplicates.  A row that is on the partition and will be sent again is    *)
(* due: it is pending and no dispatcher holds the broker's append.  Every  *)
(* copy beyond the first, every copy still on the network and every row    *)
(* due is paid for by one fault.                                           *)
Delivered(e) ==
  \E d \in Dispatchers : pc[d] \in {"appended", "acked"} /\ cur[d] = e

Due == {e \in Range(log) : row[e] = "pending" /\ ~Delivered(e)}

CopiesArePaid ==
  Len(log) + SumFunction(stray) + Cardinality(Due) <= Cardinality(Range(log)) + faults

LEMMA CardinalityWithin ==
  ASSUME NEW T, IsFiniteSet(T), NEW S, S \subseteq T
  PROVE  Cardinality(S) <= Cardinality(T) /\ Cardinality(S) \in Nat
BY FS_Subset, FS_CardinalityType

LEMMA CardinalityWithinAnd ==
  ASSUME NEW T, IsFiniteSet(T), NEW x, NEW S, S \subseteq T \cup {x}
  PROVE  Cardinality(S) <= Cardinality(T) + 1 /\ Cardinality(S) \in Nat
<1>1. IsFiniteSet(T \cup {x}) /\ Cardinality(T \cup {x}) <= Cardinality(T) + 1
  <2>1. Cardinality(T) \in Nat
    BY FS_CardinalityType
  <2>2. /\ IsFiniteSet(T \cup {x})
        /\ Cardinality(T \cup {x}) = IF x \in T THEN Cardinality(T) ELSE Cardinality(T) + 1
    BY FS_AddElement
  <2> QED
    BY <2>1, <2>2
<1>2. Cardinality(S) <= Cardinality(T \cup {x}) /\ IsFiniteSet(S)
  BY <1>1, FS_Subset
<1> QED
  BY <1>1, <1>2, FS_CardinalityType

LEMMA CardinalityWithout ==
  ASSUME NEW T, IsFiniteSet(T), NEW x \in T, NEW S, S \subseteq T \ {x}
  PROVE  Cardinality(S) + 1 <= Cardinality(T) /\ Cardinality(S) \in Nat
<1>1. IsFiniteSet(T \ {x}) /\ Cardinality(T \ {x}) = Cardinality(T) - 1
  BY FS_RemoveElement
<1>2. Cardinality(S) <= Cardinality(T \ {x}) /\ IsFiniteSet(S)
  BY <1>1, FS_Subset
<1> QED
  BY <1>1, <1>2, FS_CardinalityType

\* What is counted is countable.
LEMMA Counted ==
  ASSUME OutboxInv, IsFiniteSet(Rows)
  PROVE  /\ IsFiniteSet(Range(log)) /\ IsFiniteSet(Due)
         /\ Cardinality(Range(log)) \in Nat /\ Cardinality(Due) \in Nat
         /\ Len(log) \in Nat
         /\ SumFunction(stray) \in Nat
         /\ faults \in Nat
<1>1. log \in Seq(Rows) /\ stray \in [Rows -> Nat] /\ faults \in Nat
  BY DEF OutboxInv, OutboxTypeOK
<1>2. Range(log) \subseteq Rows /\ Len(log) \in Nat
  BY <1>1 DEF Range
<1>3. Due \subseteq Range(log)
  BY DEF Due
<1>4. IsFiniteSet(Range(log)) /\ IsFiniteSet(Due)
  BY <1>2, <1>3, FS_Subset
<1>5. SumFunction(stray) \in Nat
  BY <1>1, SumFunctionNat
<1> QED
  BY <1>1, <1>2, <1>4, <1>5, FS_CardinalityType

\* A step that leaves the partition and the network alone and makes no row due.
LEMMA NothingNewDue ==
  ASSUME OutboxInv, OutboxInv', IsFiniteSet(Rows), CopiesArePaid,
         UNCHANGED <<log, stray>>, faults' >= faults, Due' \subseteq Due
  PROVE  CopiesArePaid'
<1>1. Cardinality(Due') <= Cardinality(Due) /\ Cardinality(Due') \in Nat
  BY Counted, CardinalityWithin
<1>2. faults' \in Nat
  BY DEF OutboxInv, OutboxTypeOK
<1>3. /\ Cardinality(Due) \in Nat /\ Len(log) \in Nat /\ SumFunction(stray) \in Nat
      /\ Cardinality(Range(log)) \in Nat /\ faults \in Nat
  BY Counted
<1>4. /\ Len(log)' = Len(log) /\ SumFunction(stray)' = SumFunction(stray)
      /\ Cardinality(Range(log))' = Cardinality(Range(log))
  OBVIOUS
<1> QED
  BY <1>1, <1>2, <1>3, <1>4 DEF CopiesArePaid

\* A fault that leaves one row to be sent again.
LEMMA OneRowDue ==
  ASSUME OutboxInv, OutboxInv', IsFiniteSet(Rows), CopiesArePaid,
         UNCHANGED <<log, stray>>, faults' = faults + 1,
         NEW e, Due' \subseteq Due \cup {e}
  PROVE  CopiesArePaid'
<1>1. Cardinality(Due') <= Cardinality(Due) + 1 /\ Cardinality(Due') \in Nat
  BY Counted, CardinalityWithinAnd
<1>3. /\ Cardinality(Due) \in Nat /\ Len(log) \in Nat /\ SumFunction(stray) \in Nat
      /\ Cardinality(Range(log)) \in Nat /\ faults \in Nat
  BY Counted
<1>4. /\ Len(log)' = Len(log) /\ SumFunction(stray)' = SumFunction(stray)
      /\ Cardinality(Range(log))' = Cardinality(Range(log))
  OBVIOUS
<1> QED
  BY <1>1, <1>3, <1>4 DEF CopiesArePaid

\* A fault that leaves one request on the network.
LEMMA OneMoreStray ==
  ASSUME OutboxInv, OutboxInv', IsFiniteSet(Rows), CopiesArePaid,
         UNCHANGED log, faults' = faults + 1,
         NEW e \in Rows, stray' = [stray EXCEPT ![e] = @ + 1], Due' \subseteq Due
  PROVE  CopiesArePaid'
<1>1. Cardinality(Due') <= Cardinality(Due) /\ Cardinality(Due') \in Nat
  BY Counted, CardinalityWithin
<1>3. /\ Cardinality(Due) \in Nat /\ Len(log) \in Nat /\ SumFunction(stray) \in Nat
      /\ Cardinality(Range(log)) \in Nat /\ faults \in Nat
  BY Counted
<1>4. /\ Len(log)' = Len(log)
      /\ Cardinality(Range(log))' = Cardinality(Range(log))
  OBVIOUS
<1>5. SumFunction(stray)' = SumFunction(stray) + 1
  <2>1. /\ stray \in [Rows -> Int] /\ stray' \in [Rows -> Int]
        /\ stray'[e] = stray[e] + 1 /\ stray[e] \in Int
        /\ \A y \in Rows \ {e} : stray'[y] = stray[y]
    BY DEF OutboxInv, OutboxTypeOK
  <2>2. SumFunction(stray') = SumFunction(stray) - stray[e] + stray'[e]
    BY ONLY IsFiniteSet(Rows), <2>1, SumFunctionChange
  <2> QED
    BY <1>3, <2>1, <2>2
<1> QED
  BY <1>1, <1>3, <1>4, <1>5 DEF CopiesArePaid

\* The broker appends a copy of row e; slack is what the step saves elsewhere.
LEMMA AppendedSizes ==
  ASSUME OutboxInv, IsFiniteSet(Rows), NEW e \in Rows, log' = Append(log, e)
  PROVE  /\ Range(log)' = Range(log) \cup {e}
         /\ Len(log)' = Len(log) + 1
         /\ e \in Range(log) => Cardinality(Range(log))' = Cardinality(Range(log))
         /\ e \notin Range(log) => Cardinality(Range(log))' = Cardinality(Range(log)) + 1
<1>1. log \in Seq(Rows)
  BY DEF OutboxInv, OutboxTypeOK
<1>2. Range(log)' = Range(log) \cup {e} /\ Len(log)' = Len(log) + 1
  BY <1>1, RangeOfAppend
<1>3. IsFiniteSet(Range(log))
  BY Counted
<1>4. Cardinality(Range(log) \cup {e}) =
        IF e \in Range(log) THEN Cardinality(Range(log)) ELSE Cardinality(Range(log)) + 1
  BY <1>3, FS_AddElement
<1> QED
  BY <1>2, <1>4

\* Dispatchers keep the appends they hold, and no row on the partition turns
\* pending.
LEMMA DueKept ==
  ASSUME UNCHANGED log,
         \A e \in Range(log) : row'[e] = "pending" => row[e] = "pending",
         \A d \in Dispatchers : pc[d] \in {"appended", "acked"} =>
           pc'[d] \in {"appended", "acked"} /\ cur'[d] = cur[d]
  PROVE  Due' \subseteq Due
BY DEF Due, Delivered

\* Dispatcher d gives up what it holds: its row may have to be sent again.
LEMMA DueAfterLoss ==
  ASSUME NEW d \in Dispatchers, UNCHANGED <<log, row>>,
         \A x \in Dispatchers \ {d} : pc'[x] = pc[x] /\ cur'[x] = cur[x]
  PROVE  /\ Due' \subseteq Due \cup {cur[d]}
         /\ pc[d] \notin {"appended", "acked"} => Due' \subseteq Due
BY DEF Due, Delivered

LEMMA BusinessCopies ==
  ASSUME OutboxInv, OutboxInv', IsFiniteSet(Rows), CopiesArePaid, BusinessStep
  PROVE  CopiesArePaid'
<1>1. /\ UNCHANGED <<log, stray, faults, pc, cur>>
      /\ \A e \in Rows : row'[e] # row[e] => row[e] \in {"absent", "staged"}
  BY DEF BusinessStep, EnqueueEvent, EndTransaction, OutboxInv, OutboxTypeOK, processVars
<1>2. \A e \in Range(log) : e \in Rows /\ row'[e] = row[e]
  <2>1. Range(log) \subseteq Rows
    BY DEF OutboxInv, OutboxTypeOK, Range
  <2>2. \A e \in Range(log) : row[e] \in {"pending", "processed"}
    BY <2>1 DEF OutboxInv, OnlyCommittedPublished, Committed
  <2> QED
    BY <1>1, <2>1, <2>2
<1>3. Due' \subseteq Due
  BY <1>1, <1>2, DueKept
<1>4. faults' >= faults
  BY <1>1, Counted
<1> QED
  BY <1>1, <1>3, <1>4, NothingNewDue

LEMMA LateAppendCopies ==
  ASSUME OutboxInv, OutboxInv', IsFiniteSet(Rows), CopiesArePaid, NEW e \in Rows, LateAppend(e)
  PROVE  CopiesArePaid'
<1>1. /\ UNCHANGED <<row, pc, cur, faults>> /\ log' = Append(log, e)
      /\ stray[e] > 0 /\ stray' = [stray EXCEPT ![e] = @ - 1]
  BY DEF LateAppend, dbVars
<1>2. SumFunction(stray)' = SumFunction(stray) - 1
  <2>1. /\ stray \in [Rows -> Int] /\ stray' \in [Rows -> Int]
        /\ stray'[e] = stray[e] - 1 /\ stray[e] \in Int
        /\ \A y \in Rows \ {e} : stray'[y] = stray[y]
    BY <1>1 DEF OutboxInv, OutboxTypeOK
  <2>2. SumFunction(stray') = SumFunction(stray) - stray[e] + stray'[e]
    BY ONLY IsFiniteSet(Rows), <2>1, SumFunctionChange
  <2> QED
    BY <2>1, <2>2, Counted
<1>3. /\ Range(log)' = Range(log) \cup {e}
      /\ Len(log)' = Len(log) + 1
      /\ e \in Range(log) => Cardinality(Range(log))' = Cardinality(Range(log))
      /\ e \notin Range(log) => Cardinality(Range(log))' = Cardinality(Range(log)) + 1
  BY <1>1, AppendedSizes
<1>4. /\ Due' \subseteq Due \cup {e}
      /\ e \in Range(log) => Due' \subseteq Due
  BY <1>1, <1>3 DEF Due, Delivered
<1>5. /\ Cardinality(Due) \in Nat /\ Len(log) \in Nat /\ SumFunction(stray) \in Nat
      /\ Cardinality(Range(log)) \in Nat /\ faults \in Nat
  BY Counted
<1>6. CASE e \in Range(log)
  <2>1. Cardinality(Due') <= Cardinality(Due) /\ Cardinality(Due') \in Nat
    BY <1>4, <1>6, Counted, CardinalityWithin
  <2> QED
    BY <1>1, <1>2, <1>3, <1>5, <1>6, <2>1 DEF CopiesArePaid
<1>7. CASE e \notin Range(log)
  <2>1. Cardinality(Due') <= Cardinality(Due) + 1 /\ Cardinality(Due') \in Nat
    BY <1>4, Counted, CardinalityWithinAnd
  <2> QED
    BY <1>1, <1>2, <1>3, <1>5, <1>7, <2>1 DEF CopiesArePaid
<1> QED
  BY <1>6, <1>7

LEMMA BrokerAppendCopies ==
  ASSUME OutboxInv, OutboxInv', IsFiniteSet(Rows), CopiesArePaid,
         NEW d \in Dispatchers, BrokerAppend(d)
  PROVE  CopiesArePaid'
<1>1. PICK e \in Rows : e = cur[d]
  BY DEF BrokerAppend, OutboxInv, LockedRow, Holding
<1>2. /\ UNCHANGED <<row, cur, stray, faults>> /\ log' = Append(log, e)
      /\ pc' = [pc EXCEPT ![d] = "appended"] /\ pc[d] = "sending" /\ row[e] = "pending"
      /\ pc \in [Dispatchers -> DispatcherPC]
  BY <1>1 DEF BrokerAppend, OutboxInv, OutboxTypeOK, LockedRow, Holding, dbVars
<1>3. /\ Range(log)' = Range(log) \cup {e}
      /\ Len(log)' = Len(log) + 1
      /\ e \in Range(log) => Cardinality(Range(log))' = Cardinality(Range(log))
      /\ e \notin Range(log) => Cardinality(Range(log))' = Cardinality(Range(log)) + 1
  BY <1>2, AppendedSizes
<1>4. Delivered(e)'
  BY <1>1, <1>2 DEF Delivered
<1>5. Due' \subseteq Due \ {e}
  BY <1>2, <1>3, <1>4 DEF Due, Delivered
<1>6. /\ Cardinality(Due) \in Nat /\ Len(log) \in Nat /\ SumFunction(stray) \in Nat
      /\ Cardinality(Range(log)) \in Nat /\ faults \in Nat
  BY Counted
<1>7. CASE e \in Range(log)
  <2>1. ~Delivered(e)
    BY <1>1, <1>2 DEF Delivered, OutboxInv, LockedRow, Holding
  <2>2. e \in Due
    BY <1>2, <1>7, <2>1 DEF Due
  <2>3. Cardinality(Due') + 1 <= Cardinality(Due) /\ Cardinality(Due') \in Nat
    BY <1>5, <2>2, Counted, CardinalityWithout
  <2> QED
    BY <1>2, <1>3, <1>6, <1>7, <2>3 DEF CopiesArePaid
<1>8. CASE e \notin Range(log)
  <2>1. Cardinality(Due') <= Cardinality(Due) /\ Cardinality(Due') \in Nat
    BY <1>5, Counted, CardinalityWithin
  <2> QED
    BY <1>2, <1>3, <1>6, <1>8, <2>1 DEF CopiesArePaid
<1> QED
  BY <1>7, <1>8

LEMMA ProgressCopies ==
  ASSUME OutboxInv, OutboxInv', IsFiniteSet(Rows), CopiesArePaid,
         NEW d \in Dispatchers, DispatcherProgress(d)
  PROVE  CopiesArePaid'
<1>1. CASE BrokerAppend(d)
  BY <1>1, BrokerAppendCopies
<1>2. CASE ~BrokerAppend(d)
  <2>1. UNCHANGED <<log, stray, faults>> /\ faults' >= faults
    BY <1>2, Counted DEF DispatcherProgress, StartDispatcher, ClaimRow, SendEvent, SendRefused,
       ReceiveAck, MarkProcessed, RollBack, FinishRun, StopProducer
  <2>2. CASE MarkProcessed(d)
    <3>1. /\ cur[d] \in Rows /\ row' = [row EXCEPT ![cur[d]] = "processed"]
          /\ \A x \in Dispatchers \ {d} : pc'[x] = pc[x] /\ cur'[x] = cur[x]
          /\ row \in [Rows -> RowState]
      BY <2>2 DEF MarkProcessed, Release, OutboxInv, OutboxTypeOK, LockedRow, Holding
    <3>2. Range(log) \subseteq Rows
      BY DEF OutboxInv, OutboxTypeOK, Range
    <3>3. Due' \subseteq Due
      BY <2>1, <3>1, <3>2 DEF Due, Delivered
    <3> QED
      BY <2>1, <3>3, NothingNewDue
  <2>3. CASE ~MarkProcessed(d)
    <3>1. /\ UNCHANGED row
          /\ \A x \in Dispatchers : pc[x] \in {"appended", "acked"} =>
               pc'[x] \in {"appended", "acked"} /\ cur'[x] = cur[x]
      <4> USE <1>2, <2>3 DEF dbVars, OutboxInv, OutboxTypeOK
      <4>1. CASE ReceiveAck(d)
        BY <4>1 DEF ReceiveAck
      <4>2. CASE RollBack(d)
        BY <4>2 DEF RollBack, Release
      <4>3. CASE ~ReceiveAck(d) /\ ~RollBack(d)
        BY <4>3 DEF DispatcherProgress, StartDispatcher, ClaimRow, SendEvent, SendRefused,
           FinishRun, StopProducer
      <4> QED
        BY <4>1, <4>2, <4>3
    <3>2. Due' \subseteq Due
      BY <2>1, <3>1, DueKept
    <3> QED
      BY <2>1, <3>2, NothingNewDue
  <2> QED
    BY <2>2, <2>3
<1> QED
  BY <1>1, <1>2

LEMMA DisturbanceCopies ==
  ASSUME OutboxInv, OutboxInv', IsFiniteSet(Rows), CopiesArePaid,
         NEW d \in Dispatchers, Disturbance(d)
  PROVE  CopiesArePaid'
<1>1. /\ UNCHANGED <<log, row>> /\ faults' = faults + 1
      /\ \A x \in Dispatchers \ {d} : pc'[x] = pc[x] /\ cur'[x] = cur[x]
  BY DEF Disturbance, SendFails, CommitFails, RequestStop, CrashDispatcher, Release, Fault,
     dbVars, OutboxInv, OutboxTypeOK
<1>2. /\ Due' \subseteq Due \cup {cur[d]}
      /\ pc[d] \notin {"appended", "acked"} => Due' \subseteq Due
  BY <1>1, DueAfterLoss
<1>3. CASE UNCHANGED stray
  BY <1>1, <1>2, <1>3, OneRowDue
<1>4. CASE ~UNCHANGED stray
  <2>1. pc[d] = "sending" /\ stray' = [stray EXCEPT ![cur[d]] = @ + 1]
    BY <1>4 DEF Disturbance, SendFails, CommitFails, RequestStop, CrashDispatcher, AbandonRequest
  <2>2. PICK e \in Rows : e = cur[d]
    BY <2>1 DEF OutboxInv, LockedRow, Holding
  <2> QED
    BY <1>1, <1>2, <2>1, <2>2, OneMoreStray
<1> QED
  BY <1>3, <1>4

LEMMA CopiesArePaidNext ==
  ASSUME IsFiniteSet(Rows)
  PROVE  OutboxInv /\ OutboxInv' /\ CopiesArePaid /\ [OutboxNext]_outboxVars => CopiesArePaid'
<1> SUFFICES ASSUME OutboxInv, OutboxInv', CopiesArePaid, [OutboxNext]_outboxVars
             PROVE  CopiesArePaid'
  OBVIOUS
<1>1. CASE OutboxNext
  BY <1>1, BusinessCopies, LateAppendCopies, ProgressCopies, DisturbanceCopies DEF OutboxNext
<1>2. CASE UNCHANGED outboxVars
  BY <1>2 DEF outboxVars, CopiesArePaid, Due, Delivered
<1> QED
  BY <1>1, <1>2

LEMMA CopiesArePaidInit ==
  ASSUME IsFiniteSet(Rows)
  PROVE  OutboxInit => CopiesArePaid
<1> SUFFICES ASSUME OutboxInit PROVE CopiesArePaid
  OBVIOUS
<1>1. log = <<>> /\ faults = 0 /\ DOMAIN stray = Rows /\ \A e \in Rows : stray[e] = 0
  BY DEF OutboxInit
<1>2. SumFunction(stray) = 0
  BY <1>1, SumFunctionZero
<1>3. Range(log) = {} /\ Due = {} /\ Len(log) = 0
  BY <1>1, RangeOfEmpty DEF Due
<1> QED
  BY <1>1, <1>2, <1>3, FS_EmptySet DEF CopiesArePaid

-----------------------------------------------------------------------------
(* Order on the partition, with one dispatcher.  Rows are inserted once, in *)
(* the order of created_at; ORDER BY created_at makes the dispatcher work   *)
(* on a row only when the rows committed before its insertion are done.    *)
OneDispatcher == \A c, d \in Dispatchers : c = d

LocksHeld ==
  \A e \in Rows : lock[e] # NoDispatcher => pc[lock[e]] \in Holding /\ cur[lock[e]] = e

InsertedOnce ==
  /\ \A i, j \in DOMAIN created : created[i] = created[j] => i = j
  /\ \A e \in Rows : row[e] # "absent" <=> \E i \in DOMAIN created : created[i] = e

InsertedAfter ==
  \A f \in Rows : \A e \in before[f] :
    /\ row[e] \in Committed
    /\ \E i, j \in DOMAIN created : i < j /\ created[i] = e /\ created[j] = f

\* Row f has left for the broker, or is about to.
Sent(f) ==
  \/ f \in Range(log)
  \/ stray[f] > 0
  \/ \E d \in Dispatchers : pc[d] \in Holding /\ cur[d] = f

SentInTurn == \A f \in Rows : Sent(f) => \A e \in before[f] : row[e] = "processed"

FirstCopyAfter ==
  \A f \in Rows : \A e \in before[f] :
    \A j \in DOMAIN log : log[j] = f => \E i \in 1..(j - 1) : log[i] = e

OrderInv == LocksHeld /\ InsertedOnce /\ InsertedAfter /\ SentInTurn /\ FirstCopyAfter

\* How the tables of the outbox move in one step.
RowMove ==
  /\ \A e \in Rows : row[e] = "processed" => row'[e] = "processed"
  /\ \A e \in Rows : row[e] \in Committed => row'[e] \in Committed
  /\ \A e \in Rows : row'[e] = "absent" <=> row[e] = "absent"
  /\ UNCHANGED <<created, before>>

LEMMA DispatcherRowMove ==
  ASSUME OutboxInv, NEW d \in Dispatchers, DispatcherProgress(d) \/ Disturbance(d)
  PROVE  RowMove
<1> USE DEF OutboxInv, OutboxTypeOK, RowState, Committed, RowMove, dbVars
<1>1. CASE MarkProcessed(d)
  <2>1. cur[d] \in Rows /\ row[cur[d]] = "pending"
    BY <1>1 DEF MarkProcessed, LockedRow, Holding
  <2> QED
    BY <1>1, <2>1 DEF MarkProcessed
<1>2. CASE ~MarkProcessed(d)
  <2>1. UNCHANGED <<row, created, before>>
    BY <1>2 DEF DispatcherProgress, StartDispatcher, ClaimRow, SendEvent, SendRefused, BrokerAppend,
       ReceiveAck, RollBack, FinishRun, StopProducer,
       Disturbance, SendFails, CommitFails, RequestStop, CrashDispatcher
  <2> QED
    BY <2>1
<1> QED
  BY <1>1, <1>2

LEMMA EndTransactionMove ==
  ASSUME OutboxInv, NEW e \in Rows, NEW o \in {"pending", "discarded"}, EndTransaction(e, o)
  PROVE  RowMove
BY DEF EndTransaction, OutboxInv, OutboxTypeOK, RowState, Committed, RowMove

\* Locks are taken with the claim and freed with the transaction.
LEMMA LocksHeldStep ==
  ASSUME OutboxInv, LocksHeld, OutboxNext
  PROVE  LocksHeld'
<1> USE OutboxAssumption DEF OutboxInv, OutboxTypeOK, DispatcherPC, Holding, LocksHeld, dbVars, processVars
<1>1. CASE BusinessStep \/ \E e \in Rows : LateAppend(e)
  BY <1>1 DEF BusinessStep, EnqueueEvent, EndTransaction, LateAppend
<1>2. ASSUME NEW d \in Dispatchers, DispatcherProgress(d) PROVE LocksHeld'
  <2>1. CASE MarkProcessed(d) \/ RollBack(d)
    BY <2>1 DEF MarkProcessed, RollBack, Release
  <2>2. CASE \E e \in Rows : ClaimRow(d, e)
    BY <2>2 DEF ClaimRow
  <2>3. CASE StartDispatcher(d) \/ FinishRun(d) \/ StopProducer(d)
    BY <2>3 DEF StartDispatcher, FinishRun, StopProducer
  <2>4. CASE SendEvent(d) \/ SendRefused(d) \/ BrokerAppend(d) \/ ReceiveAck(d)
    <3>1. UNCHANGED <<lock, cur>> /\ \A x \in Dispatchers : pc[x] \in Holding => pc'[x] \in Holding
      BY <2>4 DEF SendEvent, SendRefused, BrokerAppend, ReceiveAck
    <3> QED
      BY <3>1
  <2> QED
    BY <1>2, <2>1, <2>2, <2>3, <2>4 DEF DispatcherProgress
<1>3. ASSUME NEW d \in Dispatchers, Disturbance(d) PROVE LocksHeld'
  <2>1. CASE SendFails(d) \/ RequestStop(d)
    <3>1. UNCHANGED <<lock, cur>> /\ \A x \in Dispatchers : pc[x] \in Holding => pc'[x] \in Holding
      BY <2>1 DEF SendFails, RequestStop
    <3> QED
      BY <3>1
  <2>2. CASE CommitFails(d) \/ CrashDispatcher(d)
    BY <2>2 DEF CommitFails, CrashDispatcher, Release
  <2> QED
    BY <1>3, <2>1, <2>2 DEF Disturbance
<1> QED
  BY <1>1, <1>2, <1>3 DEF OutboxNext

LEMMA MoveKeepsInsertions ==
  ASSUME OutboxInv, InsertedOnce, InsertedAfter, RowMove
  PROVE  InsertedOnce' /\ InsertedAfter'
<1>1. created' = created /\ before' = before /\ before \in [Rows -> SUBSET Rows]
  BY DEF RowMove, OutboxInv, OutboxTypeOK
<1>2. InsertedOnce'
  BY <1>1 DEF InsertedOnce, RowMove
<1>3. InsertedAfter'
  BY <1>1 DEF InsertedAfter, RowMove
<1> QED
  BY <1>2, <1>3

LEMMA EnqueueKeepsInsertions ==
  ASSUME OutboxInv, InsertedOnce, InsertedAfter, NEW e \in Rows, EnqueueEvent(e)
  PROVE  InsertedOnce' /\ InsertedAfter'
<1>1. /\ created \in Seq(Rows) /\ row \in [Rows -> RowState] /\ before \in [Rows -> SUBSET Rows]
      /\ row[e] = "absent" /\ row' = [row EXCEPT ![e] = "staged"]
      /\ created' = Append(created, e)
      /\ before' = [before EXCEPT ![e] = {f \in Rows : row[f] \in Committed}]
  BY DEF EnqueueEvent, OutboxInv, OutboxTypeOK
<1>2. /\ Len(created) \in Nat
      /\ DOMAIN created = 1..Len(created) /\ DOMAIN created' = 1..(Len(created) + 1)
      /\ \A i \in 1..Len(created) : created'[i] = created[i]
      /\ created'[Len(created) + 1] = e
  BY <1>1
<1>3. \A i \in DOMAIN created : created[i] # e
  BY <1>1 DEF InsertedOnce
<1>4. \A i, j \in DOMAIN created' : created'[i] = created'[j] => i = j
  BY <1>2, <1>3 DEF InsertedOnce
<1>5. ASSUME NEW f \in Rows PROVE row'[f] # "absent" <=> \E i \in DOMAIN created' : created'[i] = f
  <2>1. CASE f = e
    BY <1>1, <1>2, <2>1
  <2>2. CASE f # e
    BY <1>1, <1>2, <2>2 DEF InsertedOnce
  <2> QED
    BY <2>1, <2>2
<1>6. ASSUME NEW f \in Rows, NEW g \in before'[f]
      PROVE  /\ row'[g] \in Committed
             /\ \E i, j \in DOMAIN created' : i < j /\ created'[i] = g /\ created'[j] = f
  <2>1. CASE f = e
    <3>1. g \in Rows /\ row[g] \in Committed
      BY <1>1, <1>6, <2>1
    <3>2. g # e /\ row'[g] \in Committed
      BY <1>1, <3>1 DEF Committed
    <3>3. PICK i \in DOMAIN created : created[i] = g
      BY <3>1 DEF InsertedOnce, Committed
    <3>4. i \in DOMAIN created' /\ Len(created) + 1 \in DOMAIN created' /\ i < Len(created) + 1
      BY <1>2, <3>3
    <3> QED
      BY <1>2, <2>1, <3>2, <3>3, <3>4
  <2>2. CASE f # e
    <3>1. g \in before[f] /\ g \in Rows
      BY <1>1, <1>6, <2>2
    <3>2. row[g] \in Committed
      BY <3>1 DEF InsertedAfter
    <3>3. PICK i \in DOMAIN created, j \in DOMAIN created : i < j /\ created[i] = g /\ created[j] = f
      BY <3>1 DEF InsertedAfter
    <3>4. i \in DOMAIN created' /\ j \in DOMAIN created' /\ created'[i] = g /\ created'[j] = f
      BY <1>2, <3>3
    <3>5. row'[g] \in Committed
      BY <1>1, <3>1, <3>2 DEF Committed
    <3> QED
      BY <3>3, <3>4, <3>5
  <2> QED
    BY <2>1, <2>2
<1> QED
  BY <1>4, <1>5, <1>6 DEF InsertedOnce, InsertedAfter

\* The oldest row that can be claimed: everything committed before it is done.
LEMMA ClaimedInTurn ==
  ASSUME OutboxInv, OrderInv, OneDispatcher, NEW d \in Dispatchers, NEW f \in Rows, ClaimRow(d, f)
  PROVE  \A e \in before[f] : row[e] = "processed"
<1>1. pc[d] = "idle" /\ OldestClaimable(f)
  BY DEF ClaimRow
<1>2. \A e \in Rows : lock[e] = NoDispatcher
  BY <1>1 DEF OneDispatcher, OrderInv, LocksHeld, Holding, OutboxInv, OutboxTypeOK
<1>3. PICK k \in DOMAIN created : created[k] = f /\ \A j \in 1..(k - 1) : ~Claimable(created[j])
  BY <1>1 DEF OldestClaimable
<1>4. ASSUME NEW e \in before[f] PROVE row[e] = "processed"
  <2>1. /\ e \in Rows /\ row[e] \in Committed
        /\ \E i, j \in DOMAIN created : i < j /\ created[i] = e /\ created[j] = f
    BY <1>4 DEF OrderInv, InsertedAfter, OutboxInv, OutboxTypeOK
  <2>2. PICK i \in DOMAIN created, j \in DOMAIN created : i < j /\ created[i] = e /\ created[j] = f
    BY <2>1
  <2>3. j = k
    BY <1>3, <2>2 DEF OrderInv, InsertedOnce
  <2>4. i \in 1..(k - 1)
    BY <2>2, <2>3 DEF OutboxInv, OutboxTypeOK
  <2>5. row[e] # "pending"
    BY <1>2, <1>3, <2>1, <2>2, <2>4 DEF Claimable
  <2> QED
    BY <2>1, <2>5 DEF Committed
<1> QED
  BY <1>4

\* Rows leave for the broker in their turn.
LEMMA SentInTurnStep ==
  ASSUME OutboxInv, OutboxInv', OrderInv, OneDispatcher, OutboxNext
  PROVE  SentInTurn'
<1>1. ASSUME RowMove, NEW f \in Rows, Sent(f) PROVE (\A e \in before[f] : row[e] = "processed")'
  BY <1>1 DEF OrderInv, SentInTurn, RowMove, OutboxInv, OutboxTypeOK
<1>2. ASSUME RowMove, \A f \in Rows : Sent(f)' => Sent(f) PROVE SentInTurn'
  BY <1>1, <1>2 DEF SentInTurn
<1>3. ASSUME NEW e \in Rows, EnqueueEvent(e) PROVE SentInTurn'
  <2>1. /\ UNCHANGED <<log, stray, pc, cur>> /\ row[e] = "absent"
        /\ \A f \in Rows \ {e} : before'[f] = before[f] /\ row'[f] = row[f]
    BY <1>3 DEF EnqueueEvent, OutboxInv, OutboxTypeOK
  <2>2. ~Sent(e)
    BY <2>1 DEF Sent, OutboxInv, OnlyCommittedPublished, Committed, LockedRow
  <2>3. \A f \in Rows : Sent(f)' => Sent(f)
    BY <2>1 DEF Sent
  <2>4. ASSUME NEW f \in Rows, Sent(f)', NEW g \in before'[f] PROVE row'[g] = "processed"
    <3>1. f # e /\ g \in before[f] /\ Sent(f)
      BY <2>1, <2>2, <2>3, <2>4
    <3>2. g \in Rows /\ row[g] = "processed"
      BY <3>1 DEF OrderInv, SentInTurn, OutboxInv, OutboxTypeOK
    <3> QED
      BY <2>1, <3>2
  <2> QED
    BY <2>4 DEF SentInTurn
<1>4. ASSUME NEW e \in Rows, NEW o \in {"pending", "discarded"}, EndTransaction(e, o) PROVE SentInTurn'
  <2>1. RowMove
    BY <1>4, EndTransactionMove
  <2>2. \A f \in Rows : Sent(f)' => Sent(f)
    BY <1>4 DEF EndTransaction, Sent
  <2> QED
    BY <1>2, <2>1, <2>2
<1>5. ASSUME NEW e \in Rows, LateAppend(e) PROVE SentInTurn'
  <2>1. RowMove
    BY <1>5 DEF LateAppend, RowMove, dbVars
  <2>2. log \in Seq(Rows) /\ stray \in [Rows -> Nat]
    BY DEF OutboxInv, OutboxTypeOK
  <2>3. /\ Range(log') = Range(log) \cup {e} /\ stray[e] > 0
        /\ \A f \in Rows : stray'[f] > 0 => stray[f] > 0
        /\ UNCHANGED <<pc, cur>>
    BY <1>5, <2>2, RangeOfAppend DEF LateAppend
  <2>4. \A f \in Rows : Sent(f)' => Sent(f)
    BY <2>3 DEF Sent
  <2> QED
    BY <1>2, <2>1, <2>4
<1>6. ASSUME NEW d \in Dispatchers, NEW f \in Rows, ClaimRow(d, f) PROVE SentInTurn'
  <2>1. RowMove
    BY <1>6, DispatcherRowMove DEF DispatcherProgress
  <2>2. \A e \in before[f] : row[e] = "processed"
    BY <1>6, ClaimedInTurn
  <2>3. (\A e \in before[f] : row[e] = "processed")'
    BY <2>1, <2>2 DEF RowMove, OutboxInv, OutboxTypeOK
  <2>4. \A g \in Rows : Sent(g)' => Sent(g) \/ g = f
    BY <1>6 DEF ClaimRow, Sent, OutboxInv, OutboxTypeOK
  <2> QED
    BY <1>1, <2>1, <2>3, <2>4 DEF SentInTurn
<1>7. ASSUME NEW d \in Dispatchers, DispatcherProgress(d), ~\E f \in Rows : ClaimRow(d, f)
      PROVE  SentInTurn'
  <2>1. RowMove
    BY <1>7, DispatcherRowMove
  <2>2. CASE BrokerAppend(d)
    <3>1. /\ cur[d] \in Rows /\ log \in Seq(Rows) /\ pc[d] \in Holding
      BY <2>2 DEF BrokerAppend, OutboxInv, OutboxTypeOK, LockedRow, Holding
    <3>2. /\ Range(log') = Range(log) \cup {cur[d]} /\ UNCHANGED <<stray, cur>>
          /\ \A x \in Dispatchers : pc'[x] \in Holding => pc[x] \in Holding
      BY <2>2, <3>1, RangeOfAppend DEF BrokerAppend, OutboxInv, OutboxTypeOK, Holding
    <3> QED
      BY <1>2, <2>1, <3>1, <3>2 DEF Sent
  <2>3. CASE ~BrokerAppend(d)
    <3>1. /\ UNCHANGED <<log, stray>>
          /\ \A x \in Dispatchers : pc'[x] \in Holding => pc[x] \in Holding /\ cur'[x] = cur[x]
      <4> USE DEF Holding, OutboxInv, OutboxTypeOK
      <4>1. CASE MarkProcessed(d) \/ RollBack(d)
        BY <4>1 DEF MarkProcessed, RollBack, Release
      <4>2. CASE StartDispatcher(d) \/ FinishRun(d) \/ StopProducer(d)
        BY <4>2 DEF StartDispatcher, FinishRun, StopProducer
      <4>3. CASE SendEvent(d) \/ SendRefused(d) \/ ReceiveAck(d)
        BY <4>3 DEF SendEvent, SendRefused, ReceiveAck
      <4> QED
        BY <1>7, <2>3, <4>1, <4>2, <4>3 DEF DispatcherProgress
    <3> QED
      BY <1>2, <2>1, <3>1 DEF Sent
  <2> QED
    BY <2>2, <2>3
<1>8. ASSUME NEW d \in Dispatchers, Disturbance(d) PROVE SentInTurn'
  <2>1. RowMove
    BY <1>8, DispatcherRowMove
  <2>2. /\ UNCHANGED log
        /\ \A x \in Dispatchers : pc'[x] \in Holding => pc[x] \in Holding /\ cur'[x] = cur[x]
    BY <1>8 DEF Disturbance, SendFails, CommitFails, RequestStop, CrashDispatcher, Release,
       Holding, OutboxInv, OutboxTypeOK
  <2>3. UNCHANGED stray \/ (pc[d] = "sending" /\ stray' = [stray EXCEPT ![cur[d]] = @ + 1])
    BY <1>8 DEF Disturbance, SendFails, CommitFails, RequestStop, CrashDispatcher, AbandonRequest
  <2>4. \A f \in Rows : stray'[f] > 0 => stray[f] > 0 \/ (pc[d] \in Holding /\ cur[d] = f)
    BY <2>3 DEF OutboxInv, OutboxTypeOK, Holding
  <2> QED
    BY <1>2, <2>1, <2>2, <2>4 DEF Sent
<1> QED
  BY <1>3, <1>4, <1>5, <1>6, <1>7, <1>8 DEF OutboxNext, BusinessStep

\* A row in its turn is appended behind the rows it follows.
LEMMA AppendAfter ==
  ASSUME OutboxInv, OrderInv, NEW f \in Rows, Sent(f), log' = Append(log, f), before' = before
  PROVE  FirstCopyAfter'
<1>1. /\ log \in Seq(Rows) /\ Len(log) \in Nat
      /\ DOMAIN log = 1..Len(log) /\ DOMAIN log' = 1..(Len(log) + 1)
      /\ \A i \in 1..Len(log) : log'[i] = log[i]
      /\ log'[Len(log) + 1] = f
  BY DEF OutboxInv, OutboxTypeOK
<1>2. ASSUME NEW g \in Rows, NEW e \in before[g], NEW j \in DOMAIN log', log'[j] = g
      PROVE  \E i \in 1..(j - 1) : log'[i] = e
  <2>1. CASE j \in 1..Len(log)
    <3>1. PICK i \in 1..(j - 1) : log[i] = e
      BY <1>1, <1>2, <2>1 DEF OrderInv, FirstCopyAfter
    <3>2. i \in 1..Len(log)
      BY <1>1, <2>1
    <3> QED
      BY <1>1, <3>1, <3>2
  <2>2. CASE j = Len(log) + 1
    <3>1. g = f
      BY <1>1, <1>2, <2>2
    <3>2. e \in Rows /\ row[e] = "processed"
      BY <1>2, <3>1 DEF OrderInv, SentInTurn, OutboxInv, OutboxTypeOK
    <3>3. e \in Range(log)
      BY <3>2 DEF OutboxInv, ProcessedIsPublished
    <3>4. PICK i \in 1..Len(log) : log[i] = e
      BY <1>1, <3>3 DEF Range
    <3>5. i \in 1..(j - 1)
      BY <1>1, <2>2, <3>4
    <3> QED
      BY <1>1, <3>4, <3>5
  <2> QED
    BY <1>1, <2>1, <2>2
<1> QED
  BY <1>2 DEF FirstCopyAfter

LEMMA FirstCopyAfterStep ==
  ASSUME OutboxInv, OrderInv, OutboxNext
  PROVE  FirstCopyAfter'
<1>1. ASSUME NEW e \in Rows, EnqueueEvent(e) PROVE FirstCopyAfter'
  <2>1. /\ UNCHANGED log /\ row[e] = "absent" /\ log \in Seq(Rows)
        /\ \A f \in Rows \ {e} : before'[f] = before[f]
    BY <1>1 DEF EnqueueEvent, OutboxInv, OutboxTypeOK
  <2>2. \A j \in DOMAIN log : log[j] # e
    BY <2>1 DEF OutboxInv, OnlyCommittedPublished, Committed, Range
  <2> QED
    BY <2>1, <2>2 DEF OrderInv, FirstCopyAfter
<1>2. ASSUME UNCHANGED <<log, before>> PROVE FirstCopyAfter'
  BY <1>2 DEF OrderInv, FirstCopyAfter
<1>3. ASSUME NEW e \in Rows, LateAppend(e) PROVE FirstCopyAfter'
  BY <1>3, AppendAfter DEF LateAppend, Sent, dbVars
<1>4. ASSUME NEW d \in Dispatchers, BrokerAppend(d) PROVE FirstCopyAfter'
  <2>1. PICK f \in Rows : f = cur[d]
    BY <1>4 DEF BrokerAppend, OutboxInv, LockedRow, Holding
  <2>2. Sent(f)
    BY <1>4, <2>1 DEF BrokerAppend, Sent, Holding
  <2> QED
    BY <1>4, <2>1, <2>2, AppendAfter DEF BrokerAppend, dbVars
<1>5. ASSUME NEW d \in Dispatchers, DispatcherProgress(d), ~BrokerAppend(d) PROVE UNCHANGED <<log, before>>
  BY <1>5 DEF DispatcherProgress, StartDispatcher, ClaimRow, SendEvent, SendRefused,
     ReceiveAck, MarkProcessed, RollBack, FinishRun, StopProducer, dbVars
<1>6. ASSUME NEW d \in Dispatchers, Disturbance(d) PROVE UNCHANGED <<log, before>>
  BY <1>6 DEF Disturbance, SendFails, CommitFails, RequestStop, CrashDispatcher, dbVars
<1>7. ASSUME NEW e \in Rows, NEW o \in {"pending", "discarded"}, EndTransaction(e, o)
      PROVE  UNCHANGED <<log, before>>
  BY <1>7 DEF EndTransaction
<1> QED
  BY <1>1, <1>2, <1>3, <1>4, <1>5, <1>6, <1>7 DEF OutboxNext, BusinessStep

LEMMA OrderInvNext ==
  ASSUME OneDispatcher
  PROVE  OutboxInv /\ OutboxInv' /\ OrderInv /\ [OutboxNext]_outboxVars => OrderInv'
<1> SUFFICES ASSUME OutboxInv, OutboxInv', OrderInv, [OutboxNext]_outboxVars PROVE OrderInv'
  OBVIOUS
<1>1. CASE OutboxNext
  <2>1. LocksHeld' /\ SentInTurn' /\ FirstCopyAfter'
    BY <1>1, LocksHeldStep, SentInTurnStep, FirstCopyAfterStep DEF OrderInv
  <2>2. InsertedOnce /\ InsertedAfter
    BY DEF OrderInv
  <2>3. ASSUME RowMove PROVE InsertedOnce' /\ InsertedAfter'
    BY <2>2, <2>3, MoveKeepsInsertions
  <2>4. ASSUME NEW e \in Rows, LateAppend(e) PROVE RowMove
    BY <2>4 DEF LateAppend, RowMove, dbVars
  <2>5. InsertedOnce' /\ InsertedAfter'
    BY <1>1, <2>2, <2>3, <2>4, DispatcherRowMove, EndTransactionMove, EnqueueKeepsInsertions
       DEF OutboxNext, BusinessStep
  <2> QED
    BY <2>1, <2>5 DEF OrderInv
<1>2. CASE UNCHANGED outboxVars
  <2> USE <1>2 DEF outboxVars, OrderInv
  <2>1. LocksHeld'
    BY DEF LocksHeld
  <2>2. InsertedOnce'
    BY DEF InsertedOnce
  <2>3. InsertedAfter'
    BY DEF InsertedAfter
  <2>4. SentInTurn'
    BY DEF SentInTurn, Sent
  <2>5. FirstCopyAfter'
    BY DEF FirstCopyAfter
  <2> QED
    BY <2>1, <2>2, <2>3, <2>4, <2>5
<1> QED
  BY <1>1, <1>2

LEMMA OrderInvInit == OutboxInit => OrderInv
BY DEF OutboxInit, OrderInv, LocksHeld, InsertedOnce, InsertedAfter, SentInTurn, FirstCopyAfter

-----------------------------------------------------------------------------
(* The results. *)

\* The inductive invariant holds in every reachable state of any number of
\* dispatchers draining any set of rows through dispatch_once.
THEOREM OutboxInvariance == OutboxSpec => []OutboxInv
BY OutboxInvInit, OutboxInvNext, PTL DEF OutboxSpec

\* Every variable stays in its domain.
THEOREM OutboxTypeCorrect == OutboxSpec => []OutboxTypeOK
<1>1. OutboxInv => OutboxTypeOK
  BY DEF OutboxInv
<1> QED
  BY <1>1, OutboxInvariance, PTL

\* A row is marked processed only after the broker has appended its event:
\* dispatch_once never loses a committed event, whatever fails and whoever
\* else dispatches.
THEOREM NoEventLost == OutboxSpec => []ProcessedIsPublished
<1>1. OutboxInv => ProcessedIsPublished
  BY DEF OutboxInv
<1> QED
  BY <1>1, OutboxInvariance, PTL

\* No event of an open or rolled-back transaction is ever published.
THEOREM NoPhantomEvent == OutboxSpec => []OnlyCommittedPublished
<1>1. OutboxInv => OnlyCommittedPublished
  BY DEF OutboxInv
<1> QED
  BY <1>1, OutboxInvariance, PTL

\* Two dispatchers never work on the same row, nor on a processed one.
THEOREM ExclusiveClaims == OutboxSpec => []ClaimIsExclusive
<1>1. OutboxInv => ClaimIsExclusive
  BY DEF OutboxInv, LockedRow, ClaimIsExclusive
<1> QED
  BY <1>1, OutboxInvariance, PTL

\* An event is on the partition at most once more than there were failed
\* sends, failed commits, crashes and shutdowns: retries of dispatch_once
\* never multiply an event by themselves, and a late request is not an extra
\* copy beyond the fault that left it behind.
THEOREM DuplicatesArePaid ==
  ASSUME IsFiniteSet(Rows)
  PROVE  OutboxSpec => []DuplicatesOnlyFromFaults
<1>1. OutboxInit => CopiesArePaid
  BY CopiesArePaidInit
<1>2. OutboxInv /\ OutboxInv' /\ CopiesArePaid /\ [OutboxNext]_outboxVars => CopiesArePaid'
  BY CopiesArePaidNext
<1>3. OutboxInv /\ CopiesArePaid => DuplicatesOnlyFromFaults
  BY Counted DEF CopiesArePaid, DuplicatesOnlyFromFaults
<1> QED
  BY <1>1, <1>2, <1>3, OutboxInvariance, PTL DEF OutboxSpec

\* With one dispatcher the rows of one aggregate whose transactions followed
\* one another reach the partition in that order, whatever fails and however
\* late abandoned requests arrive.
THEOREM OneDispatcherKeepsOrder ==
  ASSUME OneDispatcher
  PROVE  OutboxSpec => []AggregateOrder
<1>1. OutboxInv /\ OutboxInv' /\ OrderInv /\ [OutboxNext]_outboxVars => OrderInv'
  BY OrderInvNext
<1>2. OutboxInv /\ OrderInv => AggregateOrder
  BY DEF OrderInv, FirstCopyAfter, AggregateOrder
<1> QED
  BY <1>1, <1>2, OrderInvInit, OutboxInvariance, PTL DEF OutboxSpec
=============================================================================
