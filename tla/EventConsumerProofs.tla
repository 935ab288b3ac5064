------------------------ MODULE EventConsumerProofs ------------------------
(***************************************************************************)
(* Machine-checked safety of the idempotent consumer group, for every set  *)
(* of events, any number of consumers, any number of retries and of faults.*)
(*                                                                         *)
(* The inductive invariant has two layers: where each consumer stands in   *)
(* the partition (Standing), and what the durable ledger says about the    *)
(* message it has in hand (Recorded).                                      *)
(***************************************************************************)
EXTENDS EventConsumer, TLAPS

Messages == Events \cup {Malformed}

\* Program points with a message in hand, and the two kinds of message.
WellFormedPC == {"duplicate", "claim", "recheck"} \cup Working
MalformedPC == {"check", "badSend", "badSave", "badMark"}
InHandPC == WellFormedPC \cup MalformedPC \cup {"commit"}

ConsumerTypeOK ==
  /\ log \in Seq(Messages)
  /\ Len(log) <= MaxLog
  /\ committed \in 0..Len(log)
  /\ owner \in Consumers \cup {Nobody}
  /\ status \in [UsedKeys -> Status]
  /\ token \in [UsedKeys -> Consumers \cup {Nobody}]
  /\ live \in [UsedKeys -> BOOLEAN]
  /\ dead \in [UsedKeys -> {"NONE", "OPEN", "REVIEWED"}]
  /\ dlq \subseteq UsedKeys
  /\ pc \in [Consumers -> ConsumerPC]
  /\ pos \in [Consumers -> Nat]
  /\ off \in [Consumers -> Nat]
  /\ att \in [Consumers -> Nat]
  /\ faults \in Nat

-----------------------------------------------------------------------------
(* Standing: the message in hand is one of the partition, of the kind the   *)
(* program point is for; the owner's position is the committed offset, plus *)
(* one when its message in hand is the next to commit.                      *)
HasMessage(c) == pc[c] \in InHandPC => off[c] \in 1..Len(log)

RightKind(c) ==
  /\ pc[c] \in WellFormedPC => log[off[c]] # Malformed
  /\ pc[c] \in MalformedPC => log[off[c]] = Malformed

OwnerPosition(c) ==
  owner = c =>
    \/ pos[c] = committed + 1
    \/ pos[c] = committed + 2 /\ off[c] = committed + 1 /\ pc[c] \in InHandPC

Standing ==
  /\ ConsumerTypeOK
  /\ \A c \in Consumers : HasMessage(c) /\ RightKind(c) /\ OwnerPosition(c)

LEMMA KeyIsUsed ==
  ASSUME Standing, NEW o \in 1..Len(log)
  PROVE  KeyAt(o) \in UsedKeys
BY ConsumerAssumption
   DEF Standing, ConsumerTypeOK, Messages, KeyAt, KeyOf, UsedKeys

LEMMA StandingInit == ConsumerInit => Standing
<1> SUFFICES ASSUME ConsumerInit PROVE Standing
  OBVIOUS
<1>1. ConsumerTypeOK
  BY ConsumerAssumption DEF ConsumerInit, ConsumerTypeOK, Status, ConsumerPC, UsedKeys
<1>2. ASSUME NEW c \in Consumers PROVE HasMessage(c) /\ RightKind(c) /\ OwnerPosition(c)
  BY ConsumerAssumption DEF ConsumerInit, HasMessage, RightKind, OwnerPosition,
     InHandPC, WellFormedPC, MalformedPC, Working
<1> QED
  BY <1>1, <1>2 DEF Standing

\* The steps of consumer c that move no offset: between program points of one
\* kind, or out of the loop, giving the partition up.
WalksOn(c, kind) ==
  /\ pc[c] \in kind
  /\ \E next \in kind \cup {"commit"} : pc' = [pc EXCEPT ![c] = next]
  /\ UNCHANGED <<brokerVars, pos, off>>

WalksOut(c) == Stop(c)

LEMMA WalkStanding ==
  ASSUME Standing, NEW c \in Consumers, ConsumerTypeOK',
         WalksOn(c, WellFormedPC) \/ WalksOn(c, MalformedPC) \/ WalksOut(c)
  PROVE  Standing'
<1> SUFFICES ASSUME NEW d \in Consumers
             PROVE  HasMessage(d)' /\ RightKind(d)' /\ OwnerPosition(d)'
  BY DEF Standing
<1>0. /\ HasMessage(d) /\ RightKind(d) /\ OwnerPosition(d)
      /\ pc \in [Consumers -> ConsumerPC]
      /\ UNCHANGED <<log, committed, pos, off>>
  BY DEF Standing, ConsumerTypeOK, WalksOn, WalksOut, Stop, brokerVars
<1>1. CASE d # c
  <2>1. pc'[d] = pc[d] /\ (owner' = d => owner = d)
    BY <1>0, <1>1, ConsumerAssumption DEF WalksOn, WalksOut, Stop, Goto, brokerVars
  <2> QED
    BY <1>0, <2>1 DEF HasMessage, RightKind, OwnerPosition
<1>2. CASE d = c /\ WalksOn(c, WellFormedPC)
  BY <1>0, <1>2 DEF WalksOn, HasMessage, RightKind, OwnerPosition, brokerVars,
     InHandPC, WellFormedPC, MalformedPC, Working
<1>3. CASE d = c /\ WalksOn(c, MalformedPC)
  BY <1>0, <1>3 DEF WalksOn, HasMessage, RightKind, OwnerPosition, brokerVars,
     InHandPC, WellFormedPC, MalformedPC, Working
<1>4. CASE d = c /\ WalksOut(c)
  <2>1. pc'[c] = "down" /\ owner' # c
    BY <1>0, <1>4, ConsumerAssumption DEF WalksOut, Stop, Goto
  <2> QED
    BY <1>0, <1>4, <2>1 DEF HasMessage, RightKind, OwnerPosition,
       InHandPC, WellFormedPC, MalformedPC, Working
<1> QED
  BY <1>1, <1>2, <1>3, <1>4

-----------------------------------------------------------------------------
(* Each step keeps the standing of every consumer. *)

LEMMA AppendStanding ==
  ASSUME Standing, NEW m \in Messages, AppendMessage(m)
  PROVE  Standing'
<1>1. /\ log' \in Seq(Messages)
      /\ Len(log') = Len(log) + 1
      /\ Len(log') <= MaxLog
      /\ \A o \in 1..Len(log) : log'[o] = log[o]
  BY ConsumerAssumption DEF AppendMessage, Standing, ConsumerTypeOK
<1>2. ConsumerTypeOK'
  BY <1>1 DEF AppendMessage, Standing, ConsumerTypeOK, ledgerVars, deadVars, localVars
<1>3. ASSUME NEW c \in Consumers PROVE HasMessage(c)' /\ RightKind(c)' /\ OwnerPosition(c)'
  BY <1>1 DEF AppendMessage, Standing, ConsumerTypeOK, HasMessage, RightKind,
     OwnerPosition, localVars, InHandPC
<1> QED
  BY <1>2, <1>3 DEF Standing

LEMMA AssignStanding ==
  ASSUME Standing, NEW c \in Consumers, Assign(c), faults' \in Nat
  PROVE  Standing'
<1>1. ConsumerTypeOK'
  BY DEF Assign, Standing, ConsumerTypeOK, ledgerVars, deadVars
<1>2. ASSUME NEW d \in Consumers PROVE HasMessage(d)' /\ RightKind(d)' /\ OwnerPosition(d)'
  BY DEF Assign, Standing, ConsumerTypeOK, HasMessage, RightKind, OwnerPosition
<1> QED
  BY <1>1, <1>2 DEF Standing

LEMMA PollStanding ==
  ASSUME Standing, NEW c \in Consumers, Poll(c)
  PROVE  Standing'
<1>0. /\ pos[c] = committed + 1
      /\ pos[c] \in 1..Len(log)
  <2>1. owner = c /\ pc[c] = "poll" /\ pos[c] <= Len(log)
    BY DEF Poll
  <2>2. "poll" \notin InHandPC
    BY DEF InHandPC, WellFormedPC, MalformedPC, Working
  <2>3. OwnerPosition(c) /\ committed \in 0..Len(log) /\ Len(log) \in Nat
    BY DEF Standing, ConsumerTypeOK
  <2> QED
    BY <2>1, <2>2, <2>3 DEF OwnerPosition
<1>1. ConsumerTypeOK'
  BY DEF Poll, Goto, Standing, ConsumerTypeOK, ConsumerPC, ledgerVars, deadVars, brokerVars
<1>2. ASSUME NEW d \in Consumers PROVE HasMessage(d)' /\ RightKind(d)' /\ OwnerPosition(d)'
  <2>1. CASE d # c
    BY <1>0, <2>1 DEF Poll, Goto, Standing, ConsumerTypeOK, HasMessage, RightKind,
       OwnerPosition, brokerVars
  <2>2. CASE d = c
    BY <1>0, <2>2 DEF Poll, Goto, Standing, ConsumerTypeOK, HasMessage, RightKind,
       OwnerPosition, brokerVars, InHandPC, WellFormedPC, MalformedPC, Working
  <2> QED
    BY <2>1, <2>2
<1> QED
  BY <1>1, <1>2 DEF Standing

LEMMA CommitStanding ==
  ASSUME Standing, NEW c \in Consumers, CommitOffset(c)
  PROVE  Standing'
<1>1. CASE owner = c
  <2>0. /\ pos[c] - 1 \in {committed, committed + 1}
        /\ pos[c] - 1 \in 0..Len(log)
    <3>1. OwnerPosition(c) /\ HasMessage(c) /\ pc[c] \in InHandPC
      BY DEF CommitOffset, Standing, InHandPC
    <3>2. committed \in 0..Len(log) /\ Len(log) \in Nat
      BY DEF Standing, ConsumerTypeOK
    <3> QED
      BY <1>1, <3>1, <3>2 DEF OwnerPosition, HasMessage
  <2>1. /\ committed' = pos[c] - 1
        /\ pc' = [pc EXCEPT ![c] = "poll"]
        /\ UNCHANGED <<log, owner, pos, off, att, ledgerVars, deadVars, faults>>
    BY <1>1 DEF CommitOffset, Goto
  <2>2. ConsumerTypeOK'
    BY <2>0, <2>1 DEF Standing, ConsumerTypeOK, ConsumerPC, ledgerVars, deadVars
  <2>3. ASSUME NEW d \in Consumers PROVE HasMessage(d)' /\ RightKind(d)' /\ OwnerPosition(d)'
    <3>1. CASE d # c
      BY <1>1, <2>1, <3>1 DEF Standing, ConsumerTypeOK, HasMessage, RightKind, OwnerPosition
    <3>2. CASE d = c
      BY <1>1, <2>0, <2>1, <3>2 DEF Standing, ConsumerTypeOK, HasMessage, RightKind,
         OwnerPosition, InHandPC, WellFormedPC, MalformedPC, Working
    <3> QED
      BY <3>1, <3>2
  <2> QED
    BY <2>2, <2>3 DEF Standing
<1>2. CASE owner # c /\ Goto(c, "poll") /\ UNCHANGED <<brokerVars, pos, off, att>>
  <2>1. ConsumerTypeOK'
    BY <1>2 DEF CommitOffset, Goto, Standing, ConsumerTypeOK, ConsumerPC,
       ledgerVars, deadVars, brokerVars
  <2>2. ASSUME NEW d \in Consumers PROVE HasMessage(d)' /\ RightKind(d)' /\ OwnerPosition(d)'
    BY <1>2 DEF Goto, Standing, ConsumerTypeOK, HasMessage, RightKind, OwnerPosition,
       brokerVars, InHandPC, WellFormedPC, MalformedPC, Working
  <2> QED
    BY <2>1, <2>2 DEF Standing
<1>3. CASE Stop(c)
  <2>1. ConsumerTypeOK'
    BY <1>3 DEF CommitOffset, Stop, Goto, Standing, ConsumerTypeOK, ConsumerPC,
       ledgerVars, deadVars
  <2> QED
    BY <1>3, <2>1, WalkStanding DEF WalksOut
<1> QED
  BY <1>1, <1>2, <1>3 DEF CommitOffset

-----------------------------------------------------------------------------
(* The steps that move no offset, one by one: each keeps the types, and is  *)
(* a walk within one kind of program point or out of the loop.              *)
Walk(c) ==
  \/ CheckDuplicate(c) \/ RecordAttempt(c) \/ Recheck(c)
  \/ BeginAttempt(c) \/ AttemptError(c) \/ HandlerSucceeds(c) \/ HandlerFails(c)
  \/ MarkProcessed(c) \/ SettleDeadLetter(c) \/ MarkRetryable(c)
  \/ RouteToDlq(c) \/ PersistDeadLetter(c) \/ MarkDeadLetter(c)
  \/ RejectMalformed(c) \/ RefuseOrphan(c) \/ Crash(c)

WalksFrom(c) == WalksOn(c, WellFormedPC) \/ WalksOn(c, MalformedPC) \/ WalksOut(c)

LEMMA KeyInHand ==
  ASSUME Standing, NEW c \in Consumers, pc[c] \in InHandPC
  PROVE  Key(c) \in UsedKeys
BY KeyIsUsed DEF Standing, HasMessage, Key

LEMMA WalkShape ==
  ASSUME Standing, NEW c \in Consumers, Walk(c)
  PROVE  ConsumerTypeOK' /\ WalksFrom(c)
<1> DEFINE k == Key(c)
<1>0. pc[c] \in InHandPC => k \in UsedKeys
  BY KeyInHand
<1> HIDE DEF k
<1> USE ConsumerAssumption DEF Standing, ConsumerTypeOK, Status, ConsumerPC, WalksFrom,
        WalksOn, WalksOut, InHandPC, WellFormedPC, MalformedPC, Working, Goto,
        ledgerVars, deadVars, brokerVars
<1>1. CASE CheckDuplicate(c)
  BY <1>1 DEF CheckDuplicate
<1>2. CASE RecordAttempt(c)
  <2>1. pc[c] \in WellFormedPC /\ k \in UsedKeys
    BY <1>0, <1>2 DEF RecordAttempt
  <2>2. \E next \in WellFormedPC : pc' = [pc EXCEPT ![c] = next]
    BY <1>2 DEF RecordAttempt
  <2>3. pc' \in [Consumers -> ConsumerPC]
    BY <2>2
  <2>4. /\ status' \in [UsedKeys -> Status]
        /\ token' \in [UsedKeys -> Consumers \cup {Nobody}]
        /\ live' \in [UsedKeys -> BOOLEAN]
        /\ att' \in [Consumers -> Nat]
    <3>1. CASE CanClaim(k)
      <4>1. /\ status' = [status EXCEPT ![k] = "PROCESSING"]
            /\ token' = [token EXCEPT ![k] = c]
            /\ live' = [live EXCEPT ![k] = TRUE]
            /\ att' = [att EXCEPT ![c] = 0]
        BY <1>2, <3>1 DEF RecordAttempt, k
      <4> QED
        BY <2>1, <4>1
    <3>2. CASE ~CanClaim(k)
      BY <1>2, <3>2 DEF RecordAttempt, k
    <3> QED
      BY <3>1, <3>2
  <2>5. UNCHANGED <<log, committed, owner, dead, dlq, pos, off, faults>>
    BY <1>2 DEF RecordAttempt
  <2>6. ConsumerTypeOK'
    BY <2>3, <2>4, <2>5
  <2>7. WalksOn(c, WellFormedPC)
    BY <2>1, <2>2, <2>5
  <2> QED
    BY <2>6, <2>7
<1>3. CASE Recheck(c)
  BY <1>3 DEF Recheck, Stop
<1>4. CASE BeginAttempt(c)
  <2>1. AfterFailure(c, att[c] + 1) \in WellFormedPC
    BY DEF AfterFailure
  <2>2. \E next \in WellFormedPC : pc' = [pc EXCEPT ![c] = next]
    BY <1>4, <2>1 DEF BeginAttempt
  <2>3. WalksOn(c, WellFormedPC)
    BY <1>4, <2>2 DEF BeginAttempt
  <2>4. pc' \in [Consumers -> ConsumerPC]
    BY <2>2
  <2>5. att' \in [Consumers -> Nat]
    BY <1>4 DEF BeginAttempt
  <2>6. UNCHANGED <<log, committed, owner, status, token, live, dead, dlq, pos, off, faults>>
    BY <1>4 DEF BeginAttempt
  <2>7. ConsumerTypeOK'
    BY <2>4, <2>5, <2>6
  <2> QED
    BY <2>3, <2>7 DEF WalksFrom
<1>5. CASE AttemptError(c)
  <2>1. AfterFailure(c, att[c] + 1) \in WellFormedPC
    BY DEF AfterFailure
  <2>2. pc[c] \in WellFormedPC /\ \E next \in WellFormedPC : pc' = [pc EXCEPT ![c] = next]
    BY <1>5, <2>1 DEF AttemptError
  <2>4. pc' \in [Consumers -> ConsumerPC]
    BY <2>2
  <2>5. att' \in [Consumers -> Nat]
    BY <1>5 DEF AttemptError
  <2>6. /\ faults' \in Nat
        /\ UNCHANGED <<log, committed, owner, status, token, live, dead, dlq, pos, off>>
    BY <1>5 DEF AttemptError, Fault
  <2>3. WalksOn(c, WellFormedPC)
    BY <2>2, <2>6
  <2>7. ConsumerTypeOK'
    BY <2>4, <2>5, <2>6
  <2> QED
    BY <2>3, <2>7
<1>6. CASE HandlerSucceeds(c)
  BY <1>6 DEF HandlerSucceeds
<1>7. CASE HandlerFails(c)
  BY <1>7 DEF HandlerFails, AfterFailure
<1>17. ASSUME NEW outcome \in Status, NEW next \in {"commit", "down"},
              SetTerminal(c, outcome, next), UNCHANGED <<deadVars, faults>>, pc[c] \in WellFormedPC
       PROVE  ConsumerTypeOK' /\ WalksFrom(c)
  <2>1. k \in UsedKeys
    BY <1>0, <1>17
  <2>2. CASE status[k] = "PROCESSING" /\ token[k] = c
    <3>1. /\ status' = [status EXCEPT ![k] = outcome]
          /\ token' = [token EXCEPT ![k] = Nobody]
          /\ live' = [live EXCEPT ![k] = FALSE]
          /\ pc' = [pc EXCEPT ![c] = next]
          /\ owner' = IF next = "down" /\ owner = c THEN Nobody ELSE owner
          /\ UNCHANGED <<log, committed, pos, off, att>>
      BY <1>17, <2>2 DEF SetTerminal, k
    <3>2. status' \in [UsedKeys -> Status] /\ token' \in [UsedKeys -> Consumers \cup {Nobody}] /\ live' \in [UsedKeys -> BOOLEAN]
      BY <2>1, <3>1
    <3>3. pc' \in [Consumers -> ConsumerPC] /\ owner' \in Consumers \cup {Nobody}
      BY <3>1
    <3>4. ConsumerTypeOK'
      BY <1>17, <3>1, <3>2, <3>3
    <3>5. WalksFrom(c)
      BY <1>17, <3>1 DEF Stop
    <3> QED
      BY <3>4, <3>5
  <2>3. CASE ~(status[k] = "PROCESSING" /\ token[k] = c)
    <3>1. Stop(c) /\ UNCHANGED ledgerVars
      BY <1>17, <2>3 DEF SetTerminal, k
    <3>2. pc' \in [Consumers -> ConsumerPC] /\ owner' \in Consumers \cup {Nobody}
      BY <3>1 DEF Stop
    <3>3. ConsumerTypeOK'
      BY <1>17, <3>1, <3>2 DEF Stop
    <3> QED
      BY <3>1, <3>3
  <2> QED
    BY <2>2, <2>3
<1>8. CASE MarkProcessed(c)
  BY <1>0, <1>17, <1>8 DEF MarkProcessed
<1>9. CASE SettleDeadLetter(c)
  BY <1>0, <1>17, <1>9 DEF SettleDeadLetter
<1>10. CASE MarkRetryable(c)
  BY <1>0, <1>17, <1>10 DEF MarkRetryable
<1>11. CASE RouteToDlq(c)
  BY <1>0, <1>11 DEF RouteToDlq, k
<1>12. CASE PersistDeadLetter(c)
  BY <1>0, <1>12 DEF PersistDeadLetter, k
<1>13. CASE MarkDeadLetter(c)
  BY <1>0, <1>13 DEF MarkDeadLetter, k
<1>14. CASE RejectMalformed(c)
  BY <1>14 DEF RejectMalformed, Stop
<1>15. CASE RefuseOrphan(c)
  BY <1>15 DEF RefuseOrphan, Stop
<1>16. CASE Crash(c)
  BY <1>16 DEF Crash, Stop, Fault
<1> QED
  BY <1>1, <1>2, <1>3, <1>4, <1>5, <1>6, <1>7, <1>8, <1>9, <1>10, <1>11, <1>12,
     <1>13, <1>14, <1>15, <1>16 DEF Walk

\* Time, reviewers and reassignment move no consumer either.
LEMMA OtherStanding ==
  ASSUME Standing, NEW k \in UsedKeys, LeaseExpires(k) \/ ReviewDeadLetter(k)
  PROVE  Standing'
<1>1. ConsumerTypeOK'
  BY DEF LeaseExpires, ReviewDeadLetter, Standing, ConsumerTypeOK,
     ledgerVars, deadVars, localVars, brokerVars
<1>2. ASSUME NEW c \in Consumers PROVE HasMessage(c)' /\ RightKind(c)' /\ OwnerPosition(c)'
  BY DEF LeaseExpires, ReviewDeadLetter, Standing, HasMessage, RightKind, OwnerPosition,
     localVars, brokerVars, InHandPC
<1> QED
  BY <1>1, <1>2 DEF Standing

LEMMA StartStanding ==
  ASSUME Standing, NEW c \in Consumers, Start(c)
  PROVE  Standing'
<1>1. ConsumerTypeOK'
  BY DEF Start, Goto, Standing, ConsumerTypeOK, ConsumerPC, ledgerVars, deadVars, brokerVars
<1>2. ASSUME NEW d \in Consumers PROVE HasMessage(d)' /\ RightKind(d)' /\ OwnerPosition(d)'
  BY DEF Start, Goto, Standing, ConsumerTypeOK, HasMessage, RightKind, OwnerPosition,
     brokerVars, InHandPC, WellFormedPC, MalformedPC, Working
<1> QED
  BY <1>1, <1>2 DEF Standing

\* The actions of ConsumerNext, grouped by what they move.
LEMMA Steps ==
  ASSUME ConsumerNext
  PROVE  \/ \E m \in Messages : AppendMessage(m)
         \/ \E c \in Consumers : Walk(c) \/ Start(c) \/ Poll(c) \/ CommitOffset(c) \/ Join(c) \/ Rebalance(c)
         \/ \E k \in UsedKeys : LeaseExpires(k) \/ ReviewDeadLetter(k)
<1>1. CASE ConsumerStep
  BY <1>1 DEF ConsumerStep, ConsumerProgress, Walk
<1> QED
  BY <1>1 DEF ConsumerNext, Messages

LEMMA StandingNext ==
  ASSUME Standing, [ConsumerNext]_consumerVars
  PROVE  Standing'
<1>1. ASSUME NEW m \in Messages, AppendMessage(m) PROVE Standing'
  BY <1>1, AppendStanding
<1>2. ASSUME NEW c \in Consumers, Walk(c) PROVE Standing'
  BY <1>2, WalkShape, WalkStanding DEF WalksFrom
<1>3. ASSUME NEW c \in Consumers, Start(c) \/ Poll(c) \/ CommitOffset(c) PROVE Standing'
  BY <1>3, StartStanding, PollStanding, CommitStanding
<1>4. ASSUME NEW c \in Consumers, Join(c) \/ Rebalance(c) PROVE Standing'
  <2>1. Assign(c) /\ faults' \in Nat
    BY <1>4 DEF Join, Rebalance, Fault, Standing, ConsumerTypeOK
  <2> QED
    BY <2>1, AssignStanding
<1>5. ASSUME NEW k \in UsedKeys, LeaseExpires(k) \/ ReviewDeadLetter(k) PROVE Standing'
  BY <1>5, OtherStanding
<1>6. CASE UNCHANGED consumerVars
  BY <1>6 DEF consumerVars, brokerVars, ledgerVars, deadVars, localVars, Standing,
     ConsumerTypeOK, HasMessage, RightKind, OwnerPosition
<1> QED
  BY <1>1, <1>2, <1>3, <1>4, <1>5, <1>6, Steps

THEOREM StandingInvariance == ConsumerSpec => []Standing
<1>1. Standing /\ [ConsumerNext]_consumerVars => Standing'
  BY StandingNext
<1> QED
  BY <1>1, StandingInit, PTL DEF ConsumerSpec

-----------------------------------------------------------------------------
(* Recorded: what the ledger, the dead letters and the DLQ topic say about  *)
(* the message a consumer has in hand.                                      *)
Settled(c) == pc[c] = "commit" => status[Key(c)] \in Terminal
Routed(c) == pc[c] \in {"dlqSave", "dlqMark", "badSave", "badMark"} => Key(c) \in dlq
Saved(c) == pc[c] \in {"dlqMark", "badMark"} => dead[Key(c)] # "NONE"
Leased(c) == pc[c] = "handle" /\ Key(c) \notin Stalls => OwnsLease(c)

\* What no step takes back: the keys of the messages of the partition, a
\* terminal outcome, a copy on the DLQ, a dead letter.
Monotone ==
  /\ \A o \in 1..Len(log) : KeyAt(o)' = KeyAt(o)
  /\ \A k \in UsedKeys :
       /\ status[k] \in Terminal => status'[k] = status[k]
       /\ k \in dlq => k \in dlq'
       /\ dead[k] # "NONE" => dead'[k] # "NONE"

LEMMA WalkKeeps ==
  ASSUME Standing, NEW c \in Consumers, Walk(c)
  PROVE  Monotone
<1> DEFINE k == Key(c)
<1>0. pc[c] \in InHandPC => k \in UsedKeys
  BY KeyInHand
<1>1. UNCHANGED log
  BY WalkShape DEF WalksFrom, WalksOn, WalksOut, Stop, brokerVars
<1>2. \A o \in 1..Len(log) : KeyAt(o)' = KeyAt(o)
  BY <1>1 DEF KeyAt, KeyOf
<1> HIDE DEF k
<1>3. ASSUME NEW j \in UsedKeys PROVE status[j] \in Terminal => status'[j] = status[j]
  <2>1. CASE RecordAttempt(c)
    BY <2>1 DEF RecordAttempt, CanClaim, Standing, ConsumerTypeOK, ledgerVars
  <2>2. CASE MarkProcessed(c) \/ SettleDeadLetter(c) \/ MarkRetryable(c)
    BY <2>2 DEF MarkProcessed, SettleDeadLetter, MarkRetryable, SetTerminal, Standing,
       ConsumerTypeOK, ledgerVars, Terminal
  <2>3. CASE MarkDeadLetter(c)
    BY <2>3 DEF MarkDeadLetter, Standing, ConsumerTypeOK, Terminal
  <2>4. CASE UNCHANGED status
    BY <2>4
  <2> QED
    BY <2>1, <2>2, <2>3, <2>4 DEF Walk, CheckDuplicate, Recheck, BeginAttempt, AttemptError,
       HandlerSucceeds, HandlerFails, RouteToDlq, PersistDeadLetter, RejectMalformed,
       RefuseOrphan, Crash, ledgerVars
<1>4. ASSUME NEW j \in UsedKeys
      PROVE (j \in dlq => j \in dlq') /\ (dead[j] # "NONE" => dead'[j] # "NONE")
  <2>1. CASE RouteToDlq(c)
    BY <2>1 DEF RouteToDlq
  <2>2. CASE PersistDeadLetter(c)
    BY <2>2 DEF PersistDeadLetter, Standing, ConsumerTypeOK
  <2>3. CASE UNCHANGED deadVars
    BY <2>3 DEF deadVars
  <2> QED
    BY <2>1, <2>2, <2>3 DEF Walk, CheckDuplicate, RecordAttempt, Recheck, BeginAttempt,
       AttemptError, HandlerSucceeds, HandlerFails, MarkProcessed, SettleDeadLetter,
       MarkRetryable, MarkDeadLetter, RejectMalformed, RefuseOrphan, Crash
<1> QED
  BY <1>2, <1>3, <1>4 DEF Monotone

LEMMA StepKeeps ==
  ASSUME Standing, [ConsumerNext]_consumerVars
  PROVE  Monotone
<1>1. ASSUME NEW m \in Messages, AppendMessage(m) PROVE Monotone
  <2>1. \A o \in 1..Len(log) : log'[o] = log[o]
    BY <1>1 DEF AppendMessage, Standing, ConsumerTypeOK
  <2> QED
    BY <1>1, <2>1 DEF AppendMessage, Monotone, KeyAt, KeyOf, ledgerVars, deadVars
<1>2. ASSUME NEW c \in Consumers, Walk(c) PROVE Monotone
  BY <1>2, WalkKeeps
<1>3. CASE UNCHANGED <<log, status, deadVars>>
  BY <1>3 DEF Monotone, KeyAt, KeyOf, deadVars
<1>4. ASSUME NEW c \in Consumers,
             Start(c) \/ Poll(c) \/ CommitOffset(c) \/ Join(c) \/ Rebalance(c)
      PROVE  UNCHANGED <<log, status, deadVars>>
  BY <1>4 DEF Start, Poll, CommitOffset, Stop, Join, Rebalance, Assign, brokerVars, ledgerVars
<1>5. ASSUME NEW k \in UsedKeys, LeaseExpires(k) PROVE UNCHANGED <<log, status, deadVars>>
  BY <1>5 DEF LeaseExpires, brokerVars
<1>6. ASSUME NEW k \in UsedKeys, ReviewDeadLetter(k) PROVE Monotone
  BY <1>6 DEF ReviewDeadLetter, Monotone, KeyAt, KeyOf, brokerVars, ledgerVars,
     Standing, ConsumerTypeOK
<1>7. CASE UNCHANGED consumerVars
  BY <1>3, <1>7 DEF consumerVars, brokerVars, ledgerVars
<1> QED
  BY <1>1, <1>2, <1>3, <1>4, <1>5, <1>6, <1>7, Steps

-----------------------------------------------------------------------------
(* A walk of c leaves the other consumers where they are and leads c only   *)
(* to program points whose claims about the ledger it has just established. *)
Recorded(c) == Settled(c) /\ Routed(c) /\ Saved(c)

LEMMA WalkRecords ==
  ASSUME Standing, NEW c \in Consumers, Recorded(c), Walk(c)
  PROVE  Recorded(c)'
<1> DEFINE k == Key(c)
<1>0. pc[c] \in InHandPC => k \in UsedKeys
  BY KeyInHand
<1>1. /\ Key(c)' = k
      /\ pc \in [Consumers -> ConsumerPC]
      /\ status \in [UsedKeys -> Status]
      /\ dead \in [UsedKeys -> {"NONE", "OPEN", "REVIEWED"}]
  BY WalkShape DEF Standing, ConsumerTypeOK, WalksFrom, WalksOn, WalksOut, Stop,
     brokerVars, Key, KeyAt, KeyOf
<1> DEFINE Claims ==
      /\ pc'[c] = "commit" => status'[k] \in Terminal
      /\ pc'[c] \in {"dlqSave", "dlqMark", "badSave", "badMark"} => k \in dlq'
      /\ pc'[c] \in {"dlqMark", "badMark"} => dead'[k] # "NONE"
<1>2. SUFFICES Claims
  BY <1>1 DEF Recorded, Settled, Routed, Saved
<1>3. /\ pc[c] \in {"dlqSave", "dlqMark", "badSave", "badMark"} => k \in dlq
      /\ pc[c] \in {"dlqMark", "badMark"} => dead[k] # "NONE"
  BY DEF Recorded, Routed, Saved
<1> HIDE DEF k
<1> USE <1>1, <1>3 DEF Goto, Stop, Terminal, ledgerVars, deadVars, brokerVars
<1>11. CASE CheckDuplicate(c)
  BY <1>11 DEF CheckDuplicate, k
<1>12. CASE RecordAttempt(c)
  BY <1>12 DEF RecordAttempt, k
<1>13. CASE Recheck(c)
  BY <1>13 DEF Recheck, k
<1>14. CASE BeginAttempt(c) \/ AttemptError(c) \/ HandlerSucceeds(c) \/ HandlerFails(c)
  <2>1. pc'[c] \in {"attempt", "handle", "processed", "dlqSend", "retryMark"}
    BY <1>14 DEF BeginAttempt, AttemptError, HandlerSucceeds, HandlerFails, AfterFailure
  <2> QED
    BY <2>1
<1>15. CASE MarkProcessed(c)
  BY <1>0, <1>15 DEF MarkProcessed, SetTerminal, InHandPC, WellFormedPC, Working, k
<1>16. CASE SettleDeadLetter(c)
  BY <1>0, <1>16 DEF SettleDeadLetter, SetTerminal, InHandPC, WellFormedPC, Working, k
<1>17. CASE MarkRetryable(c) \/ RejectMalformed(c) \/ RefuseOrphan(c) \/ Crash(c)
  BY <1>17 DEF MarkRetryable, SetTerminal, RejectMalformed, RefuseOrphan, Crash
<1>18. CASE RouteToDlq(c)
  BY <1>18 DEF RouteToDlq, k
<1>19. CASE PersistDeadLetter(c)
  BY <1>0, <1>19 DEF PersistDeadLetter, InHandPC, WellFormedPC, MalformedPC, Working, k
<1>20. CASE MarkDeadLetter(c)
  BY <1>0, <1>20 DEF MarkDeadLetter, InHandPC, WellFormedPC, MalformedPC, Working, k
<1> QED
  BY <1>11, <1>12, <1>13, <1>14, <1>15, <1>16, <1>17, <1>18, <1>19, <1>20 DEF Walk

\* A consumer that a step leaves at its program point and message keeps its
\* claims, because nothing they rest on is taken back.
LEMMA KeepsRecord ==
  ASSUME Standing, Monotone, NEW c \in Consumers, Recorded(c),
         pc'[c] = pc[c], off'[c] = off[c]
  PROVE  Recorded(c)'
<1>1. CASE pc[c] \in InHandPC
  <2>1. Key(c)' = Key(c) /\ Key(c) \in UsedKeys
    <3>1. off[c] \in 1..Len(log)
      BY <1>1 DEF Standing, HasMessage
    <3>2. KeyAt(off[c])' = KeyAt(off[c])
      BY <3>1 DEF Monotone
    <3>3. Key(c) \in UsedKeys
      BY <1>1, KeyInHand
    <3> QED
      BY <3>2, <3>3 DEF Key, KeyAt
  <2>2. PICK key \in UsedKeys : key = Key(c) /\ Key(c)' = key
    BY <2>1
  <2>3. (status[key] \in Terminal => status'[key] \in Terminal) /\ (key \in dlq => key \in dlq') /\ (dead[key] # "NONE" => dead'[key] # "NONE")
    BY <2>2 DEF Monotone
  <2> QED
    BY <2>2, <2>3 DEF Recorded, Settled, Routed, Saved
<1>2. CASE pc[c] \notin InHandPC
  <2>1. pc'[c] \notin InHandPC
    BY <1>2
  <2>2. pc'[c] \notin {"commit", "dlqSave", "dlqMark", "badSave", "badMark"}
    BY <2>1 DEF InHandPC, WellFormedPC, MalformedPC, Working
  <2> QED
    BY <2>2 DEF Recorded, Settled, Routed, Saved
<1> QED
  BY <1>1, <1>2

\* What a step leaves alone of a consumer that does not take it.
LEMMA OthersStay ==
  ASSUME Standing, NEW c \in Consumers, NEW d \in Consumers, d # c,
         Walk(c) \/ Start(c) \/ Poll(c) \/ CommitOffset(c) \/ Join(c) \/ Rebalance(c)
  PROVE  pc'[d] = pc[d] /\ off'[d] = off[d]
<1>1. CASE Walk(c)
  <2>1. WalksFrom(c)
    BY <1>1, WalkShape
  <2>2. off' = off /\ \E next : pc' = [pc EXCEPT ![c] = next]
    BY <2>1 DEF WalksFrom, WalksOn, WalksOut, Stop, Goto
  <2> QED
    BY <2>2 DEF Standing, ConsumerTypeOK
<1>2. CASE Start(c) \/ Poll(c) \/ CommitOffset(c) \/ Join(c) \/ Rebalance(c)
  BY <1>2 DEF Start, Poll, CommitOffset, Join, Rebalance, Assign, Stop, Goto,
     Standing, ConsumerTypeOK
<1> QED
  BY <1>1, <1>2

LEMMA RecordedNext ==
  ASSUME Standing, [ConsumerNext]_consumerVars, NEW d \in Consumers, Recorded(d)
  PROVE  Recorded(d)'
<1>1. CASE pc'[d] = pc[d] /\ off'[d] = off[d]
  BY <1>1, KeepsRecord, StepKeeps
<1>2. ASSUME NEW c \in Consumers, Walk(c) PROVE Recorded(d)'
  BY <1>1, <1>2, WalkRecords, OthersStay
<1>3. ASSUME NEW c \in Consumers, Start(c) \/ Poll(c) \/ CommitOffset(c) PROVE Recorded(d)'
  <2>1. pc'[c] \in {"down", "poll", "duplicate", "badSend", "check"}
    BY <1>3 DEF Start, Poll, CommitOffset, Stop, Goto, Standing, ConsumerTypeOK
  <2> QED
    BY <1>1, <1>3, <2>1, OthersStay DEF Recorded, Settled, Routed, Saved
<1>4. ASSUME NEW c \in Consumers, Join(c) \/ Rebalance(c) PROVE Recorded(d)'
  BY <1>1, <1>4 DEF Join, Rebalance, Assign
<1>5. ASSUME NEW m \in Messages, AppendMessage(m) PROVE Recorded(d)'
  BY <1>1, <1>5 DEF AppendMessage, localVars
<1>6. ASSUME NEW k \in UsedKeys, LeaseExpires(k) \/ ReviewDeadLetter(k) PROVE Recorded(d)'
  BY <1>1, <1>6 DEF LeaseExpires, ReviewDeadLetter, localVars
<1>7. CASE UNCHANGED consumerVars
  BY <1>1, <1>7 DEF consumerVars, localVars
<1> QED
  BY <1>2, <1>3, <1>4, <1>5, <1>6, <1>7, Steps

-----------------------------------------------------------------------------
(* Committed offsets and dead letters. *)

LEMMA CommittedNext ==
  ASSUME Standing, \A c \in Consumers : Recorded(c), CommittedIsSettled,
         [ConsumerNext]_consumerVars
  PROVE  CommittedIsSettled'
<1>0. /\ committed \in 0..Len(log)
      /\ Monotone
  BY StepKeeps DEF Standing, ConsumerTypeOK
<1>1. ASSUME NEW o \in 1..committed PROVE (status[KeyAt(o)] \in Terminal)'
  <2>1. KeyAt(o) \in UsedKeys /\ KeyAt(o)' = KeyAt(o) /\ status[KeyAt(o)] \in Terminal
    BY <1>0, KeyIsUsed DEF CommittedIsSettled, Monotone
  <2> QED
    BY <1>0, <2>1 DEF Monotone
<1>2. CASE committed' = committed
  BY <1>1, <1>2 DEF CommittedIsSettled
<1>3. ASSUME NEW c \in Consumers, CommitOffset(c), committed' # committed
      PROVE  CommittedIsSettled'
  <2>1. owner = c /\ committed' = pos[c] - 1 /\ pc[c] = "commit"
    BY <1>3 DEF CommitOffset, Stop, brokerVars
  <2>2. pc[c] \in InHandPC /\ OwnerPosition(c) /\ HasMessage(c) /\ Settled(c)
    BY <2>1 DEF Standing, Recorded, InHandPC
  <2>3. committed' = committed + 1 /\ off[c] = committed + 1 /\ off[c] \in 1..Len(log)
    BY <1>0, <1>3, <2>1, <2>2 DEF OwnerPosition, HasMessage
  <2>4. PICK n \in Nat : n = committed + 1
    BY <1>0
  <2>5. (status[KeyAt(n)] \in Terminal)'
    <3>1. KeyAt(n) = Key(c) /\ KeyAt(n) \in UsedKeys /\ KeyAt(n)' = KeyAt(n)
      BY <1>0, <2>3, <2>4, KeyIsUsed DEF Key, Monotone
    <3>2. status[KeyAt(n)] \in Terminal
      BY <2>1, <2>2, <3>1 DEF Settled
    <3> QED
      BY <1>0, <3>1, <3>2 DEF Monotone
  <2>6. 1..committed' = 1..committed \cup {n}
    BY <1>0, <2>3, <2>4
  <2> QED
    BY <1>1, <2>5, <2>6 DEF CommittedIsSettled
<1>4. CASE \A c \in Consumers : ~CommitOffset(c)
  BY <1>2, <1>4, Steps, WalkShape DEF Walk, AppendMessage, Start, Poll, Join, Rebalance, Assign,
     LeaseExpires, ReviewDeadLetter, WalksFrom, WalksOn, WalksOut, Stop, brokerVars, consumerVars
<1> QED
  BY <1>2, <1>3, <1>4

LEMMA DeadLetterNext ==
  ASSUME Standing, \A c \in Consumers : Recorded(c), DeadLetterIsReviewable,
         [ConsumerNext]_consumerVars
  PROVE  DeadLetterIsReviewable'
<1>1. SUFFICES ASSUME NEW k \in UsedKeys, status'[k] = "DEAD_LETTER"
               PROVE  k \in dlq' /\ dead'[k] # "NONE"
  BY DEF DeadLetterIsReviewable
<1>2. Monotone
  BY StepKeeps
<1>3. CASE status[k] = "DEAD_LETTER"
  BY <1>2, <1>3 DEF DeadLetterIsReviewable, Monotone
<1>4. ASSUME NEW c \in Consumers, SettleDeadLetter(c) \/ MarkDeadLetter(c), k = Key(c)
      PROVE  k \in dlq' /\ dead'[k] # "NONE"
  BY <1>4, <1>2 DEF SettleDeadLetter, MarkDeadLetter, Recorded, Routed, Saved, Monotone
<1>5. ASSUME NEW c \in Consumers, Walk(c), status[k] # "DEAD_LETTER"
      PROVE  (SettleDeadLetter(c) \/ MarkDeadLetter(c)) /\ k = Key(c)
  <2>1. status' # status /\ status \in [UsedKeys -> Status]
    BY <1>1, <1>5 DEF Standing, ConsumerTypeOK
  <2>2. CASE RecordAttempt(c)
    BY <1>1, <1>5, <2>1, <2>2 DEF RecordAttempt, ledgerVars
  <2>3. CASE MarkProcessed(c) \/ MarkRetryable(c) \/ SettleDeadLetter(c)
    BY <1>1, <1>5, <2>1, <2>3 DEF MarkProcessed, MarkRetryable, SettleDeadLetter, SetTerminal, ledgerVars
  <2>4. CASE MarkDeadLetter(c)
    BY <1>1, <1>5, <2>1, <2>4 DEF MarkDeadLetter
  <2> QED
    BY <1>5, <2>1, <2>2, <2>3, <2>4 DEF Walk, CheckDuplicate, Recheck, BeginAttempt, AttemptError,
       HandlerSucceeds, HandlerFails, RouteToDlq, PersistDeadLetter, RejectMalformed,
       RefuseOrphan, Crash, ledgerVars
<1>6. CASE UNCHANGED status
  BY <1>1, <1>3, <1>6
<1>7. \/ UNCHANGED status
      \/ \E c \in Consumers : Walk(c)
  BY Steps DEF AppendMessage, Start, Poll, CommitOffset, Join, Rebalance, Assign, LeaseExpires,
     ReviewDeadLetter, Stop, consumerVars, ledgerVars
<1> QED
  BY <1>3, <1>4, <1>5, <1>6, <1>7

-----------------------------------------------------------------------------
(* Leases: while the handler runs, nobody takes the row of its event over.  *)

\* Only increment_attempt starts the handler, under the caller's own lease.
LEMMA HandlerStartsLeased ==
  ASSUME Standing, NEW c \in Consumers, pc'[c] = "handle", Key(c)' = Key(c), Walk(c)
  PROVE  OwnsLease(c)'
<1>1. pc \in [Consumers -> ConsumerPC]
  BY DEF Standing, ConsumerTypeOK
<1>2. CASE BeginAttempt(c)
  <2>1. OwnsLease(c)
    BY <1>1, <1>2 DEF BeginAttempt, AfterFailure, Goto
  <2> QED
    BY <1>2, <2>1 DEF BeginAttempt, OwnsLease, ledgerVars
<1>3. CASE ~BeginAttempt(c)
  BY <1>1, <1>3 DEF Walk, CheckDuplicate, RecordAttempt, Recheck, AttemptError, HandlerSucceeds,
     HandlerFails, AfterFailure, MarkProcessed, SettleDeadLetter, MarkRetryable, SetTerminal,
     RouteToDlq, PersistDeadLetter, MarkDeadLetter, RejectMalformed, RefuseOrphan, Crash, Stop, Goto
<1> QED
  BY <1>2, <1>3

\* Another consumer's walk leaves the row of a running handler alone.
LEMMA WalkRespectsLease ==
  ASSUME Standing, NEW c \in Consumers, NEW d \in Consumers, c # d,
         pc[d] = "handle", OwnsLease(d), Walk(c)
  PROVE  /\ status'[Key(d)] = status[Key(d)]
         /\ token'[Key(d)] = token[Key(d)]
         /\ live'[Key(d)] = live[Key(d)]
<1> DEFINE k == Key(d)
<1>1. /\ status[k] = "PROCESSING" /\ token[k] = d /\ live[k]
      /\ status \in [UsedKeys -> Status]
      /\ token \in [UsedKeys -> Consumers \cup {Nobody}]
      /\ live \in [UsedKeys -> BOOLEAN]
  BY DEF OwnsLease, Standing, ConsumerTypeOK
<1>2. k \in Events
  BY DEF Standing, ConsumerTypeOK, RightKind, HasMessage, InHandPC, WellFormedPC, Working, Messages,
     Key, KeyAt, KeyOf
<1>0. k \in UsedKeys
  BY <1>2 DEF UsedKeys
<1>7. SUFFICES status'[k] = status[k] /\ token'[k] = token[k] /\ live'[k] = live[k]
  OBVIOUS
<1> HIDE DEF k
<1>3. CASE RecordAttempt(c)
  <2>1. CASE Key(c) = k
    BY <1>1, <1>3, <2>1 DEF RecordAttempt, CanClaim, ledgerVars
  <2>2. CASE Key(c) # k
    <3>1. CASE CanClaim(Key(c))
      BY <1>0, <1>1, <1>3, <2>2, <3>1 DEF RecordAttempt
    <3>2. CASE ~CanClaim(Key(c))
      BY <1>3, <3>2 DEF RecordAttempt, ledgerVars
    <3> QED
      BY <3>1, <3>2
  <2> QED
    BY <2>1, <2>2
<1>4. CASE MarkProcessed(c) \/ SettleDeadLetter(c) \/ MarkRetryable(c)
  <2>1. CASE Key(c) = k
    BY <1>1, <1>4, <2>1 DEF MarkProcessed, SettleDeadLetter, MarkRetryable, SetTerminal, ledgerVars
  <2>2. CASE Key(c) # k
    <3>1. \E outcome, next : SetTerminal(c, outcome, next)
      BY <1>4 DEF MarkProcessed, SettleDeadLetter, MarkRetryable
    <3>2. PICK outcome, next : SetTerminal(c, outcome, next)
      BY <3>1
    <3>3. CASE status[Key(c)] = "PROCESSING" /\ token[Key(c)] = c
      BY <1>0, <1>1, <2>2, <3>2, <3>3 DEF SetTerminal
    <3>4. CASE ~(status[Key(c)] = "PROCESSING" /\ token[Key(c)] = c)
      BY <3>2, <3>4 DEF SetTerminal, ledgerVars
    <3> QED
      BY <3>3, <3>4
  <2> QED
    BY <2>1, <2>2
<1>5. CASE MarkDeadLetter(c)
  <2>1. Key(c) \in Nat
    BY <1>5 DEF MarkDeadLetter, Standing, ConsumerTypeOK, RightKind, MalformedPC, Key, KeyAt, KeyOf
  <2>2. Key(c) # k
    BY <1>2, <2>1, ConsumerAssumption
  <2>3. status'[k] = status[k] /\ token' = token /\ live'[k] = live[k]
    BY <1>0, <1>1, <1>5, <2>2 DEF MarkDeadLetter
  <2> QED
    BY <2>3
<1>6. CASE UNCHANGED ledgerVars
  BY <1>6 DEF ledgerVars
<1> QED
  BY <1>3, <1>4, <1>5, <1>6 DEF Walk, CheckDuplicate, Recheck, BeginAttempt, AttemptError,
     HandlerSucceeds, HandlerFails, RouteToDlq, PersistDeadLetter, RejectMalformed, RefuseOrphan, Crash

LEMMA LeasedNext ==
  ASSUME Standing, [ConsumerNext]_consumerVars, NEW d \in Consumers, Leased(d)
  PROVE  Leased(d)'
<1>1. SUFFICES ASSUME pc'[d] = "handle", Key(d)' \notin Stalls PROVE OwnsLease(d)'
  BY DEF Leased
<1>2. CASE pc[d] = "handle" /\ off'[d] = off[d] /\ UNCHANGED ledgerVars
  <2>1. Key(d)' = Key(d)
    BY <1>2, StepKeeps DEF Standing, HasMessage, InHandPC, WellFormedPC, Working, Monotone, Key, KeyAt
  <2> QED
    BY <1>1, <1>2, <2>1 DEF Leased, OwnsLease, ledgerVars
<1>3. ASSUME NEW c \in Consumers, Walk(c) PROVE OwnsLease(d)'
  <2>1. UNCHANGED <<log, off>>
    BY <1>3, WalkShape DEF WalksFrom, WalksOn, WalksOut, Stop, brokerVars
  <2>2. Key(d)' = Key(d)
    BY <2>1 DEF Key, KeyAt, KeyOf
  <2>3. CASE c = d
    BY <1>1, <1>3, <2>2, <2>3, HandlerStartsLeased
  <2>4. CASE c # d
    <3>1. pc[d] = "handle" /\ OwnsLease(d)
      BY <1>1, <1>3, <2>2, <2>4, OthersStay DEF Leased
    <3> QED
      BY <1>3, <2>2, <2>4, <3>1, WalkRespectsLease DEF OwnsLease
  <2> QED
    BY <2>3, <2>4
<1>4. ASSUME NEW c \in Consumers, Start(c) \/ Poll(c) \/ CommitOffset(c) PROVE OwnsLease(d)'
  <2>1. pc'[c] # "handle" /\ UNCHANGED ledgerVars
    BY <1>4 DEF Start, Poll, CommitOffset, Stop, Goto, Standing, ConsumerTypeOK
  <2> QED
    BY <1>1, <1>2, <1>4, <2>1, OthersStay
<1>5. ASSUME NEW k \in UsedKeys, LeaseExpires(k) PROVE OwnsLease(d)'
  <2>1. pc[d] = "handle" /\ Key(d)' = Key(d) /\ UNCHANGED <<status, token>>
    BY <1>1, <1>5 DEF LeaseExpires, localVars, brokerVars, Key, KeyAt, KeyOf
  <2>2. OwnsLease(d) /\ Key(d) \notin Stalls
    BY <1>1, <2>1 DEF Leased
  <2>3. k # Key(d)
    BY <1>5, <2>1, <2>2 DEF LeaseExpires, OwnsLease, Working
  <2> QED
    BY <1>5, <2>1, <2>2, <2>3 DEF LeaseExpires, OwnsLease, Standing, ConsumerTypeOK
<1>6. ASSUME NEW c \in Consumers, Join(c) \/ Rebalance(c) PROVE OwnsLease(d)'
  BY <1>1, <1>2, <1>6 DEF Join, Rebalance, Assign
<1>7. ASSUME NEW m \in Messages, AppendMessage(m) PROVE OwnsLease(d)'
  BY <1>1, <1>2, <1>7 DEF AppendMessage, localVars
<1>8. ASSUME NEW k \in UsedKeys, ReviewDeadLetter(k) PROVE OwnsLease(d)'
  BY <1>1, <1>2, <1>8 DEF ReviewDeadLetter, localVars
<1>9. CASE UNCHANGED consumerVars
  BY <1>1, <1>2, <1>9 DEF consumerVars, localVars
<1> QED
  BY <1>3, <1>4, <1>5, <1>6, <1>7, <1>8, <1>9, Steps

-----------------------------------------------------------------------------
(* The results. *)

\* The inductive invariant of a consumer group.
ConsumerInv ==
  /\ Standing
  /\ \A c \in Consumers : Recorded(c) /\ Leased(c)
  /\ CommittedIsSettled
  /\ DeadLetterIsReviewable

LEMMA ConsumerInvInit == ConsumerInit => ConsumerInv
<1> SUFFICES ASSUME ConsumerInit PROVE ConsumerInv
  OBVIOUS
<1>1. ASSUME NEW c \in Consumers PROVE Recorded(c) /\ Leased(c)
  BY DEF ConsumerInit, Recorded, Settled, Routed, Saved, Leased
<1>2. CommittedIsSettled /\ DeadLetterIsReviewable
  BY DEF ConsumerInit, CommittedIsSettled, DeadLetterIsReviewable
<1> QED
  BY <1>1, <1>2, StandingInit DEF ConsumerInv

LEMMA ConsumerInvNext == ConsumerInv /\ [ConsumerNext]_consumerVars => ConsumerInv'
<1> SUFFICES ASSUME ConsumerInv, [ConsumerNext]_consumerVars PROVE ConsumerInv'
  OBVIOUS
<1>1. Standing'
  BY StandingNext DEF ConsumerInv
<1>2. ASSUME NEW c \in Consumers PROVE Recorded(c)' /\ Leased(c)'
  BY RecordedNext, LeasedNext DEF ConsumerInv
<1>3. CommittedIsSettled' /\ DeadLetterIsReviewable'
  BY CommittedNext, DeadLetterNext DEF ConsumerInv
<1> QED
  BY <1>1, <1>2, <1>3 DEF ConsumerInv

\* The inductive invariant holds in every reachable state of any number of
\* consumers of one partition, whatever crashes, stalls or loses the partition.
THEOREM ConsumerInvariance == ConsumerSpec => []ConsumerInv
BY ConsumerInvInit, ConsumerInvNext, PTL DEF ConsumerSpec

\* Every variable stays in its domain, and no offset is committed that the
\* partition does not have.
THEOREM ConsumerTypeCorrect == ConsumerSpec => []ConsumerTypeOK
<1>1. ConsumerInv => ConsumerTypeOK
  BY DEF ConsumerInv, Standing
<1> QED
  BY <1>1, ConsumerInvariance, PTL

\* start() commits an offset only after the ledger holds a terminal outcome for
\* every message up to it, whichever consumer recorded it.
THEOREM NoMessageSkipped == ConsumerSpec => []CommittedIsSettled
<1>1. ConsumerInv => CommittedIsSettled
  BY DEF ConsumerInv
<1> QED
  BY <1>1, ConsumerInvariance, PTL

\* A message given up on is on the DLQ topic and open to review before the
\* ledger calls it a dead letter.
THEOREM DeadLettersAreKept == ConsumerSpec => []DeadLetterIsReviewable
<1>1. ConsumerInv => DeadLetterIsReviewable
  BY DEF ConsumerInv
<1> QED
  BY <1>1, ConsumerInvariance, PTL

\* The processing lease excludes a second handler for an event whose handling
\* does not outlast it.
THEOREM OneHandlerPerEvent == ConsumerSpec => []OneLiveHandler
<1>1. ConsumerInv => OneLiveHandler
  BY DEF ConsumerInv, Leased, OwnsLease, OneLiveHandler
<1> QED
  BY <1>1, ConsumerInvariance, PTL

\* No late writer, redelivery or stale token changes a terminal outcome.
THEOREM OutcomesAreFinal == ConsumerSpec => TerminalIsFinal
<1> DEFINE Final == \A k \in UsedKeys : status[k] \in Terminal => status'[k] = status[k]
<1>1. Standing /\ [ConsumerNext]_consumerVars => [Final]_consumerVars
  BY StepKeeps DEF Monotone
<1> QED
  BY <1>1, StandingInvariance, PTL DEF ConsumerSpec, TerminalIsFinal
=============================================================================
