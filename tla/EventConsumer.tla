--------------------------- MODULE EventConsumer ---------------------------
(***************************************************************************)
(* EventConsumer (src/src/erp/events/consumer.py): the consumers of one    *)
(* group reading one Kafka partition, with the durable processing ledger   *)
(* (event_processing_records), the retry loop, the dead-letter queue and   *)
(* the review of dead letters (api/routes/events.py).                      *)
(*                                                                         *)
(* One step is one database transaction, one broker call or one handler    *)
(* run.  Consumers crash or raise between any two steps, lose the          *)
(* partition to each other, and go on with the message in hand.            *)
(***************************************************************************)
EXTENDS Integers, Sequences, FiniteSets

CONSTANTS
  Events,      \* stable event ids found in well-formed messages
  Orphans,     \* events whose tenant_id names no row of tenants
  Malformed,   \* a message without a valid event_id or tenant_id
  Consumers,   \* EventConsumer instances of one consumer group
  Nobody,      \* no consumer: of a partition, of a processing token
  MaxRetries,  \* max_retries of the consumer
  WithDlq,     \* the consumers constructed with enable_dlq=True
  Stalls,      \* the events whose handling may outlast its own lease
  MaxLog,      \* bound on the length of the partition
  MaxFaults    \* bound on crashes, raised database or broker errors, rebalances

ASSUME ConsumerAssumption ==
  /\ Orphans \subseteq Events
  /\ Malformed \notin Events
  /\ Nobody \notin Consumers
  /\ Events \cap Nat = {}
  /\ MaxRetries \in Nat \ {0}
  /\ WithDlq \subseteq Consumers
  /\ Stalls \subseteq Events
  /\ MaxLog \in Nat
  /\ MaxFaults \in Nat

VARIABLES
  log,        \* the partition: what the broker has appended
  committed,  \* the group's committed offset: messages 1..committed are done
  owner,      \* the consumer the partition is assigned to
  status,     \* status[k]: event_processing_records.status, NONE without a row
  token,      \* token[k]: the consumer whose processing_token the row holds
  live,       \* live[k]: lease_expires_at is in the future
  dead,       \* dead[k]: event_dead_letter_records.status, NONE without a row
  dlq,        \* keys with a copy on the <topic>.DLQ topic
  pc,         \* pc[c]: the next step of consumer c
  pos,        \* pos[c]: the fetch position of c's current assignment
  off,        \* off[c]: the offset of the message c has in hand
  att,        \* att[c]: attempts of the retry loop
  faults

ledgerVars == <<status, token, live>>
deadVars == <<dead, dlq>>
brokerVars == <<log, committed, owner>>
localVars == <<pc, pos, off, att>>
consumerVars == <<brokerVars, ledgerVars, deadVars, localVars, faults>>

-----------------------------------------------------------------------------
\* The ledger key of a message: its event_id, or a hash of its offset.
Keys == Events \cup Nat
KeyOf(m, o) == IF m = Malformed THEN o ELSE m
KeyAt(o) == KeyOf(log[o], o)
Key(c) == KeyAt(off[c])

Status == {"NONE", "PROCESSING", "RETRYABLE", "PROCESSED", "DEAD_LETTER"}
Terminal == {"PROCESSED", "DEAD_LETTER"}

ConsumerPC ==
  {"down", "poll", "check", "duplicate", "claim", "recheck", "attempt", "handle",
   "processed", "dlqSend", "dlqSave", "dlqMark", "retryMark", "commit",
   "badSend", "badSave", "badMark"}

\* Program points between a successful record_attempt and its outcome.
Working == {"attempt", "handle", "processed", "dlqSend", "dlqSave", "dlqMark", "retryMark"}

\* The ledger rows a run can touch.
UsedKeys == Events \cup 1..MaxLog

ConsumerInit ==
  /\ log = <<>>
  /\ committed = 0
  /\ owner = Nobody
  /\ status = [k \in UsedKeys |-> "NONE"]
  /\ token = [k \in UsedKeys |-> Nobody]
  /\ live = [k \in UsedKeys |-> FALSE]
  /\ dead = [k \in UsedKeys |-> "NONE"]
  /\ dlq = {}
  /\ pc = [c \in Consumers |-> "down"]
  /\ pos = [c \in Consumers |-> 1]
  /\ off = [c \in Consumers |-> 0]
  /\ att = [c \in Consumers |-> 0]
  /\ faults = 0

-----------------------------------------------------------------------------
(* The broker: appends, assignment of the partition. *)

AppendMessage(m) ==
  /\ Len(log) < MaxLog
  /\ log' = Append(log, m)
  /\ UNCHANGED <<committed, owner, ledgerVars, deadVars, localVars, faults>>

\* The group assigns the partition: the new owner fetches after the committed
\* offset.  The old owner is not told and keeps the message in hand.
Assign(c) ==
  /\ pc[c] # "down"
  /\ owner # c
  /\ owner' = c
  /\ pos' = [pos EXCEPT ![c] = committed + 1]
  /\ UNCHANGED <<log, committed, ledgerVars, deadVars, pc, off, att>>

Fault == faults < MaxFaults /\ faults' = faults + 1

Join(c) == owner = Nobody /\ Assign(c) /\ UNCHANGED faults
Rebalance(c) == owner # Nobody /\ Assign(c) /\ Fault

-----------------------------------------------------------------------------
(* The loop of start(), one step per await. *)

Goto(c, next) == pc' = [pc EXCEPT ![c] = next]

\* Any exception ends start(): the consumer stops and leaves the group.
Stop(c) ==
  /\ Goto(c, "down")
  /\ owner' = IF owner = c THEN Nobody ELSE owner
  /\ UNCHANGED <<log, committed, pos, off, att>>

\* start(): connect and subscribe.
Start(c) ==
  /\ pc[c] = "down"
  /\ Goto(c, "poll")
  /\ UNCHANGED <<brokerVars, ledgerVars, deadVars, pos, off, att, faults>>

\* async for msg in self._consumer; the message is parsed and validated.
Poll(c) ==
  /\ pc[c] = "poll"
  /\ owner = c
  /\ pos[c] <= Len(log)
  /\ off' = [off EXCEPT ![c] = pos[c]]
  /\ pos' = [pos EXCEPT ![c] = @ + 1]
  /\ Goto(c, IF log[pos[c]] # Malformed THEN "duplicate"
             ELSE IF c \in WithDlq THEN "badSend" ELSE "check")
  /\ UNCHANGED <<brokerVars, ledgerVars, deadVars, att, faults>>

\* A malformed message without a DLQ: raise, leave it uncommitted.
RejectMalformed(c) ==
  /\ pc[c] = "check"
  /\ Stop(c)
  /\ UNCHANGED <<ledgerVars, deadVars, faults>>

\* is_duplicate before the claim.
CheckDuplicate(c) ==
  /\ pc[c] = "duplicate"
  /\ Goto(c, IF status[Key(c)] \in Terminal THEN "commit" ELSE "claim")
  /\ UNCHANGED <<brokerVars, ledgerVars, deadVars, pos, off, att, faults>>

\* Mutants of CanClaim: the lease is ignored; an expired lease is not taken over.
ClaimLeased(k) == status[k] \notin Terminal
ClaimNeverTakesOver(k) == status[k] \notin Terminal \cup {"PROCESSING"}

\* record_attempt: insert, or take over a row that is neither terminal nor
\* leased; the tenant's foreign key refuses an orphan.
CanClaim(k) ==
  /\ status[k] \notin Terminal
  /\ status[k] = "PROCESSING" => ~live[k]

RecordAttempt(c) ==
  /\ pc[c] = "claim"
  /\ Key(c) \notin Orphans
  /\ IF CanClaim(Key(c))
     THEN /\ status' = [status EXCEPT ![Key(c)] = "PROCESSING"]
          /\ token' = [token EXCEPT ![Key(c)] = c]
          /\ live' = [live EXCEPT ![Key(c)] = TRUE]
          /\ att' = [att EXCEPT ![c] = 0]
          /\ Goto(c, "attempt")
     ELSE /\ Goto(c, "recheck")
          /\ UNCHANGED <<ledgerVars, att>>
  /\ UNCHANGED <<brokerVars, deadVars, pos, off, faults>>

RefuseOrphan(c) ==
  /\ pc[c] = "claim"
  /\ Key(c) \in Orphans
  /\ Stop(c)
  /\ UNCHANGED <<ledgerVars, deadVars, faults>>

\* The claim was refused: settled meanwhile, or "leased by another handler".
Recheck(c) ==
  /\ pc[c] = "recheck"
  /\ IF status[Key(c)] \in Terminal
     THEN Goto(c, "commit") /\ UNCHANGED <<brokerVars, pos, off, att>>
     ELSE Stop(c)
  /\ UNCHANGED <<ledgerVars, deadVars, faults>>

\* Where the retry loop of c goes after its n-th attempt failed.
AfterFailure(c, n) ==
  IF n < MaxRetries THEN "attempt" ELSE IF c \in WithDlq THEN "dlqSend" ELSE "retryMark"

OwnsLease(c) ==
  status[Key(c)] = "PROCESSING" /\ token[Key(c)] = c /\ live[Key(c)]

\* attempts += 1; increment_attempt: its RuntimeError is caught by the retry
\* loop like an error of the handler.
BeginAttempt(c) ==
  /\ pc[c] = "attempt"
  /\ att' = [att EXCEPT ![c] = @ + 1]
  /\ Goto(c, IF OwnsLease(c) THEN "handle" ELSE AfterFailure(c, att[c] + 1))
  /\ UNCHANGED <<brokerVars, ledgerVars, deadVars, pos, off, faults>>

\* The database raises in increment_attempt: also taken for a failed attempt.
AttemptError(c) ==
  /\ pc[c] = "attempt"
  /\ Fault
  /\ att' = [att EXCEPT ![c] = @ + 1]
  /\ Goto(c, AfterFailure(c, att[c] + 1))
  /\ UNCHANGED <<brokerVars, ledgerVars, deadVars, pos, off>>

HandlerSucceeds(c) ==
  /\ pc[c] = "handle"
  /\ Goto(c, "processed")
  /\ UNCHANGED <<brokerVars, ledgerVars, deadVars, pos, off, att, faults>>

\* The handler raises or is cancelled after HANDLER_TIMEOUT_SECONDS.
HandlerFails(c) ==
  /\ pc[c] = "handle"
  /\ Goto(c, AfterFailure(c, att[c]))
  /\ UNCHANGED <<brokerVars, ledgerVars, deadVars, pos, off, att, faults>>

\* Mutant of SetTerminal: the WHERE clause on token and status is missing.
SetTerminalBlindly(c, outcome, next) ==
  /\ status' = [status EXCEPT ![Key(c)] = outcome]
  /\ Goto(c, next)
  /\ owner' = IF next = "down" /\ owner = c THEN Nobody ELSE owner
  /\ UNCHANGED <<log, committed, token, live, pos, off, att>>

\* _set_terminal_status: only under the caller's own token.
SetTerminal(c, outcome, next) ==
  LET k == Key(c) IN
  IF status[k] = "PROCESSING" /\ token[k] = c
  THEN /\ status' = [status EXCEPT ![k] = outcome]
       /\ token' = [token EXCEPT ![k] = Nobody]
       /\ live' = [live EXCEPT ![k] = FALSE]
       /\ Goto(c, next)
       /\ owner' = IF next = "down" /\ owner = c THEN Nobody ELSE owner
       /\ UNCHANGED <<log, committed, pos, off, att>>
  ELSE Stop(c) /\ UNCHANGED ledgerVars

MarkProcessed(c) ==
  /\ pc[c] = "processed"
  /\ SetTerminal(c, "PROCESSED", "commit")
  /\ UNCHANGED <<deadVars, faults>>

\* Mutant of RouteToDlq: the outcome is recorded without persist_dead_letter.
RouteAndMark(c) ==
  /\ pc[c] \in {"dlqSend", "badSend"}
  /\ dlq' = dlq \cup {Key(c)}
  /\ Goto(c, IF pc[c] = "dlqSend" THEN "dlqMark" ELSE "badMark")
  /\ UNCHANGED <<brokerVars, ledgerVars, dead, pos, off, att, faults>>

\* _route_to_dlq, for an exhausted and for a malformed message.
RouteToDlq(c) ==
  /\ pc[c] \in {"dlqSend", "badSend"}
  /\ dlq' = dlq \cup {Key(c)}
  /\ Goto(c, IF pc[c] = "dlqSend" THEN "dlqSave" ELSE "badSave")
  /\ UNCHANGED <<brokerVars, ledgerVars, dead, pos, off, att, faults>>

\* persist_dead_letter: ON CONFLICT DO NOTHING.
PersistDeadLetter(c) ==
  /\ pc[c] \in {"dlqSave", "badSave"}
  /\ dead' = [dead EXCEPT ![Key(c)] = IF @ = "NONE" THEN "OPEN" ELSE @]
  /\ Goto(c, IF pc[c] = "dlqSave" THEN "dlqMark" ELSE "badMark")
  /\ UNCHANGED <<brokerVars, ledgerVars, dlq, pos, off, att, faults>>

SettleDeadLetter(c) ==
  /\ pc[c] = "dlqMark"
  /\ SetTerminal(c, "DEAD_LETTER", "commit")
  /\ UNCHANGED <<deadVars, faults>>

\* mark_dead_letter of a malformed message: upsert unless PROCESSED.
MarkDeadLetter(c) ==
  /\ pc[c] = "badMark"
  /\ status' = [status EXCEPT ![Key(c)] = IF @ = "PROCESSED" THEN @ ELSE "DEAD_LETTER"]
  /\ live' = [live EXCEPT ![Key(c)] = FALSE]
  /\ Goto(c, "commit")
  /\ UNCHANGED <<brokerVars, token, deadVars, pos, off, att, faults>>

\* Mutant of MarkRetryable: goes on to the commit instead of raising.
MarkRetryableAndGo(c) ==
  /\ pc[c] = "retryMark"
  /\ SetTerminal(c, "RETRYABLE", "commit")
  /\ UNCHANGED <<deadVars, faults>>

\* mark_retryable, then "retries exhausted; offset left uncommitted".
MarkRetryable(c) ==
  /\ pc[c] = "retryMark"
  /\ SetTerminal(c, "RETRYABLE", "down")
  /\ UNCHANGED <<deadVars, faults>>

\* self._consumer.commit(): commits the position of the current assignment.
\* A consumer that lost the partition commits nothing, or is told so.
CommitOffset(c) ==
  /\ pc[c] = "commit"
  /\ \/ /\ owner = c
        /\ committed' = pos[c] - 1
        /\ Goto(c, "poll")
        /\ UNCHANGED <<log, owner, pos, off, att>>
     \/ /\ owner # c
        /\ Goto(c, "poll")
        /\ UNCHANGED <<brokerVars, pos, off, att>>
     \/ /\ owner # c
        /\ Stop(c)
  /\ UNCHANGED <<ledgerVars, deadVars, faults>>

\* A crash, or any other database or broker error, at any point.
Crash(c) ==
  /\ pc[c] # "down"
  /\ Fault
  /\ Stop(c)
  /\ UNCHANGED <<ledgerVars, deadVars>>

-----------------------------------------------------------------------------
(* Time and people. *)

\* lease_expires_at passes.  PROCESSING_LEASE_SECONDS exceeds MaxRetries
\* handler timeouts, so a holder that does not stall has left Working by then.
LeaseExpires(k) ==
  /\ live[k]
  /\ k \in Stalls \/ ~\E c \in Consumers : pc[c] \in Working /\ Key(c) = k /\ token[k] = c
  /\ live' = [live EXCEPT ![k] = FALSE]
  /\ UNCHANGED <<brokerVars, status, token, deadVars, localVars, faults>>

\* review_dead_letter: OPEN -> REVIEWED under FOR UPDATE; nothing is replayed.
ReviewDeadLetter(k) ==
  /\ dead[k] = "OPEN"
  /\ dead' = [dead EXCEPT ![k] = "REVIEWED"]
  /\ UNCHANGED <<brokerVars, ledgerVars, dlq, localVars, faults>>

-----------------------------------------------------------------------------
\* The steps a running consumer takes by itself.
ConsumerProgress(c) ==
  \/ Start(c)
  \/ Poll(c)
  \/ RejectMalformed(c)
  \/ CheckDuplicate(c)
  \/ RecordAttempt(c)
  \/ RefuseOrphan(c)
  \/ Recheck(c)
  \/ BeginAttempt(c)
  \/ HandlerSucceeds(c)
  \/ HandlerFails(c)
  \/ MarkProcessed(c)
  \/ RouteToDlq(c)
  \/ PersistDeadLetter(c)
  \/ SettleDeadLetter(c)
  \/ MarkDeadLetter(c)
  \/ MarkRetryable(c)
  \/ CommitOffset(c)

\* Everything but the appends: in the pipeline the outbox makes those.
ConsumerStep ==
  \/ \E c \in Consumers :
       ConsumerProgress(c) \/ Join(c) \/ Rebalance(c) \/ AttemptError(c) \/ Crash(c)
  \/ \E k \in UsedKeys : LeaseExpires(k) \/ ReviewDeadLetter(k)

ConsumerNext ==
  \/ \E m \in Events \cup {Malformed} : AppendMessage(m)
  \/ ConsumerStep

ConsumerSpec == ConsumerInit /\ [][ConsumerNext]_consumerVars

\* A supervisor restarts stopped consumers, the group assigns the partition,
\* time passes, and handlers end (they are cancelled by a timeout).
ConsumerFairness ==
  /\ \A c \in Consumers :
       WF_consumerVars(ConsumerProgress(c)) /\ SF_consumerVars(Join(c))
  /\ \A k \in UsedKeys : WF_consumerVars(LeaseExpires(k))

ConsumerFairSpec == ConsumerSpec /\ ConsumerFairness

-----------------------------------------------------------------------------
(* Properties. *)

\* The offset of a message is committed only once the durable ledger records
\* a terminal outcome for it, whoever processed it and whatever failed.
CommittedIsSettled ==
  \A o \in 1..committed : status[KeyAt(o)] \in Terminal

\* A terminal outcome survives redelivery, late writers and stale tokens.
TerminalIsFinal ==
  [][\A k \in UsedKeys : status[k] \in Terminal => status'[k] = status[k]]_consumerVars

\* What the ledger calls DEAD_LETTER is on the DLQ topic and in the table that
\* administrators review.
DeadLetterIsReviewable ==
  \A k \in UsedKeys : status[k] = "DEAD_LETTER" => k \in dlq /\ dead[k] # "NONE"

\* Two consumers never run the handler for one event at the same time, unless
\* it outlasts its lease.
OneLiveHandler ==
  \A c, d \in Consumers :
    (c # d /\ pc[c] = "handle" /\ pc[d] = "handle" /\ Key(c) = Key(d)) => Key(c) \in Stalls

\* Every message of the partition is eventually committed, although one of the
\* consumers may have no DLQ; only a message of an unknown tenant and one whose
\* handling outlasts every lease hold the partition up.
EventuallyCommitted ==
  \A o \in 1..MaxLog :
    (o <= Len(log)) ~> (o <= committed \/ \E p \in DOMAIN log : p <= o /\ log[p] \in Orphans \cup Stalls)
=============================================================================
