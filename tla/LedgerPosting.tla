----------------------------- MODULE LedgerPosting -----------------------------
(***************************************************************************)
(* The universal ledger engine (ledger/engine): a proposal of lines is     *)
(* validated and posted with its outbox event and its block of the audit   *)
(* chain (audit), all in the caller's transaction.  Nothing is locked.     *)
(*                                                                         *)
(* Amounts are in half units: the engine and the columns keep whole units  *)
(* and round halves up.                                                    *)
(*                                                                         *)
(* Rows: GLACC [status] account of the chart; FISCAL [status] the period   *)
(* of the posting date; JE [status] a posted transaction; AUDIT n [status, *)
(* prev] the n-th block by its clock, prev is the block it is chained to.  *)
(* Books: "GL" per account, debits less credits in whole units; "POSTED"   *)
(* the journal events enqueued.                                            *)
(***************************************************************************)
EXTENDS Database

GL(account) == <<"GL", account>>
PostedEvents == <<"POSTED", 0>>
Period == <<"FISCAL", 1>>

Quantized(amount) == (amount + 1) \div 2

SingleSided(line) == (Quantized(line.debit) > 0) # (Quantized(line.credit) > 0)

Side(lines, side) == SumFunctionOnSet([n \in DOMAIN lines |-> Quantized(lines[n][side])], DOMAIN lines)

\* Mutant of ZeroSum: the exact amounts are compared.
ZeroSumExact(lines) ==
  SumFunctionOnSet([n \in DOMAIN lines |-> lines[n].debit - lines[n].credit], DOMAIN lines) = 0

ZeroSum(lines) == Side(lines, "debit") = Side(lines, "credit")

ValidLines(lines) ==
  /\ lines # <<>>
  /\ \A n \in DOMAIN lines : SingleSided(lines[n])
  /\ ZeroSum(lines)

Tier2Ceiling == 2
WithinAutonomy(volume, approved) == volume <= Tier2Ceiling \/ approved

AccountsOf(lines) == {lines[n].account : n \in DOMAIN lines}

\* Mutant of LatestBlock: the oldest block is taken.
FirstBlock == IF Live("AUDIT") = {} THEN NoRef ELSE CHOOSE a \in Live("AUDIT") : \A b \in Live("AUDIT") : a[2] <= b[2]

\* The block with the latest time; the first of a tenant has none before it.
LatestBlock == IF Live("AUDIT") = {} THEN NoRef ELSE CHOOSE a \in Live("AUDIT") : \A b \in Live("AUDIT") : a[2] >= b[2]

Block(audit) == audit :> [status |-> "LIVE", prev |-> LatestBlock]

\* What the lines of a proposal add to the account of book k.
Change(lines, k) ==
  SumFunctionOnSet([n \in DOMAIN lines |-> Quantized(lines[n].debit) - Quantized(lines[n].credit)],
                   {n \in DOMAIN lines : GL(lines[n].account) = k})

\* An account that is not in the chart is created; one that is inactive is
\* created again, which its unique code refuses.
CommitTransaction(s, je, audit, lines, approved) ==
  /\ ValidLines(lines)
  /\ WithinAutonomy(Side(lines, "debit"), approved)
  /\ Status(Period) # "LOCKED"
  /\ \A a \in AccountsOf(lines) : Status(a) # "INACTIVE"
  /\ Stage(s,
       [a \in AccountsOf(lines) |-> [status |-> "ACTIVE"]]
         @@ je :> [status |-> "LIVE"] @@ Block(audit),
       [k \in {GL(a) : a \in AccountsOf(lines)} |-> Change(lines, k)] @@ PostedEvents :> 1,
       {})

LogAgentAction(s, audit) == Stage(s, Block(audit), Nothing, {})

-----------------------------------------------------------------------------

JournalLine(account, debit, credit) == [account |-> account, debit |-> debit, credit |-> credit]

\* Up to three lines on two or three accounts, halves among the amounts.
Proposals ==
  LET a == <<"GLACC", 1>>  b == <<"GLACC", 2>> IN
  {<<JournalLine(a, x, 0), JournalLine(b, 0, y)>> : x, y \in 1..4}
    \cup {<<JournalLine(a, 2, 0), JournalLine(b, 0, y), JournalLine(a, 0, z)>> : y, z \in 1..2}
    \cup {<<>>, <<JournalLine(a, 1, 1), JournalLine(b, 0, 2)>>}

LedgerNext(s) ==
  \/ \E je \in Rows("JE"), audit \in Rows("AUDIT"), lines \in Proposals, approved \in BOOLEAN :
       Fresh(je) /\ Fresh(audit) /\ CommitTransaction(s, je, audit, lines, approved)
  \/ \E audit \in Rows("AUDIT") : Fresh(audit) /\ LogAgentAction(s, audit)

-----------------------------------------------------------------------------
(* Properties *)

\* The stored ledger balances over all accounts, whatever halves the
\* proposals rounded, and every posting has its event.
LedgerBalances ==
  Rows("JE") # {} =>
    /\ SumFunctionOnSet(sums, {k \in DOMAIN sums : k[1] = "GL"}) = 0
    /\ Book(PostedEvents) = Cardinality(Live("JE"))

\* Every block of a tenant's audit log is chained to the block before it:
\* no two blocks continue the same one.
AuditChained ==
  \A a, b \in Live("AUDIT") : a # b => db[a].prev # db[b].prev

\* The ledger as an auditor needs it: balanced, and its blocks one chain.
LedgerAuditable == LedgerBalances /\ AuditChained

-----------------------------------------------------------------------------
\* The block that the next one after it in the log is chained to.
Continues(audit, prev) ==
  \/ prev = NoRef /\ \A a \in Live("AUDIT") : a[2] >= audit[2]
  \/ /\ prev \in Live("AUDIT") /\ prev[2] < audit[2]
     /\ \A a \in Live("AUDIT") : a[2] <= prev[2] \/ a[2] >= audit[2]

\* The audit log of a tenant, its blocks numbered by their clock.
ChainedInOrder ==
  /\ Rows("AUDIT") \subseteq {"AUDIT"} \X Nat
  /\ \A audit \in Live("AUDIT") :
       /\ "prev" \in DOMAIN db[audit] /\ Continues(audit, db[audit].prev)
       /\ \A a \in Rows("AUDIT") : a[2] < audit[2] => a \in Live("AUDIT")

\* A ledger between two requests: every account that a line may name has its
\* book, whether it is in the chart yet or not.
LedgerComplete ==
  /\ IsFiniteSet(DOMAIN db) /\ IsFiniteSet(DOMAIN sums)
  /\ \A k \in DOMAIN sums : sums[k] \in Int
  /\ PostedEvents \in DOMAIN sums /\ \A a \in Rows("GLACC") : GL(a) \in DOMAIN sums

\* Any lines, on any accounts.
ProposedLines == [account : Rows("GLACC"), debit : Nat, credit : Nat]

LedgerSpec ==
  /\ LedgerComplete /\ ChainedInOrder /\ LedgerBalances /\ \A s \in Sessions : Free(s)
  /\ [][\E s \in Sessions :
          \/ EndOfRequest(s)
          \/ \E je \in Rows("JE"), audit \in Rows("AUDIT"), size \in Nat, approved \in BOOLEAN :
               /\ Fresh(je) /\ Fresh(audit)
               /\ \E lines \in [1..size -> ProposedLines] : CommitTransaction(s, je, audit, lines, approved)
          \/ \E audit \in Rows("AUDIT") : Fresh(audit) /\ LogAgentAction(s, audit)]_vars
=============================================================================
