----------------------------- MODULE Receivables -----------------------------
(***************************************************************************)
(* Settling sales invoices: customer advances, bank payments cleared       *)
(* automatically and credit notes, which all credit the receivable of an   *)
(* invoice.  An advance and a bank payment serialise on the advisory lock  *)
(* of the invoice; a credit note locks the invoice row instead.            *)
(*                                                                         *)
(* Rows: INV [status, customer, total, qty, line] an issued invoice of one *)
(* line; SOL [status, invoiced, returned] its order line; ADVALLOC and     *)
(* CN [status, invoice, amount (, qty)]; BANKTX [status, invoice, amount]  *)
(* the posting of a bank transaction; LVL the stock level.                 *)
(* Books: <<"AR", i>> receivable of invoice i; <<"ADV", c>> deposits of    *)
(* customer c; "DEPOSITS" the deposits ever made; "SLE" the stock ledger.  *)
(* Amounts are whole units within the autonomy ceiling; one currency.      *)
(***************************************************************************)
EXTENDS Database

AR(i) == <<"AR", i>>
ADV(c) == <<"ADV", c>>
AdvanceLock(c) == <<"customer-advance", c>>
InvoiceLock(i) == <<"sales-invoice", i>>
BankLock(t) == <<"bank-transaction", t>>

Invoices == Live("INV")
Outstanding(i) == sums[AR(i)]

\* A manual journal: debit the bank, credit customer advances.
StageTransaction(s, c, amount) ==
  Stage(s, Nothing, ADV(c) :> amount @@ <<"DEPOSITS", c>> :> amount, {})

\* Mutant of AdvanceLocks: only the invoice is locked.
AdvanceLocksInvoice(i) == {InvoiceLock(i), i}

AdvanceLocks(i) == {AdvanceLock(db[i].customer), InvoiceLock(i), i}

AllocateAdvancePayment(s, i, amount, alloc) ==
  LET c == db[i].customer IN
  /\ Status(i) \notin {"PAID", "CANCELLED"}
  /\ amount <= Outstanding(i)
  /\ amount <= sums[ADV(c)]
  /\ Stage(s,
       alloc :> [status |-> "POSTED", invoice |-> i, amount |-> amount]
         @@ i :> [status |-> IF amount = Outstanding(i) THEN "PAID" ELSE "ISSUED"],
       AR(i) :> -amount @@ ADV(c) :> -amount,
       AdvanceLocks(i))

\* The composite confidence of a candidate whose name or number matches:
\* 0.6 * amount score + 0.4, against the threshold 0.92 (differences above
\* ten units, the ones below score 0.8 and need a human).
MeetsThreshold(i, amount) ==
  \/ amount = Outstanding(i)
  \/ 60 * (Outstanding(i) - amount) <= 8 * db[i].total

FindMatchingReceivable(amount) ==
  {i \in Invoices : /\ Status(i) = "ISSUED"
                    /\ amount <= Outstanding(i)
                    /\ MeetsThreshold(i, amount)}

\* Mutant of BankLocks: a transaction delivered twice is not serialised.
NoBankLocks(tx) == {}

BankLocks(tx) == {BankLock(tx)}

\* A bank transaction that was posted before is answered without a posting.
BeginBankTransaction(s, tx, amount, i) ==
  /\ db[tx] = NoRow
  /\ i \in FindMatchingReceivable(amount)
  /\ Hold(s, [op |-> "clear", tx |-> tx, amount |-> amount, invoice |-> i, seen |-> Outstanding(i)],
          BankLocks(tx))

\* Mutant of StillOpen: the balance is not read again under the lock.
StillOpenAsSeen(s) == req[s].memo.amount <= req[s].memo.seen

StillOpen(s) == req[s].memo.amount <= Outstanding(req[s].memo.invoice)

\* The second half, after the lock of the invoice: PAID is decided on the
\* balance that was seen before it.
ClearBankTransaction(s) ==
  LET m == req[s].memo IN
  /\ At(s, "clear")
  /\ StillOpen(s)
  /\ Finish(s,
       m.tx :> [status |-> "POSTED", invoice |-> m.invoice, amount |-> m.amount]
         @@ IF m.amount >= m.seen THEN m.invoice :> [status |-> "PAID"] ELSE Nothing,
       AR(m.invoice) :> -m.amount,
       {InvoiceLock(m.invoice)})

Returned(i) == Total(Of("CN", "invoice", i), "qty")
Credited(i) == Total(Of("CN", "invoice", i), "amount")

\* Mutant of LineAmount: the last return is proportional too.
LineAmountProportional(i, q) == (2 * db[i].total * q + db[i].qty) \div (2 * db[i].qty)

\* The share of the line, rounded; the last return takes what is left.
LineAmount(i, q) ==
  IF q = db[i].qty - Returned(i) THEN db[i].total - Credited(i)
  ELSE (2 * db[i].total * q + db[i].qty) \div (2 * db[i].qty)

\* Mutant of Returnable: the quantity is compared with the whole line.
ReturnableLine(i, q) == q <= db[i].qty /\ db[db[i].line].returned + q <= db[db[i].line].invoiced

Returnable(i, q) ==
  /\ q <= db[i].qty - Returned(i)
  /\ db[db[i].line].returned + q <= db[db[i].line].invoiced

LineReturned(i, q) == db[i].line :> [returned |-> db[db[i].line].returned + q]

\* When a warehouse is named, and it holds the item.
Restocked(level, q) == level :> [current |-> db[level].current + q, available |-> db[level].available + q]

\* Whatever is still outstanding.
CreditedReceivable(i, q) == AR(i) :> -LineAmount(i, q)

\* The status of the invoice stays.
IssueCreditNote(s, i, q, cn, level) ==
  /\ Status(i) # "CANCELLED"
  /\ Returnable(i, q)
  /\ LineAmount(i, q) > 0
  /\ Stage(s,
       cn :> [status |-> "POSTED", invoice |-> i, qty |-> q, amount |-> LineAmount(i, q)]
         @@ LineReturned(i, q) @@ Restocked(level, q),
       CreditedReceivable(i, q) @@ <<"SLE", 1>> :> q,
       {i, db[i].line})

ReceivablesNext(s) ==
  \/ \E i \in Invoices :   \* bound: one deposit, of the amount of an invoice
       /\ sums[<<"DEPOSITS", db[i].customer>>] = 0
       /\ StageTransaction(s, db[i].customer, db[i].total)
  \/ \E i \in Invoices : \E amount \in 1..db[i].total :
       \/ \E alloc \in Rows("ADVALLOC") :
            Fresh(alloc) /\ AllocateAdvancePayment(s, i, amount, alloc)
       \/ \E tx \in Rows("BANKTX") : BeginBankTransaction(s, tx, amount, i)
  \/ ClearBankTransaction(s)
  \/ \E i \in Invoices, cn \in Rows("CN"), level \in Live("LVL") :
       \E q \in 1..db[i].qty : Fresh(cn) /\ IssueCreditNote(s, i, q, cn, level)

-----------------------------------------------------------------------------
(* Properties *)

Paid(i) == Total(Of("ADVALLOC", "invoice", i), "amount") + Total(Of("BANKTX", "invoice", i), "amount")

\* Advances and bank payments together never settle more than an invoice
\* is worth, whatever requests overlap, and a PAID invoice owes nothing:
\* both writers re-read the balance under the lock of the invoice.
NeverOverSettled ==
  \A i \in Invoices : Paid(i) <= db[i].total /\ (Status(i) = "PAID" => Outstanding(i) <= 0)

\* A deposit is spent at most once, also by two allocations to different
\* invoices of the customer at the same time.
AdvanceNotOverspent ==
  \A k \in DOMAIN sums : k[1] = "ADV" => sums[k] >= 0

\* The receivable in the ledger is the invoice less its settlement
\* documents: a redelivered bank transaction is credited once.
LedgerMatchesDocuments ==
  \A i \in Invoices : Outstanding(i) = db[i].total - Paid(i) - Credited(i)

\* Returns never exceed what was sold, in quantity or in money, and a line
\* returned in full is credited in full, whatever parts it came back in.
ReturnsWithinInvoice ==
  \A i \in Invoices :
    /\ Returned(i) <= db[i].qty
    /\ Returned(i) = db[i].qty => Credited(i) = db[i].total
    /\ db[db[i].line].returned <= db[db[i].line].invoiced

\* Payments, advances, bank lines and returns that settle one invoice in any
\* order and overlap agree with the ledger and with what the customer owes.
ReceivablesAgree == NeverOverSettled /\ AdvanceNotOverspent /\ LedgerMatchesDocuments /\ ReturnsWithinInvoice

-----------------------------------------------------------------------------
\* The invoices of a company, none of them with a request in progress: every
\* row has its columns, every foreign key its row, every account its book.
ReceivablesComplete ==
  /\ IsFiniteSet(DOMAIN db)
  /\ \A k \in DOMAIN sums : sums[k] \in Int
  /\ \A i \in Invoices :
       /\ {"status", "customer", "total", "qty", "line"} \subseteq DOMAIN db[i]
       /\ db[i].total \in Nat /\ db[i].qty \in Nat /\ db[i].line \in Live("SOL")
       /\ {AR(i), ADV(db[i].customer)} \subseteq DOMAIN sums
  /\ \A line \in Live("SOL") :
       {"invoiced", "returned"} \subseteq DOMAIN db[line] /\ db[line].invoiced \in Nat /\ db[line].returned \in Nat
  /\ \A kind \in {"ADVALLOC", "BANKTX", "CN"} : \A d \in Live(kind) :
       /\ {"invoice", "amount"} \subseteq DOMAIN db[d] /\ db[d].invoice \in Invoices /\ db[d].amount \in Nat
       /\ kind = "CN" => "qty" \in DOMAIN db[d] /\ db[d].qty \in Nat

\* Deposits of any amount, at any time.
ReceivablesSpec ==
  /\ ReceivablesComplete /\ ReceivablesAgree /\ \A s \in Sessions : Free(s)
  /\ [][\E s \in Sessions :
          \/ EndOfRequest(s) \/ ReceivablesNext(s)
          \/ \E i \in Invoices, amount \in Nat : StageTransaction(s, db[i].customer, amount)]_vars
=============================================================================
