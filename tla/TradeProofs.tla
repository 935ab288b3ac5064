------------------------------ MODULE TradeProofs ------------------------------
(***************************************************************************)
(* What the handlers that move money and goods keep up, in the manner of   *)
(* OfficeProofs.  Receivables (settlements of invoices) and Procurement    *)
(* (orders for a request) do so by locks, for any number of overlapping    *)
(* requests; awards and draws on blanket orders lock nothing and are right *)
(* when requests do not overlap.  LedgerPosting takes no locks: its books  *)
(* balance all the same, and its audit log is one chain when requests do   *)
(* not overlap.  RecurringBilling and PointOfSale lock nothing either: they*)
(* are right when requests do not overlap, whenever the nights pass.       *)
(* Of Payables, what OfficeProofs shows of overlapping requests is joined  *)
(* here with the shelves and books of requests that do not overlap.        *)
(***************************************************************************)
EXTENDS OfficeProofs, Receivables, LedgerPosting, Procurement, RecurringBilling, PointOfSale

-----------------------------------------------------------------------------
(* Receivables: the inductive invariant *)

SettlementKinds == {"ADVALLOC", "BANKTX", "CN"}

\* The settlement documents among the rows that a request writes.
Docs(put) == {d \in DOMAIN put : d[1] \in SettlementKinds}

\* Of an invoice it writes the status, of an order line what came back.
WritesInvoices(put) ==
  /\ \A i \in Rows("INV") : i \in DOMAIN put => db[i] # NoRow /\ DOMAIN put[i] \subseteq {"status"}
  /\ \A line \in Rows("SOL") :
       line \in DOMAIN put =>
         /\ db[line] # NoRow /\ DOMAIN put[line] \subseteq {"returned"}
         /\ "returned" \in DOMAIN put[line] => put[line].returned \in Nat /\ put[line].returned <= db[line].invoiced

\* It inserts at most one settlement document, with all its columns.
WritesDocs(put) ==
  /\ \A d, e \in Docs(put) : d = e
  /\ \A d \in Docs(put) :
       /\ d \in DOMAIN db /\ db[d] = NoRow
       /\ {"status", "invoice", "amount"} \subseteq DOMAIN put[d] /\ put[d].status = "POSTED"
       /\ put[d].invoice \in Invoices /\ put[d].amount \in Nat
       /\ d[1] = "CN" => "qty" \in DOMAIN put[d] /\ put[d].qty \in Nat

\* It credits the receivable of an invoice by the document for it, and takes
\* from the deposits of a customer what it allocates.
Posts(put, add) ==
  /\ \A k \in DOMAIN add : add[k] \in Int
  /\ \A d \in Docs(put) : AR(put[d].invoice) \in DOMAIN add /\ add[AR(put[d].invoice)] = -put[d].amount
  /\ \A i \in Invoices : AR(i) \in DOMAIN add => \E d \in Docs(put) : put[d].invoice = i
  /\ \A k \in DOMAIN add :
       k[1] = "ADV" =>
         \/ add[k] >= 0
         \/ \E d \in Docs(put) :
              d[1] = "ADVALLOC" /\ k = ADV(db[put[d].invoice].customer) /\ add[k] = -put[d].amount

\* A payment still fits into its invoice, under the lock of the invoice.
CoveredPayment(d, row, locks) ==
  d[1] \in {"ADVALLOC", "BANKTX"} =>
    InvoiceLock(row.invoice) \in locks /\ Paid(row.invoice) + row.amount <= db[row.invoice].total

\* An advance is still there, under the lock of its customer.
CoveredAdvance(d, row, locks) ==
  d[1] = "ADVALLOC" =>
    /\ AdvanceLock(db[row.invoice].customer) \in locks
    /\ row.amount <= sums[ADV(db[row.invoice].customer)]

\* A return is still sold, under the lock of the invoice row.
CoveredReturn(d, row, locks) ==
  d[1] = "CN" =>
    /\ row.invoice \in locks
    /\ Returned(row.invoice) + row.qty <= db[row.invoice].qty
    /\ Returned(row.invoice) + row.qty = db[row.invoice].qty =>
         Credited(row.invoice) + row.amount = db[row.invoice].total

StillFits(put, locks) ==
  \A d \in Docs(put) :
    /\ CoveredPayment(d, put[d], locks) /\ CoveredAdvance(d, put[d], locks) /\ CoveredReturn(d, put[d], locks)
    /\ d[1] = "BANKTX" => BankLock(d) \in locks

\* It marks an invoice as PAID with the document that settles the rest of it.
PaysOff(put) ==
  \A i \in Rows("INV") :
    i \in DOMAIN put /\ "status" \in DOMAIN put[i] /\ put[i].status = "PAID" =>
      \E d \in Docs(put) : put[d].invoice = i /\ Outstanding(i) <= put[d].amount

\* A bank transaction under way is not posted yet, and its invoice owes no
\* more than when it was looked at.
Clears(r) ==
  r.memo.op = "clear" =>
    /\ DOMAIN r.put = {} /\ DOMAIN r.add = {}
    /\ r.memo.tx \in Rows("BANKTX") /\ db[r.memo.tx] = NoRow /\ BankLock(r.memo.tx) \in r.locks
    /\ r.memo.invoice \in Invoices /\ r.memo.amount \in Nat
    /\ r.memo.seen \in Int /\ Outstanding(r.memo.invoice) <= r.memo.seen

Settles(r) ==
  /\ IsRequest(r)
  /\ WritesInvoices(r.put) /\ WritesDocs(r.put) /\ Posts(r.put, r.add)
  /\ StillFits(r.put, r.locks) /\ PaysOff(r.put) /\ Clears(r)

\* Two requests insert different documents, except for a bank transaction
\* that is delivered twice.
InsertsOther(s, put) ==
  \A t \in Sessions \ {s} : req[t] # Idle => \A d \in Docs(put) \cap Docs(req[t].put) : d[1] = "BANKTX"

ReceivablesInv ==
  /\ ReceivablesComplete /\ ReceivablesAgree /\ LocksApart
  /\ \A s \in Sessions : req[s] # Idle => Settles(req[s]) /\ InsertsOther(s, req[s].put)

-----------------------------------------------------------------------------
(* The settlement documents of an invoice *)

\* The columns whose total decides what an invoice owes.
Totalled(kind) == IF kind = "CN" THEN {"qty", "amount"} ELSE {"amount"}

LEMMA DocumentsSummable ==
  ASSUME ReceivablesComplete, NEW kind \in SettlementKinds, NEW column \in Totalled(kind), NEW i
  PROVE  /\ IsFiniteSet(Of(kind, "invoice", i))
         /\ \A r \in Of(kind, "invoice", i) : [x \in Of(kind, "invoice", i) |-> db[x][column]][r] \in Nat
<1> DEFINE rows == Of(kind, "invoice", i)
<1>1. rows \subseteq DOMAIN db /\ IsFiniteSet(DOMAIN db)
  BY DEF ReceivablesComplete, Of, Live, Rows
<1>2. IsFiniteSet(rows)
  BY <1>1, FS_Subset
<1>3. \A r \in rows : r \in Live(kind) /\ db[r][column] \in Nat
  BY DEF ReceivablesComplete, SettlementKinds, Totalled, Of
<1> QED
  BY <1>2, <1>3

LEMMA TotalsAreNat ==
  ASSUME ReceivablesComplete, NEW i
  PROVE  Paid(i) \in Nat /\ Returned(i) \in Nat /\ Credited(i) \in Nat
<1>1. ASSUME NEW kind \in SettlementKinds, NEW column \in Totalled(kind)
      PROVE  Total(Of(kind, "invoice", i), column) \in Nat
  BY DocumentsSummable, SumNat DEF Total
<1>2. /\ Total(Of("ADVALLOC", "invoice", i), "amount") \in Nat
      /\ Total(Of("BANKTX", "invoice", i), "amount") \in Nat
      /\ Total(Of("CN", "invoice", i), "qty") \in Nat
      /\ Total(Of("CN", "invoice", i), "amount") \in Nat
  BY <1>1 DEF SettlementKinds, Totalled
<1> QED
  BY <1>2 DEF Paid, Returned, Credited

-----------------------------------------------------------------------------
(* A commit *)

LEMMA CommitPosts ==
  ASSUME NEW s \in Sessions, Commit(s), ReceivablesInv
  PROVE  /\ DOMAIN sums' = DOMAIN sums
         /\ \A k \in DOMAIN sums : k \notin DOMAIN req[s].add => sums'[k] = sums[k]
         /\ \A k \in DOMAIN sums : k \in DOMAIN req[s].add => sums'[k] = sums[k] + req[s].add[k]
<1>1. \A k \in DOMAIN sums : sums[k] \in Int
  BY DEF ReceivablesInv, ReceivablesComplete
<1> QED
  BY <1>1 DEF Commit, CommitAnd

LEMMA CommitOneRequest ==
  ASSUME NEW s \in Sessions, Commit(s), ReceivablesInv
  PROVE  /\ Sessions' = Sessions /\ DOMAIN db' = DOMAIN db
         /\ req[s] # Idle /\ req'[s] = Idle /\ Settles(req[s])
         /\ \A t \in Sessions \ {s} : req'[t] = req[t]
         /\ \A t \in Sessions \ {s} : req[t] # Idle => req[t].locks \cap req[s].locks = {}
         /\ \A d \in DOMAIN db \ DOMAIN req[s].put : db'[d] = db[d]
         /\ \A d \in DOMAIN db \cap DOMAIN req[s].put :
              /\ DOMAIN db'[d] = DOMAIN req[s].put[d] \cup DOMAIN db[d]
              /\ \A c \in DOMAIN req[s].put[d] : db'[d][c] = req[s].put[d][c]
              /\ \A c \in DOMAIN db[d] \ DOMAIN req[s].put[d] : db'[d][c] = db[d][c]
<1>1. req[s] # Idle /\ Lockable(s, DOMAIN req[s].put) /\ CommitAnd(s, Idle)
  BY DEF Commit, At, Free
<1> HIDE DEF Sessions
<1>2. Settles(req[s])
  BY <1>1 DEF ReceivablesInv
<1>3. \A t \in Sessions \ {s} : req[t] # Idle => req[t].locks \cap req[s].locks = {}
  BY <1>1 DEF ReceivablesInv, LocksApart
<1> QED
  BY <1>1, <1>2, <1>3, CommitAndIsOne

\* Invoices and order lines stay, but for the status of an invoice and for
\* what came back of a line.
LEMMA CommitKeepsInvoices ==
  ASSUME NEW s \in Sessions, Commit(s), ReceivablesInv
  PROVE  /\ Invoices' = Invoices
         /\ \A i \in Invoices :
              /\ DOMAIN db[i] \subseteq DOMAIN db'[i]
              /\ \A c \in DOMAIN db[i] : c # "status" => db'[i][c] = db[i][c]
<1> DEFINE put == req[s].put
<1>1. Settles(req[s])
  BY CommitOneRequest
<1>2. \A i \in Rows("INV") : i \in DOMAIN put => db[i] # NoRow /\ DOMAIN put[i] \subseteq {"status"}
  BY <1>1 DEF Settles, WritesInvoices
<1>3. ASSUME NEW i \in Invoices
      PROVE  /\ i \in DOMAIN db' /\ i[1] = "INV" /\ db'[i] # NoRow
             /\ DOMAIN db[i] \subseteq DOMAIN db'[i]
             /\ \A c \in DOMAIN db[i] : c # "status" => db'[i][c] = db[i][c]
  <2>1. i \in DOMAIN db /\ i[1] = "INV" /\ db[i] # NoRow /\ "customer" \in DOMAIN db[i]
    BY DEF ReceivablesInv, ReceivablesComplete, Invoices, Live, Rows
  <2>2. i \in Rows("INV")
    BY <2>1 DEF Rows
  <2>3. CASE i \in DOMAIN put
    <3>1. DOMAIN put[i] \subseteq {"status"}
      BY <1>2, <2>2, <2>3
    <3>2. DOMAIN db'[i] = DOMAIN put[i] \cup DOMAIN db[i] /\ \A c \in DOMAIN db[i] \ DOMAIN put[i] : db'[i][c] = db[i][c]
      BY <2>1, <2>3, CommitOneRequest
    <3> QED
      BY <2>1, <3>1, <3>2, CommitOneRequest, NoRowColumns
  <2>4. CASE i \notin DOMAIN put
    BY <2>1, <2>4, CommitOneRequest
  <2> QED
    BY <2>3, <2>4
<1>4. ASSUME NEW i \in Rows("INV"), db[i] = NoRow
      PROVE  db'[i] = NoRow
  BY <1>2, <1>4, CommitOneRequest DEF Rows
<1>5. DOMAIN db' = DOMAIN db
  BY CommitOneRequest
<1> QED
  BY <1>3, <1>4, <1>5 DEF Invoices, Live, Rows

LEMMA CommitKeepsLines ==
  ASSUME NEW s \in Sessions, Commit(s), ReceivablesInv
  PROVE  /\ Live("SOL") \subseteq Live("SOL")'
         /\ Live("SOL")' \subseteq Live("SOL")
         /\ \A line \in Live("SOL") :
              /\ DOMAIN db[line] \subseteq DOMAIN db'[line]
              /\ db'[line].invoiced = db[line].invoiced /\ db'[line].returned \in Nat
              /\ db[line].returned <= db[line].invoiced => db'[line].returned <= db[line].invoiced
<1> DEFINE put == req[s].put
<1>1. Settles(req[s])
  BY CommitOneRequest
<1>2. \A line \in Rows("SOL") :
        line \in DOMAIN put =>
          /\ db[line] # NoRow /\ DOMAIN put[line] \subseteq {"returned"}
          /\ "returned" \in DOMAIN put[line] => put[line].returned \in Nat /\ put[line].returned <= db[line].invoiced
  BY <1>1 DEF Settles, WritesInvoices
<1>3. ASSUME NEW line \in Live("SOL")
      PROVE  /\ line \in DOMAIN db' /\ line[1] = "SOL" /\ db'[line] # NoRow
             /\ DOMAIN db[line] \subseteq DOMAIN db'[line]
             /\ db'[line].invoiced = db[line].invoiced /\ db'[line].returned \in Nat
             /\ db[line].returned <= db[line].invoiced => db'[line].returned <= db[line].invoiced
  <2>1. /\ line \in DOMAIN db /\ line[1] = "SOL" /\ db[line] # NoRow
        /\ {"invoiced", "returned"} \subseteq DOMAIN db[line] /\ db[line].returned \in Nat
    BY DEF ReceivablesInv, ReceivablesComplete, Live, Rows
  <2>2. line \in Rows("SOL")
    BY <2>1 DEF Rows
  <2>3. CASE line \in DOMAIN put
    <3>1. /\ DOMAIN put[line] \subseteq {"returned"}
          /\ "returned" \in DOMAIN put[line] => put[line].returned \in Nat /\ put[line].returned <= db[line].invoiced
      BY <1>2, <2>2, <2>3
    <3>2. /\ DOMAIN db'[line] = DOMAIN put[line] \cup DOMAIN db[line]
          /\ \A c \in DOMAIN put[line] : db'[line][c] = put[line][c]
          /\ \A c \in DOMAIN db[line] \ DOMAIN put[line] : db'[line][c] = db[line][c]
      BY <2>1, <2>3, CommitOneRequest
    <3> HIDE DEF put
    <3>3. line \in DOMAIN db' /\ db'[line] # NoRow
      BY <2>1, <3>2, CommitOneRequest, NoRowColumns
    <3>4. db'[line].invoiced = db[line].invoiced
      BY <2>1, <3>1, <3>2
    <3>5. CASE "returned" \in DOMAIN put[line]
      BY <2>1, <3>1, <3>2, <3>3, <3>4, <3>5
    <3>6. CASE "returned" \notin DOMAIN put[line]
      BY <2>1, <3>1, <3>2, <3>3, <3>4, <3>6
    <3> QED
      BY <3>5, <3>6
  <2>4. CASE line \notin DOMAIN put
    BY <2>1, <2>4, CommitOneRequest
  <2> QED
    BY <2>3, <2>4
<1>4. ASSUME NEW line \in Rows("SOL"), db[line] = NoRow
      PROVE  db'[line] = NoRow
  BY <1>2, <1>4, CommitOneRequest DEF Rows
<1>5. DOMAIN db' = DOMAIN db
  BY CommitOneRequest
<1>6. Live("SOL") \subseteq Live("SOL")'
  BY <1>3 DEF Live, Rows
<1>7. Live("SOL")' \subseteq Live("SOL")
  BY <1>4, <1>5 DEF Live, Rows
<1> QED
  BY <1>3, <1>6, <1>7

\* Settlement documents stay, and the one that the request made is there.
LEMMA CommitInsertsDocs ==
  ASSUME NEW s \in Sessions, Commit(s), ReceivablesInv, NEW kind \in SettlementKinds
  PROVE  /\ \A d \in Live(kind) : db'[d] = db[d]
         /\ \A d \in Docs(req[s].put) :
              db'[d] # NoRow /\ \A c \in DOMAIN req[s].put[d] : c \in DOMAIN db'[d] /\ db'[d][c] = req[s].put[d][c]
         /\ Live(kind)' = Live(kind) \cup {d \in Docs(req[s].put) : d[1] = kind}
<1> DEFINE put == req[s].put
<1>1. Settles(req[s])
  BY CommitOneRequest
<1>2. \A d \in Docs(put) : d \in DOMAIN db /\ db[d] = NoRow /\ "status" \in DOMAIN put[d] /\ put[d].status = "POSTED"
  BY <1>1 DEF Settles, WritesDocs
<1>3. ASSUME NEW d \in Docs(put)
      PROVE  db'[d] # NoRow /\ \A c \in DOMAIN put[d] : c \in DOMAIN db'[d] /\ db'[d][c] = put[d][c]
  <2>1. d \in DOMAIN put
    BY DEF Docs
  <2>2. DOMAIN db'[d] = DOMAIN put[d] \cup DOMAIN db[d] /\ \A c \in DOMAIN put[d] : db'[d][c] = put[d][c]
    BY <1>2, <2>1, CommitOneRequest
  <2>3. db'[d].status = "POSTED"
    BY <1>2, <2>2
  <2>4. db'[d] # NoRow
    BY <2>3, NoRowColumns
  <2> QED
    BY <2>2, <2>4
<1>4. ASSUME NEW d \in Rows(kind), d \notin Docs(put)
      PROVE  db'[d] = db[d]
  BY <1>4, CommitOneRequest DEF Docs, Rows
<1>5. \A d \in Live(kind) : d \in Rows(kind) /\ d \notin Docs(put)
  BY <1>2 DEF Live
<1>6. DOMAIN db' = DOMAIN db
  BY CommitOneRequest
<1>7. ASSUME NEW d
      PROVE  d \in Live(kind)' <=> d \in Live(kind) \/ (d \in Docs(put) /\ d[1] = kind)
  <2>1. CASE d \in Docs(put)
    BY <1>2, <1>3, <1>6, <2>1 DEF Live, Rows
  <2>2. CASE d \notin Docs(put)
    BY <1>4, <1>6, <2>2 DEF Live, Rows
  <2> QED
    BY <2>1, <2>2
<1>8. Live(kind)' = Live(kind) \cup {d \in Docs(put) : d[1] = kind}
  BY <1>7
<1>9. \A d \in Live(kind) : db'[d] = db[d]
  BY <1>4, <1>5
<1> QED
  BY <1>3, <1>8, <1>9

\* The total of a column over the documents of an invoice grows by the
\* document that the request made for it.
LEMMA CommitTotals ==
  ASSUME NEW s \in Sessions, Commit(s), ReceivablesInv,
         NEW kind \in SettlementKinds, NEW column \in Totalled(kind), NEW i
  PROVE  /\ (\A d \in Docs(req[s].put) : d[1] = kind => req[s].put[d].invoice # i) =>
              Total(Of(kind, "invoice", i), column)' = Total(Of(kind, "invoice", i), column)
         /\ \A d \in Docs(req[s].put) : d[1] = kind /\ req[s].put[d].invoice = i =>
              Total(Of(kind, "invoice", i), column)' = Total(Of(kind, "invoice", i), column) + req[s].put[d][column]
<1> DEFINE put == req[s].put
           rows == Of(kind, "invoice", i)
           made == {d \in Docs(put) : d[1] = kind /\ put[d].invoice = i}
           f == [r \in rows |-> db[r][column]]
           rowsAfter == rows \cup made
           g == [r \in rowsAfter |-> db'[r][column]]
<1>1. Settles(req[s])
  BY CommitOneRequest
<1>2. /\ \A d, e \in Docs(put) : d = e
      /\ \A d \in Docs(put) :
           /\ db[d] = NoRow /\ {"status", "invoice", "amount"} \subseteq DOMAIN put[d] /\ put[d].amount \in Nat
           /\ d[1] = "CN" => "qty" \in DOMAIN put[d] /\ put[d].qty \in Nat
  BY <1>1 DEF Settles, WritesDocs
<1>3. /\ \A d \in Live(kind) : db'[d] = db[d]
      /\ \A d \in Docs(put) : db'[d] # NoRow /\ \A c \in DOMAIN put[d] : c \in DOMAIN db'[d] /\ db'[d][c] = put[d][c]
      /\ Live(kind)' = Live(kind) \cup {d \in Docs(put) : d[1] = kind}
  BY CommitInsertsDocs
<1>4. ReceivablesComplete
  BY DEF ReceivablesInv
<1>5. IsFiniteSet(rows) /\ \A r \in rows : f[r] \in Nat
  BY <1>4, DocumentsSummable
<1>6. Of(kind, "invoice", i)' = rowsAfter
  BY <1>2, <1>3 DEF Of
<1>7. Total(Of(kind, "invoice", i), column)' = SumFunctionOnSet(g, rowsAfter)
  BY <1>6 DEF Total
<1>8. Total(rows, column) = SumFunctionOnSet(f, rows)
  BY DEF Total
<1>9. \A r \in rows : g[r] = f[r]
  BY <1>3 DEF Of
<1>10. SumFunctionOnSet(g, rows) = SumFunctionOnSet(f, rows)
  <2> HIDE DEF f, g, rows, rowsAfter
  <2> QED
    BY <1>5, <1>9, SumEqual
<1>11. ASSUME made = {}
       PROVE  Total(Of(kind, "invoice", i), column)' = Total(rows, column)
  <2>1. rowsAfter = rows
    BY <1>11
  <2> HIDE DEF f, g, rowsAfter
  <2> QED
    BY <1>7, <1>8, <1>10, <2>1
<1>12. ASSUME NEW d \in made
       PROVE  Total(Of(kind, "invoice", i), column)' = Total(rows, column) + put[d][column]
  <2>1. rowsAfter = rows \cup {d}
    BY <1>2
  <2>2. column \in DOMAIN put[d] /\ put[d][column] \in Nat
    BY <1>2 DEF Totalled
  <2>3. d \notin rows /\ g[d] = put[d][column]
    BY <1>2, <1>3, <2>2 DEF Of, Live
  <2>4. Summable(g, rows)
    BY <1>5, <1>9 DEF Summable
  <2>5. SumFunctionOnSet(g, rows \cup {d}) = g[d] + SumFunctionOnSet(g, rows)
    <3> HIDE DEF g, rows
    <3> QED
      BY <2>2, <2>3, <2>4, SumAdd
  <2>6. SumFunctionOnSet(g, rows) \in Int
    <3> HIDE DEF g, rows
    <3> QED
      BY <2>4, SumInt
  <2>7. SumFunctionOnSet(g, rowsAfter) = SumFunctionOnSet(g, rows) + put[d][column]
    <3> HIDE DEF g, f, rows, rowsAfter, made
    <3> QED
      BY <2>1, <2>2, <2>3, <2>5, <2>6
  <2> HIDE DEF g, f, rowsAfter
  <2> QED
    BY <1>7, <1>8, <1>10, <2>7
<1>13. (\A d \in Docs(put) : d[1] = kind => put[d].invoice # i) => made = {}
  OBVIOUS
<1>14. \A d \in Docs(put) : d[1] = kind /\ put[d].invoice = i => d \in made
  OBVIOUS
<1> HIDE DEF made
<1> QED
  BY <1>11, <1>12, <1>13, <1>14

\* What an invoice was paid, what came back of it and what it was credited
\* grow by the document that the request made for it.
LEMMA CommitDocuments ==
  ASSUME NEW s \in Sessions, Commit(s), ReceivablesInv, NEW i,
         NEW d \in Docs(req[s].put), NEW row, row = req[s].put[d], row.invoice = i
  PROVE  /\ d[1] \in {"ADVALLOC", "BANKTX"} =>
              Paid(i)' = Paid(i) + row.amount /\ Returned(i)' = Returned(i) /\ Credited(i)' = Credited(i)
         /\ d[1] = "CN" =>
              Paid(i)' = Paid(i) /\ Returned(i)' = Returned(i) + row.qty /\ Credited(i)' = Credited(i) + row.amount
<1>1. Settles(req[s]) /\ ReceivablesComplete
  BY CommitOneRequest DEF ReceivablesInv
<1>2. \A e \in Docs(req[s].put) : e = d
  BY <1>1 DEF Settles, WritesDocs
<1>3. row.amount \in Nat
  BY <1>1 DEF Settles, WritesDocs
<1>4. ASSUME NEW kind \in SettlementKinds, NEW column \in Totalled(kind)
      PROVE  /\ Total(Of(kind, "invoice", i), column) \in Nat
             /\ d[1] # kind => Total(Of(kind, "invoice", i), column)' = Total(Of(kind, "invoice", i), column)
             /\ d[1] = kind => Total(Of(kind, "invoice", i), column)' = Total(Of(kind, "invoice", i), column) + row[column]
  <2>1. Total(Of(kind, "invoice", i), column) \in Nat
    BY <1>1, DocumentsSummable, SumNat DEF Total
  <2> QED
    BY <1>2, <2>1, CommitTotals
<1> DEFINE total(kind, column) == Total(Of(kind, "invoice", i), column)
<1>5. /\ "ADVALLOC" \in SettlementKinds /\ "BANKTX" \in SettlementKinds /\ "CN" \in SettlementKinds
      /\ "amount" \in Totalled("ADVALLOC") /\ "amount" \in Totalled("BANKTX")
      /\ "amount" \in Totalled("CN") /\ "qty" \in Totalled("CN")
  BY DEF SettlementKinds, Totalled
<1>6. /\ Paid(i) = total("ADVALLOC", "amount") + total("BANKTX", "amount")
      /\ Paid(i)' = total("ADVALLOC", "amount")' + total("BANKTX", "amount")'
      /\ Returned(i) = total("CN", "qty") /\ Returned(i)' = total("CN", "qty")'
      /\ Credited(i) = total("CN", "amount") /\ Credited(i)' = total("CN", "amount")'
  BY DEF Paid, Returned, Credited
<1>7. d[1] \in {"ADVALLOC", "BANKTX"} =>
        Paid(i)' = Paid(i) + row.amount /\ Returned(i)' = Returned(i) /\ Credited(i)' = Credited(i)
  BY <1>3, <1>4, <1>5, <1>6
<1>8. d[1] = "CN" =>
        Paid(i)' = Paid(i) /\ Returned(i)' = Returned(i) + row.qty /\ Credited(i)' = Credited(i) + row.amount
  BY <1>4, <1>5, <1>6
<1> QED
  BY <1>7, <1>8

LEMMA CommitElsewhere ==
  ASSUME NEW s \in Sessions, Commit(s), ReceivablesInv, NEW i, NEW kinds \in SUBSET SettlementKinds,
         \A d \in Docs(req[s].put) : d[1] \in kinds => req[s].put[d].invoice # i
  PROVE  /\ {"ADVALLOC", "BANKTX"} \subseteq kinds => Paid(i)' = Paid(i)
         /\ "CN" \in kinds => Returned(i)' = Returned(i) /\ Credited(i)' = Credited(i)
<1>1. ASSUME NEW kind \in kinds, NEW column \in Totalled(kind)
      PROVE  Total(Of(kind, "invoice", i), column)' = Total(Of(kind, "invoice", i), column)
  <2>1. kind \in SettlementKinds
    OBVIOUS
  <2> QED
    BY <2>1, CommitTotals
<1>2. "amount" \in Totalled("ADVALLOC") /\ "amount" \in Totalled("BANKTX") /\ Totalled("CN") = {"qty", "amount"}
  BY DEF Totalled
<1>3. {"ADVALLOC", "BANKTX"} \subseteq kinds => Paid(i)' = Paid(i)
  BY <1>1, <1>2 DEF Paid
<1>4. "CN" \in kinds => Returned(i)' = Returned(i) /\ Credited(i)' = Credited(i)
  BY <1>1, <1>2 DEF Returned, Credited
<1> QED
  BY <1>3, <1>4

\* An invoice owes less by the document that the request made for it.
LEMMA CommitOutstanding ==
  ASSUME NEW s \in Sessions, Commit(s), ReceivablesInv, NEW i \in Invoices
  PROVE  /\ Outstanding(i)' \in Int /\ Outstanding(i)' <= Outstanding(i)
         /\ \A d \in Docs(req[s].put) :
              req[s].put[d].invoice = i => Outstanding(i)' = Outstanding(i) - req[s].put[d].amount
         /\ (\A d \in Docs(req[s].put) : req[s].put[d].invoice # i) => Outstanding(i)' = Outstanding(i)
<1> DEFINE put == req[s].put
           add == req[s].add
<1>1. Settles(req[s])
  BY CommitOneRequest
<1>2. /\ \A d \in Docs(put) : AR(put[d].invoice) \in DOMAIN add /\ add[AR(put[d].invoice)] = -put[d].amount
      /\ AR(i) \in DOMAIN add => \E d \in Docs(put) : put[d].invoice = i
      /\ \A d \in Docs(put) : put[d].amount \in Nat
  BY <1>1 DEF Settles, Posts, WritesDocs
<1>3. AR(i) \in DOMAIN sums /\ sums[AR(i)] \in Int
  BY DEF ReceivablesInv, ReceivablesComplete
<1>4. /\ AR(i) \notin DOMAIN add => sums'[AR(i)] = sums[AR(i)]
      /\ AR(i) \in DOMAIN add => sums'[AR(i)] = sums[AR(i)] + add[AR(i)]
  BY <1>3, CommitPosts
<1>5. Outstanding(i) = sums[AR(i)] /\ Outstanding(i)' = sums'[AR(i)]
  BY DEF Outstanding, AR
<1> HIDE DEF put, add
<1>6. ASSUME NEW d \in Docs(put), put[d].invoice = i
      PROVE  /\ Outstanding(i)' = Outstanding(i) - put[d].amount
             /\ Outstanding(i)' \in Int /\ Outstanding(i)' <= Outstanding(i)
  BY <1>2, <1>3, <1>4, <1>5, <1>6
<1>7. ASSUME \A d \in Docs(put) : put[d].invoice # i
      PROVE  Outstanding(i)' = Outstanding(i)
  BY <1>2, <1>4, <1>5, <1>7
<1>8. Outstanding(i)' \in Int /\ Outstanding(i)' <= Outstanding(i)
  <2>1. CASE \E d \in Docs(put) : put[d].invoice = i
    BY <1>6, <2>1
  <2>2. CASE \A d \in Docs(put) : put[d].invoice # i
    BY <1>3, <1>5, <1>7, <2>2
  <2> QED
    BY <2>1, <2>2
<1> QED
  BY <1>6, <1>7, <1>8 DEF put

LEMMA CommitComplete ==
  ASSUME NEW s \in Sessions, Commit(s), ReceivablesInv
  PROVE  ReceivablesComplete'
<1> DEFINE put == req[s].put
           add == req[s].add
<1>1. Settles(req[s])
  BY CommitOneRequest
<1>2. ReceivablesComplete
  BY DEF ReceivablesInv
<1>3. IsFiniteSet(DOMAIN db')
  BY <1>2, CommitOneRequest DEF ReceivablesComplete
<1>4. \A k \in DOMAIN sums' : sums'[k] \in Int
  <2>1. \A k \in DOMAIN sums : sums[k] \in Int
    BY <1>2 DEF ReceivablesComplete
  <2>2. \A k \in DOMAIN add : add[k] \in Int
    BY <1>1 DEF Settles, Posts
  <2> QED
    BY <2>1, <2>2, CommitPosts
<1>5. ASSUME NEW i \in Invoices
      PROVE  /\ {"status", "customer", "total", "qty", "line"} \subseteq DOMAIN db'[i]
             /\ db'[i].total \in Nat /\ db'[i].qty \in Nat /\ db'[i].line \in Live("SOL")'
             /\ AR(i) \in DOMAIN sums' /\ ADV(db'[i].customer) \in DOMAIN sums'
  <2>1. /\ {"status", "customer", "total", "qty", "line"} \subseteq DOMAIN db[i]
        /\ db[i].total \in Nat /\ db[i].qty \in Nat /\ db[i].line \in Live("SOL")
        /\ AR(i) \in DOMAIN sums /\ ADV(db[i].customer) \in DOMAIN sums
    BY <1>2 DEF ReceivablesComplete
  <2>2. DOMAIN db[i] \subseteq DOMAIN db'[i] /\ \A c \in DOMAIN db[i] : c # "status" => db'[i][c] = db[i][c]
    BY CommitKeepsInvoices
  <2>3. Live("SOL") \subseteq Live("SOL")' /\ DOMAIN sums' = DOMAIN sums
    BY CommitKeepsLines, CommitPosts
  <2> HIDE DEF put, add
  <2> QED
    BY <2>1, <2>2, <2>3
<1>6. ASSUME NEW line \in Live("SOL")'
      PROVE  /\ {"invoiced", "returned"} \subseteq DOMAIN db'[line]
             /\ db'[line].invoiced \in Nat /\ db'[line].returned \in Nat
  <2>1. line \in Live("SOL")
    BY CommitKeepsLines
  <2>2. {"invoiced", "returned"} \subseteq DOMAIN db[line] /\ db[line].invoiced \in Nat
    BY <1>2, <2>1 DEF ReceivablesComplete
  <2> QED
    BY <2>1, <2>2, CommitKeepsLines
<1>7. ASSUME NEW kind \in SettlementKinds, NEW d \in Live(kind)'
      PROVE  /\ {"invoice", "amount"} \subseteq DOMAIN db'[d] /\ db'[d].invoice \in Invoices /\ db'[d].amount \in Nat
             /\ kind = "CN" => "qty" \in DOMAIN db'[d] /\ db'[d].qty \in Nat
  <2>1. CASE d \in Live(kind)
    <3>1. /\ {"invoice", "amount"} \subseteq DOMAIN db[d] /\ db[d].invoice \in Invoices /\ db[d].amount \in Nat
          /\ kind = "CN" => "qty" \in DOMAIN db[d] /\ db[d].qty \in Nat
      BY <1>2, <2>1 DEF ReceivablesComplete, SettlementKinds
    <3> QED
      BY <2>1, <3>1, CommitInsertsDocs
  <2>2. CASE d \in Docs(put) /\ d[1] = kind
    <3>1. /\ {"invoice", "amount"} \subseteq DOMAIN put[d] /\ put[d].invoice \in Invoices /\ put[d].amount \in Nat
          /\ kind = "CN" => "qty" \in DOMAIN put[d] /\ put[d].qty \in Nat
      BY <1>1, <2>2 DEF Settles, WritesDocs
    <3>2. \A c \in DOMAIN put[d] : c \in DOMAIN db'[d] /\ db'[d][c] = put[d][c]
      BY <2>2, CommitInsertsDocs
    <3> HIDE DEF put
    <3> QED
      BY <3>1, <3>2
  <2> QED
    BY <2>1, <2>2, CommitInsertsDocs
<1>8. Invoices' = Invoices
  BY CommitKeepsInvoices
<1> HIDE DEF put, add
<1> QED
  BY <1>3, <1>4, <1>5, <1>6, <1>7, <1>8 DEF ReceivablesComplete, SettlementKinds, AR, ADV

LEMMA CommitAgrees ==
  ASSUME NEW s \in Sessions, Commit(s), ReceivablesInv
  PROVE  ReceivablesAgree'
<1> DEFINE put == req[s].put
           add == req[s].add
           locks == req[s].locks
<1>1. Settles(req[s])
  BY CommitOneRequest
<1>2. ReceivablesComplete /\ ReceivablesAgree
  BY DEF ReceivablesInv
<1>3. \A d \in Docs(put) : put[d].amount \in Nat /\ (d[1] = "CN" => put[d].qty \in Nat) /\ d[1] \in SettlementKinds
  BY <1>1 DEF Settles, WritesDocs, Docs
<1>4. Invoices' = Invoices
  BY CommitKeepsInvoices
<1>5. ASSUME NEW i \in Invoices
      PROVE  /\ db'[i].total = db[i].total /\ db'[i].qty = db[i].qty /\ db'[i].line = db[i].line
             /\ db[i].total \in Nat /\ db[i].qty \in Nat /\ db[i].line \in Live("SOL")
             /\ Paid(i) \in Nat /\ Returned(i) \in Nat /\ Credited(i) \in Nat
             /\ Outstanding(i) \in Int /\ i \in DOMAIN db /\ i \in Rows("INV") /\ "status" # "total"
  <2>1. /\ {"status", "customer", "total", "qty", "line"} \subseteq DOMAIN db[i]
        /\ db[i].total \in Nat /\ db[i].qty \in Nat /\ db[i].line \in Live("SOL")
        /\ AR(i) \in DOMAIN sums /\ sums[AR(i)] \in Int
    BY <1>2 DEF ReceivablesComplete
  <2> QED
    BY <1>2, <2>1, CommitKeepsInvoices, TotalsAreNat DEF Outstanding, Invoices, Live, Rows
<1>6. ASSUME NEW i \in Invoices
      PROVE  Paid(i)' <= db[i].total
  <2>1. Paid(i) <= db[i].total
    BY <1>2 DEF ReceivablesAgree, NeverOverSettled
  <2>2. CASE \E d \in Docs(put) : put[d].invoice = i
    <3>1. PICK d \in Docs(put) : put[d].invoice = i
      BY <2>2
    <3>2. d[1] \in {"ADVALLOC", "BANKTX"} => Paid(i) + put[d].amount <= db[i].total
      BY <1>1, <3>1 DEF Settles, StillFits, CoveredPayment
    <3>3. /\ d[1] \in {"ADVALLOC", "BANKTX"} => Paid(i)' = Paid(i) + put[d].amount
          /\ d[1] = "CN" => Paid(i)' = Paid(i)
      BY <3>1, CommitDocuments
    <3> QED
      BY <1>3, <2>1, <3>2, <3>3 DEF SettlementKinds
  <2>3. CASE \A d \in Docs(put) : put[d].invoice # i
    <3>1. Paid(i)' = Paid(i)
      BY <2>3, CommitElsewhere DEF SettlementKinds
    <3> QED
      BY <2>1, <3>1
  <2> QED
    BY <2>2, <2>3
<1>7. ASSUME NEW i \in Invoices, db'[i].status = "PAID"
      PROVE  Outstanding(i)' <= 0
  <2>1. Outstanding(i)' \in Int /\ Outstanding(i)' <= Outstanding(i)
    BY CommitOutstanding
  <2>2. CASE i \in DOMAIN put /\ "status" \in DOMAIN put[i]
    <3>1. put[i].status = "PAID"
      BY <1>5, <1>7, <2>2, CommitOneRequest
    <3>2. PICK d \in Docs(put) : put[d].invoice = i /\ Outstanding(i) <= put[d].amount
      BY <1>1, <1>5, <2>2, <3>1 DEF Settles, PaysOff
    <3>3. Outstanding(i)' = Outstanding(i) - put[d].amount
      BY <3>2, CommitOutstanding
    <3> QED
      BY <1>3, <1>5, <3>2, <3>3
  <2>3. CASE ~(i \in DOMAIN put /\ "status" \in DOMAIN put[i])
    <3>1. db[i].status = "PAID"
      <4>1. CASE i \in DOMAIN put
        <5>1. DOMAIN put[i] \subseteq {"status"}
          BY <1>1, <1>5, <4>1 DEF Settles, WritesInvoices
        <5>2. DOMAIN put[i] = {}
          BY <2>3, <4>1, <5>1
        <5>3. "status" \in DOMAIN db[i]
          BY <1>2 DEF ReceivablesComplete
        <5>4. DOMAIN db'[i] = DOMAIN db[i] /\ \A c \in DOMAIN db[i] : db'[i][c] = db[i][c]
          BY <1>5, <4>1, <5>2, CommitOneRequest
        <5> QED
          BY <1>7, <5>3, <5>4
      <4>2. CASE i \notin DOMAIN put
        BY <1>5, <1>7, <4>2, CommitOneRequest
      <4> QED
        BY <4>1, <4>2
    <3>2. Outstanding(i) <= 0
      BY <1>2, <3>1 DEF ReceivablesAgree, NeverOverSettled, Status
    <3> QED
      BY <1>5, <2>1, <3>2
  <2> QED
    BY <2>2, <2>3
<1>8. NeverOverSettled'
  BY <1>4, <1>5, <1>6, <1>7 DEF NeverOverSettled, Status
<1>9. AdvanceNotOverspent'
  <2>1. SUFFICES ASSUME NEW k \in DOMAIN sums, k[1] = "ADV"
                 PROVE  sums'[k] >= 0
    BY CommitPosts DEF AdvanceNotOverspent
  <2>2. sums[k] \in Int /\ sums[k] >= 0
    BY <1>2, <2>1 DEF ReceivablesComplete, ReceivablesAgree, AdvanceNotOverspent
  <2>3. CASE k \in DOMAIN add
    <3>1. sums'[k] = sums[k] + add[k] /\ add[k] \in Int
      BY <1>1, <2>3, CommitPosts DEF Settles, Posts
    <3>2. CASE add[k] >= 0
      BY <2>2, <3>1, <3>2
    <3>3. CASE \E d \in Docs(put) : d[1] = "ADVALLOC" /\ k = ADV(db[put[d].invoice].customer) /\ add[k] = -put[d].amount
      <4>1. PICK d \in Docs(put) : d[1] = "ADVALLOC" /\ k = ADV(db[put[d].invoice].customer) /\ add[k] = -put[d].amount
        BY <3>3
      <4>2. put[d].amount <= sums[k]
        BY <1>1, <4>1 DEF Settles, StillFits, CoveredAdvance
      <4>3. PICK amount, before, change, after :
              amount = put[d].amount /\ before = sums[k] /\ change = add[k] /\ after = sums'[k]
        OBVIOUS
      <4>4. amount \in Nat
        BY <1>3, <4>1, <4>3
      <4>5. before \in Int /\ amount <= before /\ change = -amount /\ after = before + change
        BY <2>2, <3>1, <4>1, <4>2, <4>3
      <4>6. after >= 0
        BY <4>4, <4>5
      <4> QED
        BY <4>3, <4>6
    <3> QED
      BY <1>1, <2>1, <2>3, <3>2, <3>3 DEF Settles, Posts
  <2>4. CASE k \notin DOMAIN add
    BY <2>2, <2>4, CommitPosts
  <2> QED
    BY <2>3, <2>4
<1>10. LedgerMatchesDocuments'
  <2>1. SUFFICES ASSUME NEW i \in Invoices
                 PROVE  Outstanding(i)' = db[i].total - Paid(i)' - Credited(i)'
    BY <1>4, <1>5 DEF LedgerMatchesDocuments
  <2>2. Outstanding(i) = db[i].total - Paid(i) - Credited(i)
    BY <1>2 DEF ReceivablesAgree, LedgerMatchesDocuments
  <2>3. CASE \E d \in Docs(put) : put[d].invoice = i
    <3>1. PICK d \in Docs(put) : put[d].invoice = i
      BY <2>3
    <3>2. /\ d[1] \in {"ADVALLOC", "BANKTX"} => Paid(i)' = Paid(i) + put[d].amount /\ Credited(i)' = Credited(i)
          /\ d[1] = "CN" => Paid(i)' = Paid(i) /\ Credited(i)' = Credited(i) + put[d].amount
      BY <3>1, CommitDocuments
    <3>3. Outstanding(i)' = Outstanding(i) - put[d].amount
      BY <3>1, CommitOutstanding
    <3> QED
      BY <1>3, <1>5, <2>2, <3>2, <3>3 DEF SettlementKinds
  <2>4. CASE \A d \in Docs(put) : put[d].invoice # i
    <3>1. Paid(i)' = Paid(i) /\ Credited(i)' = Credited(i)
      BY <2>4, CommitElsewhere DEF SettlementKinds
    <3>2. Outstanding(i)' = Outstanding(i)
      BY <2>4, CommitOutstanding
    <3> QED
      BY <2>2, <3>1, <3>2
  <2> QED
    BY <2>3, <2>4
<1>11. ReturnsWithinInvoice'
  <2>1. ASSUME NEW i \in Invoices
        PROVE  Returned(i)' <= db[i].qty /\ (Returned(i)' = db[i].qty => Credited(i)' = db[i].total)
    <3>1. Returned(i) <= db[i].qty /\ (Returned(i) = db[i].qty => Credited(i) = db[i].total)
      BY <1>2 DEF ReceivablesAgree, ReturnsWithinInvoice
    <3>2. CASE \E d \in Docs(put) : put[d].invoice = i
      <4>1. PICK d \in Docs(put) : put[d].invoice = i
        BY <3>2
      <4>2. /\ d[1] \in {"ADVALLOC", "BANKTX"} => Returned(i)' = Returned(i) /\ Credited(i)' = Credited(i)
            /\ d[1] = "CN" => Returned(i)' = Returned(i) + put[d].qty /\ Credited(i)' = Credited(i) + put[d].amount
        BY <4>1, CommitDocuments
      <4>3. d[1] = "CN" =>
              /\ Returned(i) + put[d].qty <= db[i].qty
              /\ Returned(i) + put[d].qty = db[i].qty => Credited(i) + put[d].amount = db[i].total
        BY <1>1, <4>1 DEF Settles, StillFits, CoveredReturn
      <4> QED
        BY <1>3, <3>1, <4>2, <4>3 DEF SettlementKinds
    <3>3. CASE \A d \in Docs(put) : put[d].invoice # i
      <4>1. Returned(i)' = Returned(i) /\ Credited(i)' = Credited(i)
        BY <3>3, CommitElsewhere DEF SettlementKinds
      <4> QED
        BY <3>1, <4>1
    <3> QED
      BY <3>2, <3>3
  <2>2. ASSUME NEW i \in Invoices
        PROVE  db'[db[i].line].returned <= db'[db[i].line].invoiced
    <3>1. db[db[i].line].returned <= db[db[i].line].invoiced /\ db[i].line \in Live("SOL")
      BY <1>2, <1>5 DEF ReceivablesAgree, ReturnsWithinInvoice
    <3> QED
      BY <3>1, CommitKeepsLines
  <2> QED
    BY <1>4, <1>5, <2>1, <2>2 DEF ReturnsWithinInvoice
<1> QED
  BY <1>8, <1>9, <1>10, <1>11 DEF ReceivablesAgree

\* What another request has staged stays covered: its locks keep every
\* document away that would use up what it counts on.
LEMMA CommitKeepsCover ==
  ASSUME NEW s \in Sessions, Commit(s), ReceivablesInv, NEW t \in Sessions \ {s}, req[t] # Idle
  PROVE  /\ StillFits(req[t].put, req[t].locks)' /\ PaysOff(req[t].put)'
         /\ \A d \in Docs(req[t].put) : db'[d] = NoRow
<1> PICK put, locks : put = req[t].put /\ locks = req[t].locks
  OBVIOUS
<1> DEFINE made == req[s].put
           add == req[s].add
<1> HIDE DEF Sessions
<1>1. Settles(req[s]) /\ Settles(req[t]) /\ ReceivablesComplete
  BY CommitOneRequest DEF ReceivablesInv
<1>2. locks \cap req[s].locks = {} /\ req'[t] = req[t]
  BY CommitOneRequest
<1>3. ASSUME NEW i \in Invoices
      PROVE  db'[i].customer = db[i].customer /\ db'[i].total = db[i].total /\ db'[i].qty = db[i].qty
  <2>1. {"customer", "total", "qty"} \subseteq DOMAIN db[i]
    BY <1>1 DEF ReceivablesComplete
  <2>2. \A c \in DOMAIN db[i] : c # "status" => db'[i][c] = db[i][c]
    BY CommitKeepsInvoices
  <2> QED
    BY <2>1, <2>2
<1>4. \A d \in Docs(put) : put[d].invoice \in Invoices /\ put[d].amount \in Nat /\ db[d] = NoRow /\ d \in DOMAIN db
  BY <1>1 DEF Settles, WritesDocs
<1>5. ASSUME NEW d \in Docs(put)
      PROVE  CoveredPayment(d, put[d], locks)'
  <2>1. SUFFICES ASSUME d[1] \in {"ADVALLOC", "BANKTX"}
                 PROVE  /\ InvoiceLock(put[d].invoice) \in locks
                        /\ Paid(put[d].invoice)' + put[d].amount <= db'[put[d].invoice].total
    BY <1>2 DEF CoveredPayment, InvoiceLock
  <2>2. InvoiceLock(put[d].invoice) \in locks /\ Paid(put[d].invoice) + put[d].amount <= db[put[d].invoice].total
    BY <1>1, <2>1 DEF Settles, StillFits, CoveredPayment
  <2>3. \A e \in Docs(made) : e[1] \in {"ADVALLOC", "BANKTX"} => InvoiceLock(made[e].invoice) \in req[s].locks
    BY <1>1 DEF Settles, StillFits, CoveredPayment
  <2>4. \A e \in Docs(made) : e[1] \in {"ADVALLOC", "BANKTX"} => made[e].invoice # put[d].invoice
    BY <1>2, <2>2, <2>3
  <2>5. Paid(put[d].invoice)' = Paid(put[d].invoice)
    <3> PICK i : i = put[d].invoice
      OBVIOUS
    <3>1. Paid(i)' = Paid(i)
      BY <2>4, CommitElsewhere DEF SettlementKinds
    <3>2. Paid(put[d].invoice)' = Paid(i)'
      BY <1>2 DEF Paid
    <3> QED
      BY <3>1
  <2> QED
    BY <1>3, <1>4, <2>2, <2>5
<1>6. ASSUME NEW d \in Docs(put)
      PROVE  CoveredAdvance(d, put[d], locks)'
  <2>1. SUFFICES ASSUME d[1] = "ADVALLOC"
                 PROVE  /\ AdvanceLock(db'[put[d].invoice].customer) \in locks
                        /\ put[d].amount <= sums'[ADV(db'[put[d].invoice].customer)]
    BY DEF CoveredAdvance, AdvanceLock, ADV
  <2> PICK c : c = db[put[d].invoice].customer
    OBVIOUS
  <2>2. AdvanceLock(c) \in locks /\ put[d].amount <= sums[ADV(c)]
    BY <1>1, <2>1 DEF Settles, StillFits, CoveredAdvance
  <2>3. \A e \in Docs(made) : e[1] = "ADVALLOC" => AdvanceLock(db[made[e].invoice].customer) \in req[s].locks
    BY <1>1 DEF Settles, StillFits, CoveredAdvance
  <2>4. \A e \in Docs(made) : e[1] = "ADVALLOC" => db[made[e].invoice].customer # c
    BY <1>2, <2>2, <2>3
  <2>5. ADV(c) \in DOMAIN sums /\ sums[ADV(c)] \in Int
    BY <1>1, <1>4 DEF ReceivablesComplete
  <2>6. sums[ADV(c)] <= sums'[ADV(c)]
    <3>1. CASE ADV(c) \in DOMAIN add
      <4>1. /\ add[ADV(c)] \in Int
            /\ \/ add[ADV(c)] >= 0
               \/ \E e \in Docs(made) : e[1] = "ADVALLOC" /\ ADV(c) = ADV(db[made[e].invoice].customer)
        <5>1. Posts(made, add) /\ ADV(c)[1] = "ADV"
          BY <1>1 DEF Settles, ADV
        <5>2. PICK k : k = ADV(c)
          OBVIOUS
        <5>3. k \in DOMAIN add /\ k[1] = "ADV"
          BY <3>1, <5>1, <5>2
        <5>4. /\ add[k] \in Int
              /\ \/ add[k] >= 0
                 \/ \E e \in Docs(made) : e[1] = "ADVALLOC" /\ k = ADV(db[made[e].invoice].customer)
          BY <5>1, <5>3 DEF Posts
        <5> QED
          BY <5>2, <5>4
      <4>2. add[ADV(c)] >= 0
        BY <2>4, <4>1 DEF ADV
      <4>3. sums'[ADV(c)] = sums[ADV(c)] + add[ADV(c)]
        BY <2>5, <3>1, CommitPosts
      <4> HIDE DEF add
      <4>4. PICK before, change, after : before = sums[ADV(c)] /\ change = add[ADV(c)] /\ after = sums'[ADV(c)]
        OBVIOUS
      <4>5. before \in Int /\ change \in Int
        BY <2>5, <4>1, <4>4
      <4>6. change >= 0 /\ after = before + change
        BY <4>2, <4>3, <4>4
      <4>7. before <= after
        BY <4>5, <4>6
      <4> QED
        BY <4>4, <4>7
    <3>2. CASE ADV(c) \notin DOMAIN add
      BY <2>5, <3>2, CommitPosts
    <3> QED
      BY <3>1, <3>2
  <2>7. sums'[ADV(c)] \in Int
    BY <2>5, CommitComplete, CommitPosts DEF ReceivablesComplete
  <2>8. db'[put[d].invoice].customer = c
    BY <1>3, <1>4
  <2>9. put[d].amount <= sums'[ADV(c)]
    <3>1. PICK amount, before, after : amount = put[d].amount /\ before = sums[ADV(c)] /\ after = sums'[ADV(c)]
      OBVIOUS
    <3>2. amount \in Nat /\ before \in Int /\ after \in Int /\ amount <= before /\ before <= after
      BY <1>4, <2>2, <2>5, <2>6, <2>7, <3>1
    <3>3. amount <= after
      BY <3>2
    <3> QED
      BY <3>1, <3>3
  <2> QED
    BY <2>2, <2>8, <2>9
<1>7. ASSUME NEW d \in Docs(put)
      PROVE  CoveredReturn(d, put[d], locks)'
  <2> PICK i : i = put[d].invoice
    OBVIOUS
  <2>1. SUFFICES ASSUME d[1] = "CN"
                 PROVE  /\ i \in locks
                        /\ Returned(i)' + put[d].qty <= db'[i].qty
                        /\ Returned(i)' + put[d].qty = db'[i].qty => Credited(i)' + put[d].amount = db'[i].total
    BY DEF CoveredReturn, Returned, Credited
  <2>2. /\ i \in locks
        /\ Returned(i) + put[d].qty <= db[i].qty
        /\ Returned(i) + put[d].qty = db[i].qty => Credited(i) + put[d].amount = db[i].total
    BY <1>1, <2>1 DEF Settles, StillFits, CoveredReturn
  <2>3. \A e \in Docs(made) : e[1] = "CN" => made[e].invoice \in req[s].locks
    BY <1>1 DEF Settles, StillFits, CoveredReturn
  <2>4. \A e \in Docs(made) : e[1] \in {"CN"} => made[e].invoice # i
    BY <1>2, <2>2, <2>3
  <2>5. Returned(i)' = Returned(i) /\ Credited(i)' = Credited(i)
    BY <2>4, CommitElsewhere DEF SettlementKinds
  <2>6. db'[i].qty = db[i].qty /\ db'[i].total = db[i].total
    BY <1>3, <1>4
  <2> QED
    BY <2>2, <2>5, <2>6
<1>8. ASSUME NEW d \in Docs(put)
      PROVE  /\ d[1] = "BANKTX" => BankLock(d) \in locks
             /\ db'[d] = NoRow
  <2>1. d[1] = "BANKTX" => BankLock(d) \in locks
    BY <1>1 DEF Settles, StillFits
  <2>2. d \notin DOMAIN made
    <3>1. SUFFICES ASSUME d \in DOMAIN made
                   PROVE  FALSE
      OBVIOUS
    <3>2. d \in Docs(made)
      BY <3>1 DEF Docs
    <3>3. d[1] = "BANKTX"
      <4>1. req[s] # Idle /\ s \in Sessions \ {t}
        BY CommitOneRequest
      <4>2. InsertsOther(t, req[t].put)
        BY DEF ReceivablesInv
      <4> QED
        BY <3>2, <4>1, <4>2 DEF InsertsOther
    <3>4. BankLock(d) \in req[s].locks
      BY <1>1, <3>2, <3>3 DEF Settles, StillFits
    <3> QED
      BY <1>2, <2>1, <3>3, <3>4
  <2>3. db'[d] = db[d]
    BY <1>4, <2>2, CommitOneRequest
  <2> QED
    BY <1>4, <2>1, <2>3
<1>9. StillFits(req[t].put, req[t].locks)'
  <2>1. StillFits(put, locks)'
    BY <1>5, <1>6, <1>7, <1>8 DEF StillFits, BankLock
  <2> QED
    BY <1>2, <2>1
<1>10. PaysOff(req[t].put)'
  <2>1. ASSUME NEW i \in Rows("INV"), i \in DOMAIN put, "status" \in DOMAIN put[i], put[i].status = "PAID"
        PROVE  \E d \in Docs(put) : put[d].invoice = i /\ Outstanding(i)' <= put[d].amount
    <3>1. PICK d \in Docs(put) : put[d].invoice = i /\ Outstanding(i) <= put[d].amount
      BY <1>1, <2>1 DEF Settles, PaysOff
    <3>2. i \in Invoices /\ put[d].amount \in Nat
      BY <1>4, <3>1
    <3>3. Outstanding(i)' <= Outstanding(i) /\ Outstanding(i)' \in Int
      BY <3>2, CommitOutstanding
    <3>4. Outstanding(i) \in Int
      BY <1>1, <3>2 DEF ReceivablesComplete, Outstanding
    <3> QED
      BY <3>1, <3>2, <3>3, <3>4
  <2>2. Rows("INV")' = Rows("INV")
    BY CommitOneRequest DEF Rows
  <2>3. PaysOff(put)'
    BY <2>1, <2>2 DEF PaysOff
  <2> QED
    BY <1>2, <2>3
<1> QED
  BY <1>8, <1>9, <1>10

LEMMA CommitKeepsSettles ==
  ASSUME NEW s \in Sessions, Commit(s), ReceivablesInv, NEW t \in Sessions \ {s}, req[t] # Idle
  PROVE  Settles(req[t])'
<1> PICK r : r = req[t]
  OBVIOUS
<1> HIDE DEF Sessions
<1>1. Settles(r) /\ Settles(req[s]) /\ ReceivablesComplete
  BY CommitOneRequest DEF ReceivablesInv
<1>2. r.locks \cap req[s].locks = {} /\ req'[t] = r
  BY CommitOneRequest
<1>3. Invoices' = Invoices /\ DOMAIN db' = DOMAIN db
  BY CommitKeepsInvoices, CommitOneRequest
<1>4. WritesInvoices(r.put)'
  <2>1. ASSUME NEW i \in Rows("INV"), i \in DOMAIN r.put
        PROVE  db'[i] # NoRow /\ DOMAIN r.put[i] \subseteq {"status"}
    <3>1. db[i] # NoRow /\ DOMAIN r.put[i] \subseteq {"status"}
      BY <1>1, <2>1 DEF Settles, WritesInvoices
    <3>2. i \in Invoices
      BY <3>1 DEF Invoices, Live
    <3> QED
      BY <1>3, <3>1, <3>2 DEF Invoices, Live
  <2>2. ASSUME NEW line \in Rows("SOL"), line \in DOMAIN r.put
        PROVE  /\ db'[line] # NoRow /\ DOMAIN r.put[line] \subseteq {"returned"}
               /\ "returned" \in DOMAIN r.put[line] =>
                    r.put[line].returned \in Nat /\ r.put[line].returned <= db'[line].invoiced
    <3>1. /\ db[line] # NoRow /\ DOMAIN r.put[line] \subseteq {"returned"}
          /\ "returned" \in DOMAIN r.put[line] =>
               r.put[line].returned \in Nat /\ r.put[line].returned <= db[line].invoiced
      BY <1>1, <2>2 DEF Settles, WritesInvoices
    <3>2. line \in Live("SOL")
      BY <3>1 DEF Live
    <3>3. line \in Live("SOL")' /\ db'[line].invoiced = db[line].invoiced
      BY <3>2, CommitKeepsLines
    <3>4. db'[line] # NoRow
      BY <3>3 DEF Live
    <3> QED
      BY <3>1, <3>3, <3>4
  <2>3. Rows("INV")' = Rows("INV") /\ Rows("SOL")' = Rows("SOL")
    BY <1>3 DEF Rows
  <2> QED
    BY <2>1, <2>2, <2>3 DEF WritesInvoices
<1>5. WritesDocs(r.put)'
  <2>1. \A d \in Docs(r.put) : db'[d] = NoRow
    BY CommitKeepsCover
  <2>2. Docs(r.put)' = Docs(r.put)
    BY DEF Docs
  <2> QED
    BY <1>1, <1>3, <2>1, <2>2 DEF Settles, WritesDocs
<1>6. Posts(r.put, r.add)'
  <2>1. \A i \in Invoices : db'[i].customer = db[i].customer
    <3>1. \A i \in Invoices : "customer" \in DOMAIN db[i]
      BY <1>1 DEF ReceivablesComplete
    <3> QED
      BY <3>1, CommitKeepsInvoices
  <2>2. \A d \in Docs(r.put) : r.put[d].invoice \in Invoices
    BY <1>1 DEF Settles, WritesDocs
  <2>3. Posts(r.put, r.add)
    BY <1>1 DEF Settles
  <2>4. ASSUME NEW k \in DOMAIN r.add, k[1] = "ADV"
        PROVE  \/ r.add[k] >= 0
               \/ \E d \in Docs(r.put) :
                    d[1] = "ADVALLOC" /\ k = ADV(db'[r.put[d].invoice].customer) /\ r.add[k] = -r.put[d].amount
    BY <2>1, <2>2, <2>3, <2>4 DEF Posts
  <2> QED
    BY <1>3, <2>3, <2>4 DEF Posts, AR, ADV, Docs
<1>7. Clears(r)'
  <2>1. SUFFICES ASSUME r.memo.op = "clear"
                 PROVE  /\ r.memo.tx \in Rows("BANKTX")' /\ db'[r.memo.tx] = NoRow
                        /\ Outstanding(r.memo.invoice)' <= r.memo.seen
    BY <1>1, <1>3 DEF Settles, Clears, BankLock, Outstanding, AR
  <2>2. /\ r.memo.tx \in Rows("BANKTX") /\ db[r.memo.tx] = NoRow /\ BankLock(r.memo.tx) \in r.locks
        /\ r.memo.invoice \in Invoices /\ r.memo.seen \in Int /\ Outstanding(r.memo.invoice) <= r.memo.seen
    BY <1>1, <2>1 DEF Settles, Clears
  <2>3. r.memo.tx \notin DOMAIN req[s].put
    <3>1. SUFFICES ASSUME r.memo.tx \in DOMAIN req[s].put
                   PROVE  FALSE
      OBVIOUS
    <3>2. r.memo.tx \in Docs(req[s].put) /\ r.memo.tx[1] = "BANKTX"
      BY <2>2, <3>1 DEF Docs, Rows, SettlementKinds
    <3>3. BankLock(r.memo.tx) \in req[s].locks
      BY <1>1, <3>2 DEF Settles, StillFits
    <3> QED
      BY <1>2, <2>2, <3>3
  <2>4. db'[r.memo.tx] = NoRow
    BY <2>2, <2>3, CommitOneRequest DEF Rows
  <2>5. Outstanding(r.memo.invoice)' <= r.memo.seen
    <3> PICK i : i = r.memo.invoice
      OBVIOUS
    <3>1. Outstanding(i)' <= Outstanding(i) /\ Outstanding(i)' \in Int
      BY <2>2, CommitOutstanding
    <3>2. Outstanding(i) \in Int /\ Outstanding(i) <= r.memo.seen
      BY <1>1, <2>2 DEF ReceivablesComplete, Outstanding
    <3> QED
      BY <2>2, <3>1, <3>2
  <2> QED
    BY <1>3, <2>2, <2>4, <2>5 DEF Rows
<1>8. StillFits(r.put, r.locks)' /\ PaysOff(r.put)'
  <2>1. StillFits(req[t].put, req[t].locks)' /\ PaysOff(req[t].put)'
    BY CommitKeepsCover
  <2> QED
    BY <1>2, <2>1
<1>9. Settles(r)'
  BY <1>1, <1>4, <1>5, <1>6, <1>7, <1>8 DEF Settles, IsRequest
<1> QED
  BY <1>2, <1>9

LEMMA CommitKeepsReceivables ==
  ASSUME NEW s \in Sessions, Commit(s), ReceivablesInv
  PROVE  ReceivablesInv'
<1> HIDE DEF Sessions
<1>1. /\ Sessions' = Sessions /\ req'[s] = Idle
      /\ \A t \in Sessions \ {s} : req'[t] = req[t]
  BY CommitOneRequest
<1>2. LocksApart'
  BY <1>1 DEF ReceivablesInv, LocksApart
<1>3. ASSUME NEW t \in Sessions, req'[t] # Idle
      PROVE  Settles(req[t])' /\ InsertsOther(t, req[t].put)'
  <2>1. t \in Sessions \ {s} /\ req[t] # Idle
    BY <1>1, <1>3
  <2>2. InsertsOther(t, req[t].put)
    BY <2>1 DEF ReceivablesInv
  <2>3. InsertsOther(t, req[t].put)'
    BY <1>1, <2>1, <2>2 DEF InsertsOther, Docs
  <2> QED
    BY <2>1, <2>3, CommitKeepsSettles
<1> QED
  BY <1>1, <1>2, <1>3, CommitComplete, CommitAgrees DEF ReceivablesInv

-----------------------------------------------------------------------------
(* The settling handlers *)

\* What is said of the books and of a request depends on nothing else.
LEMMA BooksUnchanged ==
  ASSUME ReceivablesInv, db' = db, sums' = sums
  PROVE  ReceivablesComplete' /\ ReceivablesAgree' /\ \A r : Settles(r) => Settles(r)'
<1>1. /\ Invoices' = Invoices /\ \A kind : Rows(kind)' = Rows(kind) /\ Live(kind)' = Live(kind)
      /\ \A i : /\ Paid(i)' = Paid(i) /\ Returned(i)' = Returned(i) /\ Credited(i)' = Credited(i)
               /\ Outstanding(i)' = Outstanding(i) /\ Status(i)' = Status(i)
  BY DEF Paid, Returned, Credited, Total, Of, Invoices, Live, Rows, Status, Outstanding, AR
<1>2. ReceivablesComplete'
  BY <1>1 DEF ReceivablesInv, ReceivablesComplete, AR, ADV
<1>3. NeverOverSettled' /\ AdvanceNotOverspent'
  BY <1>1 DEF ReceivablesInv, ReceivablesAgree, NeverOverSettled, AdvanceNotOverspent
<1>4. LedgerMatchesDocuments' /\ ReturnsWithinInvoice'
  BY <1>1 DEF ReceivablesInv, ReceivablesAgree, LedgerMatchesDocuments, ReturnsWithinInvoice
<1>5. ASSUME NEW r, Settles(r)
      PROVE  Settles(r)'
  <2>1. WritesInvoices(r.put)' /\ WritesDocs(r.put)'
    BY <1>1, <1>5 DEF Settles, WritesInvoices, WritesDocs, Docs
  <2>2. Posts(r.put, r.add)'
    BY <1>1, <1>5 DEF Settles, Posts, Docs, AR, ADV
  <2>3. StillFits(r.put, r.locks)'
    BY <1>1, <1>5 DEF Settles, StillFits, CoveredPayment, CoveredAdvance, CoveredReturn, Docs, InvoiceLock, AdvanceLock,
       BankLock, ADV
  <2>4. PaysOff(r.put)' /\ Clears(r)'
    BY <1>1, <1>5 DEF Settles, PaysOff, Clears, Docs, BankLock
  <2> QED
    BY <1>5, <2>1, <2>2, <2>3, <2>4 DEF Settles, IsRequest
<1> QED
  BY <1>2, <1>3, <1>4, <1>5 DEF ReceivablesAgree

LEMMA NewSettlement ==
  ASSUME NEW s \in Sessions, ReceivablesInv, db' = db, sums' = sums, Sessions' = Sessions,
         \A t \in Sessions \ {s} : req'[t] = req[t],
         req'[s] # Idle =>
           /\ Settles(req'[s])
           /\ \A t \in Sessions \ {s} : req[t] # Idle => req[t].locks \cap req'[s].locks = {}
           /\ InsertsOther(s, req'[s].put)
  PROVE  ReceivablesInv'
<1> HIDE DEF Sessions
<1>1. LocksApart'
  <2>1. SUFFICES ASSUME NEW t \in Sessions, NEW u \in Sessions, t # u, req'[t] # Idle, req'[u] # Idle
                 PROVE  req'[t].locks \cap req'[u].locks = {}
    BY DEF LocksApart
  <2>2. CASE t = s
    BY <2>1, <2>2
  <2>3. CASE u = s
    BY <2>1, <2>3
  <2>4. CASE t # s /\ u # s
    BY <2>1, <2>4 DEF ReceivablesInv, LocksApart
  <2> QED
    BY <2>2, <2>3, <2>4
<1>2. ASSUME NEW t \in Sessions, req'[t] # Idle
      PROVE  Settles(req[t])'
  <2> PICK r : r = req'[t]
    OBVIOUS
  <2>1. Settles(r)
    BY <1>2 DEF ReceivablesInv
  <2>2. Settles(r)'
    BY <2>1, BooksUnchanged
  <2> QED
    BY <2>2
<1>3. ASSUME NEW t \in Sessions, req'[t] # Idle
      PROVE  InsertsOther(t, req[t].put)'
  <2>1. ASSUME NEW u \in Sessions \ {t}, req'[u] # Idle, NEW d \in Docs(req'[t].put) \cap Docs(req'[u].put)
        PROVE  d[1] = "BANKTX"
    <3>1. CASE t = s
      BY <1>3, <2>1, <3>1 DEF InsertsOther
    <3>2. CASE u = s
      BY <1>3, <2>1, <3>2 DEF InsertsOther
    <3>3. CASE t # s /\ u # s
      BY <1>3, <2>1, <3>3 DEF ReceivablesInv, InsertsOther
    <3> QED
      BY <3>1, <3>2, <3>3
  <2> QED
    BY <2>1 DEF InsertsOther, Docs
<1> QED
  BY <1>1, <1>2, <1>3, BooksUnchanged DEF ReceivablesInv

\* A request writes less than its handler says: the columns that change.
LEMMA StagedSettles ==
  ASSUME NEW put, NEW add, NEW locks,
         WritesInvoices(put), WritesDocs(put), Posts(put, add), StillFits(put, locks), PaysOff(put)
  PROVE  Settles(Request(put, add, locks, [op |-> "commit"]))
<1> PICK new : new = Staged(put)
  OBVIOUS
<1>1. Request(put, add, locks, [op |-> "commit"]) = [put |-> new, add |-> add, locks |-> locks, memo |-> [op |-> "commit"]]
  BY DEF Request, Staged
<1>2. /\ DOMAIN new = DOMAIN put
      /\ \A d \in DOMAIN put : DOMAIN new[d] \subseteq DOMAIN put[d] /\ \A c \in DOMAIN new[d] : new[d][c] = put[d][c]
  BY StagedColumns DEF Staged
<1>3. Docs(new) = Docs(put)
  BY <1>2 DEF Docs
<1>4. ASSUME NEW d \in Docs(put)
      PROVE  DOMAIN new[d] = DOMAIN put[d] /\ \A c \in DOMAIN put[d] : new[d][c] = put[d][c]
  <2>1. d \in DOMAIN put /\ db[d] = NoRow /\ put[d].status = "POSTED"
    BY DEF WritesDocs, Docs
  <2>2. \A c \in DOMAIN put[d] : c \in DOMAIN new[d]
    BY <2>1, StagedColumns, NoRowColumns
  <2> QED
    BY <1>2, <2>1, <2>2
<1>5. WritesInvoices(new)
  BY <1>2 DEF WritesInvoices
<1>6. \A d \in Docs(put) :
        /\ {"status", "invoice", "amount"} \subseteq DOMAIN new[d]
        /\ new[d].status = put[d].status /\ new[d].invoice = put[d].invoice /\ new[d].amount = put[d].amount
        /\ d[1] = "CN" => "qty" \in DOMAIN new[d] /\ new[d].qty = put[d].qty
  BY <1>4 DEF WritesDocs
<1>7. WritesDocs(new)
  BY <1>3, <1>6 DEF WritesDocs
<1>8. Posts(new, add)
  BY <1>3, <1>6 DEF Posts
<1>9. StillFits(new, locks)
  BY <1>3, <1>6 DEF StillFits, CoveredPayment, CoveredAdvance, CoveredReturn
<1>10. PaysOff(new)
  BY <1>2, <1>3, <1>6 DEF PaysOff
<1> QED
  BY <1>1, <1>5, <1>7, <1>8, <1>9, <1>10 DEF Settles, IsRequest, Clears

LEMMA StageSettles ==
  ASSUME NEW s \in Sessions, NEW put, NEW add, NEW locks, Stage(s, put, add, locks), ReceivablesInv,
         WritesInvoices(put), WritesDocs(put), Posts(put, add), StillFits(put, locks), PaysOff(put),
         \A d \in Docs(put) : Fresh(d)
  PROVE  ReceivablesInv'
<1>1. req'[s] = Request(put, add, locks, [op |-> "commit"]) /\ sums' = sums
  BY DEF Stage, Sessions
<1> HIDE DEF Sessions
<1>2. Settles(req'[s])
  BY <1>1, StagedSettles
<1>3. InsertsOther(s, req'[s].put)
  <2>1. DOMAIN req'[s].put = DOMAIN put
    BY StageIsOne DEF Staged
  <2> QED
    BY <2>1 DEF InsertsOther, Docs, Fresh, Used
<1> QED
  BY <1>1, <1>2, <1>3, StageIsOne, NewSettlement

\* A handler that makes document d and writes the rest besides: the document
\* is new and complete, the rest is an invoice it may settle and an order line.
NewDocument(d, row) ==
  /\ d \in DOMAIN db /\ d[1] \in SettlementKinds /\ db[d] = NoRow
  /\ {"status", "invoice", "amount"} \subseteq DOMAIN row /\ row.status = "POSTED"
  /\ row.invoice \in Invoices /\ row.amount \in Nat
  /\ d[1] = "CN" => "qty" \in DOMAIN row /\ row.qty \in Nat

BesidesDocument(row, rest) ==
  /\ Docs(rest) = {} /\ WritesInvoices(rest)
  /\ \A i \in DOMAIN rest :
       "status" \in DOMAIN rest[i] /\ rest[i].status = "PAID" => i = row.invoice /\ Outstanding(i) <= row.amount

FitsDocument(d, row, locks) ==
  /\ CoveredPayment(d, row, locks) /\ CoveredAdvance(d, row, locks) /\ CoveredReturn(d, row, locks)
  /\ d[1] = "BANKTX" => BankLock(d) \in locks

SettledBy(d, row, put, locks) ==
  /\ WritesInvoices(put) /\ WritesDocs(put) /\ StillFits(put, locks) /\ PaysOff(put)
  /\ Docs(put) = {d} /\ put[d] = row

LEMMA DocumentSettles ==
  ASSUME NEW d, NEW row, NEW rest, NEW locks, NEW put, put = d :> row @@ rest,
         NewDocument(d, row), BesidesDocument(row, rest), FitsDocument(d, row, locks)
  PROVE  SettledBy(d, row, put, locks)
<1> DEFINE one == d :> row
<1>1. DOMAIN one = {d} /\ one[d] = row /\ put = one @@ rest
  BY OneRow
<1> HIDE DEF one
<1>2. DOMAIN put = {d} \cup DOMAIN rest /\ put[d] = row /\ \A e \in DOMAIN rest : e # d => put[e] = rest[e]
  BY <1>1 DEF @@
<1>3. Docs(put) = {d}
  BY <1>2 DEF Docs, NewDocument, BesidesDocument
<1>4. WritesInvoices(put)
  BY <1>2 DEF WritesInvoices, Rows, SettlementKinds, NewDocument, BesidesDocument
<1>5. WritesDocs(put)
  BY <1>2, <1>3 DEF WritesDocs, NewDocument
<1>6. StillFits(put, locks)
  BY <1>2, <1>3 DEF StillFits, FitsDocument
<1>7. PaysOff(put)
  BY <1>2, <1>3 DEF PaysOff, Rows, SettlementKinds, NewDocument, BesidesDocument
<1> QED
  BY <1>2, <1>3, <1>4, <1>5, <1>6, <1>7 DEF SettledBy

LEMMA TransactionStep ==
  ASSUME NEW s \in Sessions, NEW c, NEW amount \in Nat, ReceivablesInv, StageTransaction(s, c, amount)
  PROVE  ReceivablesInv'
<1> DEFINE add == ADV(c) :> amount @@ <<"DEPOSITS", c>> :> amount
<1>1. \A k \in DOMAIN add : add[k] = amount /\ k \in {<<"ADV", c>>, <<"DEPOSITS", c>>}
  <2> DEFINE one == ADV(c) :> amount
             two == <<"DEPOSITS", c>> :> amount
  <2>1. /\ DOMAIN one = {ADV(c)} /\ one[ADV(c)] = amount
        /\ DOMAIN two = {<<"DEPOSITS", c>>} /\ two[<<"DEPOSITS", c>>] = amount
    BY OneRow
  <2> HIDE DEF one, two
  <2>2. \A k \in DOMAIN (one @@ two) : (one @@ two)[k] = amount /\ k \in {<<"ADV", c>>, <<"DEPOSITS", c>>}
    BY <2>1 DEF @@, ADV
  <2> QED
    BY <2>2 DEF one, two
<1>2. Stage(s, Nothing, add, {})
  BY DEF StageTransaction
<1> HIDE DEF Sessions, add
<1>3. Docs(Nothing) = {}
  BY NothingIsEmpty DEF Docs
<1>4. Posts(Nothing, add)
  BY <1>1, <1>3 DEF Posts, AR
<1>5. WritesInvoices(Nothing) /\ WritesDocs(Nothing) /\ StillFits(Nothing, {}) /\ PaysOff(Nothing)
  BY <1>3, NothingIsEmpty DEF WritesInvoices, WritesDocs, StillFits, PaysOff
<1> QED
  BY <1>2, <1>3, <1>4, <1>5, StageSettles

\* What an invoice may still be paid.
LEMMA OutstandingCovers ==
  ASSUME ReceivablesInv, NEW i \in Invoices
  PROVE  /\ Outstanding(i) \in Int /\ Paid(i) \in Nat /\ db[i].total \in Nat
         /\ \A amount \in Nat : amount <= Outstanding(i) => Paid(i) + amount <= db[i].total
<1>1. ReceivablesComplete /\ Outstanding(i) = db[i].total - Paid(i) - Credited(i)
  BY DEF ReceivablesInv, ReceivablesAgree, LedgerMatchesDocuments
<1>2. Paid(i) \in Nat /\ Credited(i) \in Nat
  BY <1>1, TotalsAreNat
<1>3. db[i].total \in Nat
  BY <1>1 DEF ReceivablesComplete
<1> QED
  BY <1>1, <1>2, <1>3

LEMMA AllocationStep ==
  ASSUME NEW s \in Sessions, NEW i \in Invoices, NEW amount \in Nat, NEW alloc \in Rows("ADVALLOC"), Fresh(alloc),
         ReceivablesInv, AllocateAdvancePayment(s, i, amount, alloc)
  PROVE  ReceivablesInv'
<1> PICK c : c = db[i].customer
  OBVIOUS
<1> DEFINE row == [status |-> "POSTED", invoice |-> i, amount |-> amount]
           paid == [status |-> IF amount = Outstanding(i) THEN "PAID" ELSE "ISSUED"]
           rest == i :> paid
           put == alloc :> row @@ rest
           add == AR(i) :> -amount @@ ADV(c) :> -amount
           locks == AdvanceLocks(i)
<1>1. Stage(s, put, add, locks) /\ amount <= Outstanding(i) /\ amount <= sums[ADV(c)]
  BY DEF AllocateAdvancePayment
<1>2. /\ DOMAIN row = {"status", "invoice", "amount"}
      /\ row.status = "POSTED" /\ row.invoice = i /\ row.amount = amount
  OBVIOUS
<1>3. DOMAIN rest = {i} /\ rest[i] = paid
  BY OneRow
<1>4. DOMAIN paid = {"status"} /\ (paid.status = "PAID" => amount = Outstanding(i))
  OBVIOUS
<1>5. /\ DOMAIN add = {AR(i), ADV(c)} /\ add[AR(i)] = -amount /\ add[ADV(c)] = -amount
  <2> DEFINE one == AR(i) :> -amount
             two == ADV(c) :> -amount
  <2>1. DOMAIN one = {AR(i)} /\ one[AR(i)] = -amount /\ DOMAIN two = {ADV(c)} /\ two[ADV(c)] = -amount
    BY OneRow
  <2>2. AR(i) # ADV(c)
    BY DEF AR, ADV
  <2> HIDE DEF one, two
  <2>3. DOMAIN (one @@ two) = {AR(i), ADV(c)} /\ (one @@ two)[AR(i)] = -amount /\ (one @@ two)[ADV(c)] = -amount
    BY <2>1, <2>2 DEF @@
  <2> QED
    BY <2>3 DEF one, two
<1>6. {AdvanceLock(c), InvoiceLock(i)} \subseteq locks
  BY DEF AdvanceLocks
<1> HIDE DEF Sessions, row, paid, rest, add, locks
<1>7. alloc \in DOMAIN db /\ alloc[1] = "ADVALLOC" /\ db[alloc] = NoRow /\ alloc[1] \in SettlementKinds
  BY FreshIsNew DEF Rows, SettlementKinds
<1>8. i \in DOMAIN db /\ i[1] = "INV" /\ db[i] # NoRow
  BY DEF Invoices, Live, Rows
<1>9. WritesInvoices(rest) /\ Docs(rest) = {}
  BY <1>3, <1>4, <1>8 DEF WritesInvoices, Docs, SettlementKinds, Rows
<1>10. \A j \in DOMAIN rest :
         "status" \in DOMAIN rest[j] /\ rest[j].status = "PAID" => j = row.invoice /\ Outstanding(j) <= row.amount
  BY <1>2, <1>3, <1>4, OutstandingCovers
<1>11. CoveredPayment(alloc, row, locks) /\ CoveredAdvance(alloc, row, locks) /\ CoveredReturn(alloc, row, locks)
  BY <1>1, <1>2, <1>6, <1>7, OutstandingCovers DEF CoveredPayment, CoveredAdvance, CoveredReturn
<1>12. /\ WritesInvoices(put) /\ WritesDocs(put) /\ StillFits(put, locks) /\ PaysOff(put)
       /\ Docs(put) = {alloc} /\ put[alloc] = row
  <2>1. NewDocument(alloc, row)
    BY <1>2, <1>7 DEF NewDocument
  <2>2. BesidesDocument(row, rest)
    BY <1>9, <1>10 DEF BesidesDocument
  <2>3. FitsDocument(alloc, row, locks)
    BY <1>7, <1>11 DEF FitsDocument
  <2>4. PICK written : written = put
    OBVIOUS
  <2>5. SettledBy(alloc, row, written, locks)
    BY <2>1, <2>2, <2>3, <2>4, DocumentSettles
  <2> QED
    BY <2>4, <2>5 DEF SettledBy
<1> HIDE DEF put
<1>13. Posts(put, add)
  <2>1. \A j : AR(j) \in DOMAIN add => j = i
    BY <1>5 DEF AR, ADV
  <2>2. \A k \in DOMAIN add : k[1] = "ADV" => k = ADV(c)
    BY <1>5 DEF AR
  <2> QED
    BY <1>2, <1>5, <1>7, <1>12, <2>1, <2>2 DEF Posts
<1> QED
  BY <1>1, <1>12, <1>13, StageSettles

LEMMA BankBegins ==
  ASSUME NEW s \in Sessions, NEW i, NEW amount \in Nat, NEW tx \in Rows("BANKTX"),
         ReceivablesInv, BeginBankTransaction(s, tx, amount, i)
  PROVE  ReceivablesInv'
<1> DEFINE memo == [op |-> "clear", tx |-> tx, amount |-> amount, invoice |-> i, seen |-> Outstanding(i)]
           locks == BankLocks(tx)
<1>1. db[tx] = NoRow /\ i \in Invoices /\ Hold(s, memo, locks)
  BY DEF BeginBankTransaction, FindMatchingReceivable
<1>2. /\ req'[s] = Request(Nothing, Nothing, locks, memo) /\ Sessions' = Sessions /\ db' = db /\ sums' = sums
      /\ \A t \in Sessions \ {s} : req'[t] = req[t] /\ (req[t] # Idle => req[t].locks \cap locks = {})
  BY <1>1 DEF Hold, Lockable, Sessions
<1> HIDE DEF Sessions
<1> PICK new : new = Staged(Nothing)
  OBVIOUS
<1>3. DOMAIN new = {} /\ Docs(new) = {}
  BY NothingIsEmpty DEF Staged, Docs
<1>4. req'[s] = [put |-> new, add |-> Nothing, locks |-> locks, memo |-> memo]
  BY <1>2 DEF Request, Staged
<1>5. WritesInvoices(new) /\ WritesDocs(new) /\ Posts(new, Nothing) /\ StillFits(new, locks) /\ PaysOff(new)
  BY <1>3, NothingIsEmpty DEF WritesInvoices, WritesDocs, Posts, StillFits, PaysOff
<1>6. Outstanding(i) \in Int /\ BankLock(tx) \in locks
  BY <1>1, OutstandingCovers DEF BankLocks
<1>7. Clears(req'[s])
  BY <1>1, <1>3, <1>4, <1>6, NothingIsEmpty DEF Clears
<1>8. Settles(req'[s])
  BY <1>4, <1>5, <1>7 DEF Settles, IsRequest
<1>9. InsertsOther(s, req'[s].put)
  BY <1>3, <1>4 DEF InsertsOther
<1>10. req'[s].locks = locks
  BY <1>4
<1> QED
  BY <1>2, <1>8, <1>9, <1>10, NewSettlement

LEMMA BankClears ==
  ASSUME NEW s \in Sessions, ReceivablesInv, ClearBankTransaction(s)
  PROVE  ReceivablesInv'
<1> PICK m : m = req[s].memo
  OBVIOUS
<1> PICK i, tx, amount : i = m.invoice /\ tx = m.tx /\ amount = m.amount
  OBVIOUS
<1> DEFINE row == [status |-> "POSTED", invoice |-> i, amount |-> amount]
           paid == [status |-> "PAID"]
           rest == IF amount >= m.seen THEN i :> paid ELSE Nothing
           put == tx :> row @@ rest
           add == AR(i) :> -amount
           locks == req[s].locks \cup {InvoiceLock(i)}
<1>1. /\ req[s] # Idle /\ m.op = "clear" /\ amount <= Outstanding(i)
      /\ Finish(s, put, add, {InvoiceLock(i)})
  BY DEF ClearBankTransaction, At, Free, StillOpen
<1>2. /\ req'[s] = Request(put, add, locks, [op |-> "commit"]) /\ Sessions' = Sessions /\ db' = db /\ sums' = sums
      /\ \A t \in Sessions \ {s} : req'[t] = req[t] /\ (req[t] # Idle => req[t].locks \cap {InvoiceLock(i)} = {})
  BY <1>1 DEF Finish, Lockable, Sessions
<1>3. /\ DOMAIN row = {"status", "invoice", "amount"}
      /\ row.status = "POSTED" /\ row.invoice = i /\ row.amount = amount
  OBVIOUS
<1>4. DOMAIN paid = {"status"} /\ paid.status = "PAID"
  OBVIOUS
<1>5. DOMAIN rest \subseteq {i} /\ (i \in DOMAIN rest => rest[i] = paid /\ amount >= m.seen)
  <2>1. DOMAIN (i :> paid) = {i} /\ (i :> paid)[i] = paid
    BY OneRow
  <2> QED
    BY <2>1, NothingIsEmpty
<1>6. DOMAIN add = {AR(i)} /\ add[AR(i)] = -amount
  BY OneRow
<1> HIDE DEF Sessions, row, paid, rest, add
<1>7. /\ tx \in Rows("BANKTX") /\ db[tx] = NoRow /\ BankLock(tx) \in req[s].locks
      /\ i \in Invoices /\ amount \in Nat /\ m.seen \in Int /\ Outstanding(i) <= m.seen
  BY <1>1 DEF ReceivablesInv, Settles, Clears
<1>8. tx \in DOMAIN db /\ tx[1] = "BANKTX" /\ tx[1] \in SettlementKinds
  BY <1>7 DEF Rows, SettlementKinds
<1>9. i \in DOMAIN db /\ i[1] = "INV" /\ db[i] # NoRow
  BY <1>7 DEF Invoices, Live, Rows
<1>10. WritesInvoices(rest) /\ Docs(rest) = {}
  BY <1>4, <1>5, <1>9 DEF WritesInvoices, Docs, SettlementKinds, Rows
<1>11. \A j \in DOMAIN rest :
         "status" \in DOMAIN rest[j] /\ rest[j].status = "PAID" => j = row.invoice /\ Outstanding(j) <= row.amount
  <2>1. Outstanding(i) \in Int
    BY <1>7, OutstandingCovers
  <2> QED
    BY <1>3, <1>5, <1>7, <2>1
<1>12. CoveredPayment(tx, row, locks) /\ CoveredAdvance(tx, row, locks) /\ CoveredReturn(tx, row, locks)
  BY <1>1, <1>3, <1>7, <1>8, OutstandingCovers DEF CoveredPayment, CoveredAdvance, CoveredReturn
<1>13. /\ WritesInvoices(put) /\ WritesDocs(put) /\ StillFits(put, locks) /\ PaysOff(put)
       /\ Docs(put) = {tx} /\ put[tx] = row
  <2>1. NewDocument(tx, row)
    BY <1>3, <1>7, <1>8 DEF NewDocument
  <2>2. BesidesDocument(row, rest)
    BY <1>10, <1>11 DEF BesidesDocument
  <2>3. FitsDocument(tx, row, locks)
    BY <1>7, <1>12 DEF FitsDocument
  <2>4. PICK written : written = put
    OBVIOUS
  <2>5. SettledBy(tx, row, written, locks)
    BY <2>1, <2>2, <2>3, <2>4, DocumentSettles
  <2> QED
    BY <2>4, <2>5 DEF SettledBy
<1> HIDE DEF put
<1>14. Posts(put, add)
  <2>1. \A j : AR(j) \in DOMAIN add => j = i
    BY <1>6 DEF AR
  <2>2. \A k \in DOMAIN add : k[1] # "ADV"
    BY <1>6 DEF AR
  <2>3. -amount \in Int /\ \A k \in DOMAIN add : add[k] \in Int
    BY <1>6, <1>7
  <2>4. \A d \in Docs(put) : AR(put[d].invoice) \in DOMAIN add /\ add[AR(put[d].invoice)] = -put[d].amount
    BY <1>3, <1>6, <1>13
  <2>5. \A j \in Invoices : AR(j) \in DOMAIN add => \E d \in Docs(put) : put[d].invoice = j
    BY <1>3, <1>13, <2>1
  <2> QED
    BY <2>2, <2>3, <2>4, <2>5 DEF Posts
<1>15. Settles(req'[s])
  BY <1>2, <1>13, <1>14, StagedSettles
<1>16. Docs(req'[s].put) = {tx} /\ req'[s].locks = locks
  <2>1. DOMAIN req'[s].put = DOMAIN put /\ req'[s].locks = locks
    BY <1>2 DEF Request
  <2> QED
    BY <1>13, <2>1 DEF Docs
<1>17. InsertsOther(s, req'[s].put)
  BY <1>8, <1>16 DEF InsertsOther
<1>18. \A t \in Sessions \ {s} : req[t] # Idle => req[t].locks \cap locks = {}
  BY <1>1, <1>2 DEF ReceivablesInv, LocksApart
<1> QED
  BY <1>2, <1>15, <1>16, <1>17, <1>18, NewSettlement

LEMMA LineAmountInt ==
  ASSUME ReceivablesInv, NEW i \in Invoices, NEW q \in 1..db[i].qty
  PROVE  /\ LineAmount(i, q) \in Int
         /\ Returned(i) + q = db[i].qty => Credited(i) + LineAmount(i, q) = db[i].total
<1> PICK total, qty, returned, credited :
      total = db[i].total /\ qty = db[i].qty /\ returned = Returned(i) /\ credited = Credited(i)
  OBVIOUS
<1>1. total \in Nat /\ qty \in Nat /\ returned \in Nat /\ credited \in Nat /\ q \in Nat /\ q >= 1 /\ q <= qty
  <2>1. ReceivablesComplete
    BY DEF ReceivablesInv
  <2>2. total \in Nat /\ qty \in Nat
    BY <2>1 DEF ReceivablesComplete
  <2> QED
    BY <2>1, <2>2, TotalsAreNat
<1>2. LineAmount(i, q) = IF q = qty - returned THEN total - credited ELSE (2 * total * q + qty) \div (2 * qty)
  BY DEF LineAmount
<1>3. (2 * total * q + qty) \div (2 * qty) \in Int
  <2>1. total * q \in Nat
    BY <1>1
  <2> PICK a, b : a = 2 * total * q + qty /\ b = 2 * qty
    OBVIOUS
  <2>2. a \in Nat /\ b \in Nat /\ b > 0
    BY <1>1, <2>1
  <2>3. a \div b \in Int
    BY <2>2
  <2> QED
    BY <2>3
<1> QED
  BY <1>1, <1>2, <1>3

LEMMA MergeAssociates ==
  ASSUME NEW f, NEW g, NEW h
  PROVE  (f @@ g) @@ h = f @@ (g @@ h)
BY DEF @@

LEMMA CreditNoteStep ==
  ASSUME NEW s \in Sessions, NEW i \in Invoices, NEW q \in 1..db[i].qty, NEW cn \in Rows("CN"), NEW level \in Live("LVL"),
         Fresh(cn), ReceivablesInv, IssueCreditNote(s, i, q, cn, level)
  PROVE  ReceivablesInv'
<1>1. PICK amount, line, back, stock :
      /\ amount = LineAmount(i, q) /\ line = db[i].line /\ back = db[line].returned + q
      /\ stock = [current |-> db[level].current + q, available |-> db[level].available + q]
  OBVIOUS
<1> DEFINE row == [status |-> "POSTED", invoice |-> i, qty |-> q, amount |-> amount]
           come == line :> [returned |-> back]
           rest == come @@ level :> stock
           put == cn :> row @@ rest
           add == AR(i) :> -amount @@ <<"SLE", 1>> :> q
           locks == {i, line}
<1>2. /\ Stage(s, put, add, locks) /\ amount > 0
      /\ q <= db[i].qty - Returned(i) /\ back <= db[line].invoiced
  <2>1. Stage(s, (cn :> row @@ come) @@ level :> stock, add, locks)
    BY <1>1 DEF IssueCreditNote, LineReturned, Restocked, CreditedReceivable
  <2>2. (cn :> row @@ come) @@ level :> stock = put
    BY MergeAssociates
  <2> HIDE DEF put, add, locks
  <2> QED
    BY <1>1, <2>1, <2>2 DEF IssueCreditNote, Returnable
<1>3. /\ {"status", "invoice", "qty", "amount"} \subseteq DOMAIN row
      /\ row.status = "POSTED" /\ row.invoice = i /\ row.qty = q /\ row.amount = amount
  OBVIOUS
<1>4. DOMAIN rest = {line, level} /\ rest[line] = [returned |-> back] /\ (level # line => rest[level] = stock)
  <2> DEFINE moved == level :> stock
  <2>1. DOMAIN come = {line} /\ come[line] = [returned |-> back] /\ DOMAIN moved = {level} /\ moved[level] = stock
    BY OneRow
  <2> HIDE DEF come, moved
  <2>2. /\ DOMAIN (come @@ moved) = {line, level} /\ (come @@ moved)[line] = [returned |-> back]
        /\ level # line => (come @@ moved)[level] = stock
    BY <2>1 DEF @@
  <2> QED
    BY <2>2 DEF moved
<1>5. DOMAIN add = {AR(i), <<"SLE", 1>>} /\ add[AR(i)] = -amount /\ add[<<"SLE", 1>>] = q
  <2> DEFINE one == AR(i) :> -amount
             two == <<"SLE", 1>> :> q
  <2>1. DOMAIN one = {AR(i)} /\ one[AR(i)] = -amount /\ DOMAIN two = {<<"SLE", 1>>} /\ two[<<"SLE", 1>>] = q
    BY OneRow
  <2>2. AR(i) # <<"SLE", 1>>
    BY DEF AR
  <2> HIDE DEF one, two
  <2>3. /\ DOMAIN (one @@ two) = {AR(i), <<"SLE", 1>>}
        /\ (one @@ two)[AR(i)] = -amount /\ (one @@ two)[<<"SLE", 1>>] = q
    BY <2>1, <2>2 DEF @@
  <2> QED
    BY <2>3 DEF one, two
<1>6. i \in locks
  OBVIOUS
<1> HIDE DEF Sessions, row, rest, add, locks
<1>7. cn \in DOMAIN db /\ cn[1] = "CN" /\ db[cn] = NoRow /\ cn[1] \in SettlementKinds
  BY FreshIsNew DEF Rows, SettlementKinds
<1>8. ReceivablesComplete
  BY DEF ReceivablesInv
<1>9. /\ line \in Live("SOL") /\ line \in DOMAIN db /\ line[1] = "SOL" /\ db[line] # NoRow /\ db[line].returned \in Nat
      /\ level[1] = "LVL" /\ db[i].qty \in Nat /\ Returned(i) \in Nat
  BY <1>1, <1>8, TotalsAreNat DEF ReceivablesComplete, Live, Rows
<1>10. /\ amount \in Nat /\ q \in Nat /\ back \in Nat /\ Returned(i) + q <= db[i].qty
       /\ Returned(i) + q = db[i].qty => Credited(i) + amount = db[i].total
  BY <1>1, <1>2, <1>9, LineAmountInt
<1>11. WritesInvoices(rest) /\ Docs(rest) = {}
  <2>1. Docs(rest) = {}
    BY <1>4, <1>9 DEF Docs, SettlementKinds
  <2>2. DOMAIN rest[line] = {"returned"} /\ rest[line].returned = back
    BY <1>4
  <2>3. WritesInvoices(rest)
    BY <1>2, <1>4, <1>9, <1>10, <2>2 DEF WritesInvoices, Rows
  <2> QED
    BY <2>1, <2>3
<1>12. \A j \in DOMAIN rest :
         "status" \in DOMAIN rest[j] /\ rest[j].status = "PAID" => j = row.invoice /\ Outstanding(j) <= row.amount
  <2>1. DOMAIN stock = {"current", "available"}
    BY <1>1
  <2> QED
    BY <1>4, <2>1
<1>13. CoveredPayment(cn, row, locks) /\ CoveredAdvance(cn, row, locks) /\ CoveredReturn(cn, row, locks)
  BY <1>3, <1>6, <1>7, <1>10 DEF CoveredPayment, CoveredAdvance, CoveredReturn
<1>14. /\ WritesInvoices(put) /\ WritesDocs(put) /\ StillFits(put, locks) /\ PaysOff(put)
       /\ Docs(put) = {cn} /\ put[cn] = row
  <2>1. NewDocument(cn, row)
    BY <1>3, <1>7, <1>10 DEF NewDocument
  <2>2. BesidesDocument(row, rest)
    BY <1>11, <1>12 DEF BesidesDocument
  <2>3. FitsDocument(cn, row, locks)
    BY <1>7, <1>13 DEF FitsDocument
  <2>4. PICK written : written = put
    OBVIOUS
  <2>5. SettledBy(cn, row, written, locks)
    BY <2>1, <2>2, <2>3, <2>4, DocumentSettles
  <2> QED
    BY <2>4, <2>5 DEF SettledBy
<1> HIDE DEF put
<1>15. Posts(put, add)
  <2>1. \A j : AR(j) \in DOMAIN add => j = i
    BY <1>5 DEF AR
  <2>2. \A k \in DOMAIN add : k[1] # "ADV" /\ add[k] \in Int
    BY <1>5, <1>10 DEF AR
  <2> QED
    BY <1>3, <1>5, <1>14, <2>1, <2>2 DEF Posts
<1> QED
  BY <1>2, <1>14, <1>15, StageSettles

LEMMA RollbackKeepsReceivables ==
  ASSUME NEW s \in Sessions, Rollback(s), ReceivablesInv
  PROVE  ReceivablesInv'
<1>1. req'[s] = Idle /\ Sessions' = Sessions /\ db' = db /\ sums' = sums /\ \A t \in Sessions \ {s} : req'[t] = req[t]
  BY DEF Rollback, Sessions
<1> HIDE DEF Sessions
<1> QED
  BY <1>1, NewSettlement

LEMMA ReceivablesStep ==
  ASSUME NEW s \in Sessions, ReceivablesInv, ReceivablesNext(s)
  PROVE  ReceivablesInv'
<1>1. ReceivablesComplete
  BY DEF ReceivablesInv
<1>2. \A i \in Invoices : db[i].total \in Nat /\ 1..db[i].total \subseteq Nat
  BY <1>1 DEF ReceivablesComplete
<1>3. ASSUME NEW i \in Invoices, StageTransaction(s, db[i].customer, db[i].total)
      PROVE  ReceivablesInv'
  BY <1>2, <1>3, TransactionStep
<1>4. ASSUME NEW i \in Invoices, NEW amount \in 1..db[i].total, NEW alloc \in Rows("ADVALLOC"),
             Fresh(alloc), AllocateAdvancePayment(s, i, amount, alloc)
      PROVE  ReceivablesInv'
  BY <1>2, <1>4, AllocationStep
<1>5. ASSUME NEW i \in Invoices, NEW amount \in 1..db[i].total, NEW tx \in Rows("BANKTX"),
             BeginBankTransaction(s, tx, amount, i)
      PROVE  ReceivablesInv'
  BY <1>2, <1>5, BankBegins
<1>6. ASSUME NEW i \in Invoices, NEW cn \in Rows("CN"), NEW level \in Live("LVL"), NEW q \in 1..db[i].qty,
             Fresh(cn), IssueCreditNote(s, i, q, cn, level)
      PROVE  ReceivablesInv'
  BY <1>6, CreditNoteStep
<1> QED
  BY <1>3, <1>4, <1>5, <1>6, BankClears DEF ReceivablesNext

-----------------------------------------------------------------------------
(* Theorems about settlements *)

\* The documents, books and invoices of a company fit together, and every
\* request in progress has staged at most one settlement document, which its
\* locks keep covered until it commits.
THEOREM ReceivablesInvariance == ReceivablesSpec => []ReceivablesInv
<1> DEFINE Next == \E s \in Sessions :
                     \/ EndOfRequest(s) \/ ReceivablesNext(s)
                     \/ \E i \in Invoices, amount \in Nat : StageTransaction(s, db[i].customer, amount)
<1>1. ReceivablesComplete /\ ReceivablesAgree /\ (\A s \in Sessions : Free(s)) => ReceivablesInv
  BY DEF ReceivablesInv, LocksApart, Free
<1>2. ReceivablesInv /\ [Next]_vars => ReceivablesInv'
  <2>1. ASSUME ReceivablesInv, NEW s \in Sessions, EndOfRequest(s)
        PROVE  ReceivablesInv'
    BY <2>1, CommitKeepsReceivables, RollbackKeepsReceivables DEF EndOfRequest
  <2>2. ASSUME ReceivablesInv, NEW s \in Sessions, ReceivablesNext(s)
        PROVE  ReceivablesInv'
    BY <2>2, ReceivablesStep
  <2>3. ASSUME ReceivablesInv, NEW s \in Sessions, NEW i \in Invoices, NEW amount \in Nat,
               StageTransaction(s, db[i].customer, amount)
        PROVE  ReceivablesInv'
    BY <2>3, TransactionStep
  <2>4. ASSUME ReceivablesInv, UNCHANGED vars
        PROVE  ReceivablesInv'
    <3>1. db' = db /\ sums' = sums /\ req' = req /\ Sessions' = Sessions
      BY <2>4 DEF vars, Sessions
    <3> HIDE DEF Sessions
    <3>2. \A s \in Sessions : req[s] # Idle => Settles(req[s])' /\ InsertsOther(s, req[s].put)'
      <4>1. \A r : Settles(r) => Settles(r)'
        BY <2>4, <3>1, BooksUnchanged
      <4>2. ASSUME NEW s \in Sessions, req[s] # Idle
            PROVE  Settles(req[s])'
        <5> PICK r : r = req[s]
          OBVIOUS
        <5>1. Settles(r)'
          BY <2>4, <4>1, <4>2 DEF ReceivablesInv
        <5> QED
          BY <3>1, <5>1
      <4> QED
        BY <2>4, <3>1, <4>2 DEF ReceivablesInv, InsertsOther, Docs
    <3>3. LocksApart'
      BY <2>4, <3>1 DEF ReceivablesInv, LocksApart
    <3> QED
      BY <2>4, <3>1, <3>2, <3>3, BooksUnchanged DEF ReceivablesInv
  <2> QED
    BY <2>1, <2>2, <2>3, <2>4
<1> QED
  BY <1>1, <1>2, PTL DEF ReceivablesSpec

\* Advances, bank payments and returns that settle the invoices of a company
\* in any order and overlap agree with the ledger, with the deposits and with
\* what the customer owes, for any invoices, amounts and number of requests.
THEOREM SettledAsOwed == ReceivablesSpec => []ReceivablesAgree
<1>1. ReceivablesInv => ReceivablesAgree
  BY DEF ReceivablesInv
<1> QED
  BY <1>1, ReceivablesInvariance, PTL
-----------------------------------------------------------------------------
(* Ledger: what a proposal posts *)

LEMMA QuantizedNat == \A amount \in Nat : Quantized(amount) \in Nat
  BY DEF Quantized

IsGL(k) == k[1] = "GL"
GLKeys(books) == {k \in DOMAIN books : IsGL(k)}

\* The changes that the accounts of valid lines get add up to nothing.
LEMMA ChangesCancel ==
  ASSUME NEW size \in Nat, NEW lines \in [1..size -> ProposedLines], ValidLines(lines),
         NEW keys, keys = {GL(a) : a \in AccountsOf(lines)}
  PROVE  /\ IsFiniteSet(keys) /\ \A k \in keys : Change(lines, k) \in Int
         /\ SumFunctionOnSet([k \in keys |-> Change(lines, k)], keys) = 0
<1> DEFINE N == 1..size
           debit == [n \in N |-> Quantized(lines[n].debit)]
           credit == [n \in N |-> Quantized(lines[n].credit)]
           change == [n \in N |-> Quantized(lines[n].debit) - Quantized(lines[n].credit)]
           group == [n \in N |-> GL(lines[n].account)]
<1>1. DOMAIN lines = N /\ \A n \in N : lines[n].debit \in Nat /\ lines[n].credit \in Nat
  BY DEF ProposedLines
<1>2. IsFiniteSet(N)
  BY FS_Interval
<1>3. \A n \in N : debit[n] \in Int /\ credit[n] \in Int /\ change[n] \in Int /\ debit[n] = change[n] + credit[n]
  <2>1. \A n \in N : Quantized(lines[n].debit) \in Nat /\ Quantized(lines[n].credit) \in Nat
    BY <1>1, QuantizedNat
  <2>2. \A d, c \in Nat : d - c \in Int /\ d = (d - c) + c
    OBVIOUS
  <2> QED
    BY <2>1, <2>2
<1>4. keys = {group[n] : n \in N}
  BY <1>1 DEF AccountsOf
<1>5. IsFiniteSet(keys)
  <2>1. group \in Surjection(N, keys)
    BY <1>4 DEF Surjection
  <2> HIDE DEF N, group
  <2> QED
    BY <1>2, <2>1, FS_Surjection
<1>6. SumFunctionOnSet(debit, N) = SumFunctionOnSet(credit, N)
  BY <1>1 DEF ValidLines, ZeroSum, Side
<1>7. Summable(debit, N) /\ Summable(credit, N) /\ Summable(change, N)
  BY <1>2, <1>3 DEF Summable
<1>8. SumFunctionOnSet(change, N) = 0
  <2>1. SumFunctionOnSet(debit, N) = SumFunctionOnSet(change, N) + SumFunctionOnSet(credit, N)
    <3> HIDE DEF debit, credit, change, N
    <3> QED
      BY <1>3, <1>7, SumPlus
  <2>2. SumFunctionOnSet(change, N) \in Int /\ SumFunctionOnSet(credit, N) \in Int
    <3> HIDE DEF credit, change, N
    <3> QED
      BY <1>7, SumInt
  <2> HIDE DEF debit, credit, change, N
  <2> QED
    BY <1>6, <2>1, <2>2
<1>9. \A k \in keys : Change(lines, k) = SumFunctionOnSet(change, {n \in N : group[n] = k})
  <2>1. \A k : {n \in DOMAIN lines : GL(lines[n].account) = k} = {n \in N : group[n] = k}
    BY <1>1
  <2> QED
    BY <1>1, <2>1 DEF Change
<1>10. SumFunctionOnSet([k \in keys |-> SumFunctionOnSet(change, {n \in N : group[n] = k})], keys) = 0
  <2>1. \A n \in N : group[n] \in keys
    BY <1>4
  <2> HIDE DEF change, group, N
  <2>2. Summable(change, N) /\ IsFiniteSet(keys)
    BY <1>5, <1>7
  <2>3. SumFunctionOnSet([k \in keys |-> SumFunctionOnSet(change, {n \in N : group[n] = k})], keys) = SumFunctionOnSet(change, N)
    BY <2>1, <2>2, SumByGroup
  <2> QED
    BY <1>8, <2>3
<1>11. [k \in keys |-> Change(lines, k)] = [k \in keys |-> SumFunctionOnSet(change, {n \in N : group[n] = k})]
  BY <1>9
<1>12. \A k \in keys : Change(lines, k) \in Int
  <2>1. \A k \in keys : Summable(change, {n \in N : group[n] = k})
    <3> HIDE DEF change, group, N
    <3> QED
      BY <1>7, FS_Subset DEF Summable
  <2>2. \A k \in keys : SumFunctionOnSet(change, {n \in N : group[n] = k}) \in Int
    BY <2>1, SumInt
  <2> QED
    BY <1>9, <2>2
<1> QED
  BY <1>5, <1>10, <1>11, <1>12
-----------------------------------------------------------------------------
(* Ledger: the inductive invariant *)

JournalsOf(put) == {d \in DOMAIN put : d \in Rows("JE")}

\* What is posted to the accounts adds up to nothing, and an event goes with
\* a new journal entry, of which there is at most one.
OnBalance(put, add) ==
  /\ IsFiniteSet(DOMAIN add) /\ \A k \in DOMAIN add : add[k] \in Int
  /\ GLKeys(add) \subseteq DOMAIN sums /\ SumFunctionOnSet(add, GLKeys(add)) = 0
  /\ \A d \in JournalsOf(put) : db[d] = NoRow /\ "status" \in DOMAIN put[d] /\ put[d].status = "LIVE"
  /\ \A d, e \in JournalsOf(put) : d = e
  /\ IF JournalsOf(put) = {} THEN PostedEvents \notin DOMAIN add
     ELSE PostedEvents \in DOMAIN add /\ add[PostedEvents] = 1

PostsJournal(r) == IsRequest(r) /\ OnBalance(r.put, r.add)

JournalsApart ==
  \A s, t \in Sessions :
    s # t /\ req[s] # Idle /\ req[t] # Idle => JournalsOf(req[s].put) \cap JournalsOf(req[t].put) = {}

LedgerInv ==
  /\ LedgerComplete /\ LedgerBalances /\ JournalsApart
  /\ \A s \in Sessions : req[s] # Idle => PostsJournal(req[s])

LEMMA FreshIsApart ==
  \A d \in DOMAIN db : Fresh(d) => db[d] = NoRow /\ \A s \in Sessions : req[s] # Idle => d \notin DOMAIN req[s].put
  BY DEF Fresh, Used

LEMMA EventIsNoAccount == ~IsGL(PostedEvents) /\ \A a : IsGL(GL(a))
  BY DEF IsGL, PostedEvents, GL

\* A commit posts what the request has staged to the books.
LEMMA CommitPostsBooks ==
  ASSUME NEW s \in Sessions, Commit(s)
  PROVE  /\ DOMAIN sums' = DOMAIN sums
         /\ \A k \in DOMAIN sums : sums'[k] = sums[k] + (IF k \in DOMAIN req[s].add THEN req[s].add[k] ELSE 0)
         /\ Sessions' = Sessions /\ req'[s] = Idle /\ req[s] # Idle
         /\ \A t \in Sessions \ {s} : req'[t] = req[t]
         /\ DOMAIN db' = DOMAIN db
         /\ \A d \in DOMAIN db \ DOMAIN req[s].put : db'[d] = db[d]
         /\ \A d \in DOMAIN db \cap DOMAIN req[s].put :
              /\ DOMAIN db'[d] = DOMAIN req[s].put[d] \cup DOMAIN db[d]
              /\ \A c \in DOMAIN req[s].put[d] : db'[d][c] = req[s].put[d][c]
              /\ \A c \in DOMAIN db[d] \ DOMAIN req[s].put[d] : db'[d][c] = db[d][c]
<1>1. req[s] # Idle /\ Lockable(s, DOMAIN req[s].put) /\ CommitAnd(s, Idle)
  BY DEF Commit, At, Free
<1>2. /\ DOMAIN sums' = DOMAIN sums
      /\ \A k \in DOMAIN sums : sums'[k] = sums[k] + (IF k \in DOMAIN req[s].add THEN req[s].add[k] ELSE 0)
  BY <1>1 DEF CommitAnd
<1>3. req[s] # Idle
  BY <1>1
<1> HIDE DEF Sessions
<1> QED
  BY <1>1, <1>2, <1>3, CommitAndIsOne

\* What a request posts keeps the sum of the accounts.
LEMMA CommitBalances ==
  ASSUME NEW s \in Sessions, Commit(s), LedgerComplete, PostsJournal(req[s])
  PROVE  SumFunctionOnSet(sums', GLKeys(sums')) = SumFunctionOnSet(sums, GLKeys(sums))
<1> DEFINE r == req[s]
           K == GLKeys(sums)
           posted == [k \in K |-> IF k \in DOMAIN r.add THEN r.add[k] ELSE 0]
<1>1. IsFiniteSet(K) /\ Summable(sums, K)
  BY FS_Subset DEF LedgerComplete, Summable, GLKeys
<1>2. IsFiniteSet(GLKeys(r.add)) /\ Summable(r.add, GLKeys(r.add)) /\ GLKeys(r.add) \subseteq K
  BY FS_Subset DEF PostsJournal, OnBalance, Summable, GLKeys
<1>3. GLKeys(sums') = K
  BY CommitPostsBooks DEF GLKeys
<1>4. Summable(posted, K)
  <2>1. \A k \in K : posted[k] \in Int
    <3>1. \A k \in DOMAIN r.add : r.add[k] \in Int
      BY DEF PostsJournal, OnBalance
    <3> QED
      BY <3>1
  <2> HIDE DEF posted, K
  <2> QED
    BY <1>1, <2>1 DEF Summable
<1>5. \A k \in K : sums'[k] = sums[k] + posted[k]
  BY CommitPostsBooks DEF GLKeys
<1>6. SumFunctionOnSet(sums', K) = SumFunctionOnSet(sums, K) + SumFunctionOnSet(posted, K)
  <2>1. PICK after : after = sums'
    OBVIOUS
  <2> HIDE DEF posted, K
  <2>2. SumFunctionOnSet(after, K) = SumFunctionOnSet(sums, K) + SumFunctionOnSet(posted, K)
    BY <1>1, <1>4, <1>5, <2>1, SumPlus
  <2> QED
    BY <2>1, <2>2
<1>7. SumFunctionOnSet(posted, K) = SumFunctionOnSet(posted, GLKeys(r.add))
  <2>1. \A k \in K \ GLKeys(r.add) : posted[k] = 0
    BY DEF GLKeys
  <2> HIDE DEF posted, K
  <2> QED
    BY <1>2, <1>4, <2>1, SumWithin
<1>8. SumFunctionOnSet(posted, GLKeys(r.add)) = SumFunctionOnSet(r.add, GLKeys(r.add))
  <2>1. \A k \in GLKeys(r.add) : posted[k] = r.add[k]
    BY <1>2 DEF GLKeys
  <2> HIDE DEF posted, K
  <2> QED
    BY <1>2, <2>1, SumEqual
<1>9. SumFunctionOnSet(r.add, GLKeys(r.add)) = 0
  BY DEF PostsJournal, OnBalance
<1>10. SumFunctionOnSet(sums, K) \in Int
  BY <1>1, SumInt
<1> HIDE DEF posted, K
<1>11. SumFunctionOnSet(sums', K) = SumFunctionOnSet(sums, K)
  BY <1>6, <1>7, <1>8, <1>9, <1>10
<1> QED
  BY <1>3, <1>11 DEF K

\* The event of a posting is enqueued with it.
LEMMA CommitCounts ==
  ASSUME NEW s \in Sessions, Commit(s), LedgerComplete, PostsJournal(req[s]),
         Book(PostedEvents) = Cardinality(Live("JE"))
  PROVE  Book(PostedEvents)' = Cardinality(Live("JE")')
<1> DEFINE r == req[s]
<1>1. Rows("JE")' = Rows("JE") /\ Live("JE")' = {d \in Rows("JE") : db'[d] # NoRow}
  BY CommitPostsBooks DEF Live, Rows
<1>2. IsFiniteSet(Live("JE")) /\ Cardinality(Live("JE")) \in Nat
  BY FS_Subset, FS_CardinalityType DEF LedgerComplete, Live, Rows
<1>3. \A d \in Rows("JE") \ JournalsOf(r.put) : db'[d] = db[d]
  BY CommitPostsBooks DEF JournalsOf, Rows
<1>4. PostedEvents \in DOMAIN sums /\ sums[PostedEvents] = Cardinality(Live("JE"))
  BY DEF LedgerComplete, Book
<1>5. Book(PostedEvents)' = sums'[PostedEvents]
  BY <1>4, CommitPostsBooks DEF Book
<1>6. CASE JournalsOf(r.put) = {}
  <2>1. PostedEvents \notin DOMAIN r.add
    BY <1>6 DEF PostsJournal, OnBalance
  <2>2. sums'[PostedEvents] = sums[PostedEvents]
    BY <1>2, <1>4, <2>1, CommitPostsBooks
  <2>3. Live("JE")' = Live("JE")
    BY <1>1, <1>3, <1>6 DEF Live
  <2> QED
    BY <1>4, <1>5, <2>2, <2>3
<1>7. CASE JournalsOf(r.put) # {}
  <2>1. PICK je \in JournalsOf(r.put) : TRUE
    BY <1>7
  <2>2. JournalsOf(r.put) = {je} /\ je \in Rows("JE") /\ je \in DOMAIN r.put
    BY <2>1 DEF PostsJournal, OnBalance, JournalsOf
  <2>3. db[je] = NoRow /\ "status" \in DOMAIN r.put[je] /\ r.put[je].status = "LIVE"
    BY <2>1 DEF PostsJournal, OnBalance
  <2>4. db'[je] # NoRow
    <3>1. db'[je].status = "LIVE"
      BY <2>2, <2>3, CommitPostsBooks DEF Rows
    <3> QED
      BY <3>1, NoRowColumns
  <2>5. Live("JE")' = Live("JE") \cup {je} /\ je \notin Live("JE")
    BY <1>1, <1>3, <2>2, <2>3, <2>4 DEF Live
  <2>6. Cardinality(Live("JE") \cup {je}) = Cardinality(Live("JE")) + 1
    BY <1>2, <2>5, FS_AddElement
  <2>7. PostedEvents \in DOMAIN r.add /\ r.add[PostedEvents] = 1
    BY <1>7 DEF PostsJournal, OnBalance
  <2>8. sums'[PostedEvents] = sums[PostedEvents] + 1
    BY <1>4, <2>7, CommitPostsBooks
  <2> QED
    BY <1>4, <1>5, <2>5, <2>6, <2>8
<1> QED
  BY <1>6, <1>7

LEMMA CommitKeepsBooks ==
  ASSUME NEW s \in Sessions, Commit(s), LedgerComplete, PostsJournal(req[s])
  PROVE  LedgerComplete'
<1>1. \A k \in DOMAIN req[s].add : req[s].add[k] \in Int
  BY DEF PostsJournal, OnBalance
<1>2. \A k \in DOMAIN sums : sums[k] \in Int
  BY DEF LedgerComplete
<1>3. \A k \in DOMAIN sums : sums'[k] \in Int
  BY <1>1, <1>2, CommitPostsBooks
<1>4. DOMAIN sums' = DOMAIN sums /\ DOMAIN db' = DOMAIN db /\ Rows("GLACC")' = Rows("GLACC")
  BY CommitPostsBooks DEF Rows
<1> QED
  BY <1>3, <1>4 DEF LedgerComplete

LEMMA CommitKeepsLedger ==
  ASSUME NEW s \in Sessions, Commit(s), LedgerInv
  PROVE  LedgerInv'
<1> HIDE DEF Sessions
<1>1. LedgerComplete /\ PostsJournal(req[s]) /\ req[s] # Idle
  BY CommitPostsBooks DEF LedgerInv
<1>2. LedgerComplete'
  BY <1>1, CommitKeepsBooks
<1>3. Rows("JE")' = Rows("JE") /\ DOMAIN sums' = DOMAIN sums
  BY CommitPostsBooks DEF Rows
<1>4. LedgerBalances'
  <2>1. SUFFICES ASSUME Rows("JE") # {}
                PROVE  /\ SumFunctionOnSet(sums, {k \in DOMAIN sums : k[1] = "GL"})' = 0
                       /\ Book(PostedEvents)' = Cardinality(Live("JE")')
    BY <1>3 DEF LedgerBalances
  <2>2. SumFunctionOnSet(sums, GLKeys(sums)) = 0 /\ Book(PostedEvents) = Cardinality(Live("JE"))
    BY <2>1 DEF LedgerInv, LedgerBalances, GLKeys, IsGL
  <2>3. SumFunctionOnSet(sums', GLKeys(sums')) = 0
    BY <1>1, <2>2, CommitBalances
  <2>4. Book(PostedEvents)' = Cardinality(Live("JE")')
    BY <1>1, <2>2, CommitCounts
  <2> QED
    BY <2>3, <2>4 DEF GLKeys, IsGL
<1>5. ASSUME NEW t \in Sessions', req'[t] # Idle
      PROVE  t \in Sessions /\ t # s /\ req'[t] = req[t] /\ req[t] # Idle
  BY <1>5, CommitPostsBooks
<1>6. ASSUME NEW t \in Sessions', req'[t] # Idle
      PROVE  JournalsOf(req[t].put)' = JournalsOf(req[t].put)
  BY <1>3, <1>5, <1>6 DEF JournalsOf
<1>7. JournalsApart'
  BY <1>5, <1>6 DEF JournalsApart, LedgerInv
<1>8. ASSUME NEW t \in Sessions', req'[t] # Idle
      PROVE  PostsJournal(req[t])'
  <2>1. t \in Sessions /\ t # s /\ req'[t] = req[t] /\ req[t] # Idle
    BY <1>5, <1>8
  <2>2. PostsJournal(req[t])
    BY <2>1 DEF LedgerInv
  <2>3. JournalsOf(req[t].put)' = JournalsOf(req[t].put)
    BY <1>6, <1>8
  <2>4. \A d \in JournalsOf(req[t].put) : db'[d] = db[d]
    <3>1. JournalsOf(req[s].put) \cap JournalsOf(req[t].put) = {}
      BY <1>1, <2>1 DEF LedgerInv, JournalsApart
    <3> QED
      BY <3>1, CommitPostsBooks DEF JournalsOf, Rows
  <2> QED
    BY <1>3, <2>1, <2>2, <2>3, <2>4 DEF PostsJournal, OnBalance, IsRequest, GLKeys
<1> QED
  BY <1>2, <1>4, <1>7, <1>8 DEF LedgerInv

-----------------------------------------------------------------------------
(* Ledger: the handlers *)

LEMMA RollbackKeepsLedger ==
  ASSUME NEW s \in Sessions, Rollback(s), LedgerInv
  PROVE  LedgerInv'
<1>1. db' = db /\ sums' = sums /\ req' = [req EXCEPT ![s] = Idle] /\ Sessions' = Sessions
  BY DEF Rollback, Sessions
<1>2. \A t \in Sessions : req'[t] # Idle => req'[t] = req[t] /\ req[t] # Idle
  BY <1>1 DEF Sessions
<1>3. \A put : JournalsOf(put)' = JournalsOf(put)
  BY <1>1 DEF JournalsOf, Rows
<1>4. \A r : PostsJournal(r) => PostsJournal(r)'
  <2>1. \A put, add : OnBalance(put, add) => OnBalance(put, add)'
    BY <1>1, <1>3 DEF OnBalance
  <2> QED
    BY <2>1 DEF PostsJournal
<1> HIDE DEF Sessions
<1>5. LedgerComplete' /\ LedgerBalances'
  BY <1>1 DEF LedgerInv, LedgerComplete, LedgerBalances, Book, Live, Rows
<1>6. JournalsApart'
  BY <1>1, <1>2, <1>3 DEF LedgerInv, JournalsApart
<1>7. \A t \in Sessions : req'[t] # Idle => PostsJournal(req'[t])
  BY <1>2 DEF LedgerInv
<1>8. \A t \in Sessions' : (req[t])' # Idle => PostsJournal(req[t])'
  BY <1>1, <1>4, <1>7
<1> QED
  BY <1>5, <1>6, <1>8 DEF LedgerInv

\* A balanced posting whose rows nobody else has taken may be staged.
LEMMA StagePosting ==
  ASSUME NEW s \in Sessions, NEW put, NEW add, Stage(s, put, add, {}), LedgerInv,
         OnBalance(put, add), \A d \in JournalsOf(put) : Fresh(d)
  PROVE  LedgerInv'
<1>1. db' = db /\ sums' = sums /\ Sessions' = Sessions
  BY DEF Stage, Sessions
<1>2. req'[s] = Request(put, add, {}, [op |-> "commit"]) /\ \A t \in Sessions \ {s} : req'[t] = req[t]
  BY DEF Stage, Sessions
<1> HIDE DEF Sessions
<1>3. IsRequest(req'[s]) /\ req'[s].put = Staged(put) /\ req'[s].add = add
  BY <1>2 DEF Request, IsRequest, Staged
<1>4. DOMAIN Staged(put) = DOMAIN put
  BY DEF Staged
<1>5. \A p : JournalsOf(p)' = JournalsOf(p)
  BY <1>1 DEF JournalsOf, Rows
<1>6. JournalsOf(Staged(put)) = JournalsOf(put)
  BY <1>4 DEF JournalsOf
<1>7. OnBalance(Staged(put), add)
  <2>1. ASSUME NEW d \in JournalsOf(put)
        PROVE  "status" \in DOMAIN Staged(put)[d] /\ Staged(put)[d].status = "LIVE"
    <3>1. db[d] = NoRow /\ "status" \in DOMAIN put[d] /\ put[d].status = "LIVE" /\ d \in DOMAIN put
      BY DEF OnBalance, JournalsOf
    <3> QED
      BY <3>1, StagedColumns, NoRowColumns
  <2> QED
    BY <1>6, <2>1 DEF OnBalance
<1>8. \A p, a : OnBalance(p, a) => OnBalance(p, a)'
  BY <1>1, <1>5 DEF OnBalance
<1>9. LedgerComplete' /\ LedgerBalances'
  BY <1>1 DEF LedgerInv, LedgerComplete, LedgerBalances, Book, Live, Rows
<1>10. \A t \in Sessions \ {s} : req[t] # Idle => JournalsOf(req[t].put) \cap JournalsOf(put) = {}
  BY FreshIsApart DEF JournalsOf, Rows
<1>11. JournalsApart'
  <2>1. SUFFICES ASSUME NEW t \in Sessions, NEW u \in Sessions, t # u, req'[t] # Idle, req'[u] # Idle
                 PROVE  JournalsOf(req'[t].put) \cap JournalsOf(req'[u].put) = {}
    BY <1>1, <1>5 DEF JournalsApart
  <2>2. CASE t # s /\ u # s
    BY <1>2, <2>1, <2>2 DEF LedgerInv, JournalsApart
  <2>3. CASE t = s
    BY <1>2, <1>3, <1>6, <1>10, <2>1, <2>3
  <2>4. CASE u = s
    BY <1>2, <1>3, <1>6, <1>10, <2>1, <2>4
  <2> QED
    BY <2>2, <2>3, <2>4
<1>12. \A r : PostsJournal(r) => PostsJournal(r)'
  BY <1>8 DEF PostsJournal
<1>13. \A t \in Sessions : req'[t] # Idle => PostsJournal(req'[t])
  BY <1>2, <1>3, <1>7 DEF LedgerInv, PostsJournal
<1>14. \A t \in Sessions' : (req[t])' # Idle => PostsJournal(req[t])'
  BY <1>1, <1>12, <1>13
<1> QED
  BY <1>9, <1>11, <1>14 DEF LedgerInv

LEMMA CommitTransactionStep ==
  ASSUME NEW s \in Sessions, NEW je \in Rows("JE"), NEW audit \in Rows("AUDIT"), NEW approved,
         NEW size \in Nat, NEW lines \in [1..size -> ProposedLines],
         Fresh(je), CommitTransaction(s, je, audit, lines, approved), LedgerInv
  PROVE  LedgerInv'
<1> DEFINE accounts == [a \in AccountsOf(lines) |-> [status |-> "ACTIVE"]]
           block == Block(audit)
           put == accounts @@ je :> [status |-> "LIVE"] @@ block
           keys == {GL(a) : a \in AccountsOf(lines)}
           change == [k \in keys |-> Change(lines, k)]
           add == change @@ PostedEvents :> 1
<1> HIDE DEF Sessions
<1>1. ValidLines(lines) /\ Stage(s, put, add, {})
  BY DEF CommitTransaction
<1>2. AccountsOf(lines) \subseteq Rows("GLACC")
  BY DEF AccountsOf, ProposedLines
<1>3. /\ IsFiniteSet(keys) /\ \A k \in keys : Change(lines, k) \in Int
      /\ SumFunctionOnSet([k \in keys |-> Change(lines, k)], keys) = 0
  <2>1. PICK K : K = keys
    OBVIOUS
  <2> HIDE DEF keys
  <2>2. K = {GL(a) : a \in AccountsOf(lines)}
    BY <2>1 DEF keys
  <2>3. /\ IsFiniteSet(K) /\ \A k \in K : Change(lines, k) \in Int
        /\ SumFunctionOnSet([k \in K |-> Change(lines, k)], K) = 0
    BY <1>1, <2>2, ChangesCancel
  <2> QED
    BY <2>1, <2>3
<1>4. DOMAIN add = keys \cup {PostedEvents} /\ PostedEvents \notin keys
  <2>1. PostedEvents \notin keys
    BY EventIsNoAccount
  <2>2. DOMAIN change = keys
    OBVIOUS
  <2> HIDE DEF change
  <2> QED
    BY <2>1, <2>2, OneRow DEF @@
<1>5. (\A k \in keys : add[k] = change[k]) /\ add[PostedEvents] = 1
  <2>1. DOMAIN change = keys
    OBVIOUS
  <2>2. PostedEvents \notin keys
    BY <1>4
  <2> HIDE DEF change, keys
  <2> QED
    BY <2>1, <2>2, OneRow DEF @@
<1>6. GLKeys(add) = keys
  <2>1. \A k \in keys : IsGL(k)
    BY EventIsNoAccount
  <2> HIDE DEF add, keys
  <2> QED
    BY <1>4, <2>1, EventIsNoAccount DEF GLKeys
<1>7. SumFunctionOnSet(add, GLKeys(add)) = 0
  <2> HIDE DEF add, keys
  <2>1. SumFunctionOnSet(add, keys) = SumFunctionOnSet(change, keys)
    <3> HIDE DEF change
    <3> QED
      BY <1>3, <1>5, SumEqual
  <2> QED
    BY <1>3, <1>6, <2>1
<1>8. IsFiniteSet(DOMAIN add) /\ \A k \in DOMAIN add : add[k] \in Int
  <2>1. \A k \in keys : change[k] \in Int
    BY <1>3
  <2> HIDE DEF add, keys, change
  <2> QED
    BY <1>3, <1>4, <1>5, <2>1, FS_AddElement
<1>9. GLKeys(add) \subseteq DOMAIN sums
  BY <1>2, <1>6 DEF LedgerInv, LedgerComplete
<1>10. DOMAIN put = AccountsOf(lines) \cup {je, audit} /\ (je \notin AccountsOf(lines) => put[je] = [status |-> "LIVE"])
  <2>1. DOMAIN accounts = AccountsOf(lines)
    OBVIOUS
  <2>2. DOMAIN block = {audit}
    BY OneRow DEF Block
  <2>3. PICK row : row = [status |-> "LIVE"]
    OBVIOUS
  <2> HIDE DEF accounts, block
  <2>4. PICK entry : entry = je :> row
    OBVIOUS
  <2>5. DOMAIN entry = {je} /\ entry[je] = row
    BY <2>4, OneRow
  <2>6. /\ DOMAIN (accounts @@ entry @@ block) = AccountsOf(lines) \cup {je, audit}
        /\ je \notin AccountsOf(lines) => (accounts @@ entry @@ block)[je] = row
    BY <2>1, <2>2, <2>5 DEF @@
  <2> QED
    BY <2>3, <2>4, <2>6
<1>11. JournalsOf(put) = {je}
  <2>1. audit \notin Rows("JE") /\ AccountsOf(lines) \cap Rows("JE") = {}
    BY <1>2 DEF Rows
  <2> HIDE DEF put
  <2> QED
    BY <1>10, <2>1 DEF JournalsOf
<1>12. db[je] = NoRow /\ put[je] = [status |-> "LIVE"]
  <2>1. je \notin AccountsOf(lines)
    BY <1>2 DEF Rows
  <2>2. je \in DOMAIN db
    BY DEF Rows
  <2> HIDE DEF put
  <2> QED
    BY <1>10, <2>1, <2>2, FreshIsNew
<1>13. OnBalance(put, add)
  <2>1. PICK row : row = [status |-> "LIVE"]
    OBVIOUS
  <2>2. "status" \in DOMAIN row /\ row.status = "LIVE"
    BY <2>1
  <2> HIDE DEF put, add
  <2>3. "status" \in DOMAIN put[je] /\ put[je].status = "LIVE"
    BY <1>12, <2>1, <2>2
  <2>4. PostedEvents \in DOMAIN add /\ add[PostedEvents] = 1
    BY <1>4, <1>5
  <2> QED
    BY <1>7, <1>8, <1>9, <1>11, <1>12, <2>3, <2>4 DEF OnBalance
<1> HIDE DEF put, add
<1> QED
  BY <1>1, <1>11, <1>13, StagePosting

LEMMA LogAgentActionStep ==
  ASSUME NEW s \in Sessions, NEW audit \in Rows("AUDIT"), LogAgentAction(s, audit), LedgerInv
  PROVE  LedgerInv'
<1> DEFINE put == Block(audit)
<1> HIDE DEF Sessions
<1>1. Stage(s, put, Nothing, {})
  BY DEF LogAgentAction
<1>2. DOMAIN put = {audit}
  BY OneRow DEF Block
<1>3. JournalsOf(put) = {}
  <2> HIDE DEF put
  <2> QED
    BY <1>2 DEF JournalsOf, Rows
<1>4. GLKeys(Nothing) = {} /\ SumFunctionOnSet(Nothing, {}) = 0
  BY NothingIsEmpty, SumEmpty DEF GLKeys
<1>5. OnBalance(put, Nothing)
  <2> HIDE DEF put
  <2> QED
    BY <1>3, <1>4, NothingIsEmpty, FS_EmptySet DEF OnBalance
<1> HIDE DEF put
<1> QED
  BY <1>1, <1>3, <1>5, StagePosting

\* A step of a request: it ends, posts a proposal or logs an action.
LedgerStep(s) ==
  \/ EndOfRequest(s)
  \/ \E je \in Rows("JE"), audit \in Rows("AUDIT"), size \in Nat, approved \in BOOLEAN :
       /\ Fresh(je) /\ Fresh(audit)
       /\ \E lines \in [1..size -> ProposedLines] : CommitTransaction(s, je, audit, lines, approved)
  \/ \E audit \in Rows("AUDIT") : Fresh(audit) /\ LogAgentAction(s, audit)

LEMMA LedgerUnchanged ==
  ASSUME UNCHANGED vars, LedgerInv
  PROVE  LedgerInv'
<1>1. db' = db /\ sums' = sums /\ req' = req
  BY DEF vars
<1>2. \A put : JournalsOf(put)' = JournalsOf(put)
  BY <1>1 DEF JournalsOf, Rows
<1>3. \A put, add : OnBalance(put, add)' = OnBalance(put, add)
  BY <1>1, <1>2 DEF OnBalance
<1>4. \A r : PostsJournal(r)' = PostsJournal(r)
  BY <1>3 DEF PostsJournal
<1>5. LedgerComplete' /\ LedgerBalances'
  BY <1>1 DEF LedgerInv, LedgerComplete, LedgerBalances, Book, Live, Rows
<1> QED
  BY <1>1, <1>2, <1>4, <1>5 DEF LedgerInv, JournalsApart, Sessions

\* However postings of any lines overlap, a request in progress has staged
\* changes that cancel out over the accounts, and an event for its entry.
THEOREM LedgerInvariance == LedgerSpec => []LedgerInv
<1> DEFINE Step == \E s \in Sessions : LedgerStep(s)
           Init == LedgerComplete /\ ChainedInOrder /\ LedgerBalances /\ \A s \in Sessions : Free(s)
<1>1. Init => LedgerInv
  BY DEF LedgerInv, JournalsApart, Free
<1>2. ASSUME LedgerInv, [Step]_vars
      PROVE  LedgerInv'
  <2>1. CASE UNCHANGED vars
    BY <1>2, <2>1, LedgerUnchanged
  <2>2. CASE Step
    <3> HIDE DEF Sessions
    <3>1. PICK s \in Sessions : LedgerStep(s)
      BY <2>2
    <3>2. CASE EndOfRequest(s)
      BY <1>2, <3>2, CommitKeepsLedger, RollbackKeepsLedger DEF EndOfRequest
    <3>3. ASSUME NEW je \in Rows("JE"), NEW audit \in Rows("AUDIT"), NEW size \in Nat, NEW approved \in BOOLEAN,
                 NEW lines \in [1..size -> ProposedLines], Fresh(je), CommitTransaction(s, je, audit, lines, approved)
          PROVE  LedgerInv'
      BY <1>2, <3>3, CommitTransactionStep
    <3>4. ASSUME NEW audit \in Rows("AUDIT"), LogAgentAction(s, audit)
          PROVE  LedgerInv'
      BY <1>2, <3>4, LogAgentActionStep
    <3> QED
      BY <3>1, <3>2, <3>3, <3>4 DEF LedgerStep
  <2> QED
    BY <1>2, <2>1, <2>2
<1>3. LedgerSpec => Init /\ [][Step]_vars
  BY DEF LedgerSpec, LedgerStep
<1> HIDE DEF Init, Step
<1> QED
  BY <1>1, <1>2, <1>3, PTL

\* The stored ledger balances over all accounts and every posting has its
\* event, for any number of overlapping postings of any lines.
THEOREM BooksBalance == LedgerSpec => []LedgerBalances
<1>1. LedgerInv => LedgerBalances
  BY DEF LedgerInv
<1> QED
  BY <1>1, LedgerInvariance, PTL

-----------------------------------------------------------------------------
(* Ledger: the audit log of one request after the other *)

BlocksOf(put) == {d \in DOMAIN put : d \in Rows("AUDIT")}
NumberedBlocks == Rows("AUDIT") \subseteq {"AUDIT"} \X Nat
LowerLive(audit) == \A a \in Rows("AUDIT") : a[2] < audit[2] => a \in Live("AUDIT")

\* A request writes at most one block, the next one, chained to the latest.
ContinuesLog(put) ==
  /\ \A d \in BlocksOf(put) :
       /\ db[d] = NoRow /\ {"status", "prev"} \subseteq DOMAIN put[d] /\ put[d].status = "LIVE"
       /\ Continues(d, put[d].prev) /\ LowerLive(d)
  /\ \A d, e \in BlocksOf(put) : d = e

ChainInv ==
  /\ OneSession /\ IsFiniteSet(DOMAIN db) /\ ChainedInOrder
  /\ \A s \in Sessions : req[s] # Idle => ContinuesLog(req[s].put)

\* Blocks are numbered apart.
LEMMA BlockNumbers ==
  ASSUME NumberedBlocks
  PROVE  /\ \A a \in Rows("AUDIT") : a[2] \in Nat
         /\ \A a, b \in Rows("AUDIT") : a[2] = b[2] => a = b
         /\ NoRef \notin Live("AUDIT") /\ Live("AUDIT") \subseteq Rows("AUDIT")
<1>1. \A a, b \in {"AUDIT"} \X Nat : a[2] \in Nat /\ (a[2] = b[2] => a = b)
  OBVIOUS
<1>2. NoRef \notin Live("AUDIT") /\ Live("AUDIT") \subseteq Rows("AUDIT")
  BY DEF NoRef, Live, Rows
<1> QED
  BY <1>1, <1>2 DEF NumberedBlocks

LEMMA LatestIsLast ==
  ASSUME NumberedBlocks, IsFiniteSet(DOMAIN db), Live("AUDIT") # {}
  PROVE  LatestBlock \in Live("AUDIT") /\ \A b \in Live("AUDIT") : LatestBlock[2] >= b[2]
<1> DEFINE S == Live("AUDIT")
           up(a) == {b \in S : b[2] >= a[2]}
           C == {up(a) : a \in S}
<1>1. IsFiniteSet(S)
  BY FS_Subset DEF Live, Rows
<1>2. C \subseteq SUBSET S /\ C # {}
  OBVIOUS
<1>3. PICK T \in C : \A U \in C : U \subseteq T => U = T
  <2> HIDE DEF C, S
  <2> QED
    BY <1>1, <1>2, LeastSubset
<1>4. PICK a \in S : T = up(a)
  OBVIOUS
<1>5. \A b \in S : b[2] \in Nat
  BY BlockNumbers
<1>6. ASSUME NEW b \in S
      PROVE  a[2] >= b[2]
  <2>1. SUFFICES ASSUME b[2] > a[2] PROVE FALSE
    BY <1>5
  <2>2. up(b) \subseteq up(a)
    BY <1>5, <2>1
  <2>3. up(b) = up(a)
    BY <1>3, <1>4, <2>2
  <2>4. a \in up(a)
    BY <1>5
  <2>5. a \in up(b)
    BY <2>3, <2>4
  <2> QED
    BY <1>5, <2>1, <2>5
<1>7. \E e \in Live("AUDIT") : \A b \in Live("AUDIT") : e[2] >= b[2]
  BY <1>6
<1> QED
  BY <1>7 DEF LatestBlock

\* A chain in the order of the clock has no fork.
LEMMA InOrderIsChain ==
  ASSUME ChainedInOrder
  PROVE  AuditChained
<1>1. NumberedBlocks
  BY DEF ChainedInOrder, NumberedBlocks
<1>2. ASSUME NEW a \in Live("AUDIT"), NEW b \in Live("AUDIT"), a[2] < b[2], db[a].prev = db[b].prev
      PROVE  FALSE
  <2> DEFINE prev == db[b].prev
  <2>1. Continues(a, prev) /\ Continues(b, prev)
    BY <1>2 DEF ChainedInOrder
  <2>2. a[2] \in Nat /\ b[2] \in Nat
    BY <1>1, BlockNumbers
  <2> HIDE DEF prev
  <2>3. prev \in Live("AUDIT") /\ a[2] <= prev[2]
    BY <1>2, <2>1, <2>2 DEF Continues
  <2>4. prev[2] < a[2] /\ prev[2] \in Nat
    BY <1>1, <2>1, <2>3, BlockNumbers DEF Continues
  <2> QED
    BY <2>2, <2>3, <2>4
<1>3. SUFFICES ASSUME NEW a \in Live("AUDIT"), NEW b \in Live("AUDIT"), a # b, db[a].prev = db[b].prev
              PROVE  FALSE
  BY DEF AuditChained
<1>4. a[2] \in Nat /\ b[2] \in Nat /\ a[2] # b[2]
  BY <1>1, <1>3, BlockNumbers
<1>5. a[2] < b[2] \/ b[2] < a[2]
  BY <1>4
<1> QED
  BY <1>2, <1>3, <1>5

LEMMA CommitKeepsChain ==
  ASSUME NEW s \in Sessions, Commit(s), ChainInv
  PROVE  ChainInv'
<1> HIDE DEF Sessions
<1> DEFINE put == req[s].put
<1>1. /\ Sessions' = Sessions /\ DOMAIN db' = DOMAIN db /\ Rows("AUDIT")' = Rows("AUDIT")
      /\ req'[s] = Idle /\ \A t \in Sessions : t = s
  BY CommitPostsBooks DEF Rows, ChainInv, OneSession
<1>2. OneSession' /\ IsFiniteSet(DOMAIN db)' /\ \A t \in Sessions' : (req[t])' = Idle
  BY <1>1 DEF OneSession, ChainInv
<1>3. ContinuesLog(put) /\ ChainedInOrder /\ NumberedBlocks
  BY CommitPostsBooks DEF ChainInv, ChainedInOrder, NumberedBlocks
<1>4. \A d \in Rows("AUDIT") \ BlocksOf(put) : db'[d] = db[d]
  BY CommitPostsBooks DEF BlocksOf, Rows
<1>5. Live("AUDIT")' = {d \in Rows("AUDIT") : db'[d] # NoRow}
  BY <1>1 DEF Live
<1>6. CASE BlocksOf(put) = {}
  <2>1. Live("AUDIT")' = Live("AUDIT") /\ \A d \in Live("AUDIT") : db'[d] = db[d]
    BY <1>4, <1>5, <1>6 DEF Live
  <2>2. ChainedInOrder'
    BY <1>1, <1>3, <2>1 DEF ChainedInOrder, Continues
  <2> QED
    BY <1>2, <2>2 DEF ChainInv
<1>7. CASE BlocksOf(put) # {}
  <2>1. PICK new \in BlocksOf(put) : TRUE
    BY <1>7
  <2>2. BlocksOf(put) = {new} /\ new \in Rows("AUDIT") /\ new \in DOMAIN put /\ new \in DOMAIN db
    BY <1>3, <2>1 DEF ContinuesLog, BlocksOf, Rows
  <2>3. /\ db[new] = NoRow /\ {"status", "prev"} \subseteq DOMAIN put[new] /\ put[new].status = "LIVE"
        /\ Continues(new, put[new].prev) /\ LowerLive(new)
    BY <1>3, <2>1 DEF ContinuesLog
  <2>4. db'[new].status = "LIVE" /\ "prev" \in DOMAIN db'[new] /\ db'[new].prev = put[new].prev
    BY <2>2, <2>3, CommitPostsBooks
  <2>5. db'[new] # NoRow
    BY <2>4, NoRowColumns
  <2>6. Live("AUDIT")' = Live("AUDIT") \cup {new} /\ new \notin Live("AUDIT")
    BY <1>4, <1>5, <2>2, <2>3, <2>5 DEF Live
  <2>7. \A a \in Live("AUDIT") : db'[a] = db[a]
    BY <1>4, <2>2, <2>6 DEF Live
  <2>8. \A a \in Rows("AUDIT") : a[2] \in Nat
    BY <1>3, BlockNumbers
  <2>9. Live("AUDIT") \subseteq Rows("AUDIT")
    BY DEF Live
  <2>10. \A a \in Live("AUDIT") : new[2] >= a[2]
    <3>1. SUFFICES ASSUME NEW a \in Live("AUDIT"), new[2] < a[2] PROVE FALSE
      BY <2>2, <2>8, <2>9
    <3>2. new \in Live("AUDIT")
      BY <1>3, <2>2, <3>1 DEF ChainedInOrder
    <3> QED
      BY <2>6, <3>2
  <2>11. ASSUME NEW a \in Live("AUDIT") \cup {new}
         PROVE  /\ "prev" \in DOMAIN db'[a] /\ Continues(a, db'[a].prev)
                /\ LowerLive(a)
    <3>1. CASE a = new
      BY <2>3, <2>4, <3>1
    <3>2. CASE a \in Live("AUDIT")
      BY <1>3, <2>7, <3>2 DEF ChainedInOrder, LowerLive
    <3> QED
      BY <3>1, <3>2
  <2>12. ASSUME NEW a \in Live("AUDIT") \cup {new}, NEW prev, Continues(a, prev)
         PROVE  Continues(a, prev)'
    <3>1. new[2] >= a[2]
      BY <2>2, <2>8, <2>10
    <3> QED
      BY <2>6, <2>12, <3>1 DEF Continues
  <2>13. ASSUME NEW a \in Live("AUDIT") \cup {new}
         PROVE  "prev" \in DOMAIN (db[a])' /\ Continues(a, db[a].prev)'
    <3>1. PICK p : p = db'[a].prev
      OBVIOUS
    <3>2. Continues(a, p)'
      BY <2>11, <2>12, <3>1
    <3> QED
      BY <2>11, <3>1, <3>2
  <2>14. ChainedInOrder'
    BY <1>1, <1>3, <2>6, <2>11, <2>13 DEF ChainedInOrder, LowerLive
  <2> QED
    BY <1>2, <2>14 DEF ChainInv
<1> QED
  BY <1>6, <1>7

\* The next block of the log, staged by the only request.
LEMMA StageNextBlock ==
  ASSUME NEW s \in Sessions, NEW put, NEW add, Stage(s, put, add, {}), ChainInv,
         NEW audit \in Rows("AUDIT"), Fresh(audit), BlocksOf(put) = {audit}, put[audit] = Block(audit)[audit]
  PROVE  ChainInv'
<1>1. db' = db /\ Sessions' = Sessions /\ req'[s].put = Staged(put)
  BY DEF Stage, Sessions, Request, Staged
<1>2. \A t \in Sessions : t = s /\ req[t] = Idle
  BY DEF ChainInv, OneSession, Stage, Free
<1> HIDE DEF Sessions
<1>3. audit \in DOMAIN put /\ audit \in DOMAIN db
  BY DEF BlocksOf, Rows
<1>4. db[audit] = NoRow /\ LowerLive(audit)
  <2>1. \A d : Used(d) => db[d] # NoRow
    BY <1>2 DEF Used
  <2>2. ~Used(audit) /\ \A a \in Rows(audit[1]) : a[2] < audit[2] => Used(a)
    BY DEF Fresh
  <2>3. audit[1] = "AUDIT"
    BY DEF Rows
  <2>4. db[audit] = NoRow
    BY <2>2 DEF Used
  <2> QED
    BY <2>1, <2>2, <2>3, <2>4 DEF LowerLive, Live
<1>5. put[audit] = [status |-> "LIVE", prev |-> LatestBlock]
  BY OneRow DEF Block
<1>6. NumberedBlocks /\ IsFiniteSet(DOMAIN db)
  BY DEF ChainInv, ChainedInOrder, NumberedBlocks
<1>7. \A a \in Rows("AUDIT") : a[2] \in Nat
  BY <1>6, BlockNumbers
<1>8. \A a \in Live("AUDIT") : a[2] < audit[2]
  <2>1. SUFFICES ASSUME NEW a \in Live("AUDIT"), audit[2] <= a[2] PROVE FALSE
    BY <1>7 DEF Live
  <2>2. audit \notin Live("AUDIT") /\ a \in Rows("AUDIT")
    BY <1>4 DEF Live
  <2>3. audit[2] # a[2]
    BY <1>6, <2>2, BlockNumbers
  <2>4. audit[2] < a[2]
    BY <1>7, <2>1, <2>2, <2>3
  <2> QED
    BY <2>2, <2>4 DEF ChainInv, ChainedInOrder
<1>9. Continues(audit, LatestBlock)
  <2>1. CASE Live("AUDIT") = {}
    BY <2>1 DEF Continues, LatestBlock
  <2>2. CASE Live("AUDIT") # {}
    <3>1. LatestBlock \in Live("AUDIT") /\ \A b \in Live("AUDIT") : LatestBlock[2] >= b[2]
      BY <1>6, <2>2, LatestIsLast
    <3>2. \A b \in Live("AUDIT") : b[2] \in Nat
      BY <1>7 DEF Live
    <3> HIDE DEF LatestBlock
    <3>3. \A b \in Live("AUDIT") : b[2] <= LatestBlock[2]
      BY <3>1, <3>2
    <3> QED
      BY <1>8, <3>1, <3>3 DEF Continues
  <2> QED
    BY <2>1, <2>2
<1>10. ContinuesLog(Staged(put))
  <2>1. BlocksOf(Staged(put)) = {audit}
    BY DEF BlocksOf, Staged
  <2>2. /\ {"status", "prev"} \subseteq DOMAIN Staged(put)[audit]
        /\ Staged(put)[audit].status = "LIVE" /\ Staged(put)[audit].prev = LatestBlock
    <3>1. PICK row : row = put[audit]
      OBVIOUS
    <3>2. DOMAIN row = {"status", "prev"} /\ row.status = "LIVE" /\ row.prev = LatestBlock
      BY <1>5, <3>1
    <3> QED
      BY <1>3, <1>4, <3>1, <3>2, StagedColumns, NoRowColumns
  <2> QED
    BY <1>4, <1>9, <2>1, <2>2 DEF ContinuesLog
<1>11. ChainedInOrder' /\ OneSession' /\ IsFiniteSet(DOMAIN db)'
  BY <1>1 DEF ChainInv, ChainedInOrder, OneSession, Continues, Live, Rows
<1>12. \A t \in Sessions' : (req[t])' # Idle => ContinuesLog(req[t].put)'
  <2>1. PICK p : p = Staged(put)
    OBVIOUS
  <2>2. ContinuesLog(p)'
    BY <1>1, <1>10, <2>1 DEF ContinuesLog, BlocksOf, LowerLive, Continues, Live, Rows
  <2> QED
    BY <1>1, <1>2, <2>1, <2>2
<1> QED
  BY <1>11, <1>12 DEF ChainInv

LEMMA RollbackKeepsChain ==
  ASSUME NEW s \in Sessions, Rollback(s), ChainInv
  PROVE  ChainInv'
<1>1. db' = db /\ Sessions' = Sessions
  BY DEF Rollback, Sessions
<1>2. \A t \in Sessions : t = s /\ req'[t] = Idle
  BY DEF Rollback, Sessions, ChainInv, OneSession
<1> HIDE DEF Sessions
<1> QED
  BY <1>1, <1>2 DEF ChainInv, ChainedInOrder, OneSession, Continues, Live, Rows

LEMMA ChainUnchanged ==
  ASSUME UNCHANGED vars, ChainInv
  PROVE  ChainInv'
<1>1. db' = db /\ req' = req
  BY DEF vars
<1>2. \A put : ContinuesLog(put)' = ContinuesLog(put)
  BY <1>1 DEF ContinuesLog, BlocksOf, LowerLive, Continues, Live, Rows
<1>3. ChainedInOrder' /\ OneSession'
  BY <1>1 DEF ChainInv, ChainedInOrder, OneSession, Sessions, Continues, Live, Rows
<1> QED
  BY <1>1, <1>2, <1>3 DEF ChainInv, Sessions

LEMMA PostingKeepsChain ==
  ASSUME NEW s \in Sessions, NEW je \in Rows("JE"), NEW audit \in Rows("AUDIT"), NEW approved,
         NEW size \in Nat, NEW lines \in [1..size -> ProposedLines],
         Fresh(audit), CommitTransaction(s, je, audit, lines, approved), ChainInv
  PROVE  ChainInv'
<1> DEFINE accounts == [a \in AccountsOf(lines) |-> [status |-> "ACTIVE"]]
           entry == je :> [status |-> "LIVE"]
           block == Block(audit)
           put == accounts @@ entry @@ block
<1> HIDE DEF Sessions
<1>1. PICK add : Stage(s, put, add, {})
  BY DEF CommitTransaction
<1>2. AccountsOf(lines) \subseteq Rows("GLACC")
  BY DEF AccountsOf, ProposedLines
<1>3. audit \notin AccountsOf(lines) \cup {je}
  BY <1>2 DEF Rows
<1>4. DOMAIN accounts = AccountsOf(lines) /\ DOMAIN entry = {je} /\ DOMAIN block = {audit}
  BY OneRow DEF Block
<1>5. DOMAIN put = AccountsOf(lines) \cup {je, audit} /\ put[audit] = block[audit]
  <2> HIDE DEF accounts, entry, block
  <2> QED
    BY <1>3, <1>4 DEF @@
<1>6. BlocksOf(put) = {audit}
  <2> HIDE DEF put
  <2> QED
    BY <1>2, <1>5 DEF BlocksOf, Rows
<1> HIDE DEF put
<1> QED
  BY <1>1, <1>5, <1>6, StageNextBlock

LEMMA LoggingKeepsChain ==
  ASSUME NEW s \in Sessions, NEW audit \in Rows("AUDIT"), Fresh(audit), LogAgentAction(s, audit), ChainInv
  PROVE  ChainInv'
<1> DEFINE put == Block(audit)
<1> HIDE DEF Sessions
<1>1. Stage(s, put, Nothing, {})
  BY DEF LogAgentAction
<1>2. DOMAIN put = {audit}
  BY OneRow DEF Block
<1>3. BlocksOf(put) = {audit}
  <2> HIDE DEF put
  <2> QED
    BY <1>2 DEF BlocksOf
<1> QED
  BY <1>1, <1>3, StageNextBlock

\* Without overlap the ledger is one an auditor can read: balanced, with an
\* event per posting, its blocks one chain in the order of their clock.
THEOREM AuditableInTurn == LedgerSpec /\ OneSession => []LedgerAuditable
<1> DEFINE Step == \E s \in Sessions : LedgerStep(s)
           Init == LedgerComplete /\ ChainedInOrder /\ LedgerBalances /\ \A s \in Sessions : Free(s)
<1>1. Init /\ OneSession => ChainInv
  BY DEF ChainInv, LedgerComplete, Free
<1>2. ASSUME ChainInv, [Step]_vars
      PROVE  ChainInv'
  <2>1. CASE UNCHANGED vars
    BY <1>2, <2>1, ChainUnchanged
  <2>2. CASE Step
    <3> HIDE DEF Sessions
    <3>1. PICK s \in Sessions : LedgerStep(s)
      BY <2>2
    <3>2. CASE EndOfRequest(s)
      BY <1>2, <3>2, CommitKeepsChain, RollbackKeepsChain DEF EndOfRequest
    <3>3. ASSUME NEW je \in Rows("JE"), NEW audit \in Rows("AUDIT"), NEW size \in Nat, NEW approved \in BOOLEAN,
                 NEW lines \in [1..size -> ProposedLines], Fresh(audit), CommitTransaction(s, je, audit, lines, approved)
          PROVE  ChainInv'
      BY <1>2, <3>3, PostingKeepsChain
    <3>4. ASSUME NEW audit \in Rows("AUDIT"), Fresh(audit), LogAgentAction(s, audit)
          PROVE  ChainInv'
      BY <1>2, <3>4, LoggingKeepsChain
    <3> QED
      BY <3>1, <3>2, <3>3, <3>4 DEF LedgerStep
  <2> QED
    BY <1>2, <2>1, <2>2
<1>3. ChainInv /\ LedgerBalances => LedgerAuditable
  BY InOrderIsChain DEF ChainInv, LedgerAuditable
<1>4. LedgerSpec => Init /\ [][Step]_vars
  BY DEF LedgerSpec, LedgerStep
<1> HIDE DEF Init, Step
<1> QED
  BY <1>1, <1>2, <1>3, <1>4, BooksBalance, PTL

-----------------------------------------------------------------------------
(* Purchasing: the inductive invariant *)

OrdersIn(put) == {d \in DOMAIN put : d \in Rows("PO")}
DemandsIn(put) == {d \in DOMAIN put : d \in Rows("MR")}

\* What an order counts for in a request, and in its source.
PlacedShare(row, mr) ==
  IF row # NoRow /\ row.mr = mr /\ row.status \notin {"DRAFT", "CANCELLED"} THEN row.qty ELSE 0
SourceShare(row, x) == IF row # NoRow /\ row.source = x THEN row.qty ELSE 0

PlacedGain(put, mr) ==
  SumFunctionOnSet([po \in OrdersIn(put) |-> PlacedShare(After(put, po), mr) - PlacedShare(db[po], mr)], OrdersIn(put))
SourceGain(put, x) ==
  SumFunctionOnSet([po \in OrdersIn(put) |-> SourceShare(After(put, po), x) - SourceShare(db[po], x)], OrdersIn(put))

\* A line of a request whose orders add up to placed.
InStep(row, placed) ==
  /\ row.ordered = placed /\ placed <= row.qty
  /\ row.status \notin {"DRAFT", "CANCELLED"} => row.status = Progress(row.qty, row.ordered)

\* Orders and requests that are written are locked or new, and the counter of
\* a request moves with its orders.
KeepsDemand(put, locks) ==
  /\ \A d \in OrdersIn(put) \cup DemandsIn(put) : db[d] # NoRow => d \in locks
  /\ \A po \in OrdersIn(put) : OrderRow(After(put, po))
  /\ \A mr \in DemandsIn(put) :
       /\ DemandRow(After(put, mr))
       /\ db[mr] = NoRow => After(put, mr).status = "DRAFT"
  /\ \A mr \in Live("MR") :
       IF mr \in DOMAIN put THEN InStep(After(put, mr), db[mr].ordered + PlacedGain(put, mr))
       ELSE PlacedGain(put, mr) = 0

KeepsQuotes(put) ==
  \A sq \in DOMAIN put :
    sq \in Rows("SQ") =>
      /\ db[sq] = NoRow => {"rfq", "qty"} \subseteq DOMAIN put[sq]
      /\ "rfq" \in DOMAIN put[sq] => put[sq].rfq \in Rows("RFQ")
      /\ "qty" \in DOMAIN put[sq] => put[sq].qty \in Positive

\* A request inserts its orders and lines alone.
InsertsPurchase(s, put) ==
  \A t \in Sessions \ {s} :
    req[t] # Idle => \A d \in DOMAIN put \cap DOMAIN req[t].put : d \in Rows("PO") \cup Rows("MR") => db[d] # NoRow

\* Between its two parts a conversion has staged nothing, and nobody else has
\* changed the line that it read.
Converts(r) ==
  r.memo.op = "convert" =>
    /\ OneSession /\ DOMAIN r.put = {}
    /\ r.memo.mr \in Live("MR") /\ Status(r.memo.mr) \in Open
    /\ r.memo.ordered = db[r.memo.mr].ordered

PurchasingInv ==
  /\ PurchasesComplete /\ DemandOrderedOnce
  /\ \A s \in Sessions :
       req[s] # Idle =>
         /\ KeepsDemand(req[s].put, req[s].locks) /\ KeepsQuotes(req[s].put)
         /\ InsertsPurchase(s, req[s].put) /\ Converts(req[s])

\* What an award brings: the quantity of its quotation.
Awarded(row) == IF row.status = "AWARDED" THEN row.qty ELSE 0

KeepsSources(put) ==
  /\ \A po \in OrdersIn(put) : SourcedRow(After(put, po))
  /\ \A sq \in Rows("SQ") :
       IF db[sq] = NoRow THEN sq \in DOMAIN put => After(put, sq).status # "AWARDED"
       ELSE SourceGain(put, sq) = Awarded(After(put, sq)) - Awarded(db[sq])
  /\ \A bo \in Rows("BLANKET") :
       /\ bo \in DOMAIN put => CommitmentRow(After(put, bo))
       /\ LET row == After(put, bo)
              drawn == IF db[bo] = NoRow THEN 0 ELSE db[bo].ordered + SourceGain(put, bo)
          IN row # NoRow => row.ordered = drawn /\ drawn <= row.qty /\ (row.status = "CLOSED") = (drawn = row.qty)

SourcingInv ==
  /\ OneSession /\ SourcesComplete /\ SourcedOnce
  /\ \A s \in Sessions : req[s] # Idle => KeepsSources(req[s].put)

\* A row with a quantity is a row.
LEMMA QuantityIsRow == \A row : "qty" \in DOMAIN row => row # NoRow
  BY NoRowColumns

-----------------------------------------------------------------------------
(* Purchasing: the orders placed for a request *)

SharesTotal(mr) == SumFunctionOnSet([po \in Rows("PO") |-> PlacedShare(db[po], mr)], Rows("PO"))

LEMMA SharesAreNat ==
  PurchasesComplete => \A mr : \A po \in Rows("PO") : PlacedShare(db[po], mr) \in Nat
  BY DEF PurchasesComplete, OrderRow, PlacedShare, Positive, Live

LEMMA PlacedIsShares ==
  PurchasesComplete => \A mr : Placed(mr) = SharesTotal(mr)
<1> SUFFICES ASSUME PurchasesComplete, NEW mr PROVE Placed(mr) = SharesTotal(mr)
  OBVIOUS
<1> DEFINE S == Rows("PO")
           U == {po \in Of("PO", "mr", mr) : Status(po) \notin {"DRAFT", "CANCELLED"}}
           share == [po \in S |-> PlacedShare(db[po], mr)]
           qty == [po \in U |-> db[po].qty]
<1>1. IsFiniteSet(S)
  BY FS_Subset DEF PurchasesComplete, Rows
<1>2. Summable(share, S)
  BY <1>1, SharesAreNat DEF Summable
<1>3. U \subseteq S
  BY DEF Of, Live
<1>4. \A po \in S \ U : share[po] = 0
  BY DEF PlacedShare, Of, Live, Status
<1>5. \A po \in U : share[po] = qty[po]
  BY DEF PlacedShare, Of, Live, Status
<1>6. SumFunctionOnSet(share, S) = SumFunctionOnSet(share, U)
  <2> HIDE DEF share, S, U
  <2> QED
    BY <1>2, <1>3, <1>4, SumWithin
<1>7. SumFunctionOnSet(share, U) = SumFunctionOnSet(qty, U)
  <2>1. IsFiniteSet(U)
    BY <1>1, <1>3, FS_Subset
  <2> HIDE DEF share, qty, U
  <2> QED
    BY <1>5, <2>1, SumEqual
<1>8. Placed(mr) = SumFunctionOnSet(qty, U)
  BY DEF Placed, Total
<1>9. SharesTotal(mr) = SumFunctionOnSet(share, S)
  BY DEF SharesTotal
<1> QED
  BY <1>6, <1>7, <1>8, <1>9

SharesAddUp ==
  \A mr : Placed(mr) = SharesTotal(mr) /\ \A po \in Rows("PO") : PlacedShare(db[po], mr) \in Nat

LEMMA SharesAddUpNext == PurchasesComplete' => SharesAddUp'
<1>1. PurchasesComplete => SharesAddUp
  BY PlacedIsShares, SharesAreNat DEF SharesAddUp
<1> QED
  BY <1>1, PTL

LEMMA SharesTotalNat ==
  ASSUME PurchasesComplete, NEW mr
  PROVE  /\ Placed(mr) \in Nat
         /\ \A po \in Rows("PO") : PlacedShare(db[po], mr) <= Placed(mr)
<1> DEFINE S == Rows("PO")
           share == [po \in S |-> PlacedShare(db[po], mr)]
<1>1. IsFiniteSet(S) /\ \A po \in S : share[po] \in Nat
  BY FS_Subset, SharesAreNat DEF PurchasesComplete, Rows
<1>2. SumFunctionOnSet(share, S) \in Nat /\ \A po \in S : share[po] <= SumFunctionOnSet(share, S)
  <2> HIDE DEF share, S
  <2> QED
    BY <1>1, SumNat
<1>3. Placed(mr) = SumFunctionOnSet(share, S)
  BY PlacedIsShares DEF SharesTotal
<1> QED
  BY <1>2, <1>3

LEMMA RowOfColumns == \A kind, d : d \in Rows(kind) <=> d \in DOMAIN db /\ d[1] = kind
  BY DEF Rows

-----------------------------------------------------------------------------
(* Purchasing: a commit *)

\* Orders and lines of requests stay, and are complete.
LEMMA CommitKeepsPurchases ==
  ASSUME NEW s \in Sessions, Commit(s), PurchasingInv
  PROVE  /\ PurchasesComplete'
         /\ \A d \in DOMAIN db : d[1] \in {"PO", "MR", "SQ"} /\ db[d] # NoRow => db'[d] # NoRow
         /\ Live("MR") \subseteq Live("MR")'
<1> DEFINE put == req[s].put
           locks == req[s].locks
<1> HIDE DEF Sessions
<1>1. KeepsDemand(put, locks) /\ KeepsQuotes(put) /\ PurchasesComplete
  BY CommitIsOne DEF PurchasingInv
<1>2. DOMAIN db' = DOMAIN db /\ \A kind : Rows(kind)' = Rows(kind)
  BY CommitIsOne DEF Rows
<1>3. \A d \in DOMAIN db : db'[d] = After(put, d)
  BY CommitIsAfter
<1>4. \A d \in DOMAIN db \ DOMAIN put : db'[d] = db[d]
  BY CommitIsOne
<1>5. \A d \in DOMAIN db : d[1] \in {"PO", "MR"} /\ d \in DOMAIN put => "qty" \in DOMAIN db'[d]
  BY <1>1, <1>3 DEF KeepsDemand, OrdersIn, DemandsIn, Rows, OrderRow, DemandRow
<1>6. ASSUME NEW sq \in Rows("SQ"), NEW row, row = db'[sq], row # NoRow
      PROVE  {"status", "rfq", "qty"} \subseteq DOMAIN row /\ row.rfq \in Rows("RFQ") /\ row.qty \in Positive
  <2>1. sq \in DOMAIN db
    BY DEF Rows
  <2>2. CASE sq \notin DOMAIN put
    BY <1>1, <1>4, <1>6, <2>1, <2>2 DEF PurchasesComplete, QuoteRow, Live
  <2>3. CASE sq \in DOMAIN put
    <3>1. /\ DOMAIN row = DOMAIN put[sq] \cup DOMAIN db[sq]
          /\ \A c \in DOMAIN put[sq] : row[c] = put[sq][c]
          /\ \A c \in DOMAIN db[sq] \ DOMAIN put[sq] : row[c] = db[sq][c]
      BY <1>6, <2>1, <2>3, CommitIsOne
    <3>2. /\ db[sq] = NoRow => {"rfq", "qty"} \subseteq DOMAIN put[sq]
          /\ "rfq" \in DOMAIN put[sq] => put[sq].rfq \in Rows("RFQ")
          /\ "qty" \in DOMAIN put[sq] => put[sq].qty \in Positive
      BY <1>1, <2>3 DEF KeepsQuotes
    <3>3. db[sq] # NoRow => QuoteRow(db[sq])
      BY <1>1 DEF PurchasesComplete, Live
    <3> QED
      BY <3>1, <3>2, <3>3, NoRowColumns DEF QuoteRow
  <2> QED
    BY <2>2, <2>3
<1>7. \A d \in DOMAIN db : d[1] \in {"PO", "MR", "SQ"} /\ db[d] # NoRow => db'[d] # NoRow
  <2>1. \A d \in DOMAIN db \cap DOMAIN put : DOMAIN db[d] \subseteq DOMAIN db'[d]
    BY CommitIsOne
  <2>2. \A d \in DOMAIN db : d[1] \in {"PO", "MR", "SQ"} /\ db[d] # NoRow => "qty" \in DOMAIN db[d]
    BY <1>1 DEF PurchasesComplete, Live, Rows, OrderRow, DemandRow, QuoteRow
  <2> QED
    BY <1>4, <2>1, <2>2, QuantityIsRow
<1>8. Live("MR") \subseteq Live("MR")'
  BY <1>2, <1>7 DEF Live, Rows
<1>9. ASSUME NEW po \in Rows("PO"), db'[po] # NoRow
      PROVE  OrderRow(db[po])'
  <2>1. OrderRow(After(put, po))
    BY <1>1, <1>3, <1>4, <1>9, AfterElsewhere DEF KeepsDemand, OrdersIn, PurchasesComplete, Live, Rows
  <2>2. db'[po] = After(put, po)
    BY <1>3 DEF Rows
  <2> QED
    BY <1>8, <2>1, <2>2 DEF OrderRow
<1>10. ASSUME NEW mr \in Rows("MR"), db'[mr] # NoRow
       PROVE  DemandRow(db[mr])'
  <2>1. DemandRow(After(put, mr))
    BY <1>1, <1>3, <1>4, <1>10, AfterElsewhere DEF KeepsDemand, DemandsIn, PurchasesComplete, Live, Rows
  <2>2. db'[mr] = After(put, mr)
    BY <1>3 DEF Rows
  <2> QED
    BY <2>1, <2>2 DEF DemandRow
<1>11. PurchasesComplete'
  <2>1. \A sq \in Live("SQ")' : QuoteRow(db[sq])'
    <3>1. \A sq \in Rows("SQ") : db'[sq] # NoRow => QuoteRow(db[sq])'
      BY <1>2, <1>6 DEF QuoteRow
    <3> QED
      BY <1>2, <3>1 DEF Live
  <2> QED
    BY <1>1, <1>2, <1>9, <1>10, <2>1 DEF PurchasesComplete, Live
<1> QED
  BY <1>7, <1>8, <1>11

LEMMA CommitPlaces ==
  ASSUME NEW s \in Sessions, Commit(s), PurchasingInv, NEW mr
  PROVE  /\ Placed(mr)' = Placed(mr) + PlacedGain(req[s].put, mr)
         /\ Placed(mr) \in Nat /\ Placed(mr)' \in Nat
<1> DEFINE put == req[s].put
           S == Rows("PO")
           U == OrdersIn(put)
           before == [po \in S |-> PlacedShare(db[po], mr)]
           after == [po \in S |-> PlacedShare(db'[po], mr)]
<1> HIDE DEF Sessions
<1>1. PurchasesComplete /\ PurchasesComplete'
  BY CommitKeepsPurchases DEF PurchasingInv
<1>2. S' = S /\ IsFiniteSet(S) /\ U \subseteq S
  BY <1>1, FS_Subset, CommitIsOne DEF PurchasesComplete, Rows, OrdersIn
<1>3. Placed(mr) = SumFunctionOnSet(before, S) /\ \A po \in S : before[po] \in Nat
  BY <1>1, PlacedIsShares, SharesAreNat DEF SharesTotal
<1>4. Placed(mr)' = SumFunctionOnSet(after, S) /\ \A po \in S : after[po] \in Nat
  BY <1>1, <1>2, SharesAddUpNext DEF SharesAddUp, SharesTotal
<1>5. Summable(before, S) /\ Summable(after, S)
  BY <1>2, <1>3, <1>4 DEF Summable
<1>6. \A po \in S \ U : after[po] = before[po]
  BY CommitIsOne DEF OrdersIn, Rows
<1>7. [po \in U |-> after[po] - before[po]]
        = [po \in U |-> PlacedShare(After(put, po), mr) - PlacedShare(db[po], mr)]
  BY <1>2, CommitIsAfter DEF Rows
<1>8. SumFunctionOnSet(after, S) = SumFunctionOnSet(before, S) + SumFunctionOnSet([po \in U |-> after[po] - before[po]], U)
  <2> HIDE DEF before, after, S, U
  <2> QED
    BY <1>2, <1>5, <1>6, SumAfter
<1>9. SumFunctionOnSet([po \in U |-> after[po] - before[po]], U) = PlacedGain(put, mr)
  BY <1>7 DEF PlacedGain
<1>10. SumFunctionOnSet(before, S) \in Nat /\ SumFunctionOnSet(after, S) \in Nat
  <2> HIDE DEF before, after, S
  <2> QED
    BY <1>2, <1>3, <1>4, SumNat
<1> QED
  BY <1>3, <1>4, <1>8, <1>9, <1>10

\* Orders refer to requests that are there before the commit.
LEMMA NewDemandHasNone ==
  ASSUME PurchasesComplete, NEW put, NEW locks, KeepsDemand(put, locks), NEW mr \in Rows("MR"), db[mr] = NoRow
  PROVE  PlacedGain(put, mr) = 0 /\ Placed(mr) = 0
<1> DEFINE U == OrdersIn(put)
           gain == [po \in U |-> PlacedShare(After(put, po), mr) - PlacedShare(db[po], mr)]
<1>1. mr \notin Live("MR") \cup {NoRef}
  BY DEF Live, Rows, NoRef
<1>2. \A po \in Rows("PO") : PlacedShare(db[po], mr) = 0
  BY <1>1 DEF PurchasesComplete, OrderRow, PlacedShare, Live
<1>3. \A po \in U : PlacedShare(After(put, po), mr) = 0
  BY <1>1 DEF KeepsDemand, OrderRow, PlacedShare
<1>4. IsFiniteSet(U) /\ U \subseteq Rows("PO") /\ IsFiniteSet(Rows("PO"))
  BY FS_Subset DEF PurchasesComplete, OrdersIn, Rows
<1>5. SumFunctionOnSet(gain, U) = 0
  <2>1. \A po \in U : gain[po] = 0
    BY <1>2, <1>3, <1>4
  <2> HIDE DEF gain, U
  <2> QED
    BY <1>4, <2>1, SumZero
<1>6. SharesTotal(mr) = 0
  <2> DEFINE share == [po \in Rows("PO") |-> PlacedShare(db[po], mr)]
  <2>1. \A po \in Rows("PO") : share[po] = 0
    BY <1>2
  <2> HIDE DEF share
  <2>2. SumFunctionOnSet(share, Rows("PO")) = 0
    BY <1>4, <2>1, SumZero
  <2> QED
    BY <2>2 DEF SharesTotal, share
<1> QED
  BY <1>5, <1>6, PlacedIsShares DEF PlacedGain

LEMMA CommitOrdersOnce ==
  ASSUME NEW s \in Sessions, Commit(s), PurchasingInv
  PROVE  DemandOrderedOnce'
<1> DEFINE put == req[s].put
           locks == req[s].locks
<1> HIDE DEF Sessions
<1>1. KeepsDemand(put, locks) /\ PurchasesComplete /\ DemandOrderedOnce
  BY CommitIsOne DEF PurchasingInv
<1>2. Rows("MR")' = Rows("MR")
  BY CommitIsOne DEF Rows
<1>3. \A mr \in Rows("MR") : db'[mr] = After(put, mr)
  BY CommitIsAfter DEF Rows
<1>4. ASSUME NEW mr \in Rows("MR"), db'[mr] # NoRow
      PROVE  InStep(After(put, mr), Placed(mr)')
  <2>1. Placed(mr)' = Placed(mr) + PlacedGain(put, mr) /\ Placed(mr) \in Nat /\ Placed(mr)' \in Nat
    BY CommitPlaces
  <2>2. CASE db[mr] = NoRow
    <3>1. mr \in DemandsIn(put)
      BY <1>3, <1>4, <2>2, AfterElsewhere DEF DemandsIn
    <3>2. DemandRow(After(put, mr)) /\ After(put, mr).status = "DRAFT"
      BY <1>1, <2>2, <3>1 DEF KeepsDemand
    <3>3. Placed(mr)' = 0
      BY <1>1, <2>1, <2>2, NewDemandHasNone
    <3> QED
      BY <3>2, <3>3 DEF InStep, DemandRow, Positive
  <2>3. CASE db[mr] # NoRow
    <3>1. mr \in Live("MR") /\ db[mr].ordered = Placed(mr)
      BY <1>1, <2>3 DEF Live, DemandOrderedOnce
    <3>2. CASE mr \in DOMAIN put
      BY <1>1, <2>1, <3>1, <3>2 DEF KeepsDemand
    <3>3. CASE mr \notin DOMAIN put
      <4>1. PlacedGain(put, mr) = 0 /\ After(put, mr) = db[mr]
        BY <1>1, <3>1, <3>3, AfterElsewhere DEF KeepsDemand
      <4>2. InStep(db[mr], Placed(mr))
        BY <1>1, <3>1 DEF DemandOrderedOnce, InStep, Status
      <4> QED
        BY <2>1, <4>1, <4>2
    <3> QED
      BY <3>2, <3>3
  <2> QED
    BY <2>2, <2>3
<1> QED
  BY <1>2, <1>3, <1>4 DEF DemandOrderedOnce, InStep, Live, Status

\* A commit leaves what the other requests have staged as sound as it was:
\* it writes none of their orders and lines.
LEMMA CommitKeepsDemand ==
  ASSUME NEW s \in Sessions, Commit(s), PurchasingInv, NEW t \in Sessions \ {s}, req[t] # Idle
  PROVE  KeepsDemand(req[t].put, req[t].locks)'
<1> DEFINE put == req[s].put
<1> HIDE DEF Sessions
<1>0. PICK theirs, locks : theirs = req[t].put /\ locks = req[t].locks
  OBVIOUS
<1>1. KeepsDemand(theirs, locks) /\ PurchasesComplete /\ InsertsPurchase(t, theirs)
  BY <1>0 DEF PurchasingInv
<1>2. req'[t] = req[t] /\ req[s] # Idle /\ \A kind : Rows(kind)' = Rows(kind)
  BY CommitIsOne DEF Rows
<1>3. \A d \in DOMAIN db : d[1] \in {"PO", "MR", "SQ"} /\ db[d] # NoRow => db'[d] # NoRow
  BY CommitKeepsPurchases
<1>4. Live("MR") \subseteq Live("MR")'
  BY CommitKeepsPurchases
<1>5. ASSUME NEW d \in OrdersIn(theirs) \cup DemandsIn(theirs)
      PROVE  db'[d] = db[d]
  <2>1. d \in DOMAIN db /\ d \in DOMAIN theirs /\ d \in Rows("PO") \cup Rows("MR")
    BY DEF OrdersIn, DemandsIn, Rows
  <2>2. d \notin DOMAIN put
    <3>1. CASE db[d] = NoRow
      BY <1>0, <1>1, <1>2, <2>1, <3>1 DEF InsertsPurchase
    <3>2. CASE db[d] # NoRow
      BY <1>0, <1>1, <3>2, CommitIsOne DEF KeepsDemand
    <3> QED
      BY <3>1, <3>2
  <2> QED
    BY <2>1, <2>2, CommitIsOne
<1>6. OrdersIn(theirs)' = OrdersIn(theirs) /\ DemandsIn(theirs)' = DemandsIn(theirs)
  BY <1>2 DEF OrdersIn, DemandsIn
<1>7. \A d \in OrdersIn(theirs) \cup DemandsIn(theirs) : After(theirs, d)' = After(theirs, d)
  BY <1>2, <1>5 DEF After
<1>8. \A mr : PlacedGain(theirs, mr)' = PlacedGain(theirs, mr)
  <2> TAKE mr
  <2>1. \A po \in OrdersIn(theirs) :
          PlacedShare(After(theirs, po), mr)' - PlacedShare(db[po], mr)'
            = PlacedShare(After(theirs, po), mr) - PlacedShare(db[po], mr)
    BY <1>5, <1>7 DEF PlacedShare
  <2> QED
    BY <1>6, <2>1 DEF PlacedGain
<1>9. \A po \in OrdersIn(theirs) : OrderRow(After(theirs, po))'
  <2> SUFFICES ASSUME NEW po \in OrdersIn(theirs) PROVE OrderRow(After(theirs, po))'
    OBVIOUS
  <2>1. OrderRow(After(theirs, po)) /\ After(theirs, po)' = After(theirs, po)
    BY <1>1, <1>7 DEF KeepsDemand
  <2> QED
    BY <1>4, <2>1 DEF OrderRow
<1>10. \A mr \in DemandsIn(theirs) :
         DemandRow(After(theirs, mr))' /\ (db'[mr] = NoRow => After(theirs, mr)'.status = "DRAFT")
  BY <1>1, <1>5, <1>7 DEF KeepsDemand, DemandRow
<1>11. ASSUME NEW mr \in Live("MR")'
       PROVE  IF mr \in DOMAIN theirs THEN InStep(After(theirs, mr), db[mr].ordered + PlacedGain(theirs, mr))'
              ELSE PlacedGain(theirs, mr)' = 0
  <2>1. mr \in Rows("MR") /\ db'[mr] # NoRow
    BY <1>2 DEF Live
  <2>2. CASE mr \in DOMAIN theirs
    <3>1. mr \in DemandsIn(theirs)
      BY <2>1, <2>2 DEF DemandsIn
    <3>2. db'[mr] = db[mr] /\ After(theirs, mr)' = After(theirs, mr) /\ mr \in Live("MR")
      BY <1>5, <1>7, <2>1, <3>1 DEF Live
    <3>3. InStep(After(theirs, mr), db[mr].ordered + PlacedGain(theirs, mr))
      BY <1>1, <2>2, <3>2 DEF KeepsDemand
    <3> QED
      BY <1>8, <2>2, <3>2, <3>3 DEF InStep
  <2>3. CASE mr \notin DOMAIN theirs
    <3>1. PlacedGain(theirs, mr) = 0
      BY <1>1, <2>1, <2>3, NewDemandHasNone DEF KeepsDemand, Live
    <3> QED
      BY <1>8, <2>3, <3>1
  <2> QED
    BY <2>2, <2>3
<1>12. \A d \in OrdersIn(theirs) \cup DemandsIn(theirs) : db'[d] # NoRow => d \in locks
  BY <1>1, <1>5 DEF KeepsDemand
<1>13. KeepsDemand(theirs, locks)'
  BY <1>6, <1>9, <1>10, <1>11, <1>12 DEF KeepsDemand
<1> QED
  BY <1>0, <1>2, <1>13

LEMMA CommitKeepsOtherPurchases ==
  ASSUME NEW s \in Sessions, Commit(s), PurchasingInv, NEW t \in Sessions \ {s}, req[t] # Idle
  PROVE  KeepsQuotes(req[t].put)' /\ InsertsPurchase(t, req[t].put)' /\ Converts(req[t])'
<1> HIDE DEF Sessions
<1>1. KeepsQuotes(req[t].put) /\ InsertsPurchase(t, req[t].put) /\ Converts(req[t])
  BY DEF PurchasingInv
<1>2. req'[t] = req[t] /\ req'[s] = Idle /\ Sessions' = Sessions /\ \A u \in Sessions \ {s} : req'[u] = req[u]
  BY CommitIsOne
<1>3. \A kind : Rows(kind)' = Rows(kind)
  BY CommitIsOne DEF Rows
<1>4. \A d \in DOMAIN db : d[1] \in {"PO", "MR", "SQ"} /\ db[d] # NoRow => db'[d] # NoRow
  BY CommitKeepsPurchases
<1>5. KeepsQuotes(req[t].put)'
  <2>1. \A sq \in Rows("SQ") : db'[sq] = NoRow => db[sq] = NoRow
    BY <1>4 DEF Rows
  <2> QED
    BY <1>1, <1>2, <1>3, <2>1 DEF KeepsQuotes
<1>6. InsertsPurchase(t, req[t].put)'
  <2>1. \A d \in Rows("PO") \cup Rows("MR") : db[d] # NoRow => db'[d] # NoRow
    BY <1>4 DEF Rows
  <2> QED
    BY <1>1, <1>2, <1>3, <2>1 DEF InsertsPurchase
<1>7. Converts(req[t])'
  BY <1>1, <1>2 DEF Converts, OneSession
<1> QED
  BY <1>5, <1>6, <1>7

LEMMA CommitKeepsPurchasing ==
  ASSUME NEW s \in Sessions, Commit(s), PurchasingInv
  PROVE  PurchasingInv'
<1> HIDE DEF Sessions
<1>1. PurchasesComplete' /\ DemandOrderedOnce'
  BY CommitKeepsPurchases, CommitOrdersOnce
<1>2. Sessions' = Sessions /\ req'[s] = Idle /\ \A t \in Sessions \ {s} : req'[t] = req[t]
  BY CommitIsOne
<1>3. ASSUME NEW t \in Sessions, req'[t] # Idle
      PROVE  /\ KeepsDemand(req[t].put, req[t].locks)' /\ KeepsQuotes(req[t].put)'
             /\ InsertsPurchase(t, req[t].put)' /\ Converts(req[t])'
  BY <1>2, <1>3, CommitKeepsDemand, CommitKeepsOtherPurchases
<1> QED
  BY <1>1, <1>2, <1>3 DEF PurchasingInv

\* The same rows.
LEMMA SamePurchases ==
  ASSUME db' = db
  PROVE  /\ PurchasesComplete' = PurchasesComplete /\ DemandOrderedOnce' = DemandOrderedOnce
         /\ \A put, locks : KeepsDemand(put, locks)' = KeepsDemand(put, locks)
         /\ \A put : KeepsQuotes(put)' = KeepsQuotes(put)
  BY DEF PurchasesComplete, DemandRow, OrderRow, QuoteRow, DemandOrderedOnce, Placed, Total, Of, Live, Rows, Status,
         KeepsDemand, OrdersIn, DemandsIn, After, PlacedGain, PlacedShare, InStep, KeepsQuotes

LEMMA RollbackKeepsPurchasing ==
  ASSUME NEW s \in Sessions, Rollback(s), PurchasingInv
  PROVE  PurchasingInv'
<1>1. /\ Sessions' = Sessions /\ req'[s] = Idle /\ db' = db
      /\ \A t \in Sessions \ {s} : req'[t] = req[t]
  BY DEF Rollback, Sessions
<1> HIDE DEF Sessions
<1>2. PurchasesComplete' /\ DemandOrderedOnce'
  BY <1>1, SamePurchases DEF PurchasingInv
<1>3. ASSUME NEW t \in Sessions, req'[t] # Idle
      PROVE  /\ KeepsDemand(req[t].put, req[t].locks)' /\ KeepsQuotes(req[t].put)'
             /\ InsertsPurchase(t, req[t].put)' /\ Converts(req[t])'
  <2>1. t # s /\ req'[t] = req[t]
    BY <1>1, <1>3
  <2>2. KeepsDemand(req[t].put, req[t].locks) /\ KeepsQuotes(req[t].put) /\ InsertsPurchase(t, req[t].put) /\ Converts(req[t])
    BY <1>3, <2>1 DEF PurchasingInv
  <2>3. InsertsPurchase(t, req[t].put)'
    BY <1>1, <2>1, <2>2 DEF InsertsPurchase, Rows
  <2>4. Converts(req[t])'
    BY <1>1, <2>1, <2>2 DEF Converts, OneSession, Live, Rows, Status
  <2>5. PICK put, locks : put = req[t].put /\ locks = req[t].locks
    OBVIOUS
  <2>6. KeepsDemand(put, locks)' /\ KeepsQuotes(put)'
    BY <1>1, <2>2, <2>5, SamePurchases
  <2>7. KeepsDemand(req[t].put, req[t].locks)' /\ KeepsQuotes(req[t].put)'
    BY <2>1, <2>5, <2>6
  <2> QED
    BY <2>3, <2>4, <2>7
<1> QED
  BY <1>1, <1>2, <1>3 DEF PurchasingInv

-----------------------------------------------------------------------------
(* Purchasing: a handler *)

\* A handler that stages put under locks, with new orders and lines fresh.
LEMMA PutKeepsPurchasing ==
  ASSUME PurchasingInv, NEW s \in Sessions, NEW put, NEW locks,
         db' = db, Sessions' = Sessions, \A t \in Sessions \ {s} : req'[t] = req[t],
         req'[s].put = Staged(put), req'[s].locks = locks, req'[s].memo.op = "commit",
         KeepsDemand(put, locks), KeepsQuotes(put),
         \A d \in OrdersIn(put) \cup DemandsIn(put) : db[d] = NoRow => Fresh(d)
  PROVE  PurchasingInv'
<1> HIDE DEF Sessions
<1>1. PurchasesComplete' /\ DemandOrderedOnce'
  BY SamePurchases DEF PurchasingInv
<1>2. DOMAIN Staged(put) = DOMAIN put
  BY DEF Staged
<1>3. KeepsDemand(Staged(put), locks)
  <2>1. OrdersIn(Staged(put)) = OrdersIn(put) /\ DemandsIn(Staged(put)) = DemandsIn(put)
    BY <1>2 DEF OrdersIn, DemandsIn
  <2>2. \A d : After(Staged(put), d) = After(put, d)
    BY StagedAfter
  <2>3. \A mr : PlacedGain(Staged(put), mr) = PlacedGain(put, mr)
    BY <2>1, <2>2 DEF PlacedGain
  <2> QED
    BY <1>2, <2>1, <2>2, <2>3 DEF KeepsDemand
<1>4. KeepsQuotes(Staged(put))
  <2> SUFFICES ASSUME NEW sq \in DOMAIN put, sq \in Rows("SQ")
               PROVE  /\ db[sq] = NoRow => {"rfq", "qty"} \subseteq DOMAIN Staged(put)[sq]
                      /\ "rfq" \in DOMAIN Staged(put)[sq] => Staged(put)[sq].rfq \in Rows("RFQ")
                      /\ "qty" \in DOMAIN Staged(put)[sq] => Staged(put)[sq].qty \in Positive
    BY <1>2 DEF KeepsQuotes
  <2> QED
    BY StagedColumns, NoRowColumns DEF KeepsQuotes
<1>5. \A other : KeepsDemand(other, locks)' = KeepsDemand(other, locks) /\ KeepsQuotes(other)' = KeepsQuotes(other)
  BY SamePurchases
<1>6. \A d \in OrdersIn(put) \cup DemandsIn(put) :
        db[d] = NoRow => \A t \in Sessions : req[t] # Idle => d \notin DOMAIN req[t].put
  BY FreshIsApart DEF OrdersIn, DemandsIn, Rows
<1>7. ASSUME NEW t \in Sessions, req'[t] # Idle
      PROVE  /\ KeepsDemand(req[t].put, req[t].locks)' /\ KeepsQuotes(req[t].put)'
             /\ InsertsPurchase(t, req[t].put)' /\ Converts(req[t])'
  <2>1. CASE t = s
    <3>1. PICK staged : staged = Staged(put)
      OBVIOUS
    <3>2. KeepsDemand(staged, locks)' /\ KeepsQuotes(staged)'
      BY <1>3, <1>4, <3>1, SamePurchases
    <3>3. InsertsPurchase(t, req[t].put)'
      BY <1>2, <1>6, <2>1 DEF InsertsPurchase, OrdersIn, DemandsIn, Rows
    <3>4. Converts(req[t])'
      BY <2>1 DEF Converts
    <3> QED
      BY <2>1, <3>1, <3>2, <3>3, <3>4
  <2>2. CASE t # s
    <3>1. req'[t] = req[t]
      BY <2>2
    <3>2. KeepsDemand(req[t].put, req[t].locks) /\ KeepsQuotes(req[t].put) /\ InsertsPurchase(t, req[t].put) /\ Converts(req[t])
      BY <1>7, <3>1 DEF PurchasingInv
    <3>3. InsertsPurchase(t, req[t].put)'
      <4> SUFFICES ASSUME NEW u \in Sessions \ {t}, req'[u] # Idle, NEW d \in DOMAIN req'[t].put \cap DOMAIN req'[u].put,
                          d \in Rows("PO") \cup Rows("MR")
                   PROVE  db[d] # NoRow
        BY DEF InsertsPurchase, Rows
      <4>1. CASE u = s
        BY <1>2, <1>6, <1>7, <3>1, <4>1 DEF OrdersIn, DemandsIn
      <4>2. CASE u # s
        BY <3>1, <3>2, <4>2 DEF InsertsPurchase
      <4> QED
        BY <4>1, <4>2
    <3>4. Converts(req[t])'
      BY <3>1, <3>2 DEF Converts, OneSession, Live, Rows, Status
    <3>5. PICK theirs, held : theirs = req[t].put /\ held = req[t].locks
      OBVIOUS
    <3>6. KeepsDemand(theirs, held)' /\ KeepsQuotes(theirs)'
      BY <3>2, <3>5, SamePurchases
    <3>7. KeepsDemand(req[t].put, req[t].locks)' /\ KeepsQuotes(req[t].put)'
      BY <3>1, <3>5, <3>6
    <3> QED
      BY <3>3, <3>4, <3>7
  <2> QED
    BY <2>1, <2>2
<1> QED
  BY <1>1, <1>7 DEF PurchasingInv

LEMMA StageKeepsPurchasing ==
  ASSUME PurchasingInv, NEW s \in Sessions, NEW put, NEW add, NEW locks, Stage(s, put, add, locks),
         KeepsDemand(put, locks), KeepsQuotes(put),
         \A d \in OrdersIn(put) \cup DemandsIn(put) : db[d] = NoRow => Fresh(d)
  PROVE  PurchasingInv'
<1>1. req'[s].memo.op = "commit"
  BY DEF Stage, Request, Sessions
<1> HIDE DEF Sessions
<1> QED
  BY <1>1, StageIsOne, PutKeepsPurchasing

\* A handler that writes no order changes no sum.
LEMMA WithoutOrders ==
  ASSUME NEW put, OrdersIn(put) = {}
  PROVE  \A mr : PlacedGain(put, mr) = 0
<1> TAKE mr
<1> DEFINE gain == [po \in OrdersIn(put) |-> PlacedShare(After(put, po), mr) - PlacedShare(db[po], mr)]
<1>1. IsFiniteSet({}) /\ Summable(gain, {})
  BY FS_EmptySet DEF Summable
<1>2. SumFunctionOnSet(gain, {}) = 0
  <2> HIDE DEF gain
  <2> QED
    BY <1>1, SumEmpty
<1> QED
  BY <1>2 DEF PlacedGain

\* One that writes one order changes what that order counts for.
LEMMA WithOneOrder ==
  ASSUME PurchasesComplete, NEW put, NEW po \in Rows("PO"), OrdersIn(put) = {po}, OrderRow(After(put, po))
  PROVE  \A mr : PlacedGain(put, mr) = PlacedShare(After(put, po), mr) - PlacedShare(db[po], mr)
<1> TAKE mr
<1> DEFINE gain == [x \in OrdersIn(put) |-> PlacedShare(After(put, x), mr) - PlacedShare(db[x], mr)]
<1>1. PlacedShare(db[po], mr) \in Nat
  BY SharesAreNat
<1>2. PlacedShare(After(put, po), mr) \in Nat
  BY DEF OrderRow, PlacedShare, Positive
<1>3. gain[po] = PlacedShare(After(put, po), mr) - PlacedShare(db[po], mr)
  OBVIOUS
<1>4. SumFunctionOnSet(gain, {po}) = gain[po]
  <2>1. gain[po] \in Int
    BY <1>1, <1>2, <1>3
  <2> HIDE DEF gain
  <2> QED
    BY <2>1, SumOne
<1> QED
  BY <1>3, <1>4 DEF PlacedGain

\* A line of a request as it is.
LEMMA DemandFacts ==
  ASSUME PurchasingInv, NEW mr \in Live("MR")
  PROVE  /\ DemandRow(db[mr]) /\ InStep(db[mr], db[mr].ordered) /\ db[mr].ordered = Placed(mr)
         /\ mr \in Rows("MR") /\ mr \in DOMAIN db /\ mr # NoRef /\ db[mr] # NoRow /\ mr[1] = "MR"
  BY DEF PurchasingInv, PurchasesComplete, DemandOrderedOnce, InStep, Status, Live, Rows, NoRef

\* An order as it is.
LEMMA OrderFacts ==
  ASSUME PurchasingInv, NEW po \in Live("PO")
  PROVE  OrderRow(db[po]) /\ po \in Rows("PO") /\ po \in DOMAIN db /\ db[po] # NoRow /\ po[1] = "PO"
  BY DEF PurchasingInv, PurchasesComplete, Live, Rows

LEMMA KindsDiffer ==
  \A d : d \in Rows("MR") => d \notin Rows("PO") /\ d \notin Rows("SQ")
  BY DEF Rows

-----------------------------------------------------------------------------
(* Purchasing: requests *)

LEMMA WithoutOrdersKeeps ==
  ASSUME PurchasingInv, NEW put, NEW locks, OrdersIn(put) = {},
         \A mr \in DemandsIn(put) :
           /\ DemandRow(After(put, mr))
           /\ IF db[mr] = NoRow THEN After(put, mr).status = "DRAFT"
              ELSE mr \in locks /\ InStep(After(put, mr), db[mr].ordered)
  PROVE  KeepsDemand(put, locks)
<1>1. \A mr : PlacedGain(put, mr) = 0
  BY WithoutOrders
<1>2. \A mr \in Live("MR") : db[mr].ordered \in Nat /\ db[mr] # NoRow /\ mr \in Rows("MR")
  BY DemandFacts DEF DemandRow
<1>3. \A mr \in Live("MR") : mr \in DOMAIN put => InStep(After(put, mr), db[mr].ordered + PlacedGain(put, mr))
  BY <1>1, <1>2 DEF DemandsIn
<1> QED
  BY <1>1, <1>3 DEF KeepsDemand

LEMMA OneRequestKeeps ==
  ASSUME PurchasingInv, NEW s \in Sessions, NEW mr \in Rows("MR"), NEW r, NEW add, NEW locks,
         Stage(s, mr :> r, add, locks), DemandRow(After(mr :> r, mr)),
         IF db[mr] = NoRow THEN After(mr :> r, mr).status = "DRAFT" /\ Fresh(mr)
         ELSE mr \in locks /\ InStep(After(mr :> r, mr), db[mr].ordered)
  PROVE  PurchasingInv'
<1> HIDE DEF Sessions
<1>1. PICK put : put = mr :> r
  OBVIOUS
<1>2. DOMAIN put = {mr}
  BY <1>1, OneRow
<1>3. OrdersIn(put) = {} /\ DemandsIn(put) = {mr}
  BY <1>2, KindsDiffer DEF OrdersIn, DemandsIn
<1>4. KeepsDemand(put, locks)
  BY <1>1, <1>3, WithoutOrdersKeeps
<1>5. KeepsQuotes(put)
  BY <1>2, KindsDiffer DEF KeepsQuotes
<1> QED
  BY <1>1, <1>3, <1>4, <1>5, StageKeepsPurchasing

LEMMA OneRowAfter ==
  ASSUME NEW d, NEW r
  PROVE  /\ DOMAIN After(d :> r, d) = DOMAIN r \cup DOMAIN db[d]
         /\ \A c \in DOMAIN r : After(d :> r, d)[c] = r[c]
         /\ \A c \in DOMAIN db[d] \ DOMAIN r : After(d :> r, d)[c] = db[d][c]
<1>1. PICK put : put = d :> r
  OBVIOUS
<1>2. d \in DOMAIN put /\ put[d] = r
  BY <1>1, OneRow
<1>3. PICK row : row = After(put, d)
  OBVIOUS
<1>4. /\ DOMAIN row = DOMAIN r \cup DOMAIN db[d]
      /\ \A c \in DOMAIN r : row[c] = r[c]
      /\ \A c \in DOMAIN db[d] \ DOMAIN r : row[c] = db[d][c]
  <2>1. /\ DOMAIN After(put, d) = DOMAIN put[d] \cup DOMAIN db[d]
        /\ \A c \in DOMAIN put[d] : After(put, d)[c] = put[d][c]
        /\ \A c \in DOMAIN db[d] \ DOMAIN put[d] : After(put, d)[c] = db[d][c]
    BY <1>2, AfterColumns
  <2> QED
    BY <1>2, <1>3, <2>1
<1> QED
  BY <1>1, <1>3, <1>4

\* A new request is a draft of which nothing is ordered.
LEMMA NewRequestKeeps ==
  ASSUME PurchasingInv, NEW s \in Sessions, NEW mr \in Rows("MR"), Fresh(mr), NEW q \in Positive, NEW from, NEW locks,
         Stage(s, mr :> [status |-> "DRAFT", qty |-> q, ordered |-> 0, from |-> from], Nothing, locks)
  PROVE  PurchasingInv'
<1> DEFINE r == [status |-> "DRAFT", qty |-> q, ordered |-> 0, from |-> from]
<1> HIDE DEF Sessions
<1>1. db[mr] = NoRow
  BY FreshIsNew DEF Rows
<1>2. DemandRow(After(mr :> r, mr)) /\ After(mr :> r, mr).status = "DRAFT"
  <2>1. {"status", "qty", "ordered"} \subseteq DOMAIN r /\ r.status = "DRAFT" /\ r.qty = q /\ r.ordered = 0
    OBVIOUS
  <2> HIDE DEF r
  <2>2. PICK row : row = After(mr :> r, mr)
    OBVIOUS
  <2>3. {"status", "qty", "ordered"} \subseteq DOMAIN row /\ row.status = "DRAFT" /\ row.qty = q /\ row.ordered = 0
    <3>1. /\ DOMAIN After(mr :> r, mr) = DOMAIN r \cup DOMAIN db[mr]
          /\ \A c \in DOMAIN r : After(mr :> r, mr)[c] = r[c]
      BY OneRowAfter
    <3> QED
      BY <2>1, <2>2, <3>1
  <2> QED
    BY <2>2, <2>3 DEF DemandRow, Positive
<1> HIDE DEF r
<1>3. Stage(s, mr :> r, Nothing, locks)
  BY DEF r
<1> QED
  BY <1>1, <1>2, <1>3, OneRequestKeeps

LEMMA CreateMaterialRequestKeeps ==
  ASSUME PurchasingInv, NEW s \in Sessions, NEW mr \in Rows("MR"), Fresh(mr), NEW q \in Positive, CreateMaterialRequest(s, mr, q)
  PROVE  PurchasingInv'
  BY NewRequestKeeps DEF CreateMaterialRequest

LEMMA AmendMaterialRequestKeeps ==
  ASSUME PurchasingInv, NEW s \in Sessions, NEW mr \in Live("MR"), NEW new \in Rows("MR"), Fresh(new),
         AmendMaterialRequest(s, mr, new)
  PROVE  PurchasingInv'
<1> HIDE DEF Sessions
<1>1. DemandRow(db[mr])
  BY DemandFacts
<1>2. db[mr].qty - db[mr].ordered \in Positive
  BY <1>1 DEF AmendMaterialRequest, DemandRow, Positive
<1> QED
  BY <1>2, NewRequestKeeps DEF AmendMaterialRequest

\* Another status of a request whose counter stays.
LEMMA UpdateDraftMaterialRequestKeeps ==
  ASSUME PurchasingInv, NEW s \in Sessions, NEW mr \in Rows("MR"), db[mr] # NoRow, NEW q \in Positive,
         UpdateDraftMaterialRequest(s, mr, q)
  PROVE  PurchasingInv'
<1> DEFINE r == [qty |-> q]
<1> HIDE DEF Sessions
<1>1. /\ DemandRow(db[mr]) /\ db[mr].status = "DRAFT" /\ db[mr].ordered = 0
      /\ Stage(s, mr :> r, Nothing, {mr})
  BY DemandFacts DEF UpdateDraftMaterialRequest, Status, Live
<1>2. DOMAIN r = {"qty"} /\ r.qty = q
  OBVIOUS
<1> HIDE DEF r
<1>3. PICK row, old : row = After(mr :> r, mr) /\ old = db[mr]
  OBVIOUS
<1>4. {"status", "qty", "ordered"} \subseteq DOMAIN row /\ row.status = "DRAFT" /\ row.qty = q /\ row.ordered = 0
  <2>1. {"status", "qty", "ordered"} \subseteq DOMAIN old /\ old.status = "DRAFT" /\ old.ordered = 0
    BY <1>1, <1>3 DEF DemandRow
  <2>2. /\ DOMAIN row = DOMAIN r \cup DOMAIN old /\ \A c \in DOMAIN r : row[c] = r[c]
        /\ \A c \in DOMAIN old \ DOMAIN r : row[c] = old[c]
    <3>1. /\ DOMAIN After(mr :> r, mr) = DOMAIN r \cup DOMAIN db[mr]
          /\ \A c \in DOMAIN r : After(mr :> r, mr)[c] = r[c]
          /\ \A c \in DOMAIN db[mr] \ DOMAIN r : After(mr :> r, mr)[c] = db[mr][c]
      BY OneRowAfter
    <3> QED
      BY <1>3, <3>1
  <2> QED
    BY <1>2, <2>1, <2>2
<1>5. DemandRow(row) /\ InStep(row, db[mr].ordered)
  BY <1>1, <1>4 DEF DemandRow, InStep, Positive
<1> QED
  BY <1>1, <1>3, <1>5, OneRequestKeeps

LEMMA RequestStatusKeeps ==
  ASSUME PurchasingInv, NEW s \in Sessions, NEW mr \in Live("MR"), NEW status,
         status = "CANCELLED" \/ (status = "SUBMITTED" /\ Status(mr) = "DRAFT"),
         Stage(s, mr :> [status |-> status], Nothing, {mr})
  PROVE  PurchasingInv'
<1> DEFINE r == [status |-> status]
<1> HIDE DEF Sessions
<1>1. /\ DemandRow(db[mr]) /\ db[mr] # NoRow /\ mr \in Rows("MR") /\ InStep(db[mr], db[mr].ordered)
      /\ Stage(s, mr :> r, Nothing, {mr})
  BY DemandFacts
<1>2. DOMAIN r = {"status"} /\ r.status = status
  OBVIOUS
<1> HIDE DEF r
<1>3. PICK row, old : row = After(mr :> r, mr) /\ old = db[mr]
  OBVIOUS
<1>4. {"status", "qty", "ordered"} \subseteq DOMAIN row /\ row.status = status /\ row.qty = db[mr].qty
      /\ row.ordered = db[mr].ordered
  <2>1. {"status", "qty", "ordered"} \subseteq DOMAIN old
    BY <1>1, <1>3 DEF DemandRow
  <2>2. /\ DOMAIN row = DOMAIN r \cup DOMAIN old /\ \A c \in DOMAIN r : row[c] = r[c]
        /\ \A c \in DOMAIN old \ DOMAIN r : row[c] = old[c]
    <3>1. /\ DOMAIN After(mr :> r, mr) = DOMAIN r \cup DOMAIN db[mr]
          /\ \A c \in DOMAIN r : After(mr :> r, mr)[c] = r[c]
          /\ \A c \in DOMAIN db[mr] \ DOMAIN r : After(mr :> r, mr)[c] = db[mr][c]
      BY OneRowAfter
    <3> QED
      BY <1>3, <3>1
  <2> QED
    BY <1>2, <1>3, <2>1, <2>2
<1>5. DemandRow(row) /\ InStep(row, db[mr].ordered)
  BY <1>1, <1>4 DEF DemandRow, InStep, Positive, Progress, Status
<1> QED
  BY <1>1, <1>3, <1>5, OneRequestKeeps

LEMMA SubmitMaterialRequestKeeps ==
  ASSUME PurchasingInv, NEW s \in Sessions, NEW mr \in Live("MR"), SubmitMaterialRequest(s, mr)
  PROVE  PurchasingInv'
  BY RequestStatusKeeps DEF SubmitMaterialRequest

LEMMA CancelMaterialRequestKeeps ==
  ASSUME PurchasingInv, NEW s \in Sessions, NEW mr \in Live("MR"), CancelMaterialRequest(s, mr)
  PROVE  PurchasingInv'
<1>1. Stage(s, mr :> [status |-> "CANCELLED"], Nothing, {mr})
  BY DEF CancelMaterialRequest
<1> QED
  BY <1>1, RequestStatusKeeps

LEMMA CheckReorderReplenishmentKeeps ==
  ASSUME PurchasingInv, NEW s \in Sessions, NEW mr \in Rows("MR"), Fresh(mr), NEW level, CheckReorderReplenishment(s, level, mr)
  PROVE  PurchasingInv'
  BY CreateMaterialRequestKeeps DEF CheckReorderReplenishment, Positive

-----------------------------------------------------------------------------
(* Purchasing: orders *)

\* A handler that writes one order and no request.
LEMMA OrderAloneKeeps ==
  ASSUME PurchasingInv, NEW put, NEW locks, NEW po \in Rows("PO"), OrdersIn(put) = {po}, DemandsIn(put) = {},
         db[po] # NoRow => po \in locks, OrderRow(After(put, po)),
         \A mr \in Live("MR") : PlacedShare(After(put, po), mr) = PlacedShare(db[po], mr)
  PROVE  KeepsDemand(put, locks)
<1>1. PurchasesComplete
  BY DEF PurchasingInv
<1>2. \A mr : PlacedShare(db[po], mr) \in Nat
  BY <1>1, SharesAreNat
<1>3. \A mr \in Live("MR") : PlacedGain(put, mr) = 0
  BY <1>1, <1>2, WithOneOrder
<1>4. \A mr \in Live("MR") : mr \notin DOMAIN put
  BY DemandFacts DEF DemandsIn
<1> QED
  BY <1>3, <1>4 DEF KeepsDemand

\* One that writes an order and the line of its request.
LEMMA OrderWithDemandKeeps ==
  ASSUME PurchasingInv, NEW put, NEW locks, NEW po \in Rows("PO"), NEW mr \in Live("MR"),
         OrdersIn(put) = {po}, DemandsIn(put) = {mr}, mr \in locks,
         db[po] # NoRow => po \in locks, OrderRow(After(put, po)), DemandRow(After(put, mr)),
         InStep(After(put, mr), db[mr].ordered + (PlacedShare(After(put, po), mr) - PlacedShare(db[po], mr))),
         \A x \in Live("MR") \ {mr} : PlacedShare(After(put, po), x) = PlacedShare(db[po], x)
  PROVE  KeepsDemand(put, locks)
<1>1. PurchasesComplete
  BY DEF PurchasingInv
<1>2. \A x : PlacedShare(db[po], x) \in Nat
  BY <1>1, SharesAreNat
<1>3. \A x : PlacedGain(put, x) = PlacedShare(After(put, po), x) - PlacedShare(db[po], x)
  BY <1>1, WithOneOrder
<1>4. \A x \in Live("MR") \ {mr} : PlacedGain(put, x) = 0 /\ x \notin DOMAIN put
  BY <1>2, <1>3, DemandFacts DEF DemandsIn
<1>5. mr \in DOMAIN put /\ db[mr] # NoRow
  BY DemandFacts DEF DemandsIn
<1>6. \A x \in Live("MR") :
        IF x \in DOMAIN put THEN InStep(After(put, x), db[x].ordered + PlacedGain(put, x)) ELSE PlacedGain(put, x) = 0
  BY <1>3, <1>4, <1>5
<1> QED
  BY <1>5, <1>6 DEF KeepsDemand

LEMMA LoneOrderKeeps ==
  ASSUME PurchasingInv, NEW s \in Sessions, NEW put, NEW locks, Stage(s, put, Nothing, locks),
         NEW po \in Rows("PO"), DOMAIN put = {po}, OrderRow(After(put, po)),
         IF db[po] = NoRow THEN Fresh(po) ELSE po \in locks,
         \A mr \in Live("MR") : PlacedShare(After(put, po), mr) = PlacedShare(db[po], mr)
  PROVE  PurchasingInv'
<1> HIDE DEF Sessions
<1>1. OrdersIn(put) = {po} /\ DemandsIn(put) = {}
  BY KindsDiffer DEF OrdersIn, DemandsIn
<1>2. KeepsDemand(put, locks)
  BY <1>1, OrderAloneKeeps
<1>3. KeepsQuotes(put)
  BY DEF KeepsQuotes, Rows
<1> QED
  BY <1>1, <1>2, <1>3, StageKeepsPurchasing

LEMMA OrderAndDemandKeep ==
  ASSUME PurchasingInv, NEW put, NEW locks, NEW po \in Rows("PO"), NEW mr \in Live("MR"),
         DOMAIN put = {po, mr}, mr \in locks, OrderRow(After(put, po)), DemandRow(After(put, mr)),
         IF db[po] = NoRow THEN Fresh(po) ELSE po \in locks,
         InStep(After(put, mr), db[mr].ordered + (PlacedShare(After(put, po), mr) - PlacedShare(db[po], mr))),
         \A x \in Live("MR") \ {mr} : PlacedShare(After(put, po), x) = PlacedShare(db[po], x)
  PROVE  /\ KeepsDemand(put, locks) /\ KeepsQuotes(put)
         /\ \A d \in OrdersIn(put) \cup DemandsIn(put) : db[d] = NoRow => Fresh(d)
<1>1. mr \in Rows("MR") /\ db[mr] # NoRow
  BY DemandFacts
<1>2. OrdersIn(put) = {po} /\ DemandsIn(put) = {mr}
  BY <1>1, KindsDiffer DEF OrdersIn, DemandsIn
<1>3. KeepsDemand(put, locks)
  BY <1>2, OrderWithDemandKeeps
<1>4. KeepsQuotes(put)
  BY <1>1 DEF KeepsQuotes, Rows
<1> QED
  BY <1>1, <1>2, <1>3, <1>4

\* What the rows of a request are after its columns were written.
LEMMA ColumnsAfter ==
  ASSUME NEW put, NEW d \in DOMAIN put, NEW new, new = put[d], NEW old, old = db[d], NEW row, row = After(put, d)
  PROVE  /\ DOMAIN row = DOMAIN new \cup DOMAIN old
         /\ \A c \in DOMAIN new : row[c] = new[c]
         /\ \A c \in DOMAIN old \ DOMAIN new : row[c] = old[c]
<1>1. /\ DOMAIN After(put, d) = DOMAIN put[d] \cup DOMAIN db[d]
      /\ \A c \in DOMAIN put[d] : After(put, d)[c] = put[d][c]
      /\ \A c \in DOMAIN db[d] \ DOMAIN put[d] : After(put, d)[c] = db[d][c]
  BY AfterColumns
<1> QED
  BY <1>1

\* The line of a request that the handlers refresh.
LEMMA RefreshedInStep ==
  ASSUME PurchasingInv, NEW mr \in Live("MR"), NEW ordered \in Nat, ordered <= db[mr].qty,
         Status(mr) = "DRAFT" => ordered = 0,
         NEW put, mr \in DOMAIN put, NEW status,
         status = (IF Status(mr) \in {"CANCELLED", "DRAFT"} THEN Status(mr) ELSE Progress(db[mr].qty, ordered)),
         put[mr] = [ordered |-> ordered, status |-> status]
  PROVE  DemandRow(After(put, mr)) /\ InStep(After(put, mr), ordered)
<1> DEFINE r == [ordered |-> ordered, status |-> status]
<1>1. DemandRow(db[mr])
  BY DemandFacts
<1>2. DOMAIN r = {"ordered", "status"} /\ r.ordered = ordered /\ r.status = status /\ put[mr] = r
  OBVIOUS
<1> HIDE DEF r
<1>3. PICK old, row : old = db[mr] /\ row = After(put, mr)
  OBVIOUS
<1>4. DOMAIN row = {"ordered", "status"} \cup DOMAIN old /\ row.ordered = ordered /\ row.status = status
      /\ \A c \in DOMAIN old \ DOMAIN r : row[c] = old[c]
  <2>1. Overlaid(After(put, mr), put[mr], db[mr])
    BY AfterOverlaid
  <2>2. Overlaid(row, r, old)
    BY <1>2, <1>3, <2>1
  <2> QED
    BY <1>2, <2>2 DEF Overlaid
<1>5. "qty" \in DOMAIN old \ DOMAIN r
  BY <1>1, <1>2, <1>3 DEF DemandRow
<1>6. {"status", "qty", "ordered"} \subseteq DOMAIN row /\ row.qty = db[mr].qty
  BY <1>3, <1>4, <1>5
<1>7. DemandRow(row)
  BY <1>1, <1>4, <1>6 DEF DemandRow, Progress, Positive
<1>8. InStep(row, ordered)
  BY <1>1, <1>4, <1>6 DEF DemandRow, InStep, Progress, Positive
<1> QED
  BY <1>3, <1>7, <1>8

\* A row and the rows of another put.
LEMMA OneRowAnd ==
  ASSUME NEW d, NEW r, NEW f
  PROVE  /\ DOMAIN (d :> r @@ f) = {d} \cup DOMAIN f /\ (d :> r @@ f)[d] = r
         /\ \A e \in DOMAIN f \ {d} : (d :> r @@ f)[e] = f[e]
<1>1. PICK entry : entry = d :> r
  OBVIOUS
<1>2. DOMAIN entry = {d} /\ entry[d] = r
  BY <1>1, OneRow
<1>3. /\ DOMAIN (entry @@ f) = {d} \cup DOMAIN f /\ (entry @@ f)[d] = r
      /\ \A e \in DOMAIN f \ {d} : (entry @@ f)[e] = f[e]
  BY <1>2 DEF @@
<1> QED
  BY <1>1, <1>3

LEMMA OneRowAlone ==
  ASSUME NEW d, NEW r
  PROVE  DOMAIN (d :> r @@ Nothing) = {d} /\ (d :> r @@ Nothing)[d] = r
<1>1. PICK rest : rest = Nothing
  OBVIOUS
<1>2. DOMAIN (d :> r @@ rest) = {d} \cup DOMAIN rest /\ (d :> r @@ rest)[d] = r
  BY OneRowAnd
<1> QED
  BY <1>1, <1>2, NothingIsEmpty

IsOrder(new, status, mr, q, source) ==
  /\ {"status", "mr", "qty", "source"} \subseteq DOMAIN new
  /\ new.status = status /\ new.mr = mr /\ new.qty = q /\ new.source = source

LEMMA OrderColumns ==
  ASSUME NEW status, NEW mr, NEW q, NEW hash, NEW from, NEW source
  PROVE  IsOrder(Order(status, mr, q, hash, from, source), status, mr, q, source)
  BY DEF Order, IsOrder

\* An order as it is inserted.
LEMMA NewOrderAfter ==
  ASSUME NEW put, NEW po \in DOMAIN put, db[po] = NoRow, NEW status, NEW mr \in Live("MR") \cup {NoRef}, NEW q \in Positive,
         NEW source, IsOrder(put[po], status, mr, q, source)
  PROVE  /\ OrderRow(After(put, po)) /\ After(put, po) # NoRow /\ IsOrder(After(put, po), status, mr, q, source)
         /\ \A x : PlacedShare(db[po], x) = 0
<1>1. PICK new, old, row : new = put[po] /\ old = db[po] /\ row = After(put, po)
  OBVIOUS
<1>2. DOMAIN row = DOMAIN new \cup DOMAIN old /\ \A c \in DOMAIN new : row[c] = new[c]
  BY <1>1, ColumnsAfter
<1>3. IsOrder(row, status, mr, q, source)
  BY <1>1, <1>2 DEF IsOrder
<1>4. row # NoRow
  BY <1>3, QuantityIsRow DEF IsOrder
<1>5. OrderRow(row)
  BY <1>3 DEF OrderRow, IsOrder
<1>6. \A x : PlacedShare(db[po], x) = 0
  BY DEF PlacedShare
<1> QED
  BY <1>1, <1>3, <1>4, <1>5, <1>6

\* What the drafts of a request ask for.
LEMMA DraftedNat ==
  ASSUME PurchasingInv, NEW mr
  PROVE  Drafted(mr) \in Nat
<1> DEFINE U == {po \in Of("PO", "mr", mr) : Status(po) = "DRAFT"}
           qty == [po \in U |-> db[po].qty]
<1>1. IsFiniteSet(U)
  BY FS_Subset DEF PurchasingInv, PurchasesComplete, Of, Live, Rows
<1>2. \A po \in U : qty[po] \in Nat
  BY OrderFacts DEF Of, OrderRow, Positive
<1>3. SumFunctionOnSet(qty, U) \in Nat
  <2> HIDE DEF qty, U
  <2> QED
    BY <1>1, <1>2, SumNat
<1> QED
  BY <1>3 DEF Drafted, Total

LEMMA CreatePurchaseOrderKeeps ==
  ASSUME PurchasingInv, NEW s \in Sessions, NEW mr \in Live("MR"), NEW q \in Positive, NEW submit \in BOOLEAN,
         NEW po \in Rows("PO"), Fresh(po), CreatePurchaseOrder(s, mr, q, submit, po)
  PROVE  PurchasingInv'
<1> HIDE DEF Sessions
<1>1. db[po] = NoRow /\ po \in DOMAIN db
  BY FreshIsNew DEF Rows
<1>2. /\ DemandRow(db[mr]) /\ mr # po /\ Status(mr) \in Open
      /\ db[mr].ordered + Drafted(mr) + q <= db[mr].qty
      /\ Drafted(mr) \in Nat
  BY DemandFacts, DraftedNat, KindsDiffer DEF CreatePurchaseOrder, Uncommitted
<1>3. CASE submit
  <2>0. PICK ordered, new, line :
          /\ ordered = db[mr].ordered + q
          /\ new = Order("SUBMITTED", mr, q, TRUE, NoRef, NoRef)
          /\ line = [ordered |-> ordered, status |-> IF Status(mr) \in {"CANCELLED", "DRAFT"} THEN Status(mr)
                                                     ELSE Progress(db[mr].qty, ordered)]
    OBVIOUS
  <2>1. PICK put : put = po :> new @@ mr :> line
    OBVIOUS
  <2>2. Stage(s, put, Nothing, {mr})
    BY <1>3, <2>0, <2>1 DEF CreatePurchaseOrder, NewOrder, OrderedFrom, Refreshed
  <2>3. DOMAIN put = {po, mr} /\ put[po] = new /\ put[mr] = line
    <3>1. PICK first, second : first = po :> new /\ second = mr :> line
      OBVIOUS
    <3>2. DOMAIN first = {po} /\ first[po] = new /\ DOMAIN second = {mr} /\ second[mr] = line
      BY <3>1, OneRow
    <3>3. put = first @@ second
      BY <2>1, <3>1
    <3> QED
      BY <1>2, <3>2, <3>3 DEF @@
  <2>4. ordered \in Nat /\ ordered <= db[mr].qty /\ ordered = db[mr].ordered + (q - 0)
    BY <1>2, <2>0 DEF DemandRow, Positive
  <2>5. DemandRow(After(put, mr)) /\ InStep(After(put, mr), ordered)
    BY <1>2, <2>0, <2>3, <2>4, RefreshedInStep DEF Open
  <2>6. IsOrder(put[po], "SUBMITTED", mr, q, NoRef)
    BY <2>0, <2>3, OrderColumns
  <2>7. /\ OrderRow(After(put, po)) /\ \A x : PlacedShare(db[po], x) = 0
        /\ \A x : PlacedShare(After(put, po), x) = IF mr = x THEN q ELSE 0
    <3>1. /\ OrderRow(After(put, po)) /\ After(put, po) # NoRow /\ IsOrder(After(put, po), "SUBMITTED", mr, q, NoRef)
          /\ \A x : PlacedShare(db[po], x) = 0
      BY <1>1, <2>3, <2>6, NewOrderAfter
    <3> QED
      BY <3>1 DEF IsOrder, PlacedShare
  <2>8. InStep(After(put, mr), db[mr].ordered + (PlacedShare(After(put, po), mr) - PlacedShare(db[po], mr)))
    BY <2>4, <2>5, <2>7
  <2>9. /\ KeepsDemand(put, {mr}) /\ KeepsQuotes(put)
        /\ \A d \in OrdersIn(put) \cup DemandsIn(put) : db[d] = NoRow => Fresh(d)
    BY <1>1, <2>3, <2>5, <2>7, <2>8, OrderAndDemandKeep
  <2> QED
    BY <2>2, <2>9, StageKeepsPurchasing
<1>4. CASE ~ submit
  <2>0. PICK new : new = Order("DRAFT", mr, q, TRUE, NoRef, NoRef)
    OBVIOUS
  <2>1. PICK put : put = po :> new @@ Nothing
    OBVIOUS
  <2>2. Stage(s, put, Nothing, {mr})
    BY <1>4, <2>0, <2>1 DEF CreatePurchaseOrder, NewOrder
  <2>3. DOMAIN put = {po} /\ put[po] = new
    BY <2>1, OneRowAlone
  <2>4. IsOrder(put[po], "DRAFT", mr, q, NoRef)
    BY <2>0, <2>3, OrderColumns
  <2>5. OrderRow(After(put, po)) /\ \A x : PlacedShare(After(put, po), x) = PlacedShare(db[po], x)
    <3>1. /\ OrderRow(After(put, po)) /\ IsOrder(After(put, po), "DRAFT", mr, q, NoRef)
          /\ \A x : PlacedShare(db[po], x) = 0
      BY <1>1, <2>3, <2>4, NewOrderAfter
    <3> QED
      BY <3>1 DEF IsOrder, PlacedShare
  <2> QED
    BY <1>1, <2>2, <2>3, <2>5, LoneOrderKeeps
<1> QED
  BY <1>3, <1>4

\* An order that is there keeps its request and its source.
LEMMA OrderStays ==
  ASSUME PurchasingInv, NEW po \in Live("PO"), NEW put, po \in DOMAIN put, NEW new, new = put[po],
         "mr" \notin DOMAIN new, "source" \notin DOMAIN new, "qty" \in DOMAIN new => new.qty \in Positive,
         NEW row, row = After(put, po)
  PROVE  /\ OrderRow(row) /\ row # NoRow /\ row.mr = db[po].mr /\ row.source = db[po].source
         /\ row.status = IF "status" \in DOMAIN new THEN new.status ELSE db[po].status
         /\ row.qty = IF "qty" \in DOMAIN new THEN new.qty ELSE db[po].qty
<1>1. PICK old : old = db[po]
  OBVIOUS
<1>2. OrderRow(old)
  BY <1>1, OrderFacts
<1>3. /\ DOMAIN row = DOMAIN new \cup DOMAIN old
      /\ \A c \in DOMAIN new : row[c] = new[c]
      /\ \A c \in DOMAIN old \ DOMAIN new : row[c] = old[c]
  <2>1. /\ DOMAIN After(put, po) = DOMAIN put[po] \cup DOMAIN db[po]
        /\ \A c \in DOMAIN put[po] : After(put, po)[c] = put[po][c]
        /\ \A c \in DOMAIN db[po] \ DOMAIN put[po] : After(put, po)[c] = db[po][c]
    BY AfterColumns
  <2> QED
    BY <1>1, <2>1
<1>4. /\ {"status", "mr", "qty", "source"} \subseteq DOMAIN row /\ row.mr = old.mr /\ row.source = old.source
      /\ row.status = IF "status" \in DOMAIN new THEN new.status ELSE old.status
      /\ row.qty = IF "qty" \in DOMAIN new THEN new.qty ELSE old.qty
  BY <1>2, <1>3 DEF OrderRow
<1>5. row.qty \in Positive /\ row.mr \in Live("MR") \cup {NoRef}
  BY <1>2, <1>4 DEF OrderRow
<1> QED
  BY <1>1, <1>4, <1>5, QuantityIsRow DEF OrderRow

\* A draft counts for nothing, whatever its quantity.
LEMMA DraftEditKeeps ==
  ASSUME PurchasingInv, NEW s \in Sessions, NEW po \in Live("PO"), Status(po) = "DRAFT", NEW locks, po \in locks,
         NEW r, Stage(s, po :> r, Nothing, locks), DOMAIN r \subseteq {"qty", "hash"}, "qty" \in DOMAIN r => r.qty \in Positive
  PROVE  PurchasingInv'
<1> HIDE DEF Sessions
<1>1. po \in Rows("PO") /\ db[po] # NoRow /\ db[po].status = "DRAFT"
  BY OrderFacts DEF Status
<1>2. PICK put : put = po :> r
  OBVIOUS
<1>3. DOMAIN put = {po} /\ put[po] = r
  BY <1>2, OneRow
<1>4. PICK row : row = After(put, po)
  OBVIOUS
<1>5. OrderRow(row) /\ row.status = "DRAFT"
  BY <1>1, <1>3, <1>4, OrderStays
<1>6. \A mr \in Live("MR") : PlacedShare(row, mr) = PlacedShare(db[po], mr)
  BY <1>1, <1>5 DEF PlacedShare
<1> QED
  BY <1>1, <1>2, <1>3, <1>4, <1>5, <1>6, LoneOrderKeeps

LEMMA RecalculatePurchaseOrderDraftKeeps ==
  ASSUME PurchasingInv, NEW s \in Sessions, NEW po \in Live("PO"), RecalculatePurchaseOrderDraft(s, po)
  PROVE  PurchasingInv'
<1> HIDE DEF Sessions
<1>1. PICK r : r = [hash |-> TRUE]
  OBVIOUS
<1>2. Status(po) = "DRAFT" /\ Stage(s, po :> r, Nothing, {po})
  BY <1>1 DEF RecalculatePurchaseOrderDraft
<1>3. DOMAIN r = {"hash"}
  BY <1>1
<1> QED
  BY <1>2, <1>3, DraftEditKeeps

LEMMA UpdatePurchaseOrderDraftKeeps ==
  ASSUME PurchasingInv, NEW s \in Sessions, NEW po \in Live("PO"), NEW q \in Positive, UpdatePurchaseOrderDraft(s, po, q)
  PROVE  PurchasingInv'
<1> HIDE DEF Sessions
<1>1. PICK r, locks : r = [qty |-> q, hash |-> TRUE] /\ locks = {po, db[po].mr}
  OBVIOUS
<1>2. Status(po) = "DRAFT" /\ Stage(s, po :> r, Nothing, locks)
  BY <1>1 DEF UpdatePurchaseOrderDraft
<1>3. DOMAIN r = {"qty", "hash"} /\ r.qty = q /\ po \in locks
  BY <1>1
<1> QED
  BY <1>2, <1>3, DraftEditKeeps

LEMMA AmendPurchaseOrderKeeps ==
  ASSUME PurchasingInv, NEW s \in Sessions, NEW po \in Live("PO"), NEW new \in Rows("PO"), Fresh(new),
         AmendPurchaseOrder(s, po, new)
  PROVE  PurchasingInv'
<1> HIDE DEF Sessions
<1>1. db[new] = NoRow
  BY FreshIsNew DEF Rows
<1>2. db[po].mr \in Live("MR") \cup {NoRef} /\ db[po].qty \in Positive
  BY OrderFacts DEF OrderRow
<1>3. PICK r : r = Order("DRAFT", db[po].mr, db[po].qty, FALSE, po, NoRef)
  OBVIOUS
<1>4. PICK put : put = new :> r
  OBVIOUS
<1>5. DOMAIN put = {new} /\ put[new] = r
  BY <1>4, OneRow
<1>6. Stage(s, put, Nothing, {po})
  BY <1>3, <1>4 DEF AmendPurchaseOrder
<1>7. IsOrder(put[new], "DRAFT", db[po].mr, db[po].qty, NoRef)
  BY <1>3, <1>5, OrderColumns
<1>8. /\ OrderRow(After(put, new)) /\ IsOrder(After(put, new), "DRAFT", db[po].mr, db[po].qty, NoRef)
      /\ \A x : PlacedShare(db[new], x) = 0
  BY <1>1, <1>2, <1>5, <1>7, NewOrderAfter
<1>9. \A x : PlacedShare(After(put, new), x) = PlacedShare(db[new], x)
  BY <1>8 DEF IsOrder, PlacedShare
<1> QED
  BY <1>1, <1>5, <1>6, <1>8, <1>9, LoneOrderKeeps

\* An order changes its status, and the line of its request follows.
LEMMA OrderStatusKeeps ==
  ASSUME PurchasingInv, NEW s \in Sessions, NEW po \in Live("PO"), NEW locks, po \in locks,
         NEW mr \in Live("MR"), mr = db[po].mr, mr \in locks, NEW status, NEW ordered \in Nat, ordered <= db[mr].qty,
         Status(mr) = "DRAFT" => ordered = 0,
         Stage(s, po :> [status |-> status] @@ Refreshed(mr, ordered), Nothing, locks),
         ordered = db[mr].ordered + ((IF status \in {"DRAFT", "CANCELLED"} THEN 0 ELSE db[po].qty)
                                      - (IF Status(po) \in {"DRAFT", "CANCELLED"} THEN 0 ELSE db[po].qty))
  PROVE  PurchasingInv'
<1> HIDE DEF Sessions
<1>1. po \in Rows("PO") /\ db[po] # NoRow /\ OrderRow(db[po]) /\ mr # po
  BY OrderFacts, DemandFacts, KindsDiffer
<1>2. PICK r, line :
        /\ r = [status |-> status]
        /\ line = [ordered |-> ordered,
                   status |-> IF Status(mr) \in {"CANCELLED", "DRAFT"} THEN Status(mr) ELSE Progress(db[mr].qty, ordered)]
  OBVIOUS
<1>3. PICK first, second : first = po :> r /\ second = mr :> line
  OBVIOUS
<1>4. PICK put : put = first @@ second
  OBVIOUS
<1>5. Stage(s, put, Nothing, locks)
  BY <1>2, <1>3, <1>4 DEF Refreshed
<1>6. DOMAIN put = {po, mr} /\ put[po] = r /\ put[mr] = line
  <2>1. DOMAIN first = {po} /\ first[po] = r /\ DOMAIN second = {mr} /\ second[mr] = line
    BY <1>3, OneRow
  <2> QED
    BY <1>1, <1>4, <2>1 DEF @@
<1>7. DemandRow(After(put, mr)) /\ InStep(After(put, mr), ordered)
  BY <1>2, <1>6, RefreshedInStep
<1>8. PICK row : row = After(put, po)
  OBVIOUS
<1>9. DOMAIN r = {"status"} /\ r.status = status
  BY <1>2
<1>10. OrderRow(row) /\ row # NoRow /\ row.mr = mr /\ row.status = status /\ row.qty = db[po].qty
  BY <1>6, <1>8, <1>9, OrderStays
<1>11. /\ PlacedShare(row, mr) = IF status \in {"DRAFT", "CANCELLED"} THEN 0 ELSE db[po].qty
       /\ PlacedShare(db[po], mr) = IF Status(po) \in {"DRAFT", "CANCELLED"} THEN 0 ELSE db[po].qty
       /\ \A x \in Live("MR") \ {mr} : PlacedShare(row, x) = PlacedShare(db[po], x)
  BY <1>1, <1>10 DEF PlacedShare, Status
<1>12. InStep(After(put, mr), db[mr].ordered + (PlacedShare(row, mr) - PlacedShare(db[po], mr)))
  BY <1>7, <1>11
<1>13. /\ KeepsDemand(put, locks) /\ KeepsQuotes(put)
       /\ \A d \in OrdersIn(put) \cup DemandsIn(put) : db[d] = NoRow => Fresh(d)
  BY <1>1, <1>6, <1>7, <1>8, <1>10, <1>11, <1>12, OrderAndDemandKeep
<1> QED
  BY <1>5, <1>13, StageKeepsPurchasing

LEMMA SubmitPurchaseOrderKeeps ==
  ASSUME PurchasingInv, NEW s \in Sessions, NEW po \in Live("PO"), db[po].mr # NoRef, SubmitPurchaseOrder(s, po)
  PROVE  PurchasingInv'
<1> HIDE DEF Sessions
<1>1. OrderRow(db[po]) /\ po \in Rows("PO")
  BY OrderFacts
<1>2. PICK mr, locks : mr = db[po].mr /\ locks = {po, db[po].from, db[po].mr} \ {NoRef}
  OBVIOUS
<1>3. mr \in Live("MR") /\ DemandRow(db[mr])
  BY <1>1, <1>2, DemandFacts DEF OrderRow
<1>4. po \in locks /\ mr \in locks
  BY <1>1, <1>2 DEF Rows, NoRef
<1>5. PICK ordered : ordered = db[mr].ordered + db[po].qty
  OBVIOUS
<1>6. Status(po) = "DRAFT" /\ ordered <= db[mr].qty /\ Status(mr) \in Open
  BY <1>2, <1>5 DEF SubmitPurchaseOrder, Submittable
<1>7. Stage(s, po :> [status |-> "SUBMITTED"] @@ Refreshed(mr, ordered), Nothing, locks)
  BY <1>2, <1>5 DEF SubmitPurchaseOrder
<1>8. /\ ordered \in Nat /\ (Status(mr) = "DRAFT" => ordered = 0)
      /\ ordered = db[mr].ordered + ((IF "SUBMITTED" \in {"DRAFT", "CANCELLED"} THEN 0 ELSE db[po].qty)
                                      - (IF Status(po) \in {"DRAFT", "CANCELLED"} THEN 0 ELSE db[po].qty))
  BY <1>1, <1>3, <1>5, <1>6 DEF DemandRow, OrderRow, Positive, Open
<1> QED
  BY <1>2, <1>3, <1>4, <1>6, <1>7, <1>8, OrderStatusKeeps

LEMMA CancelPurchaseOrderKeeps ==
  ASSUME PurchasingInv, NEW s \in Sessions, NEW po \in Live("PO"), CancelPurchaseOrder(s, po)
  PROVE  PurchasingInv'
<1> HIDE DEF Sessions
<1>1. OrderRow(db[po]) /\ po \in Rows("PO") /\ db[po] # NoRow /\ Status(po) \in {"DRAFT", "SUBMITTED"}
  BY OrderFacts DEF CancelPurchaseOrder
<1>2. PICK mr : mr = db[po].mr
  OBVIOUS
<1>3. CASE Status(po) = "SUBMITTED" /\ mr # NoRef
  <2>1. mr \in Live("MR") /\ DemandRow(db[mr]) /\ db[mr].ordered = Placed(mr) /\ InStep(db[mr], db[mr].ordered)
    BY <1>1, <1>2, <1>3, DemandFacts DEF OrderRow
  <2>2. PlacedShare(db[po], mr) = db[po].qty
    BY <1>1, <1>2, <1>3 DEF PlacedShare, Status
  <2>3. db[po].qty <= db[mr].ordered
    BY <1>1, <2>1, <2>2, SharesTotalNat DEF PurchasingInv
  <2>4. PICK ordered, locks : ordered = db[mr].ordered - db[po].qty /\ locks = {po, mr}
    OBVIOUS
  <2>5. ordered = IF db[mr].ordered > db[po].qty THEN db[mr].ordered - db[po].qty ELSE 0
    BY <1>1, <2>1, <2>3, <2>4 DEF DemandRow, OrderRow, Positive
  <2>6. Stage(s, po :> [status |-> "CANCELLED"] @@ Refreshed(mr, ordered), Nothing, locks)
    <3>1. locks = {po} \cup {mr}
      BY <2>4
    <3> QED
      BY <1>2, <1>3, <2>5, <3>1 DEF CancelPurchaseOrder
  <2>7. /\ ordered \in Nat /\ ordered <= db[mr].qty /\ (Status(mr) = "DRAFT" => ordered = 0)
        /\ ordered = db[mr].ordered + ((IF "CANCELLED" \in {"DRAFT", "CANCELLED"} THEN 0 ELSE db[po].qty)
                                        - (IF Status(po) \in {"DRAFT", "CANCELLED"} THEN 0 ELSE db[po].qty))
    BY <1>1, <1>3, <2>1, <2>3, <2>4 DEF DemandRow, OrderRow, Positive, InStep, Status
  <2>8. po \in locks /\ mr \in locks
    BY <2>4
  <2> QED
    BY <1>2, <2>1, <2>6, <2>7, <2>8, OrderStatusKeeps
<1>4. CASE ~ (Status(po) = "SUBMITTED" /\ mr # NoRef)
  <2>1. PICK r : r = [status |-> "CANCELLED"]
    OBVIOUS
  <2>2. PICK put : put = po :> r @@ Nothing
    OBVIOUS
  <2>3. Stage(s, put, Nothing, {po})
    <3>1. {po} = {po} \cup {}
      OBVIOUS
    <3> QED
      BY <1>2, <1>4, <2>1, <2>2, <3>1 DEF CancelPurchaseOrder
  <2>4. DOMAIN put = {po} /\ put[po] = r
    BY <2>2, OneRowAlone
  <2>5. PICK row : row = After(put, po)
    OBVIOUS
  <2>6. DOMAIN r = {"status"} /\ r.status = "CANCELLED"
    BY <2>1
  <2>7. OrderRow(row) /\ row.status = "CANCELLED"
    BY <2>4, <2>5, <2>6, OrderStays
  <2>8. \A x \in Live("MR") : PlacedShare(row, x) = PlacedShare(db[po], x)
    <3>1. \A x \in Live("MR") : PlacedShare(row, x) = 0
      BY <2>7 DEF PlacedShare
    <3>2. \A x \in Live("MR") : PlacedShare(db[po], x) = 0
      BY <1>1, <1>2, <1>4, DemandFacts DEF PlacedShare, Status
    <3> QED
      BY <3>1, <3>2
  <2> QED
    BY <1>1, <2>3, <2>4, <2>5, <2>7, <2>8, LoneOrderKeeps
<1> QED
  BY <1>3, <1>4

-----------------------------------------------------------------------------
(* Purchasing: conversions *)

LEMMA BeginConversionKeeps ==
  ASSUME PurchasingInv, OneSession, NEW s \in Sessions, NEW mr \in Live("MR"), BeginConversion(s, mr)
  PROVE  PurchasingInv'
<1>1. PICK memo : memo = [op |-> "convert", mr |-> mr, ordered |-> db[mr].ordered]
  OBVIOUS
<1>2. Hold(s, memo, {}) /\ Status(mr) \in Open
  BY <1>1 DEF BeginConversion
<1>3. /\ Sessions' = Sessions /\ db' = db
      /\ req'[s].put = Staged(Nothing) /\ req'[s].locks = {} /\ req'[s].memo = memo
  BY <1>2 DEF Hold, Request, Staged, Sessions
<1>4. Sessions = {s}
  BY DEF OneSession
<1> HIDE DEF Sessions
<1>5. DOMAIN Staged(Nothing) = {}
  BY NothingIsEmpty DEF Staged
<1>6. KeepsDemand(Staged(Nothing), {}) /\ KeepsQuotes(Staged(Nothing))
  <2>1. PICK put : put = Staged(Nothing)
    OBVIOUS
  <2>2. OrdersIn(put) = {} /\ DemandsIn(put) = {}
    BY <1>5, <2>1 DEF OrdersIn, DemandsIn
  <2>3. KeepsDemand(put, {})
    BY <2>2, WithoutOrdersKeeps
  <2>4. KeepsQuotes(put)
    BY <1>5, <2>1 DEF KeepsQuotes
  <2> QED
    BY <2>1, <2>3, <2>4
<1>7. PICK put : put = Staged(Nothing)
  OBVIOUS
<1>8. KeepsDemand(put, {})' /\ KeepsQuotes(put)'
  BY <1>3, <1>6, <1>7, SamePurchases
<1>9. KeepsDemand(req[s].put, req[s].locks)' /\ KeepsQuotes(req[s].put)'
  BY <1>3, <1>7, <1>8
<1>10. InsertsPurchase(s, req[s].put)'
  BY <1>3, <1>4 DEF InsertsPurchase
<1>11. Converts(req[s])'
  BY <1>1, <1>2, <1>3, <1>5 DEF Converts, OneSession, Live, Rows, Status
<1>12. PurchasesComplete' /\ DemandOrderedOnce'
  BY <1>3, SamePurchases DEF PurchasingInv
<1>13. \A t \in Sessions' : t = s
  BY <1>3, <1>4
<1> QED
  BY <1>9, <1>10, <1>11, <1>12, <1>13 DEF PurchasingInv

LEMMA CreatePoFromMaterialRequestKeeps ==
  ASSUME PurchasingInv, NEW s \in Sessions, NEW q \in Positive, NEW po \in Rows("PO"), Fresh(po),
         CreatePoFromMaterialRequest(s, q, po)
  PROVE  PurchasingInv'
<1>1. PICK m, held : m = req[s].memo /\ held = req[s].locks
  OBVIOUS
<1>2. PICK mr, locks, ordered : mr = m.mr /\ locks = held \cup {mr} /\ ordered = m.ordered + q
  OBVIOUS
<1>3. PICK new, line :
        /\ new = Order("SUBMITTED", mr, q, FALSE, NoRef, NoRef)
        /\ line = [ordered |-> ordered, status |-> Progress(db[mr].qty, ordered)]
  OBVIOUS
<1>4. PICK first, second : first = po :> new /\ second = mr :> line
  OBVIOUS
<1>5. PICK put : put = first @@ second
  OBVIOUS
<1>6. /\ req[s] # Idle /\ m.op = "convert" /\ q <= db[mr].qty - m.ordered
      /\ Finish(s, put, Nothing, {mr})
  BY <1>1, <1>2, <1>3, <1>4, <1>5 DEF CreatePoFromMaterialRequest, At, Free
<1>7. /\ Sessions' = Sessions /\ db' = db /\ \A t \in Sessions \ {s} : req'[t] = req[t]
      /\ req'[s].put = Staged(put) /\ req'[s].locks = locks /\ req'[s].memo.op = "commit"
  BY <1>1, <1>2, <1>6 DEF Finish, Request, Staged, Sessions
<1> HIDE DEF Sessions
<1>8. mr \in Live("MR") /\ Status(mr) \in Open /\ m.ordered = db[mr].ordered
  BY <1>1, <1>2, <1>6 DEF PurchasingInv, Converts
<1>9. DemandRow(db[mr]) /\ mr # po /\ db[po] = NoRow /\ mr \in locks
  BY <1>2, <1>8, DemandFacts, KindsDiffer, FreshIsNew DEF Rows
<1>10. DOMAIN put = {po, mr} /\ put[po] = new /\ put[mr] = line
  <2>1. DOMAIN first = {po} /\ first[po] = new /\ DOMAIN second = {mr} /\ second[mr] = line
    BY <1>4, OneRow
  <2> QED
    BY <1>5, <1>9, <2>1 DEF @@
<1>11. ordered \in Nat /\ ordered <= db[mr].qty /\ ordered = db[mr].ordered + (q - 0)
  BY <1>2, <1>6, <1>8, <1>9 DEF DemandRow, Positive
<1>12. PICK status : status = Progress(db[mr].qty, ordered) /\ line = [ordered |-> ordered, status |-> status]
  BY <1>3
<1>13. status = (IF Status(mr) \in {"CANCELLED", "DRAFT"} THEN Status(mr) ELSE Progress(db[mr].qty, ordered))
  BY <1>8, <1>12 DEF Open
<1>14. DemandRow(After(put, mr)) /\ InStep(After(put, mr), ordered)
  BY <1>8, <1>10, <1>11, <1>12, <1>13, RefreshedInStep DEF Open
<1>15. IsOrder(put[po], "SUBMITTED", mr, q, NoRef)
  BY <1>3, <1>10, OrderColumns
<1>16. PICK row : row = After(put, po)
  OBVIOUS
<1>17. /\ OrderRow(row) /\ row # NoRow /\ IsOrder(row, "SUBMITTED", mr, q, NoRef)
       /\ \A x : PlacedShare(db[po], x) = 0
  BY <1>8, <1>9, <1>10, <1>15, <1>16, NewOrderAfter
<1>18. PlacedShare(row, mr) = q /\ \A x \in Live("MR") \ {mr} : PlacedShare(row, x) = 0
  BY <1>17 DEF IsOrder, PlacedShare
<1>19. InStep(After(put, mr), db[mr].ordered + (PlacedShare(row, mr) - PlacedShare(db[po], mr)))
  BY <1>11, <1>14, <1>17, <1>18
<1>20. /\ KeepsDemand(put, locks) /\ KeepsQuotes(put)
       /\ \A d \in OrdersIn(put) \cup DemandsIn(put) : db[d] = NoRow => Fresh(d)
  BY <1>8, <1>9, <1>10, <1>14, <1>16, <1>17, <1>18, <1>19, OrderAndDemandKeep
<1> QED
  BY <1>7, <1>20, PutKeepsPurchasing

-----------------------------------------------------------------------------
(* Purchasing: sourcing *)

LEMMA WithoutPurchasesKeeps ==
  ASSUME PurchasingInv, NEW s \in Sessions, NEW put, NEW add, NEW locks, Stage(s, put, add, locks),
         \A d \in DOMAIN put : d \notin Rows("PO") \cup Rows("MR"), KeepsQuotes(put)
  PROVE  PurchasingInv'
<1> HIDE DEF Sessions
<1>1. OrdersIn(put) = {} /\ DemandsIn(put) = {}
  BY DEF OrdersIn, DemandsIn
<1>2. KeepsDemand(put, locks)
  BY <1>1, WithoutOrdersKeeps
<1> QED
  BY <1>1, <1>2, StageKeepsPurchasing

LEMMA OtherRowKeeps ==
  ASSUME PurchasingInv, NEW s \in Sessions, NEW d, d[1] \in {"RFQ", "BLANKET"}, NEW r, Stage(s, d :> r, Nothing, {})
  PROVE  PurchasingInv'
<1> HIDE DEF Sessions
<1>1. PICK put : put = d :> r
  OBVIOUS
<1>2. DOMAIN put = {d}
  BY <1>1, OneRow
<1>3. KeepsQuotes(put) /\ \A e \in DOMAIN put : e \notin Rows("PO") \cup Rows("MR")
  BY <1>2 DEF KeepsQuotes, Rows
<1> QED
  BY <1>1, <1>3, WithoutPurchasesKeeps

\* What the handlers of sourcing stage, row by row.
LEMMA QuotationRows ==
  ASSUME NEW s \in Sessions, NEW rfq, NEW q, NEW sq, sq # rfq, CreateSupplierQuotation(s, rfq, q, sq)
  PROVE  \E put :
           /\ Stage(s, put, Nothing, {})
           /\ sq \in DOMAIN put /\ DOMAIN put \subseteq {sq, rfq}
           /\ put[sq] = [status |-> "SUBMITTED", rfq |-> rfq, qty |-> q]
<1> HIDE DEF Sessions
<1>1. PICK new, answered : new = [status |-> "SUBMITTED", rfq |-> rfq, qty |-> q] /\ answered = [status |-> "QUOTES_RECEIVED"]
  OBVIOUS
<1>2. PICK first, second : first = sq :> new /\ second = rfq :> answered
  OBVIOUS
<1>3. PICK rest : rest = IF Status(rfq) = "SENT" THEN second ELSE Nothing
  OBVIOUS
<1>4. PICK put : put = first @@ rest
  OBVIOUS
<1>5. Stage(s, put, Nothing, {})
  BY <1>1, <1>2, <1>3, <1>4 DEF CreateSupplierQuotation
<1>6. DOMAIN first = {sq} /\ first[sq] = new /\ DOMAIN rest \subseteq {rfq}
  BY <1>2, <1>3, OneRow, NothingIsEmpty
<1>7. sq \in DOMAIN put /\ DOMAIN put \subseteq {sq, rfq} /\ put[sq] = new
  BY <1>4, <1>6 DEF @@
<1> QED
  BY <1>1, <1>5, <1>7

Rejected(sq) == {x \in Of("SQ", "rfq", db[sq].rfq) : x # sq /\ Status(x) # "AWARDED"}

LEMMA AwardRows ==
  ASSUME NEW s \in Sessions, NEW sq \in Rows("SQ"), NEW po \in Rows("PO"), db[sq].rfq \in Rows("RFQ"),
         AwardQuotationToPo(s, sq, po)
  PROVE  \E put :
           /\ Stage(s, put, Nothing, {})
           /\ DOMAIN put = Rejected(sq) \cup {sq, db[sq].rfq, po}
           /\ \A x \in Rejected(sq) : put[x] = [status |-> "REJECTED"]
           /\ put[sq] = [status |-> "AWARDED"]
           /\ put[po] = Order("SUBMITTED", NoRef, db[sq].qty, FALSE, NoRef, sq)
<1> HIDE DEF Sessions
<1>1. PICK others, rfq, no, yes, done, new :
        /\ others = Rejected(sq) /\ rfq = db[sq].rfq
        /\ no = [status |-> "REJECTED"] /\ yes = [status |-> "AWARDED"] /\ done = [status |-> "COMPLETED"]
        /\ new = Order("SUBMITTED", NoRef, db[sq].qty, FALSE, NoRef, sq)
  OBVIOUS
<1>2. PICK a, b, c, d : a = [x \in others |-> no] /\ b = sq :> yes /\ c = rfq :> done /\ d = po :> new
  OBVIOUS
<1>3. PICK put : put = ((a @@ b) @@ c) @@ d
  OBVIOUS
<1>4. Stage(s, put, Nothing, {})
  BY <1>1, <1>2, <1>3 DEF AwardQuotationToPo, Rejected
<1>5. /\ DOMAIN a = others /\ (\A x \in others : a[x] = no)
      /\ DOMAIN b = {sq} /\ b[sq] = yes /\ DOMAIN c = {rfq} /\ c[rfq] = done /\ DOMAIN d = {po} /\ d[po] = new
  BY <1>2, OneRow
<1>6. /\ sq \notin others /\ sq # rfq /\ po \notin others \cup {sq, rfq}
      /\ rfq \notin others
  BY <1>1 DEF Rejected, Of, Live, Rows
<1>7. /\ DOMAIN put = others \cup {sq, rfq, po}
      /\ \A x \in others : put[x] = no
      /\ put[sq] = yes /\ put[po] = new
  BY <1>3, <1>5, <1>6 DEF @@
<1> QED
  BY <1>1, <1>4, <1>7

LEMMA DrawRows ==
  ASSUME NEW s \in Sessions, NEW bo \in Rows("BLANKET"), NEW q, NEW po \in Rows("PO"), CreatePoFromBlanketOrder(s, bo, q, po)
  PROVE  \E put :
           /\ Stage(s, put, Nothing, {})
           /\ DOMAIN put = {bo, po}
           /\ put[bo] = [ordered |-> db[bo].ordered + q,
                         status  |-> IF db[bo].ordered + q >= db[bo].qty THEN "CLOSED" ELSE "ACTIVE"]
           /\ put[po] = Order("SUBMITTED", NoRef, q, FALSE, NoRef, bo)
<1> HIDE DEF Sessions
<1>1. PICK drawn, new :
        /\ drawn = [ordered |-> db[bo].ordered + q,
                    status  |-> IF db[bo].ordered + q >= db[bo].qty THEN "CLOSED" ELSE "ACTIVE"]
        /\ new = Order("SUBMITTED", NoRef, q, FALSE, NoRef, bo)
  OBVIOUS
<1>2. PICK first, second : first = bo :> drawn /\ second = po :> new
  OBVIOUS
<1>3. PICK put : put = first @@ second
  OBVIOUS
<1>4. Stage(s, put, Nothing, {})
  BY <1>1, <1>2, <1>3 DEF CreatePoFromBlanketOrder
<1>5. DOMAIN first = {bo} /\ first[bo] = drawn /\ DOMAIN second = {po} /\ second[po] = new /\ bo # po
  BY <1>2, OneRow DEF Rows
<1>6. DOMAIN put = {bo, po} /\ put[bo] = drawn /\ put[po] = new
  BY <1>3, <1>5 DEF @@
<1> QED
  BY <1>1, <1>4, <1>6

LEMMA CreateSupplierQuotationKeeps ==
  ASSUME PurchasingInv, NEW s \in Sessions, NEW rfq \in Rows("RFQ"), NEW q \in Positive, NEW sq \in Rows("SQ"),
         CreateSupplierQuotation(s, rfq, q, sq)
  PROVE  PurchasingInv'
<1> HIDE DEF Sessions
<1>1. sq # rfq
  BY DEF Rows
<1>2. PICK put :
        /\ Stage(s, put, Nothing, {})
        /\ sq \in DOMAIN put /\ DOMAIN put \subseteq {sq, rfq}
        /\ put[sq] = [status |-> "SUBMITTED", rfq |-> rfq, qty |-> q]
  BY <1>1, QuotationRows
<1>3. PICK new : new = put[sq]
  OBVIOUS
<1>4. {"rfq", "qty"} \subseteq DOMAIN new /\ new.rfq = rfq /\ new.qty = q
  BY <1>2, <1>3
<1>5. KeepsQuotes(put)
  BY <1>2, <1>3, <1>4 DEF KeepsQuotes, Rows
<1>6. \A d \in DOMAIN put : d \notin Rows("PO") \cup Rows("MR")
  BY <1>2 DEF Rows
<1> QED
  BY <1>2, <1>5, <1>6, WithoutPurchasesKeeps

\* A handler that inserts an order without a request.
LEMMA SourcedOrderKeeps ==
  ASSUME PurchasingInv, NEW s \in Sessions, NEW put, Stage(s, put, Nothing, {}), NEW po \in Rows("PO"), Fresh(po),
         OrdersIn(put) = {po}, DemandsIn(put) = {}, KeepsQuotes(put),
         NEW q \in Positive, NEW source, put[po] = Order("SUBMITTED", NoRef, q, FALSE, NoRef, source)
  PROVE  PurchasingInv'
<1> HIDE DEF Sessions
<1>1. db[po] = NoRow /\ po \in DOMAIN put
  BY FreshIsNew DEF Rows, OrdersIn
<1>2. IsOrder(put[po], "SUBMITTED", NoRef, q, source)
  BY OrderColumns
<1>3. PICK row : row = After(put, po)
  OBVIOUS
<1>4. /\ OrderRow(row) /\ row # NoRow /\ IsOrder(row, "SUBMITTED", NoRef, q, source)
      /\ \A x : PlacedShare(db[po], x) = 0
  BY <1>1, <1>2, <1>3, NewOrderAfter
<1>5. \A mr \in Live("MR") : PlacedShare(row, mr) = PlacedShare(db[po], mr)
  BY <1>4, DemandFacts DEF IsOrder, PlacedShare
<1>6. KeepsDemand(put, {})
  BY <1>1, <1>3, <1>4, <1>5, OrderAloneKeeps
<1> QED
  BY <1>6, StageKeepsPurchasing

LEMMA QuoteFacts ==
  ASSUME PurchasingInv, NEW sq \in Live("SQ")
  PROVE  /\ QuoteRow(db[sq]) /\ db[sq].qty \in Positive /\ db[sq].rfq \in Rows("RFQ")
         /\ sq \in Rows("SQ") /\ sq \in DOMAIN db /\ db[sq] # NoRow
  BY DEF PurchasingInv, PurchasesComplete, QuoteRow, Live, Rows

LEMMA AwardQuotationToPoKeeps ==
  ASSUME PurchasingInv, NEW s \in Sessions, NEW sq \in Live("SQ"), NEW po \in Rows("PO"), Fresh(po),
         AwardQuotationToPo(s, sq, po)
  PROVE  PurchasingInv'
<1> HIDE DEF Sessions
<1>1. sq \in Rows("SQ") /\ db[sq].rfq \in Rows("RFQ") /\ db[sq].qty \in Positive
  BY QuoteFacts
<1>2. PICK put :
        /\ Stage(s, put, Nothing, {})
        /\ DOMAIN put = Rejected(sq) \cup {sq, db[sq].rfq, po}
        /\ \A x \in Rejected(sq) : put[x] = [status |-> "REJECTED"]
        /\ put[sq] = [status |-> "AWARDED"]
        /\ put[po] = Order("SUBMITTED", NoRef, db[sq].qty, FALSE, NoRef, sq)
  BY <1>1, AwardRows
<1>3. Rejected(sq) \subseteq Live("SQ")
  BY DEF Rejected, Of
<1>4. OrdersIn(put) = {po} /\ DemandsIn(put) = {}
  BY <1>1, <1>2, <1>3 DEF OrdersIn, DemandsIn, Live, Rows
<1>5. KeepsQuotes(put)
  <2> SUFFICES ASSUME NEW x \in DOMAIN put, x \in Rows("SQ")
               PROVE  db[x] # NoRow /\ DOMAIN put[x] = {"status"}
    BY DEF KeepsQuotes
  <2>1. x \in Rejected(sq) \cup {sq}
    BY <1>1, <1>2 DEF Rows
  <2>2. db[x] # NoRow
    BY <1>3, <2>1 DEF Live
  <2>3. DOMAIN put[x] = {"status"}
    <3>1. PICK new : new = put[x]
      OBVIOUS
    <3>2. new = [status |-> "REJECTED"] \/ new = [status |-> "AWARDED"]
      BY <1>2, <2>1, <3>1
    <3>3. DOMAIN new = {"status"}
      BY <3>2
    <3> QED
      BY <3>1, <3>3
  <2> QED
    BY <2>2, <2>3
<1>6. PICK q : q = db[sq].qty
  OBVIOUS
<1>7. q \in Positive /\ put[po] = Order("SUBMITTED", NoRef, q, FALSE, NoRef, sq) /\ Stage(s, put, Nothing, {})
  BY <1>1, <1>2, <1>6
<1> QED
  BY <1>4, <1>5, <1>7, SourcedOrderKeeps

LEMMA CreatePoFromBlanketOrderKeeps ==
  ASSUME PurchasingInv, NEW s \in Sessions, NEW bo \in Live("BLANKET"), NEW q \in Positive, NEW po \in Rows("PO"), Fresh(po),
         CreatePoFromBlanketOrder(s, bo, q, po)
  PROVE  PurchasingInv'
<1> HIDE DEF Sessions
<1>1. bo \in Rows("BLANKET")
  BY DEF Live
<1>2. PICK put :
        /\ Stage(s, put, Nothing, {})
        /\ DOMAIN put = {bo, po}
        /\ put[bo] = [ordered |-> db[bo].ordered + q,
                      status  |-> IF db[bo].ordered + q >= db[bo].qty THEN "CLOSED" ELSE "ACTIVE"]
        /\ put[po] = Order("SUBMITTED", NoRef, q, FALSE, NoRef, bo)
  BY <1>1, DrawRows
<1>3. OrdersIn(put) = {po} /\ DemandsIn(put) = {} /\ KeepsQuotes(put)
  BY <1>1, <1>2 DEF OrdersIn, DemandsIn, KeepsQuotes, Rows
<1> QED
  BY <1>2, <1>3, SourcedOrderKeeps

-----------------------------------------------------------------------------
(* Purchasing: the theorem *)

LEMMA OrderNextKeeps ==
  ASSUME PurchasingInv, NEW s \in Sessions, OrderNext(s, Positive)
  PROVE  PurchasingInv'
<1> HIDE DEF Sessions
<1>1. CASE \E mr \in Rows("MR"), q \in Positive :
             \/ Fresh(mr) /\ CreateMaterialRequest(s, mr, q)
             \/ db[mr] # NoRow /\ UpdateDraftMaterialRequest(s, mr, q)
  BY <1>1, CreateMaterialRequestKeeps, UpdateDraftMaterialRequestKeeps
<1>2. CASE \E mr \in Live("MR") :
             \/ SubmitMaterialRequest(s, mr) \/ CancelMaterialRequest(s, mr)
             \/ \E new \in Rows("MR") : Fresh(new) /\ AmendMaterialRequest(s, mr, new)
             \/ \E po \in Rows("PO"), q \in Positive, submit \in BOOLEAN :
                  Fresh(po) /\ CreatePurchaseOrder(s, mr, q, submit, po)
  BY <1>2, SubmitMaterialRequestKeeps, CancelMaterialRequestKeeps, AmendMaterialRequestKeeps, CreatePurchaseOrderKeeps
<1>3. CASE \E level \in Live("LVL"), mr \in Rows("MR") : Fresh(mr) /\ CheckReorderReplenishment(s, level, mr)
  BY <1>3, CheckReorderReplenishmentKeeps
<1>4. CASE \E po \in Live("PO") : CancelPurchaseOrder(s, po)
  BY <1>4, CancelPurchaseOrderKeeps
<1>5. CASE \E po \in {p \in Live("PO") : db[p].mr # NoRef} :
             \/ RecalculatePurchaseOrderDraft(s, po) \/ SubmitPurchaseOrder(s, po)
             \/ \E q \in Positive : UpdatePurchaseOrderDraft(s, po, q)
             \/ \E new \in Rows("PO") : Fresh(new) /\ AmendPurchaseOrder(s, po, new)
  BY <1>5, RecalculatePurchaseOrderDraftKeeps, SubmitPurchaseOrderKeeps, UpdatePurchaseOrderDraftKeeps, AmendPurchaseOrderKeeps
<1> QED
  BY <1>1, <1>2, <1>3, <1>4, <1>5 DEF OrderNext

LEMMA SourcingNextKeeps ==
  ASSUME PurchasingInv, NEW s \in Sessions, SourcingNext(s, Positive, Positive)
  PROVE  PurchasingInv'
<1> HIDE DEF Sessions
<1>1. CASE \E rfq \in Rows("RFQ") :
             \/ Fresh(rfq) /\ CreateRfq(s, rfq)
             \/ db[rfq] # NoRow /\ SendRfq(s, rfq)
             \/ \E sq \in Rows("SQ"), q \in Positive :
                  db[rfq] # NoRow /\ Fresh(sq) /\ CreateSupplierQuotation(s, rfq, q, sq)
  <2>1. PICK rfq \in Rows("RFQ") :
          \/ CreateRfq(s, rfq) \/ SendRfq(s, rfq)
          \/ \E sq \in Rows("SQ"), q \in Positive : CreateSupplierQuotation(s, rfq, q, sq)
    BY <1>1
  <2>2. rfq[1] \in {"RFQ", "BLANKET"}
    BY DEF Rows
  <2>3. CASE CreateRfq(s, rfq)
    BY <2>2, <2>3, OtherRowKeeps DEF CreateRfq
  <2>4. CASE SendRfq(s, rfq)
    BY <2>2, <2>4, OtherRowKeeps DEF SendRfq
  <2>5. CASE \E sq \in Rows("SQ"), q \in Positive : CreateSupplierQuotation(s, rfq, q, sq)
    BY <2>5, CreateSupplierQuotationKeeps
  <2> QED
    BY <2>1, <2>3, <2>4, <2>5
<1>2. CASE \E bo \in Rows("BLANKET"), qty \in Positive : Fresh(bo) /\ CreateBlanketOrder(s, bo, qty)
  <2>1. PICK bo \in Rows("BLANKET"), qty \in Positive : CreateBlanketOrder(s, bo, qty)
    BY <1>2
  <2>2. bo[1] \in {"RFQ", "BLANKET"}
    BY DEF Rows
  <2> QED
    BY <2>1, <2>2, OtherRowKeeps DEF CreateBlanketOrder
<1>3. CASE \E po \in Rows("PO") :
             /\ Fresh(po)
             /\ \/ \E sq \in Live("SQ") : AwardQuotationToPo(s, sq, po)
                \/ \E bo \in Live("BLANKET"), q \in Positive : CreatePoFromBlanketOrder(s, bo, q, po)
  BY <1>3, AwardQuotationToPoKeeps, CreatePoFromBlanketOrderKeeps
<1> QED
  BY <1>1, <1>2, <1>3 DEF SourcingNext

LEMMA ConversionNextKeeps ==
  ASSUME PurchasingInv, OneSession, NEW s \in Sessions, ConversionNext(s, Positive)
  PROVE  PurchasingInv'
<1> HIDE DEF Sessions
<1>1. CASE \E mr \in Live("MR") : BeginConversion(s, mr)
  BY <1>1, BeginConversionKeeps
<1>2. CASE \E po \in Rows("PO"), q \in Positive : Fresh(po) /\ CreatePoFromMaterialRequest(s, q, po)
  BY <1>2, CreatePoFromMaterialRequestKeeps
<1> QED
  BY <1>1, <1>2 DEF ConversionNext

\* The invariant of purchasing: what the requests in progress have staged
\* keeps the counters of the material requests, over any history of orders.
THEOREM PurchasingInvariance == PurchasingSpec => []PurchasingInv
<1>1. /\ PurchasesComplete /\ SourcesComplete /\ OrdersMatchSources /\ \A s \in Sessions : Free(s)
      => PurchasingInv
  BY DEF OrdersMatchSources, Free, PurchasingInv
<1> DEFINE Step ==
      \E s \in Sessions :
        \/ EndOfRequest(s) \/ OrderNext(s, Positive) \/ SourcingNext(s, Positive, Positive)
        \/ OneSession /\ ConversionNext(s, Positive)
<1>2. PurchasingInv /\ [Step]_vars => PurchasingInv'
  <2> SUFFICES ASSUME PurchasingInv, [Step]_vars PROVE PurchasingInv'
    OBVIOUS
  <2>1. CASE Step
    <3> HIDE DEF Sessions
    <3> PICK s \in Sessions :
        \/ EndOfRequest(s) \/ OrderNext(s, Positive) \/ SourcingNext(s, Positive, Positive)
        \/ OneSession /\ ConversionNext(s, Positive)
      BY <2>1
    <3>1. CASE EndOfRequest(s)
      BY <3>1, CommitKeepsPurchasing, RollbackKeepsPurchasing DEF EndOfRequest
    <3> QED
      BY <3>1, OrderNextKeeps, SourcingNextKeeps, ConversionNextKeeps
  <2>2. CASE UNCHANGED vars
    <3>1. db' = db /\ req' = req
      BY <2>2 DEF vars
    <3>2. Sessions' = Sessions
      BY <3>1 DEF Sessions
    <3> HIDE DEF Sessions
    <3>3. PurchasesComplete' /\ DemandOrderedOnce'
      BY <3>1, SamePurchases DEF PurchasingInv
    <3>4. ASSUME NEW s \in Sessions, req[s] # Idle
          PROVE  /\ KeepsDemand(req[s].put, req[s].locks)' /\ KeepsQuotes(req[s].put)'
                 /\ InsertsPurchase(s, req[s].put)' /\ Converts(req[s])'
      <4>1. KeepsDemand(req[s].put, req[s].locks) /\ KeepsQuotes(req[s].put) /\ InsertsPurchase(s, req[s].put) /\ Converts(req[s])
        BY <3>4 DEF PurchasingInv
      <4>2. PICK put, locks : put = req[s].put /\ locks = req[s].locks
        OBVIOUS
      <4>3. KeepsDemand(put, locks)' /\ KeepsQuotes(put)'
        BY <3>1, <4>1, <4>2, SamePurchases
      <4>4. KeepsDemand(req[s].put, req[s].locks)' /\ KeepsQuotes(req[s].put)'
        BY <3>1, <4>2, <4>3
      <4>5. InsertsPurchase(s, req[s].put)'
        BY <3>1, <3>2, <4>1 DEF InsertsPurchase, Rows
      <4>6. Converts(req[s])'
        BY <3>1, <3>2, <4>1 DEF Converts, OneSession, Live, Rows, Status
      <4> QED
        BY <4>4, <4>5, <4>6
    <3> QED
      BY <3>1, <3>2, <3>3, <3>4 DEF PurchasingInv
  <2> QED
    BY <2>1, <2>2
<1> QED
  BY <1>1, <1>2, PTL DEF PurchasingSpec

\* A line of a request is never ordered beyond what was asked for, and its
\* counter is the sum of the orders placed: api/routes/ap.py locks the
\* request for every order it places, edits, submits or cancels.
THEOREM DemandMet == PurchasingSpec => []DemandOrderedOnce
<1>1. PurchasingInv => DemandOrderedOnce
  BY DEF PurchasingInv
<1> QED
  BY <1>1, PurchasingInvariance, PTL

-----------------------------------------------------------------------------
(* Purchasing: what quotations and blanket orders bring *)

Drawn(x) == Total(Of("PO", "source", x), "qty")
DrawnShares(x) == SumFunctionOnSet([po \in Rows("PO") |-> SourceShare(db[po], x)], Rows("PO"))

DrawsAddUp ==
  \A x : Drawn(x) = DrawnShares(x) /\ \A po \in Rows("PO") : SourceShare(db[po], x) \in Nat

LEMMA DrawnIsShares == PurchasesComplete => DrawsAddUp
<1> SUFFICES ASSUME PurchasesComplete, NEW x
             PROVE  Drawn(x) = DrawnShares(x) /\ \A po \in Rows("PO") : SourceShare(db[po], x) \in Nat
  BY DEF DrawsAddUp
<1> DEFINE S == Rows("PO")
           U == Of("PO", "source", x)
           share == [po \in S |-> SourceShare(db[po], x)]
           qty == [po \in U |-> db[po].qty]
<1>1. \A po \in S : share[po] \in Nat
  BY DEF PurchasesComplete, OrderRow, SourceShare, Positive, Live
<1>2. IsFiniteSet(S) /\ Summable(share, S)
  BY <1>1, FS_Subset DEF PurchasesComplete, Rows, Summable
<1>3. U \subseteq S /\ IsFiniteSet(U)
  BY <1>2, FS_Subset DEF Of, Live
<1>4. \A po \in S \ U : share[po] = 0
  BY DEF SourceShare, Of, Live
<1>5. \A po \in U : share[po] = qty[po]
  BY DEF SourceShare, Of, Live
<1>6. SumFunctionOnSet(share, S) = SumFunctionOnSet(share, U)
  <2> HIDE DEF share, S, U
  <2> QED
    BY <1>2, <1>3, <1>4, SumWithin
<1>7. SumFunctionOnSet(share, U) = SumFunctionOnSet(qty, U)
  <2> HIDE DEF share, qty, U
  <2> QED
    BY <1>3, <1>5, SumEqual
<1> QED
  BY <1>1, <1>6, <1>7 DEF Drawn, Total, DrawnShares

LEMMA DrawsAddUpNext == PurchasesComplete' => DrawsAddUp'
  BY DrawnIsShares, PTL

LEMMA CommitDraws ==
  ASSUME NEW s \in Sessions, Commit(s), PurchasingInv, NEW x
  PROVE  /\ Drawn(x)' = Drawn(x) + SourceGain(req[s].put, x)
         /\ Drawn(x) \in Nat /\ Drawn(x)' \in Nat
<1> DEFINE put == req[s].put
           S == Rows("PO")
           U == OrdersIn(put)
           before == [po \in S |-> SourceShare(db[po], x)]
           after == [po \in S |-> SourceShare(db'[po], x)]
<1> HIDE DEF Sessions
<1>1. PurchasesComplete /\ PurchasesComplete'
  BY CommitKeepsPurchases DEF PurchasingInv
<1>2. S' = S /\ IsFiniteSet(S) /\ U \subseteq S
  BY <1>1, FS_Subset, CommitIsOne DEF PurchasesComplete, Rows, OrdersIn
<1>3. Drawn(x) = SumFunctionOnSet(before, S) /\ \A po \in S : before[po] \in Nat
  BY <1>1, DrawnIsShares DEF DrawsAddUp, DrawnShares
<1>4. Drawn(x)' = SumFunctionOnSet(after, S) /\ \A po \in S : after[po] \in Nat
  BY <1>1, <1>2, DrawsAddUpNext DEF DrawsAddUp, DrawnShares
<1>5. Summable(before, S) /\ Summable(after, S)
  BY <1>2, <1>3, <1>4 DEF Summable
<1>6. \A po \in S \ U : after[po] = before[po]
  BY CommitIsOne DEF OrdersIn, Rows
<1>7. [po \in U |-> after[po] - before[po]]
        = [po \in U |-> SourceShare(After(put, po), x) - SourceShare(db[po], x)]
  BY <1>2, CommitIsAfter DEF Rows
<1>8. SumFunctionOnSet(after, S) = SumFunctionOnSet(before, S) + SumFunctionOnSet([po \in U |-> after[po] - before[po]], U)
  <2> HIDE DEF before, after, S, U
  <2> QED
    BY <1>2, <1>5, <1>6, SumAfter
<1>9. SumFunctionOnSet([po \in U |-> after[po] - before[po]], U) = SourceGain(put, x)
  BY <1>7 DEF SourceGain
<1>10. SumFunctionOnSet(before, S) \in Nat /\ SumFunctionOnSet(after, S) \in Nat
  <2> HIDE DEF before, after, S
  <2> QED
    BY <1>2, <1>3, <1>4, SumNat
<1> QED
  BY <1>3, <1>4, <1>8, <1>9, <1>10

\* Orders come from sources that are there before the commit.
LEMMA NewSourceHasNone ==
  ASSUME PurchasesComplete, SourcesComplete, NEW put, KeepsSources(put),
         NEW x \in Rows("SQ") \cup Rows("BLANKET"), db[x] = NoRow
  PROVE  SourceGain(put, x) = 0 /\ Drawn(x) = 0
<1> DEFINE U == OrdersIn(put)
           gain == [po \in U |-> SourceShare(After(put, po), x) - SourceShare(db[po], x)]
<1>1. x \notin Live("SQ") \cup Live("BLANKET") \cup {NoRef}
  BY DEF Live, Rows, NoRef
<1>2. \A po \in Rows("PO") : SourceShare(db[po], x) = 0
  BY <1>1 DEF SourcesComplete, SourcedRow, SourceShare, Live
<1>3. \A po \in U : SourceShare(After(put, po), x) = 0
  BY <1>1 DEF KeepsSources, SourcedRow, SourceShare
<1>4. IsFiniteSet(U) /\ U \subseteq Rows("PO") /\ IsFiniteSet(Rows("PO"))
  BY FS_Subset DEF PurchasesComplete, OrdersIn, Rows
<1>5. SumFunctionOnSet(gain, U) = 0
  <2>1. \A po \in U : gain[po] = 0
    BY <1>2, <1>3, <1>4
  <2> HIDE DEF gain, U
  <2> QED
    BY <1>4, <2>1, SumZero
<1>6. DrawnShares(x) = 0
  <2> DEFINE share == [po \in Rows("PO") |-> SourceShare(db[po], x)]
  <2>1. \A po \in Rows("PO") : share[po] = 0
    BY <1>2
  <2> HIDE DEF share
  <2>2. SumFunctionOnSet(share, Rows("PO")) = 0
    BY <1>4, <2>1, SumZero
  <2> QED
    BY <2>2 DEF DrawnShares, share
<1> QED
  BY <1>5, <1>6, DrawnIsShares DEF SourceGain, DrawsAddUp

LEMMA CommitKeepsSourcing ==
  ASSUME NEW s \in Sessions, Commit(s), PurchasingInv, SourcingInv
  PROVE  SourcingInv'
<1> DEFINE put == req[s].put
<1> HIDE DEF Sessions
<1>1. KeepsSources(put) /\ PurchasesComplete /\ SourcesComplete /\ SourcedOnce /\ OneSession
  BY CommitIsOne DEF PurchasingInv, SourcingInv
<1>2. (\A kind : Rows(kind)' = Rows(kind)) /\ Sessions' = Sessions /\ req'[s] = Idle
  BY CommitIsOne DEF Rows
<1>3. \A d \in DOMAIN db : db'[d] = After(put, d)
  BY CommitIsAfter
<1>4. \A x : Drawn(x)' = Drawn(x) + SourceGain(put, x) /\ Drawn(x) \in Nat /\ Drawn(x)' \in Nat
  BY CommitDraws
<1>5. \A bo \in Live("BLANKET") : db'[bo] # NoRow
  <2> SUFFICES ASSUME NEW bo \in Live("BLANKET") PROVE db'[bo] # NoRow
    OBVIOUS
  <2>1. bo \in DOMAIN db /\ "qty" \in DOMAIN db[bo] /\ db[bo] # NoRow
    BY <1>1 DEF SourcesComplete, CommitmentRow, Live, Rows
  <2>2. CASE bo \in DOMAIN put
    BY <2>1, <2>2, CommitIsOne, QuantityIsRow
  <2>3. CASE bo \notin DOMAIN put
    BY <2>1, <2>3, CommitIsOne
  <2> QED
    BY <2>2, <2>3
<1>6. Live("SQ") \subseteq Live("SQ")' /\ Live("BLANKET") \subseteq Live("BLANKET")'
  BY <1>2, <1>5, CommitKeepsPurchases DEF Live, Rows
<1>7. SourcesComplete'
  <2>1. ASSUME NEW po \in Rows("PO"), db'[po] # NoRow
        PROVE  SourcedRow(db[po])'
    <3>1. SourcedRow(After(put, po))
      BY <1>1, <1>3, <2>1, AfterElsewhere DEF KeepsSources, SourcesComplete, OrdersIn, Live, Rows
    <3>2. db'[po] = After(put, po)
      BY <1>3 DEF Rows
    <3> QED
      BY <1>6, <3>1, <3>2 DEF SourcedRow
  <2>2. ASSUME NEW bo \in Rows("BLANKET"), db'[bo] # NoRow
        PROVE  CommitmentRow(db[bo])'
    <3>1. CommitmentRow(After(put, bo))
      BY <1>1, <1>3, <2>2, AfterElsewhere DEF KeepsSources, SourcesComplete, Live, Rows
    <3>2. db'[bo] = After(put, bo)
      BY <1>3 DEF Rows
    <3> QED
      BY <3>1, <3>2 DEF CommitmentRow
  <2> QED
    BY <1>2, <2>1, <2>2 DEF SourcesComplete, Live
<1>8. ASSUME NEW sq \in Rows("SQ"), db'[sq] # NoRow
      PROVE  Drawn(sq)' = Awarded(db'[sq])
  <2>1. db'[sq] = After(put, sq)
    BY <1>3 DEF Rows
  <2>2. CASE db[sq] = NoRow
    <3>1. sq \in DOMAIN put
      BY <1>8, <2>1, <2>2, AfterElsewhere
    <3>2. After(put, sq).status # "AWARDED"
      BY <1>1, <2>2, <3>1 DEF KeepsSources
    <3>3. SourceGain(put, sq) = 0 /\ Drawn(sq) = 0
      BY <1>1, <2>2, NewSourceHasNone
    <3> QED
      BY <1>4, <2>1, <3>2, <3>3 DEF Awarded
  <2>3. CASE db[sq] # NoRow
    <3>1. Drawn(sq) = Awarded(db[sq])
      BY <1>1, <2>3 DEF SourcedOnce, Drawn, Awarded, Live, Status
    <3>2. SourceGain(put, sq) = Awarded(After(put, sq)) - Awarded(db[sq])
      BY <1>1, <2>3 DEF KeepsSources
    <3>3. Awarded(After(put, sq)) \in Int
      <4>1. QuoteRow(db[sq])'
        BY <1>2, <1>8, CommitKeepsPurchases DEF PurchasesComplete, Live
      <4> QED
        BY <2>1, <4>1 DEF QuoteRow, Awarded, Positive
    <3> QED
      BY <1>4, <2>1, <3>1, <3>2, <3>3
  <2> QED
    BY <2>2, <2>3
<1>9. ASSUME NEW bo \in Rows("BLANKET"), db'[bo] # NoRow
      PROVE  /\ db'[bo].ordered = Drawn(bo)' /\ db'[bo].ordered <= db'[bo].qty
             /\ (db'[bo].status = "CLOSED") = (db'[bo].ordered = db'[bo].qty)
  <2>1. db'[bo] = After(put, bo)
    BY <1>3 DEF Rows
  <2>2. Drawn(bo)' = IF db[bo] = NoRow THEN 0 ELSE db[bo].ordered + SourceGain(put, bo)
    <3>1. db[bo] = NoRow => SourceGain(put, bo) = 0 /\ Drawn(bo) = 0
      BY <1>1, NewSourceHasNone
    <3>2. db[bo] # NoRow => db[bo].ordered = Drawn(bo)
      BY <1>1 DEF SourcedOnce, Drawn, Live
    <3> QED
      BY <1>4, <3>1, <3>2
  <2> QED
    BY <1>1, <1>9, <2>1, <2>2 DEF KeepsSources
<1>10. SourcedOnce'
  BY <1>2, <1>8, <1>9 DEF SourcedOnce, Drawn, Awarded, Live, Status
<1>11. OneSession'
  BY <1>1, <1>2 DEF OneSession
<1>12. \A t \in Sessions' : req'[t] = Idle
  BY <1>1, <1>2 DEF OneSession
<1> QED
  BY <1>7, <1>10, <1>11, <1>12 DEF SourcingInv

\* The same rows.
LEMMA SameSources ==
  ASSUME db' = db
  PROVE  /\ SourcesComplete' = SourcesComplete /\ SourcedOnce' = SourcedOnce
         /\ \A put : KeepsSources(put)' = KeepsSources(put)
<1>1. (\A kind : Rows(kind)' = Rows(kind)) /\ (\A kind : Live(kind)' = Live(kind)) /\ \A d : Status(d)' = Status(d)
  BY DEF Rows, Live, Status
<1>2. \A row : SourcedRow(row)' = SourcedRow(row) /\ CommitmentRow(row)' = CommitmentRow(row) /\ Awarded(row)' = Awarded(row)
  BY <1>1 DEF SourcedRow, CommitmentRow, Awarded
<1>3. \A x : Total(Of("PO", "source", x), "qty")' = Total(Of("PO", "source", x), "qty")
  BY <1>1 DEF Total, Of
<1>4. SourcesComplete' = SourcesComplete
  BY <1>1 DEF SourcesComplete, SourcedRow, CommitmentRow
<1>5. SourcedOnce' = SourcedOnce
  BY <1>1, <1>3 DEF SourcedOnce
<1>6. \A put : OrdersIn(put)' = OrdersIn(put) /\ \A d : After(put, d)' = After(put, d)
  BY <1>1 DEF OrdersIn, After
<1>7. \A put, x : SourceGain(put, x)' = SourceGain(put, x)
  BY <1>6 DEF SourceGain, SourceShare
<1>8. \A put : KeepsSources(put)' = KeepsSources(put)
  BY <1>1, <1>6, <1>7 DEF KeepsSources, SourcedRow, CommitmentRow, Awarded
<1> QED
  BY <1>4, <1>5, <1>8

\* The only request stages put.
LEMMA PutKeepsSourcing ==
  ASSUME SourcingInv, NEW s \in Sessions, NEW put, db' = db, Sessions' = Sessions, req'[s].put = Staged(put), KeepsSources(put)
  PROVE  SourcingInv'
<1> HIDE DEF Sessions
<1>1. KeepsSources(Staged(put))
  <2>1. DOMAIN Staged(put) = DOMAIN put /\ OrdersIn(Staged(put)) = OrdersIn(put)
    BY DEF Staged, OrdersIn
  <2>2. \A d : After(Staged(put), d) = After(put, d)
    BY StagedAfter
  <2>3. \A x : SourceGain(Staged(put), x) = SourceGain(put, x)
    BY <2>1, <2>2 DEF SourceGain
  <2> QED
    BY <2>1, <2>2, <2>3 DEF KeepsSources
<1>2. PICK staged : staged = Staged(put)
  OBVIOUS
<1>3. KeepsSources(staged)'
  BY <1>1, <1>2, SameSources
<1>4. \A t \in Sessions' : t = s
  BY DEF SourcingInv, OneSession
<1>5. SourcesComplete' /\ SourcedOnce' /\ OneSession'
  BY SameSources DEF SourcingInv, OneSession
<1> QED
  BY <1>2, <1>3, <1>4, <1>5 DEF SourcingInv

LEMMA StageKeepsSourcing ==
  ASSUME SourcingInv, NEW s \in Sessions, NEW put, NEW locks, Stage(s, put, Nothing, locks), KeepsSources(put)
  PROVE  SourcingInv'
<1> HIDE DEF Sessions
<1> QED
  BY StageIsOne, PutKeepsSourcing

\* What a handler leaves alone stays as it is.
LEMMA SourcesStay ==
  ASSUME PurchasingInv, SourcingInv, NEW put, NEW x, x \notin DOMAIN put, SourceGain(put, x) = 0
  PROVE  /\ x \in Rows("SQ") => IF db[x] = NoRow THEN x \in DOMAIN put => After(put, x).status # "AWARDED"
                                ELSE SourceGain(put, x) = Awarded(After(put, x)) - Awarded(db[x])
         /\ x \in Rows("BLANKET") =>
              /\ x \in DOMAIN put => CommitmentRow(After(put, x))
              /\ LET row == After(put, x)
                     drawn == IF db[x] = NoRow THEN 0 ELSE db[x].ordered + SourceGain(put, x)
                 IN row # NoRow => row.ordered = drawn /\ drawn <= row.qty /\ (row.status = "CLOSED") = (drawn = row.qty)
<1>1. After(put, x) = db[x]
  BY AfterElsewhere
<1>2. x \in Live("SQ") => Awarded(db[x]) \in Int
  BY QuoteFacts DEF Awarded, Positive
<1>3. x \in Live("BLANKET") =>
        /\ db[x].ordered \in Nat /\ db[x].ordered <= db[x].qty /\ (db[x].status = "CLOSED") = (db[x].ordered = db[x].qty)
  BY DEF SourcingInv, SourcesComplete, CommitmentRow, SourcedOnce, Status
<1> QED
  BY <1>1, <1>2, <1>3 DEF Live

LEMMA NoOrdersNoGain ==
  ASSUME NEW put, OrdersIn(put) = {}
  PROVE  \A x : SourceGain(put, x) = 0
<1> TAKE x
<1> DEFINE gain == [po \in OrdersIn(put) |-> SourceShare(After(put, po), x) - SourceShare(db[po], x)]
<1>1. IsFiniteSet({}) /\ Summable(gain, {})
  BY FS_EmptySet DEF Summable
<1>2. SumFunctionOnSet(gain, {}) = 0
  <2> HIDE DEF gain
  <2> QED
    BY <1>1, SumEmpty
<1> QED
  BY <1>2 DEF SourceGain

LEMMA OneOrderGain ==
  ASSUME PurchasesComplete, NEW put, NEW po \in Rows("PO"), OrdersIn(put) = {po}, OrderRow(After(put, po))
  PROVE  \A x : /\ SourceGain(put, x) = SourceShare(After(put, po), x) - SourceShare(db[po], x)
                /\ SourceShare(After(put, po), x) \in Nat /\ SourceShare(db[po], x) \in Nat
<1> TAKE x
<1> DEFINE gain == [p \in OrdersIn(put) |-> SourceShare(After(put, p), x) - SourceShare(db[p], x)]
<1>1. SourceShare(db[po], x) \in Nat
  BY DrawnIsShares DEF DrawsAddUp
<1>2. SourceShare(After(put, po), x) \in Nat
  BY DEF OrderRow, SourceShare, Positive
<1>3. gain[po] = SourceShare(After(put, po), x) - SourceShare(db[po], x)
  OBVIOUS
<1>4. SumFunctionOnSet(gain, {po}) = gain[po]
  <2>1. gain[po] \in Int
    BY <1>1, <1>2, <1>3
  <2> HIDE DEF gain
  <2> QED
    BY <2>1, SumOne
<1> QED
  BY <1>1, <1>2, <1>3, <1>4 DEF SourceGain

\* A handler that writes no order, no quotation and no blanket order.
LEMMA PlainKeepsSourcing ==
  ASSUME PurchasingInv, SourcingInv, NEW s \in Sessions, NEW d, d[1] \in {"MR", "RFQ"}, NEW r, NEW locks,
         Stage(s, d :> r, Nothing, locks)
  PROVE  SourcingInv'
<1> HIDE DEF Sessions
<1>1. PICK put : put = d :> r
  OBVIOUS
<1>2. DOMAIN put = {d} /\ d \notin Rows("SQ") /\ d \notin Rows("BLANKET") /\ d \notin Rows("PO")
  BY <1>1, OneRow DEF Rows
<1>3. OrdersIn(put) = {}
  BY <1>2 DEF OrdersIn
<1>4. \A x \in Rows("SQ") \cup Rows("BLANKET") : x \notin DOMAIN put /\ SourceGain(put, x) = 0
  BY <1>2, <1>3, NoOrdersNoGain
<1>5. KeepsSources(put)
  BY <1>3, <1>4, SourcesStay DEF KeepsSources
<1> QED
  BY <1>1, <1>5, StageKeepsSourcing

\* One that writes an order and what its source brings stays.
LEMMA OrderKeepsSources ==
  ASSUME PurchasingInv, SourcingInv, NEW put, NEW po \in Rows("PO"), NEW mr, DOMAIN put \subseteq {po, mr}, po \in DOMAIN put,
         mr \notin Rows("SQ") \cup Rows("BLANKET") \cup Rows("PO"),
         OrderRow(After(put, po)), SourcedRow(After(put, po)),
         \A x : x # NoRef => SourceShare(After(put, po), x) = SourceShare(db[po], x)
  PROVE  KeepsSources(put)
<1>1. OrdersIn(put) = {po}
  BY DEF OrdersIn
<1>2. \A x \in Rows("SQ") \cup Rows("BLANKET") : x \notin DOMAIN put /\ x # NoRef
  BY DEF Rows, NoRef
<1>3. \A x \in Rows("SQ") \cup Rows("BLANKET") : SourceGain(put, x) = 0
  BY <1>1, <1>2, OneOrderGain DEF PurchasingInv
<1> QED
  BY <1>1, <1>2, <1>3, SourcesStay DEF KeepsSources

\* A new order of a request comes from no other source.
LEMMA NewOrderKeepsSources ==
  ASSUME PurchasingInv, SourcingInv, NEW put, NEW po \in Rows("PO"), NEW mr, DOMAIN put \subseteq {po, mr}, po \in DOMAIN put,
         mr \notin Rows("SQ") \cup Rows("BLANKET") \cup Rows("PO"), db[po] = NoRow,
         NEW status, NEW of \in Live("MR") \cup {NoRef}, NEW q \in Positive, IsOrder(put[po], status, of, q, NoRef)
  PROVE  KeepsSources(put)
<1>1. PICK row : row = After(put, po)
  OBVIOUS
<1>2. OrderRow(row) /\ row # NoRow /\ IsOrder(row, status, of, q, NoRef)
  BY <1>1, NewOrderAfter
<1>3. SourcedRow(row) /\ \A x : x # NoRef => SourceShare(row, x) = SourceShare(db[po], x)
  BY <1>2 DEF IsOrder, SourcedRow, SourceShare
<1> QED
  BY <1>1, <1>2, <1>3, OrderKeepsSources

\* An order that is there keeps its source, and its quantity when it has one.
LEMMA OldOrderKeepsSources ==
  ASSUME PurchasingInv, SourcingInv, NEW put, NEW po \in Live("PO"), NEW mr, DOMAIN put \subseteq {po, mr}, po \in DOMAIN put,
         mr \notin Rows("SQ") \cup Rows("BLANKET") \cup Rows("PO"),
         NEW new, new = put[po], "mr" \notin DOMAIN new, "source" \notin DOMAIN new,
         "qty" \in DOMAIN new => new.qty \in Positive /\ db[po].mr # NoRef
  PROVE  KeepsSources(put)
<1>1. PICK row : row = After(put, po)
  OBVIOUS
<1>2. /\ OrderRow(row) /\ row # NoRow /\ row.mr = db[po].mr /\ row.source = db[po].source
      /\ row.qty = IF "qty" \in DOMAIN new THEN new.qty ELSE db[po].qty
  BY <1>1, OrderStays
<1>3. SourcedRow(db[po]) /\ db[po] # NoRow /\ po \in Rows("PO")
  BY OrderFacts DEF SourcingInv, SourcesComplete
<1>4. SourcedRow(row) /\ \A x : x # NoRef => SourceShare(row, x) = SourceShare(db[po], x)
  BY <1>2, <1>3 DEF SourcedRow, SourceShare
<1> QED
  BY <1>1, <1>2, <1>3, <1>4, OrderKeepsSources

LEMMA RefreshedRow == \A mr, ordered : DOMAIN Refreshed(mr, ordered) = {mr}
<1> TAKE mr, ordered
<1>1. PICK line :
        line = [ordered |-> ordered,
                status |-> IF Status(mr) \in {"CANCELLED", "DRAFT"} THEN Status(mr) ELSE Progress(db[mr].qty, ordered)]
  OBVIOUS
<1>2. DOMAIN (mr :> line) = {mr}
  BY OneRow
<1> QED
  BY <1>1, <1>2 DEF Refreshed

LEMMA OtherKinds == \A mr \in Live("MR") \cup {NoRef} : mr \notin Rows("SQ") \cup Rows("BLANKET") \cup Rows("PO")
  BY DEF Live, Rows, NoRef

LEMMA CreatePurchaseOrderSources ==
  ASSUME PurchasingInv, SourcingInv, NEW s \in Sessions, NEW mr \in Live("MR"), NEW q \in Positive, NEW submit \in BOOLEAN,
         NEW po \in Rows("PO"), Fresh(po), CreatePurchaseOrder(s, mr, q, submit, po)
  PROVE  SourcingInv'
<1> HIDE DEF Sessions
<1>1. PICK status, new : status = (IF submit THEN "SUBMITTED" ELSE "DRAFT") /\ new = Order(status, mr, q, TRUE, NoRef, NoRef)
  OBVIOUS
<1>2. PICK first, rest : first = po :> new /\ rest = IF submit THEN OrderedFrom(mr, q) ELSE Nothing
  OBVIOUS
<1>3. PICK put : put = first @@ rest
  OBVIOUS
<1>4. Stage(s, put, Nothing, {mr})
  BY <1>1, <1>2, <1>3 DEF CreatePurchaseOrder, NewOrder
<1>5. DOMAIN rest \subseteq {mr}
  BY <1>2, RefreshedRow, NothingIsEmpty DEF OrderedFrom
<1>6. po \in DOMAIN put /\ DOMAIN put \subseteq {po, mr} /\ put[po] = new
  <2>1. DOMAIN first = {po} /\ first[po] = new
    BY <1>2, OneRow
  <2> QED
    BY <1>3, <1>5, <2>1 DEF @@
<1>7. IsOrder(put[po], status, mr, q, NoRef)
  BY <1>1, <1>6, OrderColumns
<1>8. db[po] = NoRow
  BY FreshIsNew DEF Rows
<1>9. KeepsSources(put)
  BY <1>6, <1>7, <1>8, OtherKinds, NewOrderKeepsSources
<1> QED
  BY <1>4, <1>9, StageKeepsSourcing

LEMMA AmendPurchaseOrderSources ==
  ASSUME PurchasingInv, SourcingInv, NEW s \in Sessions, NEW po \in Live("PO"), NEW new \in Rows("PO"), Fresh(new),
         AmendPurchaseOrder(s, po, new)
  PROVE  SourcingInv'
<1> HIDE DEF Sessions
<1>1. db[new] = NoRow
  BY FreshIsNew DEF Rows
<1>2. db[po].mr \in Live("MR") \cup {NoRef} /\ db[po].qty \in Positive
  BY OrderFacts DEF OrderRow
<1>3. PICK r : r = Order("DRAFT", db[po].mr, db[po].qty, FALSE, po, NoRef)
  OBVIOUS
<1>4. PICK put : put = new :> r
  OBVIOUS
<1>5. DOMAIN put = {new} /\ put[new] = r
  BY <1>4, OneRow
<1>6. Stage(s, put, Nothing, {po})
  BY <1>3, <1>4 DEF AmendPurchaseOrder
<1>7. IsOrder(put[new], "DRAFT", db[po].mr, db[po].qty, NoRef)
  BY <1>3, <1>5, OrderColumns
<1>8. NoRef \notin Rows("SQ") \cup Rows("BLANKET") \cup Rows("PO") /\ DOMAIN put \subseteq {new, NoRef}
  BY <1>5, OtherKinds
<1>9. KeepsSources(put)
  BY <1>1, <1>2, <1>5, <1>7, <1>8, NewOrderKeepsSources
<1> QED
  BY <1>6, <1>9, StageKeepsSourcing

\* A handler that edits an order, or changes its status with its request.
LEMMA OldOrderSources ==
  ASSUME PurchasingInv, SourcingInv, NEW s \in Sessions, NEW po \in Live("PO"), NEW locks, NEW new, NEW mr \in Live("MR") \cup {NoRef},
         NEW rest, DOMAIN rest \subseteq {mr}, Stage(s, po :> new @@ rest, Nothing, locks),
         "mr" \notin DOMAIN new, "source" \notin DOMAIN new,
         "qty" \in DOMAIN new => new.qty \in Positive /\ db[po].mr # NoRef
  PROVE  SourcingInv'
<1> HIDE DEF Sessions
<1>1. PICK first : first = po :> new
  OBVIOUS
<1>2. PICK put : put = first @@ rest
  OBVIOUS
<1>3. po \in DOMAIN put /\ DOMAIN put \subseteq {po, mr} /\ put[po] = new
  <2>1. DOMAIN first = {po} /\ first[po] = new
    BY <1>1, OneRow
  <2> QED
    BY <1>2, <2>1 DEF @@
<1>4. KeepsSources(put)
  BY <1>3, OtherKinds, OldOrderKeepsSources
<1>5. Stage(s, put, Nothing, locks)
  BY <1>1, <1>2
<1> QED
  BY <1>4, <1>5, StageKeepsSourcing

\* Only the columns of one order.
LEMMA OldOrderAlone ==
  ASSUME PurchasingInv, SourcingInv, NEW s \in Sessions, NEW po \in Live("PO"), NEW locks, NEW new,
         Stage(s, po :> new, Nothing, locks), "mr" \notin DOMAIN new, "source" \notin DOMAIN new,
         "qty" \in DOMAIN new => new.qty \in Positive /\ db[po].mr # NoRef
  PROVE  SourcingInv'
<1> HIDE DEF Sessions
<1>1. PICK put : put = po :> new
  OBVIOUS
<1>2. DOMAIN put = {po} /\ put[po] = new
  BY <1>1, OneRow
<1>3. DOMAIN put \subseteq {po, NoRef} /\ NoRef \notin Rows("SQ") \cup Rows("BLANKET") \cup Rows("PO")
  BY <1>2, OtherKinds
<1>4. KeepsSources(put)
  BY <1>2, <1>3, OldOrderKeepsSources
<1> QED
  BY <1>1, <1>4, StageKeepsSourcing

LEMMA DraftSources ==
  ASSUME PurchasingInv, SourcingInv, NEW s \in Sessions, NEW po \in Live("PO"), db[po].mr # NoRef,
         RecalculatePurchaseOrderDraft(s, po) \/ \E q \in Positive : UpdatePurchaseOrderDraft(s, po, q)
  PROVE  SourcingInv'
<1> HIDE DEF Sessions
<1>1. CASE RecalculatePurchaseOrderDraft(s, po)
  <2>1. PICK new : new = [hash |-> TRUE]
    OBVIOUS
  <2>2. DOMAIN new = {"hash"} /\ Stage(s, po :> new, Nothing, {po})
    BY <1>1, <2>1 DEF RecalculatePurchaseOrderDraft
  <2> QED
    BY <2>2, OldOrderAlone
<1>2. CASE \E q \in Positive : UpdatePurchaseOrderDraft(s, po, q)
  <2>1. PICK q \in Positive : UpdatePurchaseOrderDraft(s, po, q)
    BY <1>2
  <2>2. PICK new, locks : new = [qty |-> q, hash |-> TRUE] /\ locks = {po, db[po].mr}
    OBVIOUS
  <2>3. Stage(s, po :> new, Nothing, locks)
    BY <2>1, <2>2 DEF UpdatePurchaseOrderDraft
  <2>4. DOMAIN new = {"qty", "hash"} /\ new.qty = q
    BY <2>2
  <2> QED
    BY <2>3, <2>4, OldOrderAlone
<1> QED
  BY <1>1, <1>2

LEMMA StatusSources ==
  ASSUME PurchasingInv, SourcingInv, NEW s \in Sessions, NEW po \in Live("PO"),
         CancelPurchaseOrder(s, po) \/ SubmitPurchaseOrder(s, po)
  PROVE  SourcingInv'
<1> HIDE DEF Sessions
<1>1. db[po].mr \in Live("MR") \cup {NoRef}
  BY OrderFacts DEF OrderRow
<1>2. CASE CancelPurchaseOrder(s, po)
  <2>1. PICK new, rest, left, locks :
          /\ new = [status |-> "CANCELLED"]
          /\ left = IF db[db[po].mr].ordered > db[po].qty THEN db[db[po].mr].ordered - db[po].qty ELSE 0
          /\ rest = IF Status(po) = "SUBMITTED" /\ db[po].mr # NoRef THEN Refreshed(db[po].mr, left) ELSE Nothing
          /\ locks = {po} \cup IF Status(po) = "SUBMITTED" /\ db[po].mr # NoRef THEN {db[po].mr} ELSE {}
    OBVIOUS
  <2>2. Stage(s, po :> new @@ rest, Nothing, locks)
    BY <1>2, <2>1 DEF CancelPurchaseOrder
  <2>3. DOMAIN rest \subseteq {db[po].mr}
    BY <2>1, RefreshedRow, NothingIsEmpty
  <2>4. DOMAIN new = {"status"}
    BY <2>1
  <2> QED
    BY <1>1, <2>2, <2>3, <2>4, OldOrderSources
<1>3. CASE SubmitPurchaseOrder(s, po)
  <2>1. PICK new, rest, locks :
          /\ new = [status |-> "SUBMITTED"] /\ rest = Refreshed(db[po].mr, db[db[po].mr].ordered + db[po].qty)
          /\ locks = {po, db[po].from, db[po].mr} \ {NoRef}
    OBVIOUS
  <2>2. Stage(s, po :> new @@ rest, Nothing, locks)
    BY <1>3, <2>1 DEF SubmitPurchaseOrder
  <2>3. DOMAIN rest \subseteq {db[po].mr}
    BY <2>1, RefreshedRow
  <2>4. DOMAIN new = {"status"}
    BY <2>1
  <2> QED
    BY <1>1, <2>2, <2>3, <2>4, OldOrderSources
<1> QED
  BY <1>2, <1>3

LEMMA BeginConversionSources ==
  ASSUME PurchasingInv, SourcingInv, NEW s \in Sessions, NEW mr, BeginConversion(s, mr)
  PROVE  SourcingInv'
<1>1. db' = db /\ Sessions' = Sessions /\ req'[s].put = Staged(Nothing)
  BY DEF BeginConversion, Hold, Request, Staged, Sessions
<1> HIDE DEF Sessions
<1>2. PICK put : put = Nothing
  OBVIOUS
<1>3. DOMAIN put = {} /\ OrdersIn(put) = {}
  BY <1>2, NothingIsEmpty DEF OrdersIn
<1>4. \A x : x \notin DOMAIN put /\ SourceGain(put, x) = 0
  BY <1>3, NoOrdersNoGain
<1>5. KeepsSources(put)
  BY <1>3, <1>4, SourcesStay DEF KeepsSources
<1> QED
  BY <1>1, <1>2, <1>5, PutKeepsSourcing

LEMMA CreatePoFromMaterialRequestSources ==
  ASSUME PurchasingInv, SourcingInv, NEW s \in Sessions, NEW q \in Positive, NEW po \in Rows("PO"), Fresh(po),
         CreatePoFromMaterialRequest(s, q, po)
  PROVE  SourcingInv'
<1>1. PICK m, mr, ordered : m = req[s].memo /\ mr = m.mr /\ ordered = m.ordered + q
  OBVIOUS
<1>2. PICK new, line :
        /\ new = Order("SUBMITTED", mr, q, FALSE, NoRef, NoRef)
        /\ line = [ordered |-> ordered, status |-> Progress(db[mr].qty, ordered)]
  OBVIOUS
<1>3. PICK first, rest : first = po :> new /\ rest = mr :> line
  OBVIOUS
<1>4. PICK put : put = first @@ rest
  OBVIOUS
<1>5. req[s] # Idle /\ m.op = "convert" /\ Finish(s, put, Nothing, {mr})
  BY <1>1, <1>2, <1>3, <1>4 DEF CreatePoFromMaterialRequest, At, Free
<1>6. db' = db /\ Sessions' = Sessions /\ req'[s].put = Staged(put)
  BY <1>5 DEF Finish, Request, Staged, Sessions
<1> HIDE DEF Sessions
<1>7. mr \in Live("MR")
  BY <1>1, <1>5 DEF PurchasingInv, Converts
<1>8. po \in DOMAIN put /\ DOMAIN put \subseteq {po, mr} /\ put[po] = new
  <2>1. DOMAIN first = {po} /\ first[po] = new /\ DOMAIN rest = {mr}
    BY <1>3, OneRow
  <2> QED
    BY <1>4, <2>1 DEF @@
<1>9. IsOrder(put[po], "SUBMITTED", mr, q, NoRef)
  BY <1>2, <1>8, OrderColumns
<1>10. db[po] = NoRow
  BY FreshIsNew DEF Rows
<1>11. KeepsSources(put)
  BY <1>7, <1>8, <1>9, <1>10, OtherKinds, NewOrderKeepsSources
<1> QED
  BY <1>6, <1>11, PutKeepsSourcing

LEMMA CreateSupplierQuotationSources ==
  ASSUME PurchasingInv, SourcingInv, NEW s \in Sessions, NEW rfq \in Rows("RFQ"), NEW q, NEW sq \in Rows("SQ"), Fresh(sq),
         CreateSupplierQuotation(s, rfq, q, sq)
  PROVE  SourcingInv'
<1> HIDE DEF Sessions
<1>1. sq # rfq /\ db[sq] = NoRow
  BY FreshIsNew DEF Rows
<1>2. PICK put :
        /\ Stage(s, put, Nothing, {})
        /\ sq \in DOMAIN put /\ DOMAIN put \subseteq {sq, rfq}
        /\ put[sq] = [status |-> "SUBMITTED", rfq |-> rfq, qty |-> q]
  BY <1>1, QuotationRows
<1>3. OrdersIn(put) = {}
  BY <1>2 DEF OrdersIn, Rows
<1>4. \A x : SourceGain(put, x) = 0
  BY <1>3, NoOrdersNoGain
<1>5. After(put, sq).status # "AWARDED"
  <2>1. PICK new, old, row : new = put[sq] /\ old = db[sq] /\ row = After(put, sq)
    OBVIOUS
  <2>2. "status" \in DOMAIN new /\ new.status = "SUBMITTED"
    BY <1>2, <2>1
  <2>3. row.status = new.status
    <3>0. sq \in DOMAIN put
      BY <1>2
    <3>1. /\ DOMAIN After(put, sq) = DOMAIN put[sq] \cup DOMAIN db[sq]
          /\ \A c \in DOMAIN put[sq] : After(put, sq)[c] = put[sq][c]
          /\ \A c \in DOMAIN db[sq] \ DOMAIN put[sq] : After(put, sq)[c] = db[sq][c]
      BY <3>0, AfterColumns
    <3> QED
      BY <2>1, <2>2, <3>1
  <2> QED
    BY <2>1, <2>2, <2>3
<1>6. \A x \in (Rows("SQ") \cup Rows("BLANKET")) \ {sq} : x \notin DOMAIN put
  BY <1>2 DEF Rows
<1>7. sq \notin Rows("BLANKET")
  BY DEF Rows
<1>8. KeepsSources(put)
  BY <1>1, <1>3, <1>4, <1>5, <1>6, <1>7, SourcesStay DEF KeepsSources
<1> QED
  BY <1>2, <1>8, StageKeepsSourcing

LEMMA CreateBlanketOrderSources ==
  ASSUME PurchasingInv, SourcingInv, NEW s \in Sessions, NEW bo \in Rows("BLANKET"), Fresh(bo), NEW qty \in Positive,
         CreateBlanketOrder(s, bo, qty)
  PROVE  SourcingInv'
<1> HIDE DEF Sessions
<1>1. db[bo] = NoRow /\ bo \notin Rows("SQ")
  BY FreshIsNew DEF Rows
<1>2. PICK new : new = [status |-> "ACTIVE", qty |-> qty, ordered |-> 0]
  OBVIOUS
<1>3. PICK put : put = bo :> new
  OBVIOUS
<1>4. DOMAIN put = {bo} /\ put[bo] = new
  BY <1>3, OneRow
<1>5. Stage(s, put, Nothing, {})
  BY <1>2, <1>3 DEF CreateBlanketOrder
<1>6. OrdersIn(put) = {}
  BY <1>4 DEF OrdersIn, Rows
<1>7. \A x : SourceGain(put, x) = 0
  BY <1>6, NoOrdersNoGain
<1>8. PICK row : row = After(put, bo)
  OBVIOUS
<1>9. {"status", "qty", "ordered"} \subseteq DOMAIN row /\ row.status = "ACTIVE" /\ row.qty = qty /\ row.ordered = 0
  <2>1. DOMAIN new = {"status", "qty", "ordered"} /\ new.status = "ACTIVE" /\ new.qty = qty /\ new.ordered = 0
    BY <1>2
  <2>2. DOMAIN row = DOMAIN new \cup DOMAIN db[bo] /\ \A c \in DOMAIN new : row[c] = new[c]
    <3>1. bo \in DOMAIN put
      BY <1>4
    <3>2. /\ DOMAIN After(put, bo) = DOMAIN put[bo] \cup DOMAIN db[bo]
          /\ \A c \in DOMAIN put[bo] : After(put, bo)[c] = put[bo][c]
          /\ \A c \in DOMAIN db[bo] \ DOMAIN put[bo] : After(put, bo)[c] = db[bo][c]
      BY <3>1, AfterColumns
    <3> QED
      BY <1>4, <1>8, <3>2
  <2> QED
    BY <2>1, <2>2
<1>10. CommitmentRow(row) /\ row.ordered = 0 /\ 0 <= row.qty /\ (row.status = "CLOSED") = (0 = row.qty)
  BY <1>9 DEF CommitmentRow, Positive
<1>11. KeepsSources(put)
  BY <1>1, <1>4, <1>6, <1>7, <1>8, <1>10, SourcesStay DEF KeepsSources
<1> QED
  BY <1>5, <1>11, StageKeepsSourcing

\* What an order without a request brings its source.
LEMMA SourcedOrderGain ==
  ASSUME PurchasingInv, NEW put, NEW po \in Rows("PO"), db[po] = NoRow, OrdersIn(put) = {po}, NEW q \in Positive,
         NEW source \in Live("SQ") \cup Live("BLANKET"), IsOrder(put[po], "SUBMITTED", NoRef, q, source)
  PROVE  /\ SourcedRow(After(put, po))
         /\ SourceGain(put, source) = q /\ \A x : x # source => SourceGain(put, x) = 0
<1>1. po \in DOMAIN put
  BY DEF OrdersIn
<1>2. PICK row : row = After(put, po)
  OBVIOUS
<1>3. OrderRow(row) /\ row # NoRow /\ IsOrder(row, "SUBMITTED", NoRef, q, source)
  BY <1>1, <1>2, NewOrderAfter
<1>4. \A x : SourceGain(put, x) = SourceShare(row, x) - SourceShare(db[po], x)
  BY <1>2, <1>3, OneOrderGain DEF PurchasingInv
<1>5. /\ \A x : SourceShare(db[po], x) = 0
      /\ SourceShare(row, source) = q /\ \A x : x # source => SourceShare(row, x) = 0
  BY <1>3 DEF SourceShare, IsOrder
<1>6. q - 0 = q /\ 0 - 0 = 0
  BY DEF Positive
<1>7. SourcedRow(row)
  BY <1>3 DEF SourcedRow, IsOrder
<1> QED
  BY <1>2, <1>4, <1>5, <1>6, <1>7

LEMMA AwardQuotationToPoSources ==
  ASSUME PurchasingInv, SourcingInv, NEW s \in Sessions, NEW sq \in Live("SQ"), NEW po \in Rows("PO"), Fresh(po),
         AwardQuotationToPo(s, sq, po)
  PROVE  SourcingInv'
<1> HIDE DEF Sessions
<1>1. /\ sq \in Rows("SQ") /\ db[sq].rfq \in Rows("RFQ") /\ db[sq].qty \in Positive /\ db[sq] # NoRow
      /\ "qty" \in DOMAIN db[sq] /\ db[sq].status = "SUBMITTED"
  BY QuoteFacts DEF QuoteRow, AwardQuotationToPo, Awardable, Status
<1>2. PICK put :
        /\ Stage(s, put, Nothing, {})
        /\ DOMAIN put = Rejected(sq) \cup {sq, db[sq].rfq, po}
        /\ \A x \in Rejected(sq) : put[x] = [status |-> "REJECTED"]
        /\ put[sq] = [status |-> "AWARDED"]
        /\ put[po] = Order("SUBMITTED", NoRef, db[sq].qty, FALSE, NoRef, sq)
  BY <1>1, AwardRows
<1>3. Rejected(sq) \subseteq Live("SQ") /\ \A x \in Rejected(sq) : db[x].status # "AWARDED"
  BY DEF Rejected, Of, Status
<1>4. OrdersIn(put) = {po} /\ db[po] = NoRow /\ \A x \in Rows("BLANKET") : x \notin DOMAIN put
  BY <1>1, <1>2, <1>3, FreshIsNew DEF OrdersIn, Live, Rows
<1>5. IsOrder(put[po], "SUBMITTED", NoRef, db[sq].qty, sq)
  BY <1>2, OrderColumns
<1>6. /\ SourcedRow(After(put, po))
      /\ SourceGain(put, sq) = db[sq].qty /\ \A x : x # sq => SourceGain(put, x) = 0
  BY <1>1, <1>4, <1>5, SourcedOrderGain
<1>7. Awarded(After(put, sq)) = db[sq].qty /\ Awarded(db[sq]) = 0
  <2>1. PICK new, old, row : new = put[sq] /\ old = db[sq] /\ row = After(put, sq)
    OBVIOUS
  <2>2. DOMAIN new = {"status"} /\ new.status = "AWARDED"
    BY <1>2, <2>1
  <2>3. row.status = new.status /\ row.qty = old.qty
    <3>1. (\A c \in DOMAIN new : row[c] = new[c]) /\ \A c \in DOMAIN old \ DOMAIN new : row[c] = old[c]
      <4>0. sq \in DOMAIN put
        BY <1>2
      <4>1. /\ DOMAIN After(put, sq) = DOMAIN put[sq] \cup DOMAIN db[sq]
            /\ \A c \in DOMAIN put[sq] : After(put, sq)[c] = put[sq][c]
            /\ \A c \in DOMAIN db[sq] \ DOMAIN put[sq] : After(put, sq)[c] = db[sq][c]
        BY <4>0, AfterColumns
      <4> QED
        BY <2>1, <4>1
    <3> QED
      BY <1>1, <2>1, <2>2, <3>1
  <2> QED
    BY <1>1, <2>1, <2>2, <2>3 DEF Awarded
<1>8. ASSUME NEW x \in Rejected(sq)
      PROVE  Awarded(After(put, x)) = 0 /\ Awarded(db[x]) = 0
  <2>1. PICK new, row : new = put[x] /\ row = After(put, x)
    OBVIOUS
  <2>2. "status" \in DOMAIN new /\ new.status = "REJECTED"
    BY <1>2, <2>1
  <2>3. row.status = new.status
    <3>0. x \in DOMAIN put
      BY <1>2
    <3>1. /\ DOMAIN After(put, x) = DOMAIN put[x] \cup DOMAIN db[x]
          /\ \A c \in DOMAIN put[x] : After(put, x)[c] = put[x][c]
          /\ \A c \in DOMAIN db[x] \ DOMAIN put[x] : After(put, x)[c] = db[x][c]
      BY <3>0, AfterColumns
    <3> QED
      BY <2>1, <2>2, <3>1
  <2> QED
    BY <1>3, <2>1, <2>2, <2>3 DEF Awarded
<1>9. ASSUME NEW x \in Rows("SQ")
      PROVE  IF db[x] = NoRow THEN x \in DOMAIN put => After(put, x).status # "AWARDED"
             ELSE SourceGain(put, x) = Awarded(After(put, x)) - Awarded(db[x])
  <2>1. CASE x = sq
    BY <1>1, <1>6, <1>7, <2>1 DEF Positive
  <2>2. CASE x \in Rejected(sq)
    <3>1. x # sq /\ db[x] # NoRow
      BY <2>2 DEF Rejected, Of, Live
    <3> QED
      BY <1>6, <1>8, <2>2, <3>1
  <2>3. CASE x \notin DOMAIN put
    <3>1. x # sq
      BY <1>2, <2>3
    <3> QED
      BY <1>6, <2>3, <3>1, SourcesStay
  <2>4. x \in DOMAIN put => x \in Rejected(sq) \cup {sq}
    BY <1>1, <1>2 DEF Rows
  <2> QED
    BY <2>1, <2>2, <2>3, <2>4
<1>10. \A x \in Rows("BLANKET") : x # sq
  BY <1>1 DEF Rows
<1>11. KeepsSources(put)
  BY <1>4, <1>6, <1>9, <1>10, SourcesStay DEF KeepsSources
<1> QED
  BY <1>2, <1>11, StageKeepsSourcing

LEMMA CreatePoFromBlanketOrderSources ==
  ASSUME PurchasingInv, SourcingInv, NEW s \in Sessions, NEW bo \in Live("BLANKET"), NEW q \in Positive, NEW po \in Rows("PO"), Fresh(po),
         CreatePoFromBlanketOrder(s, bo, q, po)
  PROVE  SourcingInv'
<1> HIDE DEF Sessions
<1>1. /\ bo \in Rows("BLANKET") /\ db[bo] # NoRow /\ CommitmentRow(db[bo])
      /\ q <= db[bo].qty - db[bo].ordered
  BY DEF Live, SourcingInv, SourcesComplete, CreatePoFromBlanketOrder, Drawable
<1>2. PICK put :
        /\ Stage(s, put, Nothing, {})
        /\ DOMAIN put = {bo, po}
        /\ put[bo] = [ordered |-> db[bo].ordered + q,
                      status  |-> IF db[bo].ordered + q >= db[bo].qty THEN "CLOSED" ELSE "ACTIVE"]
        /\ put[po] = Order("SUBMITTED", NoRef, q, FALSE, NoRef, bo)
  BY <1>1, DrawRows
<1>3. OrdersIn(put) = {po} /\ db[po] = NoRow
  BY <1>1, <1>2, FreshIsNew DEF OrdersIn, Rows
<1>4. IsOrder(put[po], "SUBMITTED", NoRef, q, bo)
  BY <1>2, OrderColumns
<1>5. /\ SourcedRow(After(put, po))
      /\ SourceGain(put, bo) = q /\ \A x : x # bo => SourceGain(put, x) = 0
  BY <1>3, <1>4, SourcedOrderGain
<1>6. PICK new, old, row : new = put[bo] /\ old = db[bo] /\ row = After(put, bo)
  OBVIOUS
<1>7. /\ DOMAIN new = {"ordered", "status"} /\ new.ordered = old.ordered + q
      /\ new.status = IF old.ordered + q >= old.qty THEN "CLOSED" ELSE "ACTIVE"
  BY <1>2, <1>6
<1>8. /\ DOMAIN row = DOMAIN new \cup DOMAIN old
      /\ \A c \in DOMAIN new : row[c] = new[c]
      /\ \A c \in DOMAIN old \ DOMAIN new : row[c] = old[c]
  <2>0. bo \in DOMAIN put
    BY <1>2
  <2>1. /\ DOMAIN After(put, bo) = DOMAIN put[bo] \cup DOMAIN db[bo]
        /\ \A c \in DOMAIN put[bo] : After(put, bo)[c] = put[bo][c]
        /\ \A c \in DOMAIN db[bo] \ DOMAIN put[bo] : After(put, bo)[c] = db[bo][c]
    BY <2>0, AfterColumns
  <2> QED
    BY <1>6, <2>1
<1>9. /\ {"status", "qty", "ordered"} \subseteq DOMAIN row /\ row.qty = old.qty /\ row.ordered = old.ordered + q
      /\ row.status = IF old.ordered + q >= old.qty THEN "CLOSED" ELSE "ACTIVE"
  BY <1>1, <1>6, <1>7, <1>8 DEF CommitmentRow
<1>10. /\ CommitmentRow(row) /\ row.ordered = old.ordered + q /\ old.ordered + q <= row.qty
       /\ (row.status = "CLOSED") = (old.ordered + q = row.qty)
  BY <1>1, <1>6, <1>9 DEF CommitmentRow, Positive
<1>11. \A x \in (Rows("SQ") \cup Rows("BLANKET")) \ {bo} : x \notin DOMAIN put
  BY <1>2 DEF Rows
<1>12. bo \notin Rows("SQ")
  BY <1>1 DEF Rows
<1>13. KeepsSources(put)
  BY <1>1, <1>3, <1>5, <1>6, <1>10, <1>11, <1>12, SourcesStay DEF KeepsSources
<1> QED
  BY <1>2, <1>13, StageKeepsSourcing

LEMMA OrderNextSources ==
  ASSUME PurchasingInv, SourcingInv, NEW s \in Sessions, OrderNext(s, Positive)
  PROVE  SourcingInv'
<1> HIDE DEF Sessions
<1>1. \A mr : mr \in Rows("MR") \cup Live("MR") => mr[1] \in {"MR", "RFQ"}
  BY DEF Live, Rows
<1>2. ASSUME NEW mr \in Rows("MR"), NEW q, CreateMaterialRequest(s, mr, q) PROVE SourcingInv'
  BY <1>1, <1>2, PlainKeepsSourcing DEF CreateMaterialRequest
<1>3. CASE \E mr \in Rows("MR"), q \in Positive :
             \/ Fresh(mr) /\ CreateMaterialRequest(s, mr, q)
             \/ db[mr] # NoRow /\ UpdateDraftMaterialRequest(s, mr, q)
  <2>1. ASSUME NEW mr \in Rows("MR"), NEW q, UpdateDraftMaterialRequest(s, mr, q) PROVE SourcingInv'
    BY <1>1, <2>1, PlainKeepsSourcing DEF UpdateDraftMaterialRequest
  <2> QED
    BY <1>2, <1>3, <2>1
<1>4. CASE \E mr \in Live("MR") :
             \/ SubmitMaterialRequest(s, mr) \/ CancelMaterialRequest(s, mr)
             \/ \E new \in Rows("MR") : Fresh(new) /\ AmendMaterialRequest(s, mr, new)
             \/ \E po \in Rows("PO"), q \in Positive, submit \in BOOLEAN :
                  Fresh(po) /\ CreatePurchaseOrder(s, mr, q, submit, po)
  <2>1. ASSUME NEW mr \in Live("MR"), SubmitMaterialRequest(s, mr) PROVE SourcingInv'
    BY <1>1, <2>1, PlainKeepsSourcing DEF SubmitMaterialRequest
  <2>2. ASSUME NEW mr \in Live("MR"), CancelMaterialRequest(s, mr) PROVE SourcingInv'
    BY <1>1, <2>2, PlainKeepsSourcing DEF CancelMaterialRequest
  <2>3. ASSUME NEW mr \in Live("MR"), NEW new \in Rows("MR"), AmendMaterialRequest(s, mr, new) PROVE SourcingInv'
    BY <1>1, <2>3, PlainKeepsSourcing DEF AmendMaterialRequest
  <2> QED
    BY <1>4, <2>1, <2>2, <2>3, CreatePurchaseOrderSources
<1>5. CASE \E level \in Live("LVL"), mr \in Rows("MR") : Fresh(mr) /\ CheckReorderReplenishment(s, level, mr)
  BY <1>2, <1>5 DEF CheckReorderReplenishment
<1>6. CASE \E po \in Live("PO") : CancelPurchaseOrder(s, po)
  BY <1>6, StatusSources
<1>7. CASE \E po \in {p \in Live("PO") : db[p].mr # NoRef} :
             \/ RecalculatePurchaseOrderDraft(s, po) \/ SubmitPurchaseOrder(s, po)
             \/ \E q \in Positive : UpdatePurchaseOrderDraft(s, po, q)
             \/ \E new \in Rows("PO") : Fresh(new) /\ AmendPurchaseOrder(s, po, new)
  BY <1>7, DraftSources, StatusSources, AmendPurchaseOrderSources
<1> QED
  BY <1>3, <1>4, <1>5, <1>6, <1>7 DEF OrderNext

LEMMA SourcingNextSources ==
  ASSUME PurchasingInv, SourcingInv, NEW s \in Sessions, SourcingNext(s, Positive, Positive)
  PROVE  SourcingInv'
<1> HIDE DEF Sessions
<1>1. CASE \E rfq \in Rows("RFQ") :
             \/ Fresh(rfq) /\ CreateRfq(s, rfq)
             \/ db[rfq] # NoRow /\ SendRfq(s, rfq)
             \/ \E sq \in Rows("SQ"), q \in Positive :
                  db[rfq] # NoRow /\ Fresh(sq) /\ CreateSupplierQuotation(s, rfq, q, sq)
  <2>1. PICK rfq \in Rows("RFQ") :
          \/ CreateRfq(s, rfq) \/ SendRfq(s, rfq)
          \/ \E sq \in Rows("SQ"), q \in Positive : Fresh(sq) /\ CreateSupplierQuotation(s, rfq, q, sq)
    BY <1>1
  <2>2. rfq[1] \in {"MR", "RFQ"}
    BY DEF Rows
  <2>3. CASE CreateRfq(s, rfq)
    BY <2>2, <2>3, PlainKeepsSourcing DEF CreateRfq
  <2>4. CASE SendRfq(s, rfq)
    BY <2>2, <2>4, PlainKeepsSourcing DEF SendRfq
  <2>5. CASE \E sq \in Rows("SQ"), q \in Positive : Fresh(sq) /\ CreateSupplierQuotation(s, rfq, q, sq)
    BY <2>5, CreateSupplierQuotationSources
  <2> QED
    BY <2>1, <2>3, <2>4, <2>5
<1>2. CASE \E bo \in Rows("BLANKET"), qty \in Positive : Fresh(bo) /\ CreateBlanketOrder(s, bo, qty)
  BY <1>2, CreateBlanketOrderSources
<1>3. CASE \E po \in Rows("PO") :
             /\ Fresh(po)
             /\ \/ \E sq \in Live("SQ") : AwardQuotationToPo(s, sq, po)
                \/ \E bo \in Live("BLANKET"), q \in Positive : CreatePoFromBlanketOrder(s, bo, q, po)
  BY <1>3, AwardQuotationToPoSources, CreatePoFromBlanketOrderSources
<1> QED
  BY <1>1, <1>2, <1>3 DEF SourcingNext

LEMMA ConversionNextSources ==
  ASSUME PurchasingInv, SourcingInv, NEW s \in Sessions, ConversionNext(s, Positive)
  PROVE  SourcingInv'
<1> HIDE DEF Sessions
<1>1. CASE \E mr \in Live("MR") : BeginConversion(s, mr)
  BY <1>1, BeginConversionSources
<1>2. CASE \E po \in Rows("PO"), q \in Positive : Fresh(po) /\ CreatePoFromMaterialRequest(s, q, po)
  BY <1>2, CreatePoFromMaterialRequestSources
<1> QED
  BY <1>1, <1>2 DEF ConversionNext

LEMMA RollbackKeepsSourcing ==
  ASSUME NEW s \in Sessions, Rollback(s), SourcingInv
  PROVE  SourcingInv'
<1>1. Sessions' = Sessions /\ req'[s] = Idle /\ db' = db
  BY DEF Rollback, Sessions
<1> HIDE DEF Sessions
<1>2. \A t \in Sessions' : req'[t] = Idle
  BY <1>1 DEF SourcingInv, OneSession
<1>3. SourcesComplete' /\ SourcedOnce' /\ OneSession'
  BY <1>1, SameSources DEF SourcingInv, OneSession
<1> QED
  BY <1>2, <1>3 DEF SourcingInv

\* While the requests of a tenant come one after the other, a quotation that
\* is awarded has one order for its quantity, and a blanket order is drawn as
\* far as its orders go and never beyond its commitment, over any history of
\* conversions, awards and draws (workflows/procurement/sourcing_service.py,
\* blanket_order_service.py, which take no lock).
THEOREM SourcesMatch == PurchasingSpec /\ OneSession => []OrdersMatchSources
<1> DEFINE Step ==
      \E s \in Sessions :
        \/ EndOfRequest(s) \/ OrderNext(s, Positive) \/ SourcingNext(s, Positive, Positive)
        \/ OneSession /\ ConversionNext(s, Positive)
<1>1. /\ PurchasesComplete /\ SourcesComplete /\ OrdersMatchSources /\ \A s \in Sessions : Free(s)
      /\ OneSession
      => SourcingInv
  BY DEF OrdersMatchSources, Free, SourcingInv
<1>2. PurchasingInv /\ SourcingInv /\ [Step]_vars => SourcingInv'
  <2> SUFFICES ASSUME PurchasingInv, SourcingInv, [Step]_vars PROVE SourcingInv'
    OBVIOUS
  <2>1. CASE Step
    <3> HIDE DEF Sessions
    <3> PICK s \in Sessions :
        \/ EndOfRequest(s) \/ OrderNext(s, Positive) \/ SourcingNext(s, Positive, Positive)
        \/ OneSession /\ ConversionNext(s, Positive)
      BY <2>1
    <3>1. CASE EndOfRequest(s)
      BY <3>1, CommitKeepsSourcing, RollbackKeepsSourcing DEF EndOfRequest
    <3> QED
      BY <3>1, OrderNextSources, SourcingNextSources, ConversionNextSources
  <2>2. CASE UNCHANGED vars
    <3>1. db' = db /\ req' = req
      BY <2>2 DEF vars
    <3>2. Sessions' = Sessions
      BY <3>1 DEF Sessions
    <3> HIDE DEF Sessions
    <3>3. SourcesComplete' /\ SourcedOnce' /\ OneSession'
      BY <3>1, <3>2, SameSources DEF SourcingInv, OneSession
    <3>4. ASSUME NEW s \in Sessions, req[s] # Idle
          PROVE  KeepsSources(req[s].put)'
      <4>1. PICK put : put = req[s].put
        OBVIOUS
      <4>2. KeepsSources(put)'
        BY <3>1, <3>4, <4>1, SameSources DEF SourcingInv
      <4> QED
        BY <3>1, <4>1, <4>2
    <3> QED
      BY <3>1, <3>2, <3>3, <3>4 DEF SourcingInv
  <2> QED
    BY <2>1, <2>2
<1>3. PurchasingInv /\ SourcingInv => OrdersMatchSources
  BY DEF PurchasingInv, SourcingInv, OrdersMatchSources
<1> QED
  BY <1>1, <1>2, <1>3, PurchasingInvariance, PTL DEF PurchasingSpec
-----------------------------------------------------------------------------
(* Billing and dunning: the inductive invariant *)

\* The dates at which a plan has been billed.
Charged(row, day) == row.first <= day /\ day < row.next /\ (day - row.first) % row.every = 0

\* EveryPeriodBilledOnce, said of any rows and books.
BilledIn(rows, books) ==
  /\ \A sub \in Rows("SUB") : rows[sub] # NoRow => PlanRow(rows[sub])
  /\ \A k \in DOMAIN books :
       k[1] = "BILLED" /\ k[2] \in Rows("SUB") =>
         IF rows[k[2]] = NoRow THEN books[k] = 0
         ELSE ~rows[k[2]].resumed => books[k] = IF Charged(rows[k[2]], k[3]) THEN 1 ELSE 0

\* DunnedOncePerLevel, likewise.
NoticedIn(rows, books) ==
  /\ \A l \in Rows("DTYPE") : rows[l] # NoRow => DunningRow(rows[l])
  /\ \A k \in DOMAIN books :
       k[1] = "NOTICE" =>
         /\ books[k] \in {0, 1}
         /\ books[k] = 1 => rows[k[3]] # NoRow /\ Today - db[k[2]].due >= rows[k[3]].days

\* What a request has staged leads to such rows and books again.
KeepsBilling(put, add) ==
  /\ DOMAIN put \subseteq Rows("SUB") \cup Rows("DTYPE") /\ \A k \in DOMAIN add : add[k] = 1
  /\ BilledIn(Result(put), Posted(add)) /\ NoticedIn(Result(put), Posted(add))

BookKeys ==
  \A k \in DOMAIN sums :
    /\ sums[k] \in Int
    /\ k[1] = "BILLED" => k = Billed(k[2], k[3]) /\ k[3] \in Int
    /\ k[1] = "NOTICE" => k = Notice(k[2], k[3]) /\ k[2] \in Live("DUE") /\ k[3] \in Rows("DTYPE")

BillingInv ==
  /\ OneSession
  /\ Clock \in DOMAIN db /\ "now" \in DOMAIN db[Clock] /\ Today \in Int
  /\ \A i \in Live("DUE") : OverdueRow(db[i])
  /\ BookKeys
  /\ BilledIn(db, sums) /\ NoticedIn(db, sums)
  /\ \A s \in Sessions : req[s] # Idle => KeepsBilling(req[s].put, req[s].add) /\ DOMAIN req[s].put \subseteq DOMAIN db

LEMMA SameBilling ==
  ASSUME db' = db, sums' = sums
  PROVE  /\ \A kind : Rows(kind)' = Rows(kind)
         /\ \A put, add : KeepsBilling(put, add)' = KeepsBilling(put, add)
<1>1. (\A kind : Rows(kind)' = Rows(kind)) /\ Today' = Today
  BY DEF Rows, Today
<1>2. \A rows, books : BilledIn(rows, books)' = BilledIn(rows, books)
  BY <1>1 DEF BilledIn, PlanRow, Charged
<1>3. \A rows, books : NoticedIn(rows, books)' = NoticedIn(rows, books)
  BY <1>1 DEF NoticedIn, DunningRow
<1>4. ASSUME NEW put, NEW add
      PROVE  KeepsBilling(put, add)' = KeepsBilling(put, add)
  <2>1. Result(put)' = Result(put) /\ Posted(add)' = Posted(add)
    BY DEF Result, After, Posted
  <2>2. PICK rows, books : rows = Result(put) /\ books = Posted(add) /\ rows = Result(put)' /\ books = Posted(add)'
    BY <2>1
  <2>3. (BilledIn(rows, books) /\ NoticedIn(rows, books))' = (BilledIn(rows, books) /\ NoticedIn(rows, books))
    BY <1>2, <1>3
  <2>4. (DOMAIN put \subseteq Rows("SUB") \cup Rows("DTYPE"))' = (DOMAIN put \subseteq Rows("SUB") \cup Rows("DTYPE"))
    BY <1>1
  <2> QED
    BY <2>2, <2>3, <2>4 DEF KeepsBilling
<1> QED
  BY <1>1, <1>4

LEMMA StageKeepsBilling ==
  ASSUME BillingInv, NEW s \in Sessions, NEW put, NEW add, Stage(s, put, add, {}), KeepsBilling(put, add)
  PROVE  BillingInv'
<1>1. Sessions' = Sessions
  BY StageIsOne
<1>2. req'[s].add = add /\ sums' = sums
  BY DEF Stage, Request, Sessions
<1> HIDE DEF Sessions
<1>3. /\ db' = db /\ req'[s].put = Staged(put)
      /\ \A t \in Sessions : t = s
  BY StageIsOne DEF BillingInv, OneSession
<1>4. PICK staged : staged = Staged(put)
  OBVIOUS
<1>5. Result(staged) = Result(put)
  BY <1>4, StagedAfter DEF Result
<1>6. DOMAIN staged = DOMAIN put /\ DOMAIN put \subseteq DOMAIN db
  BY <1>4 DEF Staged, KeepsBilling, Rows
<1>7. KeepsBilling(staged, add)
  BY <1>5, <1>6 DEF KeepsBilling
<1>8. KeepsBilling(staged, add)'
  BY <1>2, <1>3, <1>7, SameBilling
<1>9. \A t \in Sessions' : req'[t].put = staged /\ req'[t].add = add
  BY <1>1, <1>2, <1>3, <1>4
<1>10. \A t \in Sessions' : KeepsBilling(req[t].put, req[t].add)' /\ DOMAIN req'[t].put \subseteq DOMAIN db'
  <2> SUFFICES ASSUME NEW t \in Sessions' PROVE KeepsBilling(req[t].put, req[t].add)' /\ DOMAIN req'[t].put \subseteq DOMAIN db'
    OBVIOUS
  <2>1. req'[t].put = staged /\ req'[t].add = add
    BY <1>9
  <2> QED
    BY <1>3, <1>6, <1>8, <2>1
<1>11. (BilledIn(db, sums) /\ NoticedIn(db, sums))' = (BilledIn(db, sums) /\ NoticedIn(db, sums))
  BY <1>2, <1>3, SameBilling DEF BilledIn, NoticedIn, PlanRow, DunningRow, Charged, Today
<1>12. BookKeys' /\ (\A i \in Live("DUE")' : OverdueRow(db[i])')
  BY <1>2, <1>3, SameBilling DEF BillingInv, BookKeys, Live, OverdueRow, Billed, Notice
<1> QED
  BY <1>1, <1>3, <1>10, <1>11, <1>12 DEF BillingInv, OneSession, Today

LEMMA CommitKeepsBilling ==
  ASSUME BillingInv, NEW s \in Sessions, Commit(s)
  PROVE  BillingInv'
<1>1. Sessions' = Sessions /\ req'[s] = Idle /\ DOMAIN db' = DOMAIN db /\ req[s] # Idle
  BY CommitIsOne
<1> HIDE DEF Sessions
<1>2. PICK put, add : put = req[s].put /\ add = req[s].add
  OBVIOUS
<1>3. KeepsBilling(put, add) /\ DOMAIN put \subseteq DOMAIN db
  BY <1>1, <1>2 DEF BillingInv
<1>4. db' = Result(put) /\ sums' = Posted(add)
  BY <1>2 DEF Commit, CommitAnd, Result, After, Posted
<1>5. \A kind : Rows(kind)' = Rows(kind)
  BY <1>1 DEF Rows
<1>6. \A d \in DOMAIN db : d[1] \in {"CLOCK", "DUE"} => db'[d] = db[d]
  <2> SUFFICES ASSUME NEW d \in DOMAIN db, d[1] \in {"CLOCK", "DUE"} PROVE db'[d] = db[d]
    OBVIOUS
  <2>1. d \notin DOMAIN put
    BY <1>3 DEF KeepsBilling, Rows
  <2> QED
    BY <1>4, <2>1, ResultElsewhere
<1>7. Clock[1] = "CLOCK" /\ Today' = Today
  BY <1>6 DEF BillingInv, Clock, Today
<1>8. Live("DUE")' = Live("DUE") /\ \A i \in Live("DUE") : db'[i] = db[i]
  BY <1>5, <1>6 DEF Live, Rows
<1>9. PICK rows, books : rows = Result(put) /\ books = Posted(add)
  OBVIOUS
<1>10. rows = db' /\ books = sums' /\ BilledIn(rows, books) /\ NoticedIn(rows, books)
  BY <1>3, <1>4, <1>9 DEF KeepsBilling
<1>11. BilledIn(db, sums)'
  BY <1>5, <1>10 DEF BilledIn, PlanRow, Charged
<1>12. BookKeys'
  <2>1. DOMAIN sums' = DOMAIN sums
    BY <1>4 DEF Posted
  <2>2. \A k \in DOMAIN sums : sums'[k] \in Int
    <3> SUFFICES ASSUME NEW k \in DOMAIN sums PROVE sums'[k] \in Int
      OBVIOUS
    <3>1. sums[k] \in Int
      BY DEF BillingInv, BookKeys
    <3>2. sums'[k] = sums[k] + (IF k \in DOMAIN add THEN add[k] ELSE 0) /\ (k \in DOMAIN add => add[k] = 1)
      BY <1>3, <1>4 DEF Posted, KeepsBilling
    <3> QED
      BY <3>1, <3>2
  <2> QED
    BY <1>5, <1>8, <2>1, <2>2 DEF BillingInv, BookKeys, Billed, Notice
<1>13. NoticedIn(db, sums)'
  <2>1. \A k \in DOMAIN sums : k[1] = "NOTICE" => db'[k[2]] = db[k[2]]
    BY <1>8 DEF BillingInv, BookKeys
  <2>2. \A k \in DOMAIN books : k \in DOMAIN sums
    BY <1>9 DEF Posted
  <2> QED
    BY <1>5, <1>7, <1>10, <2>1, <2>2 DEF NoticedIn, DunningRow
<1>14. (\A i \in Live("DUE")' : OverdueRow(db[i])')
  BY <1>8 DEF BillingInv, OverdueRow
<1>15. OneSession' /\ \A t \in Sessions' : req'[t] = Idle
  BY <1>1 DEF BillingInv, OneSession
<1>16. Clock \in DOMAIN db' /\ "now" \in DOMAIN db'[Clock] /\ Today' \in Int
  BY <1>1, <1>6, <1>7 DEF BillingInv
<1> QED
  BY <1>11, <1>12, <1>13, <1>14, <1>15, <1>16 DEF BillingInv

LEMMA RollbackKeepsBilling ==
  ASSUME BillingInv, NEW s \in Sessions, Rollback(s)
  PROVE  BillingInv'
<1>1. Sessions' = Sessions /\ req'[s] = Idle /\ db' = db /\ sums' = sums
  BY DEF Rollback, Sessions
<1> HIDE DEF Sessions
<1>2. OneSession' /\ \A t \in Sessions' : req'[t] = Idle
  BY <1>1 DEF BillingInv, OneSession
<1>3. (BilledIn(db, sums) /\ NoticedIn(db, sums))' = (BilledIn(db, sums) /\ NoticedIn(db, sums))
  BY <1>1, SameBilling DEF BilledIn, NoticedIn, PlanRow, DunningRow, Charged, Today
<1>4. BookKeys' /\ (\A i \in Live("DUE")' : OverdueRow(db[i])')
  BY <1>1, SameBilling DEF BillingInv, BookKeys, Live, OverdueRow, Billed, Notice
<1> QED
  BY <1>1, <1>2, <1>3, <1>4 DEF BillingInv, Today

\* A later day is further from every due date.
LEMMA NextDayKeepsBilling ==
  ASSUME BillingInv, NEW last \in Int, NextDay(last)
  PROVE  BillingInv'
<1>1. PICK row : row = [db[Clock] EXCEPT !.now = @ + 1]
  OBVIOUS
<1>2. row.now = Today + 1 /\ "now" \in DOMAIN row
  BY <1>1 DEF BillingInv, Today
<1>3. db' = [db EXCEPT ![Clock] = row] /\ sums' = sums /\ req' = req
  BY <1>1 DEF NextDay
<1>4. DOMAIN db' = DOMAIN db /\ db'[Clock] = row /\ \A d \in DOMAIN db : d # Clock => db'[d] = db[d]
  BY <1>3 DEF BillingInv
<1>5. Today' = Today + 1 /\ Today \in Int
  BY <1>2, <1>4 DEF Today, BillingInv
<1>6. Sessions' = Sessions /\ \A kind : Rows(kind)' = Rows(kind)
  BY <1>3, <1>4 DEF Sessions, Rows
<1> HIDE DEF Sessions
<1>7. Live("DUE")' = Live("DUE") /\ \A i \in Live("DUE") : db'[i] = db[i]
  BY <1>4, <1>6 DEF Live, Rows, Clock
<1>8. BookKeys'
  BY <1>3, <1>6, <1>7 DEF BillingInv, BookKeys, Billed, Notice
<1>9. ASSUME NEW rows, NEW next, NEW books, DOMAIN books = DOMAIN sums,
             \A d \in Rows("SUB") \cup Rows("DTYPE") : next[d] = rows[d],
             BilledIn(rows, books), NoticedIn(rows, books)
      PROVE  BilledIn(next, books)' /\ NoticedIn(next, books)'
  <2>1. BilledIn(next, books)'
    BY <1>6, <1>9 DEF BilledIn, PlanRow, Charged
  <2>2. \A l \in Rows("DTYPE")' : next[l] # NoRow => DunningRow(next[l])'
    BY <1>6, <1>9 DEF NoticedIn, DunningRow
  <2>3. ASSUME NEW k \in DOMAIN books, k[1] = "NOTICE"
        PROVE  /\ books[k] \in {0, 1}
               /\ books[k] = 1 => next[k[3]] # NoRow /\ Today' - db'[k[2]].due >= next[k[3]].days
    <3>1. k[2] \in Live("DUE") /\ k[3] \in Rows("DTYPE")
      BY <1>9, <2>3 DEF BillingInv, BookKeys
    <3>2. next[k[3]] = rows[k[3]] /\ db'[k[2]] = db[k[2]] /\ db[k[2]].due \in Int
      BY <1>7, <1>9, <3>1 DEF BillingInv, OverdueRow
    <3>3. /\ books[k] \in {0, 1}
          /\ books[k] = 1 => rows[k[3]] # NoRow /\ Today - db[k[2]].due >= rows[k[3]].days
      BY <1>9, <2>3 DEF NoticedIn
    <3>4. rows[k[3]] # NoRow => rows[k[3]].days \in Int
      BY <1>9, <3>1 DEF NoticedIn, DunningRow
    <3> QED
      BY <1>5, <3>2, <3>3, <3>4
  <2> QED
    BY <2>1, <2>2, <2>3 DEF NoticedIn
<1>10. BilledIn(db, sums)' /\ NoticedIn(db, sums)'
  <2>1. PICK rows, next, books : rows = db /\ next = db' /\ books = sums /\ books = sums'
    BY <1>3
  <2>2. \A d \in Rows("SUB") \cup Rows("DTYPE") : next[d] = rows[d]
    BY <1>4, <2>1 DEF Rows, Clock
  <2>3. BilledIn(next, books)' /\ NoticedIn(next, books)'
    BY <1>9, <2>1, <2>2 DEF BillingInv
  <2> QED
    BY <2>1, <2>3
<1>11. ASSUME NEW s \in Sessions, req[s] # Idle
       PROVE  KeepsBilling(req[s].put, req[s].add)' /\ DOMAIN req'[s].put \subseteq DOMAIN db'
  <2>1. PICK put, add : put = req[s].put /\ add = req[s].add /\ put = req'[s].put /\ add = req'[s].add
    BY <1>3
  <2>2. KeepsBilling(put, add) /\ DOMAIN put \subseteq DOMAIN db
    BY <1>11, <2>1 DEF BillingInv
  <2>3. PICK rows, next, books : rows = Result(put) /\ next = Result(put)' /\ books = Posted(add) /\ books = Posted(add)'
    BY <1>3 DEF Posted
  <2>4. \A d \in Rows("SUB") \cup Rows("DTYPE") : next[d] = rows[d]
    BY <1>4, <2>3 DEF Result, After, Rows, Clock
  <2>5. DOMAIN books = DOMAIN sums
    BY <2>3 DEF Posted
  <2>6. BilledIn(next, books)' /\ NoticedIn(next, books)'
    BY <1>9, <2>2, <2>3, <2>4, <2>5 DEF KeepsBilling
  <2>7. KeepsBilling(put, add)'
    BY <1>6, <2>2, <2>3, <2>6 DEF KeepsBilling
  <2> QED
    BY <1>4, <2>1, <2>2, <2>7
<1>12. Clock \in DOMAIN db' /\ "now" \in DOMAIN db'[Clock] /\ Today' \in Int
  BY <1>2, <1>4, <1>5 DEF BillingInv
<1>13. (\A i \in Live("DUE")' : OverdueRow(db[i])')
  BY <1>7 DEF BillingInv, OverdueRow
<1> QED
  BY <1>3, <1>6, <1>8, <1>10, <1>11, <1>12, <1>13 DEF BillingInv, OneSession

-----------------------------------------------------------------------------
(* Billing and dunning: the handlers *)

\* Neither run touches what the other one keeps.
LEMMA DunningLeavesPlans ==
  ASSUME BillingInv, NEW put, NEW add, \A d \in DOMAIN put : d[1] # "SUB", \A k \in DOMAIN add : k[1] # "BILLED"
  PROVE  BilledIn(Result(put), Posted(add))
<1>1. PICK rows, books : rows = Result(put) /\ books = Posted(add)
  OBVIOUS
<1>2. \A d \in Rows("SUB") : rows[d] = db[d]
  <2>1. \A d \in Rows("SUB") : d \in DOMAIN db \ DOMAIN put
    BY DEF Rows
  <2> QED
    BY <1>1, <2>1, ResultElsewhere
<1>3. DOMAIN books = DOMAIN sums /\ \A k \in DOMAIN books : k[1] = "BILLED" => books[k] = sums[k]
  BY <1>1 DEF Posted, BillingInv, BookKeys
<1>4. BilledIn(rows, books)
  BY <1>2, <1>3 DEF BillingInv, BilledIn
<1> QED
  BY <1>1, <1>4

LEMMA BillingLeavesNotices ==
  ASSUME BillingInv, NEW put, NEW add, \A d \in DOMAIN put : d[1] # "DTYPE", \A k \in DOMAIN add : k[1] # "NOTICE"
  PROVE  NoticedIn(Result(put), Posted(add))
<1>1. PICK rows, books : rows = Result(put) /\ books = Posted(add)
  OBVIOUS
<1>2. \A d \in Rows("DTYPE") : rows[d] = db[d]
  <2>1. \A d \in Rows("DTYPE") : d \in DOMAIN db \ DOMAIN put
    BY DEF Rows
  <2> QED
    BY <1>1, <2>1, ResultElsewhere
<1>3. DOMAIN books = DOMAIN sums /\ \A k \in DOMAIN books : k[1] = "NOTICE" => books[k] = sums[k] /\ k[3] \in Rows("DTYPE")
  BY <1>1 DEF Posted, BillingInv, BookKeys
<1>4. NoticedIn(rows, books)
  BY <1>2, <1>3 DEF BillingInv, NoticedIn
<1> QED
  BY <1>1, <1>4

\* One plan that is new, resumed, or has its dates as before.
LEMMA PlanKeeps ==
  ASSUME BillingInv, NEW s \in Sessions, NEW sub \in Rows("SUB"), NEW put, DOMAIN put = {sub}, Stage(s, put, Nothing, {}),
         NEW row, row = Result(put)[sub], PlanRow(row),
         IF db[sub] = NoRow THEN row.next = row.first
         ELSE row.resumed \/ (~db[sub].resumed /\ row.first = db[sub].first /\ row.next = db[sub].next /\ row.every = db[sub].every)
  PROVE  BillingInv'
<1>1. PICK rows, books : rows = Result(put) /\ books = Posted(Nothing)
  OBVIOUS
<1>2. \A d \in Rows("SUB") : d # sub => rows[d] = db[d]
  <2>1. \A d \in Rows("SUB") : d # sub => d \in DOMAIN db \ DOMAIN put
    BY DEF Rows
  <2> QED
    BY <1>1, <2>1, ResultElsewhere
<1>3. DOMAIN books = DOMAIN sums /\ \A k \in DOMAIN books : books[k] = sums[k]
  <2>1. \A k : k \notin DOMAIN Nothing
    BY NothingIsEmpty
  <2> QED
    BY <1>1, <2>1 DEF Posted, BillingInv, BookKeys
<1>4. row # NoRow /\ rows[sub] = row
  BY <1>1, NoRowColumns DEF PlanRow
<1>5. ASSUME NEW k \in DOMAIN books, k[1] = "BILLED", k[2] = sub, ~row.resumed
      PROVE  books[k] = IF Charged(row, k[3]) THEN 1 ELSE 0
  <2>1. CASE db[sub] = NoRow
    <3>1. k[3] \in Int /\ row.first \in Int
      BY <1>3, <1>5 DEF BillingInv, BookKeys, PlanRow
    <3>2. ~Charged(row, k[3])
      BY <2>1, <3>1 DEF Charged
    <3> QED
      BY <1>3, <1>5, <2>1, <3>2 DEF BillingInv, BilledIn
  <2>2. CASE db[sub] # NoRow
    BY <1>3, <1>5, <2>2 DEF BillingInv, BilledIn, Charged
  <2> QED
    BY <2>1, <2>2
<1>6. BilledIn(rows, books)
  BY <1>2, <1>3, <1>4, <1>5 DEF BillingInv, BilledIn
<1>7. (\A d \in DOMAIN put : d[1] # "DTYPE") /\ (\A k \in DOMAIN Nothing : k[1] # "NOTICE" /\ Nothing[k] = 1)
  BY NothingIsEmpty DEF Rows
<1>8. KeepsBilling(put, Nothing)
  BY <1>1, <1>6, <1>7, BillingLeavesNotices DEF KeepsBilling
<1> QED
  BY <1>8, StageKeepsBilling

LEMMA SubscribeCustomerKeeps ==
  ASSUME BillingInv, NEW s \in Sessions, NEW sub \in Rows("SUB"), NEW t \in Nat, NEW every \in Nat \ {0}, Fresh(sub),
         SubscribeCustomer(s, sub, t, every)
  PROVE  BillingInv'
<1> HIDE DEF Sessions
<1>1. PICK r : r = [status |-> IF t > 0 THEN "TRIALING" ELSE "ACTIVE", first |-> Today + t,
                    next |-> Today + t, trial |-> Today + t, every |-> every, resumed |-> FALSE]
  OBVIOUS
<1>2. PICK put : put = sub :> r
  OBVIOUS
<1>3. Stage(s, put, Nothing, {})
  BY <1>1, <1>2 DEF SubscribeCustomer
<1>4. DOMAIN put = {sub} /\ put[sub] = r
  BY <1>2, OneRow
<1>5. db[sub] = NoRow /\ sub \in DOMAIN db
  BY FreshIsNew DEF Rows
<1>6. PICK row : row = Result(put)[sub]
  OBVIOUS
<1>7. DOMAIN row = DOMAIN r \cup DOMAIN db[sub] /\ \A c \in DOMAIN r : row[c] = r[c]
  BY <1>4, <1>5, <1>6, ResultColumns
<1>8. /\ DOMAIN r = {"status", "first", "next", "trial", "every", "resumed"}
      /\ r.first = Today + t /\ r.next = Today + t /\ r.trial = Today + t /\ r.every = every /\ r.resumed = FALSE
  BY <1>1
<1>9. Today \in Int
  BY DEF BillingInv
<1>10. (r.next - r.first) % every = 0
  <2>1. r.next - r.first = 0
    BY <1>8, <1>9
  <2> QED
    BY <2>1
<1>11. PlanRow(row) /\ row.next = row.first
  <2>1. {"status", "first", "next", "trial", "every", "resumed"} \subseteq DOMAIN row
    BY <1>7, <1>8
  <2>2. row.first = r.first /\ row.next = r.next /\ row.trial = r.trial /\ row.every = every /\ row.resumed = FALSE
    BY <1>7, <1>8
  <2>3. (row.next - row.first) % row.every = 0
    BY <1>10, <2>2
  <2>4. /\ row.first \in Int /\ row.next \in Int /\ row.trial \in Int /\ row.every \in Nat \ {0}
        /\ row.next = row.first /\ row.first <= row.next
    <3>1. row.first = Today + t /\ row.next = Today + t /\ row.trial = Today + t
      BY <1>8, <2>2
    <3> QED
      BY <1>9, <2>2, <3>1
  <2>5. row.resumed \in BOOLEAN
    BY <2>2
  <2> QED
    BY <2>1, <2>3, <2>4, <2>5 DEF PlanRow
<1> QED
  BY <1>3, <1>4, <1>5, <1>6, <1>11, PlanKeeps

LEMMA LivePlan ==
  ASSUME BillingInv, NEW sub \in Rows("SUB"), db[sub] # NoRow
  PROVE  PlanRow(db[sub]) /\ sub \in DOMAIN db
  BY DEF BillingInv, BilledIn, Rows

LEMMA PauseSubscriptionKeeps ==
  ASSUME BillingInv, NEW s \in Sessions, NEW sub \in Rows("SUB"), db[sub] # NoRow, PauseSubscription(s, sub)
  PROVE  BillingInv'
<1> HIDE DEF Sessions
<1>1. PICK r : r = [status |-> "PAUSED"]
  OBVIOUS
<1>2. PICK put : put = sub :> r
  OBVIOUS
<1>3. Stage(s, put, Nothing, {})
  BY <1>1, <1>2 DEF PauseSubscription
<1>4. DOMAIN put = {sub} /\ put[sub] = r /\ DOMAIN r = {"status"}
  BY <1>1, <1>2, OneRow
<1>5. PICK old, row : old = db[sub] /\ row = Result(put)[sub]
  OBVIOUS
<1>6. PlanRow(old) /\ sub \in DOMAIN db
  BY <1>5, LivePlan
<1>7. DOMAIN row = DOMAIN r \cup DOMAIN old /\ \A c \in DOMAIN old \ DOMAIN r : row[c] = old[c]
  BY <1>4, <1>5, <1>6, ResultColumns
<1>8. PlanRow(row) /\ row.first = old.first /\ row.next = old.next /\ row.every = old.every /\ row.resumed = old.resumed
  BY <1>4, <1>6, <1>7 DEF PlanRow
<1> QED
  BY <1>3, <1>4, <1>5, <1>6, <1>8, PlanKeeps DEF PlanRow

LEMMA ResumeSubscriptionKeeps ==
  ASSUME BillingInv, NEW s \in Sessions, NEW sub \in Rows("SUB"), db[sub] # NoRow, ResumeSubscription(s, sub)
  PROVE  BillingInv'
<1> HIDE DEF Sessions
<1>1. PICK r : r = [status |-> "ACTIVE", next |-> Today, resumed |-> TRUE]
  OBVIOUS
<1>2. PICK put : put = sub :> r
  OBVIOUS
<1>3. Stage(s, put, Nothing, {})
  BY <1>1, <1>2 DEF ResumeSubscription
<1>4. DOMAIN put = {sub} /\ put[sub] = r /\ DOMAIN r = {"status", "next", "resumed"} /\ r.next = Today /\ r.resumed = TRUE
  BY <1>1, <1>2, OneRow
<1>5. PICK old, row : old = db[sub] /\ row = Result(put)[sub]
  OBVIOUS
<1>6. PlanRow(old) /\ sub \in DOMAIN db /\ Today \in Int
  BY <1>5, LivePlan DEF BillingInv
<1>7. DOMAIN row = DOMAIN r \cup DOMAIN old /\ (\A c \in DOMAIN old \ DOMAIN r : row[c] = old[c]) /\ (\A c \in DOMAIN r : row[c] = r[c])
  BY <1>4, <1>5, <1>6, ResultColumns
<1>8. PlanRow(row) /\ row.resumed
  BY <1>4, <1>6, <1>7 DEF PlanRow
<1> QED
  BY <1>3, <1>4, <1>5, <1>6, <1>8, PlanKeeps

\* One period further, one date more.
LEMMA NextPeriod ==
  ASSUME NEW first \in Int, NEW next \in Int, NEW every \in Nat \ {0}, NEW day \in Int,
         first <= next, (next - first) % every = 0
  PROVE  /\ (next + every - first) % every = 0
         /\ (first <= day /\ day < next + every /\ (day - first) % every = 0)
              <=> (day = next \/ (first <= day /\ day < next /\ (day - first) % every = 0))
<1>1. PICK m \in Int : next - first = every * m
  OBVIOUS
<1>2. \A n \in Int : (every * n) % every = 0
  OBVIOUS
<1>3. (next + every - first) % every = 0
  <2>1. next + every - first = every * (m + 1) /\ m + 1 \in Int
    BY <1>1
  <2> QED
    BY <1>2, <2>1
<1>4. ASSUME next <= day, day < next + every, (day - first) % every = 0
      PROVE  day = next
  <2>1. PICK n \in Int : day - first = every * n
    BY <1>4
  <2>2. every * m <= every * n /\ every * n < every * (m + 1)
    BY <1>1, <1>4, <2>1
  <2>3. n >= m + 1 => every * n >= every * (m + 1)
    OBVIOUS
  <2>4. n <= m - 1 => every * n <= every * (m - 1) /\ every * (m - 1) = every * m - every
    OBVIOUS
  <2>5. n = m
    BY <2>2, <2>3, <2>4
  <2> QED
    BY <1>1, <2>1, <2>5
<1> QED
  BY <1>3, <1>4

LEMMA ProcessRecurringBillingKeeps ==
  ASSUME BillingInv, NEW s \in Sessions, ProcessRecurringBilling(s)
  PROVE  BillingInv'
<1> HIDE DEF Sessions
<1>1. PICK due : due = {sub \in DueSubscriptions : Status(sub) = "TRIALING" => db[sub].trial <= Today}
  OBVIOUS
<1>2. PICK put, add : /\ put = [sub \in due |-> [status |-> "ACTIVE", next |-> NextBilling(sub)]]
                      /\ add = [k \in {Billed(sub, db[sub].next) : sub \in due} |-> 1]
  OBVIOUS
<1>3. Stage(s, put, add, {})
  BY <1>1, <1>2 DEF ProcessRecurringBilling
<1>4. due \subseteq Rows("SUB") /\ \A sub \in due : db[sub] # NoRow
  BY <1>1 DEF DueSubscriptions, Live
<1>5. DOMAIN put = due /\ \A sub \in due : put[sub] = [status |-> "ACTIVE", next |-> db[sub].next + db[sub].every]
  BY <1>2 DEF NextBilling
<1>6. DOMAIN add = {Billed(sub, db[sub].next) : sub \in due} /\ \A k \in DOMAIN add : add[k] = 1
  BY <1>2
<1>7. PICK rows, books : rows = Result(put) /\ books = Posted(add)
  OBVIOUS
<1>8. ASSUME NEW sub \in due
      PROVE  /\ PlanRow(rows[sub]) /\ rows[sub].next = db[sub].next + db[sub].every
             /\ rows[sub].first = db[sub].first /\ rows[sub].every = db[sub].every /\ rows[sub].resumed = db[sub].resumed
  <2>1. PICK r, old, row : r = put[sub] /\ old = db[sub] /\ row = rows[sub]
    OBVIOUS
  <2>2. PlanRow(old) /\ sub \in DOMAIN db /\ sub \in DOMAIN put
    BY <1>4, <1>5, <2>1, LivePlan
  <2>3. DOMAIN row = DOMAIN r \cup DOMAIN old /\ (\A c \in DOMAIN old \ DOMAIN r : row[c] = old[c]) /\ (\A c \in DOMAIN r : row[c] = r[c])
    BY <1>7, <2>1, <2>2, ResultColumns
  <2>4. DOMAIN r = {"status", "next"} /\ r.next = old.next + old.every
    BY <1>5, <2>1
  <2>5. /\ {"status", "first", "next", "trial", "every", "resumed"} \subseteq DOMAIN row
        /\ row.next = old.next + old.every /\ row.first = old.first /\ row.trial = old.trial
        /\ row.every = old.every /\ row.resumed = old.resumed
    BY <2>2, <2>3, <2>4 DEF PlanRow
  <2>6. ~old.resumed => (old.next + old.every - old.first) % old.every = 0
    BY <2>2, NextPeriod DEF PlanRow
  <2>7. ASSUME ~row.resumed
        PROVE  (row.next - row.first) % row.every = 0
    <3>1. ~old.resumed
      BY <2>5, <2>7
    <3>2. (old.next + old.every - old.first) % old.every = 0
      BY <2>6, <3>1
    <3>3. row.next - row.first = old.next + old.every - old.first /\ row.every = old.every
      BY <2>2, <2>5 DEF PlanRow
    <3> QED
      BY <3>2, <3>3, Zenon
  <2>8. /\ row.first \in Int /\ row.next \in Int /\ row.trial \in Int /\ row.every \in Nat \ {0} /\ row.resumed \in BOOLEAN
        /\ ~row.resumed => row.first <= row.next
    BY <2>2, <2>5 DEF PlanRow
  <2>9. PlanRow(row)
    BY <2>5, <2>7, <2>8 DEF PlanRow
  <2> QED
    BY <2>1, <2>5, <2>9
<1>9. \A d \in Rows("SUB") : d \notin due => rows[d] = db[d]
  <2>1. \A d \in Rows("SUB") : d \notin due => d \in DOMAIN db \ DOMAIN put
    BY <1>5 DEF Rows
  <2> QED
    BY <1>7, <2>1, ResultElsewhere
<1>10. DOMAIN books = DOMAIN sums
  BY <1>7 DEF Posted
<1>11. ASSUME NEW k \in DOMAIN sums, k[1] = "BILLED"
       PROVE  /\ sums[k] \in Int /\ k[3] \in Int
              /\ books[k] = IF k[2] \in due /\ k[3] = db[k[2]].next THEN sums[k] + 1 ELSE sums[k]
  <2>1. k = <<"BILLED", k[2], k[3]>> /\ sums[k] \in Int /\ k[3] \in Int
    BY <1>11 DEF BillingInv, BookKeys, Billed
  <2>2. k \in DOMAIN add <=> k[2] \in due /\ k[3] = db[k[2]].next
    BY <1>6, <2>1 DEF Billed
  <2>3. books[k] = sums[k] + (IF k \in DOMAIN add THEN add[k] ELSE 0)
    BY <1>7 DEF Posted
  <2> QED
    BY <1>6, <2>1, <2>2, <2>3
<1>12. ASSUME NEW k \in DOMAIN books, k[1] = "BILLED", k[2] \in due, ~rows[k[2]].resumed
       PROVE  books[k] = IF Charged(rows[k[2]], k[3]) THEN 1 ELSE 0
  <2>1. PICK sub, old, row : sub = k[2] /\ old = db[sub] /\ row = rows[sub]
    OBVIOUS
  <2>2. PlanRow(old) /\ ~old.resumed
    BY <1>4, <1>8, <1>12, <2>1, LivePlan
  <2>3. sums[k] = IF Charged(old, k[3]) THEN 1 ELSE 0
    BY <1>4, <1>10, <1>12, <2>1, <2>2 DEF BillingInv, BilledIn
  <2>4. Charged(row, k[3]) <=> k[3] = old.next \/ Charged(old, k[3])
    <3>1. row.next = old.next + old.every /\ row.first = old.first /\ row.every = old.every
      BY <1>8, <1>12, <2>1
    <3>2. k[3] \in Int
      BY <1>10, <1>11, <1>12
    <3>3. (old.first <= k[3] /\ k[3] < old.next + old.every /\ (k[3] - old.first) % old.every = 0)
            <=> (k[3] = old.next \/ (old.first <= k[3] /\ k[3] < old.next /\ (k[3] - old.first) % old.every = 0))
      BY <2>2, <3>2, NextPeriod DEF PlanRow
    <3> QED
      BY <3>1, <3>3 DEF Charged
  <2>5. k[3] = old.next => ~Charged(old, k[3])
    BY <2>2 DEF Charged, PlanRow
  <2>6. books[k] = IF k[3] = old.next THEN sums[k] + 1 ELSE sums[k]
    BY <1>10, <1>11, <1>12, <2>1
  <2> QED
    BY <2>1, <2>3, <2>4, <2>5, <2>6
<1>13. BilledIn(rows, books)
  <2>1. \A sub \in Rows("SUB") : rows[sub] # NoRow => PlanRow(rows[sub])
    BY <1>8, <1>9 DEF BillingInv, BilledIn
  <2>2. \A sub \in due : rows[sub] # NoRow
    BY <1>8, NoRowColumns DEF PlanRow
  <2>3. \A k \in DOMAIN books : k[1] = "BILLED" /\ k[2] \notin due => books[k] = sums[k]
    BY <1>10, <1>11
  <2> QED
    BY <1>9, <1>10, <1>12, <2>1, <2>2, <2>3 DEF BillingInv, BilledIn
<1>14. \A d \in DOMAIN put : d[1] # "DTYPE"
  BY <1>4, <1>5 DEF Rows
<1>15. \A k \in DOMAIN add : k[1] # "NOTICE"
  BY <1>6 DEF Billed
<1>16. KeepsBilling(put, add)
  BY <1>4, <1>5, <1>6, <1>7, <1>13, <1>14, <1>15, BillingLeavesNotices DEF KeepsBilling
<1> QED
  BY <1>3, <1>16, StageKeepsBilling

\* New levels, and one notice each to invoices that are late enough.
LEMMA NoticesKeep ==
  ASSUME BillingInv, NEW s \in Sessions, NEW new, NEW put, NEW add, Stage(s, put, add, {}),
         new \subseteq Rows("DTYPE"), DOMAIN put = new,
         \A l \in new : db[l] = NoRow /\ {"status", "days"} \subseteq DOMAIN put[l] /\ put[l].days \in Int,
         \A k \in DOMAIN add :
           /\ add[k] = 1 /\ k[1] = "NOTICE" /\ sums[k] = 0
           /\ k[3] \in new \cup Live("DTYPE")
           /\ Today - db[k[2]].due >= IF k[3] \in new THEN put[k[3]].days ELSE db[k[3]].days
  PROVE  BillingInv'
<1>1. PICK rows, books : rows = Result(put) /\ books = Posted(add)
  OBVIOUS
<1>2. ASSUME NEW l \in new
      PROVE  DunningRow(rows[l]) /\ rows[l] # NoRow /\ rows[l].days = put[l].days
  <2>1. PICK r, row : r = put[l] /\ row = rows[l]
    OBVIOUS
  <2>2. l \in DOMAIN db /\ l \in DOMAIN put
    BY DEF Rows
  <2>3. DOMAIN row = DOMAIN r \cup DOMAIN db[l] /\ \A c \in DOMAIN r : row[c] = r[c]
    BY <1>1, <2>1, <2>2, ResultColumns
  <2>4. {"status", "days"} \subseteq DOMAIN r /\ r.days \in Int
    BY <2>1
  <2>5. DunningRow(row) /\ row.days = r.days /\ "days" \in DOMAIN row
    BY <2>3, <2>4 DEF DunningRow
  <2> QED
    BY <2>1, <2>5, NoRowColumns
<1>3. \A l \in Rows("DTYPE") : l \notin new => rows[l] = db[l]
  <2>1. \A l \in Rows("DTYPE") : l \notin new => l \in DOMAIN db \ DOMAIN put
    BY DEF Rows
  <2> QED
    BY <1>1, <2>1, ResultElsewhere
<1>4. \A l \in Rows("DTYPE") : rows[l] # NoRow => DunningRow(rows[l])
  BY <1>2, <1>3 DEF BillingInv, NoticedIn
<1>5. ASSUME NEW k \in DOMAIN books, k[1] = "NOTICE"
      PROVE  /\ books[k] \in {0, 1}
             /\ books[k] = 1 => rows[k[3]] # NoRow /\ Today - db[k[2]].due >= rows[k[3]].days
  <2>1. k \in DOMAIN sums /\ books[k] = sums[k] + (IF k \in DOMAIN add THEN add[k] ELSE 0)
    BY <1>1 DEF Posted
  <2>2. CASE k \in DOMAIN add
    <3>1. k[3] \in new \/ (k[3] \in Rows("DTYPE") /\ db[k[3]] # NoRow /\ k[3] \notin new)
      BY <2>2 DEF Live
    <3>2. rows[k[3]] # NoRow /\ Today - db[k[2]].due >= rows[k[3]].days
      BY <1>2, <1>3, <2>2, <3>1
    <3>3. books[k] = 1
      BY <2>1, <2>2
    <3> QED
      BY <3>2, <3>3
  <2>3. CASE k \notin DOMAIN add
    <3>1. k[3] \in Rows("DTYPE") /\ sums[k] \in {0, 1}
      BY <1>5, <2>1 DEF BillingInv, BookKeys, NoticedIn
    <3>2. books[k] = sums[k]
      BY <2>1, <2>3, <3>1
    <3>3. sums[k] = 1 => db[k[3]] # NoRow /\ Today - db[k[2]].due >= db[k[3]].days
      BY <1>5, <2>1 DEF BillingInv, NoticedIn
    <3>4. db[k[3]] # NoRow => rows[k[3]] = db[k[3]]
      BY <1>3, <3>1
    <3> QED
      BY <3>1, <3>2, <3>3, <3>4
  <2> QED
    BY <2>2, <2>3
<1>6. NoticedIn(rows, books)
  BY <1>4, <1>5 DEF NoticedIn
<1>7. (\A d \in DOMAIN put : d[1] # "SUB") /\ (\A k \in DOMAIN add : k[1] # "BILLED")
  BY DEF Rows
<1>8. KeepsBilling(put, add)
  BY <1>1, <1>6, <1>7, DunningLeavesPlans DEF KeepsBilling
<1> QED
  BY <1>8, StageKeepsBilling

LEMMA CreateDunningTypeKeeps ==
  ASSUME BillingInv, NEW s \in Sessions, NEW l \in Rows("DTYPE"), NEW days \in Int, Fresh(l), CreateDunningType(s, l, days)
  PROVE  BillingInv'
<1> HIDE DEF Sessions
<1>1. PICK r, new : r = [status |-> "LIVE", days |-> days] /\ new = {l}
  OBVIOUS
<1>2. PICK put : put = l :> r
  OBVIOUS
<1>3. Stage(s, put, Nothing, {})
  BY <1>1, <1>2 DEF CreateDunningType
<1>4. DOMAIN put = {l} /\ put[l] = r /\ DOMAIN r = {"status", "days"} /\ r.days = days
  BY <1>1, <1>2, OneRow
<1>5. new \subseteq Rows("DTYPE") /\ DOMAIN put = new /\ db[l] = NoRow
  BY <1>1, <1>4, FreshIsNew DEF Rows
<1>6. \A x \in new : db[x] = NoRow /\ {"status", "days"} \subseteq DOMAIN put[x] /\ put[x].days \in Int
  BY <1>1, <1>4, <1>5
<1>7. \A k \in DOMAIN Nothing : FALSE
  BY NothingIsEmpty
<1> QED
  BY <1>3, <1>5, <1>6, <1>7, NoticesKeep

LEMMA EvaluateOverdueInvoicesKeeps ==
  ASSUME BillingInv, NEW s \in Sessions, EvaluateOverdueInvoices(s)
  PROVE  BillingInv'
<1> HIDE DEF Sessions
<1>1. PICK default : default = {t \in Rows("DTYPE") : Live("DTYPE") = {} /\ Fresh(t)}
  OBVIOUS
<1>2. PICK levels : levels = [l \in Live("DTYPE") \cup default |-> IF l \in default THEN FirstReminderDays ELSE db[l].days]
  OBVIOUS
<1>3. PICK overdue : overdue = {i \in Live("DUE") : Status(i) = "ISSUED" /\ db[i].due < Today}
  OBVIOUS
<1>4. PICK send : send = {n \in overdue \X DOMAIN levels : n[2] \in Applicable(n[1], levels) /\ NotYetSent(n[1], n[2])}
  OBVIOUS
<1>5. PICK put, add : /\ put = [l \in default |-> [status |-> "LIVE", days |-> FirstReminderDays]]
                      /\ add = [k \in {Notice(n[1], n[2]) : n \in send} |-> 1]
  OBVIOUS
<1>6. Stage(s, put, add, {})
  BY <1>1, <1>2, <1>3, <1>4, <1>5 DEF EvaluateOverdueInvoices
<1>7. default \subseteq Rows("DTYPE") /\ DOMAIN put = default /\ \A l \in default : db[l] = NoRow
  BY <1>1, <1>5, FreshIsNew DEF Rows
<1>8. \A l \in default : {"status", "days"} \subseteq DOMAIN put[l] /\ put[l].days = FirstReminderDays /\ put[l].days \in Int
  <2> SUFFICES ASSUME NEW l \in default
               PROVE  {"status", "days"} \subseteq DOMAIN put[l] /\ put[l].days = FirstReminderDays /\ put[l].days \in Int
    OBVIOUS
  <2>1. PICK r : r = put[l]
    OBVIOUS
  <2>2. r = [status |-> "LIVE", days |-> FirstReminderDays]
    BY <1>5, <2>1
  <2> QED
    BY <2>1, <2>2 DEF FirstReminderDays
<1>9. ASSUME NEW k \in DOMAIN add
      PROVE  /\ add[k] = 1 /\ k[1] = "NOTICE" /\ sums[k] = 0
             /\ k[3] \in default \cup Live("DTYPE")
             /\ Today - db[k[2]].due >= IF k[3] \in default THEN put[k[3]].days ELSE db[k[3]].days
  <2>1. PICK n \in send : k = Notice(n[1], n[2])
    BY <1>5
  <2>2. PICK i, l : i = n[1] /\ l = n[2]
    OBVIOUS
  <2>3. i \in overdue /\ l \in DOMAIN levels /\ l \in Applicable(i, levels) /\ NotYetSent(i, l)
    BY <1>4, <2>1, <2>2
  <2>4. k = <<"NOTICE", i, l>> /\ k[1] = "NOTICE" /\ k[2] = i /\ k[3] = l
    BY <2>1, <2>2 DEF Notice
  <2>5. sums[k] = 0
    BY <2>3, <2>4 DEF NotYetSent, Notice
  <2>6. Today - db[i].due >= levels[l]
    BY <2>3 DEF Applicable
  <2>7. l \in default \cup Live("DTYPE") /\ levels[l] = IF l \in default THEN put[l].days ELSE db[l].days
    BY <1>2, <1>8, <2>3
  <2> QED
    BY <1>5, <2>4, <2>5, <2>6, <2>7
<1> QED
  BY <1>6, <1>7, <1>8, <1>9, NoticesKeep

LEMMA BillingHandlersKeep ==
  ASSUME BillingInv, NEW s \in Sessions, BillingHandlers(s, Nat, Nat \ {0}, Int)
  PROVE  BillingInv'
<1> HIDE DEF Sessions
<1>1. CASE \E sub \in Rows("SUB"), t \in Nat, every \in Nat \ {0} : Fresh(sub) /\ SubscribeCustomer(s, sub, t, every)
  BY <1>1, SubscribeCustomerKeeps
<1>2. CASE \E sub \in Rows("SUB") : db[sub] # NoRow /\ (PauseSubscription(s, sub) \/ ResumeSubscription(s, sub))
  BY <1>2, PauseSubscriptionKeeps, ResumeSubscriptionKeeps
<1>3. CASE ProcessRecurringBilling(s)
  BY <1>3, ProcessRecurringBillingKeeps
<1>4. CASE EvaluateOverdueInvoices(s)
  BY <1>4, EvaluateOverdueInvoicesKeeps
<1>5. CASE \E l \in Rows("DTYPE"), n \in Int : Fresh(l) /\ CreateDunningType(s, l, n)
  BY <1>5, CreateDunningTypeKeeps
<1> QED
  BY <1>1, <1>2, <1>3, <1>4, <1>5 DEF BillingHandlers

\* Requests one after the other, on whatever days they run, and a night in
\* the middle of a request, keep the books of billing and dunning right.
THEOREM BillingInvariance == BillingSpec /\ OneSession => []BillingInv
<1> DEFINE Step == \/ \E last \in Int : NextDay(last)
                   \/ \E s \in Sessions : EndOfRequest(s) \/ BillingHandlers(s, Nat, Nat \ {0}, Int)
<1>1. BillingComplete /\ RunsRepeatSafely /\ (\A s \in Sessions : Free(s)) /\ OneSession => BillingInv
  <2> SUFFICES ASSUME BillingComplete, RunsRepeatSafely, \A s \in Sessions : Free(s), OneSession
               PROVE  BillingInv
    OBVIOUS
  <2> HIDE DEF Sessions
  <2>1. BilledIn(db, sums)
    BY DEF BilledIn, BillingComplete, RunsRepeatSafely, EveryPeriodBilledOnce, Live, Charged
  <2>2. \A k \in DOMAIN sums : k[1] = "NOTICE" => sums[k] \in {0, 1} /\ k[3] \in Rows("DTYPE") /\ (db[k[3]] = NoRow => sums[k] = 0)
    BY DEF BillingComplete, RunsRepeatSafely, DunnedOncePerLevel
  <2>3. NoticedIn(db, sums)
    BY <2>2 DEF NoticedIn, BillingComplete, RunsRepeatSafely, DunnedOncePerLevel, Live
  <2>4. BookKeys
    BY DEF BookKeys, BillingComplete
  <2> QED
    BY <2>1, <2>3, <2>4 DEF BillingInv, BillingComplete, Free
<1>2. BillingInv /\ [Step]_vars => BillingInv'
  <2> SUFFICES ASSUME BillingInv, [Step]_vars PROVE BillingInv'
    OBVIOUS
  <2>1. CASE \E last \in Int : NextDay(last)
    BY <2>1, NextDayKeepsBilling
  <2>2. CASE \E s \in Sessions : EndOfRequest(s) \/ BillingHandlers(s, Nat, Nat \ {0}, Int)
    <3> HIDE DEF Sessions
    <3> QED
      BY <2>2, CommitKeepsBilling, RollbackKeepsBilling, BillingHandlersKeep DEF EndOfRequest
  <2>3. CASE UNCHANGED vars
    <3>1. db' = db /\ req' = req /\ sums' = sums
      BY <2>3 DEF vars
    <3>2. Sessions' = Sessions
      BY <3>1 DEF Sessions
    <3> HIDE DEF Sessions
    <3>3. (BilledIn(db, sums) /\ NoticedIn(db, sums))' = (BilledIn(db, sums) /\ NoticedIn(db, sums))
      BY <3>1, SameBilling DEF BilledIn, NoticedIn, PlanRow, DunningRow, Charged, Today
    <3>4. BookKeys' /\ (\A i \in Live("DUE")' : OverdueRow(db[i])')
      BY <3>1, SameBilling DEF BillingInv, BookKeys, Live, OverdueRow, Billed, Notice
    <3>5. ASSUME NEW s \in Sessions, req[s] # Idle
          PROVE  KeepsBilling(req[s].put, req[s].add)' /\ DOMAIN req'[s].put \subseteq DOMAIN db'
      <4>1. PICK put, add : put = req[s].put /\ add = req[s].add
        OBVIOUS
      <4>2. KeepsBilling(put, add)' /\ DOMAIN put \subseteq DOMAIN db'
        BY <3>1, <3>5, <4>1, SameBilling DEF BillingInv
      <4> QED
        BY <3>1, <4>1, <4>2
    <3> QED
      BY <3>1, <3>2, <3>3, <3>4, <3>5 DEF BillingInv, OneSession, Today
  <2> QED
    BY <2>1, <2>2, <2>3
<1> QED
  BY <1>1, <1>2, PTL DEF BillingSpec

\* However late, early or often billing and dunning are run, and whatever is
\* paused in between, a subscription that was never resumed has exactly one
\* invoice for each of its periods up to its next billing date
\* (workflows/billing/subscription_service.py), and a customer gets each
\* reminder of an invoice at most once and not before its day
\* (dunning_service.py), for any plans, intervals, invoices and levels.
THEOREM PeriodsBilledOnce == BillingSpec /\ OneSession => []RunsRepeatSafely
<1>1. BillingInv => RunsRepeatSafely
  <2> SUFFICES ASSUME BillingInv PROVE RunsRepeatSafely
    OBVIOUS
  <2>1. EveryPeriodBilledOnce
    BY DEF BillingInv, BilledIn, EveryPeriodBilledOnce, Live, Charged
  <2>2. DunnedOncePerLevel
    BY DEF BillingInv, NoticedIn, DunnedOncePerLevel
  <2> QED
    BY <2>1, <2>2 DEF RunsRepeatSafely
<1> QED
  BY <1>1, BillingInvariance, PTL
-----------------------------------------------------------------------------
(* Point of sale: the inductive invariant *)

\* The receipts among any rows, those returned against a receipt, and those
\* that a consolidation took in.
ReceiptsIn(rows) == {r \in Rows("POS") : rows[r] # NoRow}
ReturnsIn(rows, r) == {x \in ReceiptsIn(rows) : rows[x].source = r}
MergedIn(rows, m) == {x \in ReceiptsIn(rows) : rows[x].merged = m}
CashIn(rows) == SumFunctionOnSet([r \in ReceiptsIn(rows) |-> TillShare(rows[r])], ReceiptsIn(rows))

\* ReceiptReturnedOnce, said of any rows.
ReceiptsStand(rows) ==
  \A r \in ReceiptsIn(rows) :
    /\ Receipt(rows[r])
    /\ rows[r].source = NoRef \/ rows[r].source \in ReceiptsIn(rows)
    /\ rows[r].merged = NoRef \/ (rows[r].merged \in Rows("MERGE") /\ rows[rows[r].merged] # NoRow)
    /\ rows[r].status = "PAID" => SumIn(rows, ReturnsIn(rows, r), "qty") <= rows[r].qty

\* ConsolidatedOnce, likewise.
MergeStands(rows, m) ==
  /\ Merged(rows[m])
  /\ rows[m].count = Cardinality(MergedIn(rows, m))
  /\ rows[m].sales = SumIn(rows, {r \in MergedIn(rows, m) : rows[r].status = "PAID"}, "total")
  /\ rows[m].returns = SumIn(rows, {r \in MergedIn(rows, m) : rows[r].status = "RETURNED"}, "total")

MergesStand(rows) == \A m \in Rows("MERGE") : rows[m] # NoRow => MergeStands(rows, m)

\* BooksMatchReceipts, of any rows and books.
ShelvesStand(rows, books) ==
  \A l \in Rows("LVL") :
    rows[l] # NoRow => Shelved(rows[l]) /\ Sle(l) \in DOMAIN books /\ books[Sle(l)] = rows[l].current - rows[l].opening

RegisterStands(rows, books) ==
  /\ ReceiptsStand(rows) /\ MergesStand(rows) /\ ShelvesStand(rows, books)
  /\ Till \in DOMAIN books /\ books[Till] = CashIn(rows)

\* What a request has staged leads to such rows and books again.
KeepsRegister(put, add) == DOMAIN put \subseteq DOMAIN db /\ RegisterStands(Result(put), Posted(add))

RegisterInv ==
  /\ OneSession /\ IsFiniteSet(Rows("POS"))
  /\ RegisterStands(db, sums)
  /\ \A s \in Sessions : req[s] # Idle => KeepsRegister(req[s].put, req[s].add)

LEMMA SameRegister ==
  ASSUME DOMAIN db' = DOMAIN db
  PROVE  \A rows, books : RegisterStands(rows, books)' = RegisterStands(rows, books)
<1>1. \A kind : Rows(kind)' = Rows(kind)
  BY DEF Rows
<1>2. \A rows : ReceiptsIn(rows)' = ReceiptsIn(rows)
  BY <1>1 DEF ReceiptsIn
<1>3. \A rows : CashIn(rows)' = CashIn(rows)
  BY <1>2 DEF CashIn
<1>4. \A rows, r : ReturnsIn(rows, r)' = ReturnsIn(rows, r) /\ MergedIn(rows, r)' = MergedIn(rows, r)
  BY <1>2 DEF ReturnsIn, MergedIn
<1>5. \A rows : ReceiptsStand(rows)' = ReceiptsStand(rows)
  BY <1>1, <1>2, <1>4 DEF ReceiptsStand, Receipt, SumIn
<1>6. \A rows : MergesStand(rows)' = MergesStand(rows)
  BY <1>1, <1>4 DEF MergesStand, MergeStands, Merged, SumIn
<1>7. \A rows, books : ShelvesStand(rows, books)' = ShelvesStand(rows, books)
  BY <1>1 DEF ShelvesStand, Shelved, Sle
<1> QED
  BY <1>3, <1>5, <1>6, <1>7 DEF RegisterStands, Till

LEMMA StageKeepsRegister ==
  ASSUME RegisterInv, NEW s \in Sessions, NEW put, NEW add, Stage(s, put, add, {}), KeepsRegister(put, add)
  PROVE  RegisterInv'
<1>1. Sessions' = Sessions
  BY StageIsOne
<1>2. req'[s].add = add /\ sums' = sums
  BY DEF Stage, Request, Sessions
<1> HIDE DEF Sessions
<1>3. db' = db /\ req'[s].put = Staged(put) /\ \A t \in Sessions : t = s
  BY StageIsOne DEF RegisterInv, OneSession
<1>4. PICK staged : staged = Staged(put)
  OBVIOUS
<1>5. Result(staged) = Result(put)
  BY <1>4, StagedAfter DEF Result
<1>6. DOMAIN staged = DOMAIN put /\ DOMAIN put \subseteq DOMAIN db
  BY <1>4 DEF Staged, KeepsRegister
<1>7. PICK rows, books : rows = Result(staged) /\ books = Posted(add) /\ rows = Result(staged)' /\ books = Posted(add)'
  BY <1>2, <1>3 DEF Result, After, Posted
<1>8. RegisterStands(rows, books) /\ RegisterStands(db, sums)
  BY <1>5, <1>7 DEF KeepsRegister, RegisterInv
<1>9. RegisterStands(rows, books)' /\ RegisterStands(db, sums)'
  BY <1>2, <1>3, <1>8, SameRegister
<1>10. KeepsRegister(staged, add)'
  BY <1>3, <1>6, <1>7, <1>9 DEF KeepsRegister
<1>11. \A t \in Sessions' : KeepsRegister(req[t].put, req[t].add)'
  <2> SUFFICES ASSUME NEW t \in Sessions' PROVE KeepsRegister(req[t].put, req[t].add)'
    OBVIOUS
  <2>1. req'[t].put = staged /\ req'[t].add = add
    BY <1>1, <1>2, <1>3, <1>4
  <2> QED
    BY <1>10, <2>1
<1> QED
  BY <1>1, <1>3, <1>9, <1>11 DEF RegisterInv, OneSession, Rows

LEMMA CommitKeepsRegister ==
  ASSUME RegisterInv, NEW s \in Sessions, Commit(s)
  PROVE  RegisterInv'
<1>1. Sessions' = Sessions /\ req'[s] = Idle /\ DOMAIN db' = DOMAIN db /\ req[s] # Idle
  BY CommitIsOne
<1> HIDE DEF Sessions
<1>2. PICK put, add : put = req[s].put /\ add = req[s].add
  OBVIOUS
<1>3. KeepsRegister(put, add)
  BY <1>1, <1>2 DEF RegisterInv
<1>4. db' = Result(put) /\ sums' = Posted(add)
  BY <1>2 DEF Commit, CommitAnd, Result, After, Posted
<1>5. PICK rows, books : rows = Result(put) /\ books = Posted(add) /\ rows = db' /\ books = sums'
  BY <1>4
<1>6. RegisterStands(rows, books)'
  BY <1>1, <1>3, <1>5, SameRegister DEF KeepsRegister
<1>7. \A t \in Sessions' : req'[t] = Idle
  BY <1>1 DEF RegisterInv, OneSession
<1>8. OneSession' /\ IsFiniteSet(Rows("POS"))'
  BY <1>1 DEF RegisterInv, OneSession, Rows
<1> QED
  BY <1>5, <1>6, <1>7, <1>8 DEF RegisterInv

LEMMA RollbackKeepsRegister ==
  ASSUME RegisterInv, NEW s \in Sessions, Rollback(s)
  PROVE  RegisterInv'
<1>1. Sessions' = Sessions /\ req'[s] = Idle /\ db' = db /\ sums' = sums
  BY DEF Rollback, Sessions
<1> HIDE DEF Sessions
<1>2. \A t \in Sessions' : req'[t] = Idle
  BY <1>1 DEF RegisterInv, OneSession
<1>3. RegisterStands(db, sums)'
  BY <1>1, SameRegister DEF RegisterInv
<1> QED
  BY <1>1, <1>2, <1>3 DEF RegisterInv, OneSession, Rows

-----------------------------------------------------------------------------
(* Point of sale: the handlers *)

LEMMA KindsApart == NoRef \notin Rows("POS") /\ NoRef \notin Rows("MERGE") /\ Rows("POS") \cap Rows("MERGE") = {} /\ Rows("POS") \cap Rows("LVL") = {}
  BY DEF Rows, NoRef

LEMMA ShareIsInt == ASSUME NEW row, Receipt(row) PROVE TillShare(row) \in Int
  BY DEF Receipt, TillShare

\* What is committed adds up.
LEMMA RegisterFacts ==
  ASSUME RegisterInv
  PROVE  /\ IsFiniteSet(ReceiptsIn(db))
         /\ Summable([r \in ReceiptsIn(db) |-> TillShare(db[r])], ReceiptsIn(db))
         /\ sums[Till] \in Int /\ sums[Till] = CashIn(db) /\ Till \in DOMAIN sums
         /\ \A r \in ReceiptsIn(db) : Receipt(db[r])
<1>1. IsFiniteSet(ReceiptsIn(db))
  BY FS_Subset DEF RegisterInv, ReceiptsIn
<1>2. \A r \in ReceiptsIn(db) : Receipt(db[r])
  BY DEF RegisterInv, RegisterStands, ReceiptsStand
<1>3. PICK f : f = [r \in ReceiptsIn(db) |-> TillShare(db[r])]
  OBVIOUS
<1>4. Summable(f, ReceiptsIn(db))
  BY <1>1, <1>2, <1>3, ShareIsInt DEF Summable
<1>5. sums[Till] = SumFunctionOnSet(f, ReceiptsIn(db)) /\ Till \in DOMAIN sums
  BY <1>3 DEF RegisterInv, RegisterStands, CashIn
<1>6. sums[Till] \in Int
  BY <1>4, <1>5, SumInt
<1> QED
  BY <1>1, <1>2, <1>3, <1>4, <1>5, <1>6 DEF CashIn

LEMMA MergeUnchanged ==
  ASSUME NEW rows, NEW m, rows[m] = db[m], MergedIn(rows, m) = MergedIn(db, m),
         \A r \in MergedIn(db, m) : rows[r].status = db[r].status /\ rows[r].total = db[r].total,
         MergeStands(db, m)
  PROVE  MergeStands(rows, m)
<1>1. ASSUME NEW v
      PROVE  SumIn(rows, {r \in MergedIn(rows, m) : rows[r].status = v}, "total")
               = SumIn(db, {r \in MergedIn(db, m) : db[r].status = v}, "total")
  <2>1. PICK set : set = {r \in MergedIn(db, m) : db[r].status = v}
    OBVIOUS
  <2>2. {r \in MergedIn(rows, m) : rows[r].status = v} = set /\ \A r \in set : rows[r].total = db[r].total
    BY <2>1
  <2>3. SumIn(rows, set, "total") = SumIn(db, set, "total")
    BY <2>2, SumUnchanged
  <2> QED
    BY <2>1, <2>2, <2>3
<1> QED
  BY <1>1 DEF MergeStands

\* Nothing that the register sums up is written.
LEMMA QuietKeepsRegister ==
  ASSUME RegisterInv, NEW put, DOMAIN put \subseteq DOMAIN db, \A d \in DOMAIN put : d[1] \notin {"POS", "LVL", "MERGE"}
  PROVE  KeepsRegister(put, Nothing)
<1>1. PICK rows, books : rows = Result(put) /\ books = Posted(Nothing)
  OBVIOUS
<1>2. \A d \in Rows("POS") \cup Rows("LVL") \cup Rows("MERGE") : rows[d] = db[d]
  <2>1. \A d \in Rows("POS") \cup Rows("LVL") \cup Rows("MERGE") : d \in DOMAIN db \ DOMAIN put
    BY DEF Rows
  <2> QED
    BY <1>1, <2>1, ResultElsewhere
<1>3. DOMAIN books = DOMAIN sums /\ \A k \in DOMAIN sums : sums[k] \in Int => books[k] = sums[k]
  <2>1. \A k : k \notin DOMAIN Nothing
    BY NothingIsEmpty
  <2> QED
    BY <1>1, <2>1 DEF Posted
<1>4. ReceiptsIn(rows) = ReceiptsIn(db) /\ \A r \in ReceiptsIn(db) : rows[r] = db[r]
  BY <1>2 DEF ReceiptsIn
<1>5. \A r : ReturnsIn(rows, r) = ReturnsIn(db, r) /\ MergedIn(rows, r) = MergedIn(db, r)
  BY <1>4 DEF ReturnsIn, MergedIn
<1>6. \A r : SumIn(rows, ReturnsIn(rows, r), "qty") = SumIn(db, ReturnsIn(db, r), "qty")
  <2> SUFFICES ASSUME NEW r PROVE SumIn(rows, ReturnsIn(db, r), "qty") = SumIn(db, ReturnsIn(db, r), "qty")
    BY <1>5
  <2>1. \A y \in ReturnsIn(db, r) : rows[y].qty = db[y].qty
    BY <1>4 DEF ReturnsIn
  <2> QED
    BY <2>1, SumUnchanged
<1>7. CashIn(rows) = CashIn(db)
  BY <1>4 DEF CashIn
<1>8. ReceiptsStand(rows)
  <2>3. ReceiptsStand(db)
    BY DEF RegisterInv, RegisterStands
  <2> SUFFICES ASSUME NEW r \in ReceiptsIn(db)
              PROVE  /\ Receipt(db[r])
                     /\ db[r].source = NoRef \/ db[r].source \in ReceiptsIn(db)
                     /\ db[r].merged = NoRef \/ (db[r].merged \in Rows("MERGE") /\ rows[db[r].merged] # NoRow)
                     /\ db[r].status = "PAID" => SumIn(db, ReturnsIn(db, r), "qty") <= db[r].qty
    BY <1>4, <1>6 DEF ReceiptsStand
  <2> QED
    BY <1>2, <2>3 DEF ReceiptsStand
<1>9. MergesStand(rows)
  <2> SUFFICES ASSUME NEW m \in Rows("MERGE"), db[m] # NoRow PROVE MergeStands(rows, m)
    BY <1>2 DEF MergesStand
  <2>1. MergeStands(db, m) /\ \A r \in MergedIn(db, m) : rows[r] = db[r]
    BY <1>4 DEF RegisterInv, RegisterStands, MergesStand, MergedIn
  <2> QED
    BY <1>2, <1>5, <2>1, MergeUnchanged
<1>10. ShelvesStand(rows, books)
  <2> SUFFICES ASSUME NEW l \in Rows("LVL"), db[l] # NoRow
              PROVE  Shelved(db[l]) /\ Sle(l) \in DOMAIN books /\ books[Sle(l)] = db[l].current - db[l].opening
    BY <1>2 DEF ShelvesStand
  <2>1. Shelved(db[l]) /\ Sle(l) \in DOMAIN sums /\ sums[Sle(l)] = db[l].current - db[l].opening
    BY DEF RegisterInv, RegisterStands, ShelvesStand
  <2>2. sums[Sle(l)] \in Int
    BY <2>1 DEF Shelved
  <2> QED
    BY <1>3, <2>1, <2>2
<1>11. Till \in DOMAIN books /\ books[Till] = CashIn(rows)
  BY <1>3, <1>7, RegisterFacts
<1> QED
  BY <1>1, <1>8, <1>9, <1>10, <1>11 DEF KeepsRegister, RegisterStands

\* One more receipt, which no consolidation has taken in: a sale, or a return
\* of what is left of its receipt.
LEMMA NewReceiptStands ==
  ASSUME RegisterInv, NEW x \in Rows("POS"), db[x] = NoRow,
         NEW rows, \A d \in Rows("POS") \cup Rows("MERGE") : d # x => rows[d] = db[d],
         Receipt(rows[x]), rows[x].merged = NoRef,
         \/ rows[x].source = NoRef
         \/ /\ rows[x].source \in ReceiptsIn(db)
            /\ SumIn(db, ReturnsIn(db, rows[x].source), "qty") + rows[x].qty <= db[rows[x].source].qty
  PROVE  /\ ReceiptsStand(rows) /\ MergesStand(rows)
         /\ CashIn(rows) = CashIn(db) + TillShare(rows[x])
<1>1. PICK S, new : S = ReceiptsIn(db) /\ new = rows[x]
  OBVIOUS
<1>2. Receipt(new) /\ new.merged = NoRef /\ new # NoRow /\ x \notin S
  BY <1>1, NoRowColumns DEF Receipt, ReceiptsIn
<1>3. ReceiptsIn(rows) = S \cup {x} /\ \A r \in S : rows[r] = db[r] /\ r # x
  BY <1>1, <1>2 DEF ReceiptsIn
<1>4. IsFiniteSet(S) /\ \A r \in S : Receipt(db[r]) /\ db[r].qty \in Int
  BY <1>1, RegisterFacts DEF Receipt
<1>5. \A r \in S : db[r].source # x /\ (db[r].source = NoRef \/ db[r].source \in S)
  BY <1>1, <1>2, KindsApart DEF RegisterInv, RegisterStands, ReceiptsStand
<1>6. new.source # x
  BY <1>1, <1>2, KindsApart
<1>7. \A r \in S : ReturnsIn(rows, r) = ReturnsIn(db, r) \cup (IF new.source = r THEN {x} ELSE {})
  BY <1>1, <1>3 DEF ReturnsIn
<1>8. ReturnsIn(rows, x) = {}
  BY <1>1, <1>3, <1>5, <1>6 DEF ReturnsIn
<1>9. \A m \in Rows("MERGE") : MergedIn(rows, m) = MergedIn(db, m)
  BY <1>1, <1>2, <1>3, KindsApart DEF MergedIn
<1>11. ASSUME NEW r \in S, db[r].status = "PAID"
       PROVE  SumIn(rows, ReturnsIn(rows, r), "qty") <= db[r].qty
  <2>1. PICK R : R = ReturnsIn(db, r)
    OBVIOUS
  <2>2. R \in SUBSET S /\ IsFiniteSet(R) /\ x \notin R
    BY <1>1, <1>2, <1>4, <2>1, FS_Subset DEF ReturnsIn
  <2>3. SumIn(db, R, "qty") <= db[r].qty
    BY <1>1, <1>11, <2>1 DEF RegisterInv, RegisterStands, ReceiptsStand
  <2>4. CASE new.source # r
    <3>1. ReturnsIn(rows, r) = R
      BY <1>7, <2>1, <2>4
    <3>2. \A y \in R : rows[y].qty = db[y].qty
      BY <1>3, <2>2
    <3> QED
      BY <2>3, <3>1, <3>2, SumUnchanged
  <2>5. CASE new.source = r
    <3>1. PICK f : f = [y \in R \cup {x} |-> rows[y].qty]
      OBVIOUS
    <3>2. ReturnsIn(rows, r) = R \cup {x}
      BY <1>7, <2>1, <2>5
    <3>3. SumIn(rows, ReturnsIn(rows, r), "qty") = SumFunctionOnSet(f, R \cup {x})
      BY <3>1, <3>2 DEF SumIn
    <3>4. f[x] = new.qty /\ f[x] \in Int /\ \A y \in R : f[y] = db[y].qty /\ f[y] \in Int
      BY <1>1, <1>2, <1>3, <1>4, <2>2, <3>1 DEF Receipt
    <3>5. SumFunctionOnSet(f, R \cup {x}) = f[x] + SumFunctionOnSet(f, R) /\ SumFunctionOnSet(f, R) \in Int
      BY <2>2, <3>4, SumAdd, SumInt DEF Summable
    <3>6. SumFunctionOnSet(f, R) = SumIn(db, R, "qty")
      <4>1. PICK g : g = [y \in R |-> db[y].qty]
        OBVIOUS
      <4>2. SumFunctionOnSet(f, R) = SumFunctionOnSet(g, R)
        BY <2>2, <3>4, <4>1, SumEqual
      <4> QED
        BY <4>1, <4>2 DEF SumIn
    <3>7. SumIn(db, R, "qty") + new.qty <= db[r].qty
      BY <1>1, <2>1, <2>5, KindsApart DEF ReceiptsIn
    <3> QED
      BY <3>3, <3>4, <3>5, <3>6, <3>7
  <2> QED
    BY <2>4, <2>5
<1>12. SumIn(rows, ReturnsIn(rows, x), "qty") <= new.qty
  <2>1. SumIn(rows, {}, "qty") = 0
    BY SumEmpty DEF SumIn
  <2>2. new.qty \in Nat
    BY <1>2 DEF Receipt
  <2> QED
    BY <1>8, <2>1, <2>2
<1>13. \A m \in Rows("MERGE") : rows[m] = db[m]
  BY KindsApart
<1>14. ReceiptsStand(rows)
  <2>1. \A r \in S : /\ Receipt(db[r])
                     /\ db[r].merged = NoRef \/ (db[r].merged \in Rows("MERGE") /\ db[db[r].merged] # NoRow)
    BY <1>1 DEF RegisterInv, RegisterStands, ReceiptsStand
  <2>2. new.source = NoRef \/ new.source \in S
    BY <1>1
  <2> QED
    BY <1>1, <1>2, <1>3, <1>5, <1>11, <1>12, <1>13, <2>1, <2>2 DEF ReceiptsStand
<1>15. MergesStand(rows)
  <2> SUFFICES ASSUME NEW m \in Rows("MERGE"), db[m] # NoRow PROVE MergeStands(rows, m)
    BY <1>13 DEF MergesStand
  <2>1. MergeStands(db, m) /\ \A r \in MergedIn(db, m) : rows[r] = db[r]
    BY <1>1, <1>3 DEF RegisterInv, RegisterStands, MergesStand, MergedIn
  <2> QED
    BY <1>9, <1>13, <2>1, MergeUnchanged
<1>16. CashIn(rows) = CashIn(db) + TillShare(new)
  <2>1. PICK f, g : f = [r \in S \cup {x} |-> TillShare(rows[r])] /\ g = [r \in S |-> TillShare(db[r])]
    OBVIOUS
  <2>2. f[x] = TillShare(new) /\ f[x] \in Int /\ \A r \in S : f[r] = g[r] /\ f[r] \in Int
    BY <1>1, <1>2, <1>3, <1>4, <2>1, ShareIsInt
  <2>3. SumFunctionOnSet(f, S \cup {x}) = f[x] + SumFunctionOnSet(f, S) /\ SumFunctionOnSet(f, S) \in Int
    BY <1>2, <1>4, <2>2, SumAdd, SumInt DEF Summable
  <2>4. SumFunctionOnSet(f, S) = SumFunctionOnSet(g, S)
    BY <1>4, <2>2, SumEqual
  <2>5. CashIn(rows) = SumFunctionOnSet(f, S \cup {x}) /\ CashIn(db) = SumFunctionOnSet(g, S)
    BY <1>1, <1>3, <2>1 DEF CashIn
  <2> QED
    BY <2>2, <2>3, <2>4, <2>5
<1> QED
  BY <1>1, <1>14, <1>15, <1>16

\* Such a receipt with the goods that it moves and what it brings to the till.
LEMMA ReceiptKeeps ==
  ASSUME RegisterInv, NEW s \in Sessions, NEW x \in Rows("POS"), db[x] = NoRow, NEW level \in Live("LVL"),
         NEW r, NEW q \in Int, NEW cash,
         Stage(s, x :> r @@ Move(level, q), Till :> cash @@ Sle(level) :> q, {}),
         DOMAIN r = {"status", "shift", "qty", "total", "paid", "method", "source", "cash", "posted", "merged"},
         Receipt(r), r.merged = NoRef, cash = TillShare(r),
         \/ r.source = NoRef
         \/ /\ r.source \in ReceiptsIn(db)
            /\ SumIn(db, ReturnsIn(db, r.source), "qty") + r.qty <= db[r.source].qty
  PROVE  RegisterInv'
<1> HIDE DEF Sessions
<1>1. PICK moved : moved = Move(level, q)
  OBVIOUS
<1>2. PICK to : to = [current |-> db[level].current + q, available |-> db[level].available + q]
  OBVIOUS
<1>3. DOMAIN moved = {level} /\ moved[level] = to
  BY <1>1, <1>2, OneRow DEF Move
<1>4. PICK first, put : first = x :> r /\ put = first @@ moved
  OBVIOUS
<1>5. level # x /\ level \in DOMAIN db /\ x \in DOMAIN db /\ db[level] # NoRow
  BY KindsApart DEF Live, Rows
<1>6. DOMAIN put = {x, level} /\ put[x] = r /\ put[level] = to
  <2>1. DOMAIN first = {x} /\ first[x] = r
    BY <1>4, OneRow
  <2> QED
    BY <1>3, <1>4, <1>5, <2>1 DEF @@
<1>7. PICK entry : entry = Sle(level) :> q
  OBVIOUS
<1>8. DOMAIN entry = {Sle(level)} /\ entry[Sle(level)] = q
  BY <1>7, OneRow
<1>9. PICK taken, add : taken = Till :> cash /\ add = taken @@ entry
  OBVIOUS
<1>10. Till # Sle(level) /\ \A l : Till # Sle(l) /\ (Sle(l) = Sle(level) => l = level)
  BY DEF Till, Sle
<1>11. DOMAIN add = {Till, Sle(level)} /\ add[Till] = cash /\ add[Sle(level)] = q
  <2>1. DOMAIN taken = {Till} /\ taken[Till] = cash
    BY <1>9, OneRow
  <2> QED
    BY <1>8, <1>9, <1>10, <2>1 DEF @@
<1>12. Stage(s, put, add, {})
  BY <1>1, <1>4, <1>7, <1>9
<1>13. PICK rows, books : rows = Result(put) /\ books = Posted(add)
  OBVIOUS
<1>14. \A d \in DOMAIN db : d # x /\ d # level => rows[d] = db[d]
  <2>1. \A d \in DOMAIN db : d # x /\ d # level => d \in DOMAIN db \ DOMAIN put
    BY <1>6
  <2> QED
    BY <1>13, <2>1, ResultElsewhere
<1>15. PICK new : new = rows[x]
  OBVIOUS
<1>16. DOMAIN new = DOMAIN r \cup {"status"} /\ \A c \in DOMAIN r : new[c] = r[c]
  BY <1>5, <1>6, <1>13, <1>15, ResultColumns, NoRowColumns
<1>17. Receipt(new) /\ new.merged = NoRef /\ new.source = r.source /\ new.qty = r.qty /\ TillShare(new) = cash
  BY <1>16 DEF Receipt, TillShare
<1>18. /\ ReceiptsStand(rows) /\ MergesStand(rows)
       /\ CashIn(rows) = CashIn(db) + cash
  <2>1. \A d \in Rows("POS") \cup Rows("MERGE") : d # x => rows[d] = db[d]
    BY <1>14 DEF Rows, Live
  <2> QED
    BY <1>15, <1>17, <2>1, NewReceiptStands
<1>19. DOMAIN books = DOMAIN sums /\ \A k \in DOMAIN sums : books[k] = sums[k] + (IF k \in DOMAIN add THEN add[k] ELSE 0)
  BY <1>13 DEF Posted
<1>20. Till \in DOMAIN books /\ books[Till] = CashIn(rows)
  BY <1>11, <1>18, <1>19, RegisterFacts
<1>21. ASSUME NEW l \in Rows("LVL"), rows[l] # NoRow
       PROVE  Shelved(rows[l]) /\ Sle(l) \in DOMAIN books /\ books[Sle(l)] = rows[l].current - rows[l].opening
  <2>1. db[l] # NoRow /\ l # x /\ l \in DOMAIN db
    BY <1>5, <1>14, <1>21, KindsApart DEF Rows
  <2>2. Shelved(db[l]) /\ Sle(l) \in DOMAIN sums /\ sums[Sle(l)] = db[l].current - db[l].opening
    BY <2>1 DEF RegisterInv, RegisterStands, ShelvesStand
  <2>3. PICK old, row : old = db[l] /\ row = rows[l]
    OBVIOUS
  <2>4. sums[Sle(l)] \in Int
    BY <2>2 DEF Shelved
  <2>5. CASE l # level
    <3>1. row = old
      BY <1>14, <2>1, <2>3, <2>5
    <3>2. Sle(l) \notin DOMAIN add
      BY <1>10, <1>11, <2>5
    <3> QED
      BY <1>19, <2>2, <2>3, <2>4, <3>1, <3>2
  <2>6. CASE l = level
    <3>1. DOMAIN to = {"current", "available"} /\ to.current = old.current + q
      BY <1>2, <2>3, <2>6
    <3>2. DOMAIN row = DOMAIN to \cup DOMAIN old /\ (\A c \in DOMAIN to : row[c] = to[c]) /\ \A c \in DOMAIN old \ DOMAIN to : row[c] = old[c]
      BY <1>6, <1>13, <2>1, <2>3, <2>6, ResultColumns
    <3>3. "opening" \in DOMAIN old /\ old.current \in Int /\ old.opening \in Int
      BY <2>2, <2>3 DEF Shelved
    <3>4. row.current = old.current + q /\ row.opening = old.opening
      BY <3>1, <3>2, <3>3
    <3>5. Shelved(row)
      BY <2>2, <2>3, <3>1, <3>2, <3>3, <3>4 DEF Shelved
    <3>6. books[Sle(l)] = sums[Sle(l)] + q
      BY <1>11, <1>19, <2>2, <2>6
    <3> QED
      BY <1>19, <2>2, <2>3, <3>3, <3>4, <3>5, <3>6
  <2> QED
    BY <2>5, <2>6
<1>22. KeepsRegister(put, add)
  <2>1. ShelvesStand(rows, books)
    BY <1>21 DEF ShelvesStand
  <2> QED
    BY <1>5, <1>6, <1>13, <1>18, <1>20, <2>1 DEF KeepsRegister, RegisterStands
<1> QED
  BY <1>12, <1>22, StageKeepsRegister

LEMMA QuietStageKeeps ==
  ASSUME RegisterInv, NEW s \in Sessions, NEW put, Stage(s, put, Nothing, {}),
         DOMAIN put \subseteq DOMAIN db, \A d \in DOMAIN put : d[1] \notin {"POS", "LVL", "MERGE"}
  PROVE  RegisterInv'
  BY QuietKeepsRegister, StageKeepsRegister

LEMMA ProcessPosSaleKeeps ==
  ASSUME RegisterInv, NEW s \in Sessions, NEW shift, NEW x \in Rows("POS"), Fresh(x), NEW level \in Live("LVL"),
         NEW q \in Nat \ {0}, NEW tender \in Tenders, NEW paid \in Nat,
         ProcessPosSale(s, shift, q, tender, paid, x, level)
  PROVE  RegisterInv'
<1> HIDE DEF Sessions
<1>1. PICK total, posted : total = Price * q /\ posted = (tender = "SPLIT" => paid >= total)
  OBVIOUS
<1>2. PICK cash : cash = IF posted THEN CashTaken(tender, paid, total) ELSE 0
  OBVIOUS
<1>3. PICK r : r = [status |-> "PAID", shift |-> shift, qty |-> q, total |-> total, paid |-> paid,
                    method |-> tender, source |-> NoRef, cash |-> cash, posted |-> posted, merged |-> NoRef]
  OBVIOUS
<1>4. Stage(s, x :> r @@ Move(level, -q), Till :> cash @@ Sle(level) :> -q, {})
  BY <1>1, <1>2, <1>3 DEF ProcessPosSale
<1>5. total \in Int
  BY <1>1 DEF Price
<1>6. Receipt(r) /\ r.merged = NoRef /\ r.source = NoRef
      /\ DOMAIN r = {"status", "shift", "qty", "total", "paid", "method", "source", "cash", "posted", "merged"}
  BY <1>3, <1>5 DEF Receipt
<1>7. cash = TillShare(r)
  <2>1. r.status = "PAID" /\ r.method = tender /\ r.paid = paid /\ r.total = total
    BY <1>3
  <2>2. TillShare(r) = IF tender = "CASH" THEN total ELSE IF tender = "SPLIT" /\ paid >= total THEN total - 1 ELSE 0
    BY <2>1 DEF TillShare
  <2>3. CASE tender = "SPLIT" /\ paid >= total
    <3>1. posted
      BY <1>1, <2>3
    <3>2. CashTaken(tender, paid, total) = total - 1
      <4>1. CashTaken(tender, paid, total) = paid - 1 - (IF paid > total THEN paid - total ELSE 0)
        BY <2>3 DEF CashTaken
      <4> QED
        BY <1>5, <2>3, <4>1
    <3> QED
      BY <1>2, <2>2, <2>3, <3>1, <3>2
  <2>4. CASE tender = "SPLIT" /\ ~(paid >= total)
    BY <1>1, <1>2, <2>2, <2>4
  <2>5. CASE tender # "SPLIT"
    BY <1>1, <1>2, <2>2, <2>5 DEF CashTaken
  <2> QED
    BY <2>3, <2>4, <2>5
<1>8. db[x] = NoRow /\ -q \in Int
  BY FreshIsNew DEF Rows
<1> QED
  BY <1>4, <1>6, <1>7, <1>8, ReceiptKeeps

LEMMA ReturnedIsSum == \A r : ReturnedQty(r) = SumIn(db, ReturnsIn(db, r), "qty")
<1>1. \A r : Of("POS", "source", r) = ReturnsIn(db, r)
  BY DEF Of, ReturnsIn, ReceiptsIn, Live
<1> QED
  BY <1>1 DEF ReturnedQty, Total, SumIn

LEMMA ProcessPosReturnKeeps ==
  ASSUME RegisterInv, NEW s \in Sessions, NEW shift, NEW x \in Rows("POS"), Fresh(x), NEW level \in Live("LVL"),
         NEW q \in Nat \ {0}, NEW sold \in Live("POS"),
         ProcessPosReturn(s, shift, sold, q, x, level)
  PROVE  RegisterInv'
<1> HIDE DEF Sessions
<1>1. PICK total : total = (db[sold].total * q) \div db[sold].qty
  OBVIOUS
<1>2. PICK r : r = [status |-> "RETURNED", shift |-> shift, qty |-> q, total |-> total, paid |-> total,
                    method |-> "CASH", source |-> sold, cash |-> -total, posted |-> TRUE, merged |-> NoRef]
  OBVIOUS
<1>3. Stage(s, x :> r @@ Move(level, q), Till :> -total @@ Sle(level) :> q, {})
  BY <1>1, <1>2 DEF ProcessPosReturn
<1>4. sold \in ReceiptsIn(db) /\ Receipt(db[sold])
  BY RegisterFacts DEF Live, ReceiptsIn
<1>5. total \in Int
  <2>1. db[sold].total \in Int /\ db[sold].qty \in Nat \ {0}
    BY <1>4 DEF Receipt
  <2>2. PICK a \in Int, b \in Nat \ {0} : a = db[sold].total * q /\ b = db[sold].qty
    BY <2>1
  <2>3. a \div b \in Int
    OBVIOUS
  <2> QED
    BY <1>1, <2>2, <2>3
<1>6. /\ Receipt(r) /\ r.merged = NoRef /\ r.source = sold /\ r.qty = q
      /\ DOMAIN r = {"status", "shift", "qty", "total", "paid", "method", "source", "cash", "posted", "merged"}
  BY <1>2, <1>5 DEF Receipt
<1>7. -total = TillShare(r)
  BY <1>2 DEF TillShare
<1>8. SumIn(db, ReturnsIn(db, sold), "qty") + q <= db[sold].qty
  BY ReturnedIsSum DEF ProcessPosReturn, CanReturn
<1>9. db[x] = NoRow
  BY FreshIsNew DEF Rows
<1> QED
  BY <1>3, <1>4, <1>6, <1>7, <1>8, <1>9, ReceiptKeeps

\* Receipts of a shift that no consolidation has taken in are taken in by a
\* new one, which is worth as much.
LEMMA ConsolidationStands ==
  ASSUME RegisterInv, NEW m \in Rows("MERGE"), db[m] = NoRow,
         NEW all \in SUBSET ReceiptsIn(db), \A r \in all : db[r].merged = NoRef,
         NEW rows, \A d \in Rows("POS") \cup Rows("MERGE") : d # m /\ d \notin all => rows[d] = db[d],
         \A r \in all :
           /\ DOMAIN rows[r] = DOMAIN db[r] /\ rows[r].merged = m
           /\ \A c \in DOMAIN db[r] \ {"merged"} : rows[r][c] = db[r][c],
         Merged(rows[m]), rows[m].count = Cardinality(all),
         rows[m].sales = SumIn(db, {r \in all : db[r].status = "PAID"}, "total"),
         rows[m].returns = SumIn(db, {r \in all : db[r].status = "RETURNED"}, "total")
  PROVE  ReceiptsStand(rows) /\ MergesStand(rows) /\ CashIn(rows) = CashIn(db)
<1>1. PICK S : S = ReceiptsIn(db)
  OBVIOUS
<1>2. \A r \in S : Receipt(db[r]) /\ r \in Rows("POS") /\ db[r] # NoRow /\ r # m
  BY <1>1, RegisterFacts, KindsApart DEF ReceiptsIn
<1>3. ASSUME NEW r \in S
      PROVE  /\ Receipt(rows[r]) /\ rows[r].status = db[r].status /\ rows[r].total = db[r].total /\ rows[r].paid = db[r].paid
             /\ rows[r].qty = db[r].qty /\ rows[r].source = db[r].source /\ rows[r].method = db[r].method
             /\ rows[r].merged = (IF r \in all THEN m ELSE db[r].merged)
  <2>1. CASE r \notin all
    BY <1>1, <1>2, <2>1
  <2>2. CASE r \in all
    <3>1. PICK old, row : old = db[r] /\ row = rows[r]
      OBVIOUS
    <3>2. DOMAIN row = DOMAIN old /\ row.merged = m /\ \A c \in DOMAIN old \ {"merged"} : row[c] = old[c]
      BY <2>2, <3>1
    <3>3. Receipt(old)
      BY <1>2, <3>1
    <3>4. /\ row.status = old.status /\ row.total = old.total /\ row.paid = old.paid /\ row.qty = old.qty
          /\ row.source = old.source /\ row.method = old.method
      BY <3>2, <3>3 DEF Receipt
    <3>5. Receipt(row)
      BY <3>2, <3>3, <3>4 DEF Receipt
    <3> QED
      BY <2>2, <3>1, <3>2, <3>4, <3>5
  <2> QED
    BY <2>1, <2>2
<1>4. ReceiptsIn(rows) = S
  <2>1. \A r \in S : rows[r] # NoRow
    BY <1>3, NoRowColumns DEF Receipt
  <2>2. \A r \in Rows("POS") \ S : rows[r] = NoRow
    BY <1>1, KindsApart DEF ReceiptsIn
  <2> QED
    BY <1>2, <2>1, <2>2 DEF ReceiptsIn
<1>5. \A r : ReturnsIn(rows, r) = ReturnsIn(db, r)
  BY <1>1, <1>3, <1>4 DEF ReturnsIn
<1>6. \A r \in S : db[r].merged # m /\ (db[r].merged = NoRef \/ (db[r].merged \in Rows("MERGE") /\ db[db[r].merged] # NoRow))
  BY <1>1, KindsApart DEF RegisterInv, RegisterStands, ReceiptsStand
<1>7. MergedIn(rows, m) = all
  BY <1>1, <1>3, <1>4, <1>6 DEF MergedIn
<1>8. \A n \in Rows("MERGE") : n # m => MergedIn(rows, n) = MergedIn(db, n)
  BY <1>1, <1>3, <1>4, KindsApart DEF MergedIn
<1>9. \A n \in Rows("MERGE") : n # m => rows[n] = db[n]
  BY KindsApart DEF ReceiptsIn
<1>10. rows[m] # NoRow
  BY NoRowColumns DEF Merged
<1>11. ReceiptsStand(rows)
  <2>1. \A r \in S : SumIn(rows, ReturnsIn(rows, r), "qty") = SumIn(db, ReturnsIn(db, r), "qty")
    <3> SUFFICES ASSUME NEW r \in S PROVE SumIn(rows, ReturnsIn(db, r), "qty") = SumIn(db, ReturnsIn(db, r), "qty")
      BY <1>5
    <3>1. \A y \in ReturnsIn(db, r) : rows[y].qty = db[y].qty
      BY <1>1, <1>3 DEF ReturnsIn
    <3> QED
      BY <3>1, SumUnchanged
  <2>2. ReceiptsStand(db)
    BY DEF RegisterInv, RegisterStands
  <2>3. \A r \in S : rows[r].merged = NoRef \/ (rows[r].merged \in Rows("MERGE") /\ rows[rows[r].merged] # NoRow)
    BY <1>3, <1>6, <1>9, <1>10
  <2>4. \A r \in S : (rows[r].source = NoRef \/ rows[r].source \in S)
                    /\ (rows[r].status = "PAID" => SumIn(rows, ReturnsIn(rows, r), "qty") <= rows[r].qty)
    BY <1>1, <1>3, <2>1, <2>2 DEF ReceiptsStand
  <2> QED
    BY <1>3, <1>4, <2>3, <2>4 DEF ReceiptsStand
<1>12. MergesStand(rows)
  <2> SUFFICES ASSUME NEW n \in Rows("MERGE"), rows[n] # NoRow PROVE MergeStands(rows, n)
    BY DEF MergesStand
  <2>1. CASE n # m
    <3>1. MergeStands(db, n) /\ \A r \in MergedIn(db, n) : r \in S
      BY <1>1, <1>9, <2>1 DEF RegisterInv, RegisterStands, MergesStand, MergedIn
    <3>2. \A r \in MergedIn(db, n) : rows[r].status = db[r].status /\ rows[r].total = db[r].total
      BY <1>3, <3>1
    <3> QED
      BY <1>8, <1>9, <2>1, <3>1, <3>2, MergeUnchanged
  <2>2. CASE n = m
    <3>1. ASSUME NEW v
          PROVE  SumIn(rows, {r \in MergedIn(rows, m) : rows[r].status = v}, "total") = SumIn(db, {r \in all : db[r].status = v}, "total")
      <4>1. PICK set : set = {r \in all : db[r].status = v}
        OBVIOUS
      <4>2. {r \in MergedIn(rows, m) : rows[r].status = v} = set /\ \A r \in set : rows[r].total = db[r].total
        BY <1>1, <1>3, <1>7, <4>1
      <4>3. SumIn(rows, set, "total") = SumIn(db, set, "total")
        BY <4>2, SumUnchanged
      <4> QED
        BY <4>1, <4>2, <4>3
    <3>2. /\ rows[m].count = Cardinality(MergedIn(rows, m)) /\ Merged(rows[m])
          /\ rows[m].sales = SumIn(rows, {r \in MergedIn(rows, m) : rows[r].status = "PAID"}, "total")
          /\ rows[m].returns = SumIn(rows, {r \in MergedIn(rows, m) : rows[r].status = "RETURNED"}, "total")
      BY <1>7, <3>1
    <3> QED
      BY <2>2, <3>2 DEF MergeStands
  <2> QED
    BY <2>1, <2>2
<1>13. CashIn(rows) = CashIn(db)
  <2>1. \A r \in S : TillShare(rows[r]) = TillShare(db[r])
    BY <1>3 DEF TillShare
  <2>2. [r \in S |-> TillShare(rows[r])] = [r \in S |-> TillShare(db[r])]
    BY <2>1
  <2> QED
    BY <1>1, <1>4, <2>2 DEF CashIn
<1> QED
  BY <1>11, <1>12, <1>13

LEMMA ConsolidateShiftInvoicesKeeps ==
  ASSUME RegisterInv, NEW s \in Sessions, NEW shift, NEW m \in Rows("MERGE"), Fresh(m),
         ConsolidateShiftInvoices(s, shift, m)
  PROVE  RegisterInv'
<1> HIDE DEF Sessions
<1>1. PICK all : all = Unconsolidated(shift)
  OBVIOUS
<1>2. PICK sales : sales = {r \in all : Status(r) = "PAID"}
  OBVIOUS
<1>3. PICK r : r = [status |-> "PAID", shift |-> shift, sales |-> Total(sales, "total"),
                    returns |-> Total(all \ sales, "total"), count |-> Cardinality(all)]
  OBVIOUS
<1>4. PICK into : into = [x \in all |-> [merged |-> m]]
  OBVIOUS
<1>5. PICK entry, put : entry = m :> r /\ put = into @@ entry
  OBVIOUS
<1>6. Stage(s, put, Nothing, {})
  BY <1>1, <1>2, <1>3, <1>4, <1>5 DEF ConsolidateShiftInvoices
<1>7. all \in SUBSET ReceiptsIn(db) /\ \A x \in all : db[x].merged = NoRef /\ Receipt(db[x])
  BY <1>1, RegisterFacts DEF Unconsolidated, Of, Live, ReceiptsIn
<1>8. m \in DOMAIN db /\ db[m] = NoRow /\ m \notin all /\ \A x \in all : x \in DOMAIN db
  BY <1>7, FreshIsNew, KindsApart DEF Rows, ReceiptsIn
<1>9. DOMAIN entry = {m} /\ entry[m] = r
  BY <1>5, OneRow
<1>10. DOMAIN put = all \cup {m} /\ put[m] = r /\ \A x \in all : put[x] = [merged |-> m]
  BY <1>4, <1>5, <1>8, <1>9 DEF @@
<1>11. PICK rows, books : rows = Result(put) /\ books = Posted(Nothing)
  OBVIOUS
<1>12. \A d \in DOMAIN db : d # m /\ d \notin all => rows[d] = db[d]
  <2>1. \A d \in DOMAIN db : d # m /\ d \notin all => d \in DOMAIN db \ DOMAIN put
    BY <1>10
  <2> QED
    BY <1>11, <2>1, ResultElsewhere
<1>13. ASSUME NEW x \in all
       PROVE  /\ DOMAIN rows[x] = DOMAIN db[x] /\ rows[x].merged = m
              /\ \A c \in DOMAIN db[x] \ {"merged"} : rows[x][c] = db[x][c]
  <2>1. PICK new, old, row : new = put[x] /\ old = db[x] /\ row = rows[x]
    OBVIOUS
  <2>2. DOMAIN row = DOMAIN new \cup DOMAIN old /\ (\A c \in DOMAIN new : row[c] = new[c])
        /\ \A c \in DOMAIN old \ DOMAIN new : row[c] = old[c]
    <3>1. x \in DOMAIN db \cap DOMAIN put
      BY <1>8, <1>10
    <3> QED
      BY <1>11, <2>1, <3>1, ResultColumns
  <2>3. DOMAIN new = {"merged"} /\ new.merged = m
    BY <1>10, <2>1
  <2>4. "merged" \in DOMAIN old
    BY <1>7, <2>1 DEF Receipt
  <2> QED
    BY <2>1, <2>2, <2>3, <2>4
<1>14. PICK new : new = rows[m]
  OBVIOUS
<1>15. DOMAIN new = DOMAIN r \cup {"status"} /\ \A c \in DOMAIN r : new[c] = r[c]
  <2>1. m \in DOMAIN db \cap DOMAIN put
    BY <1>8, <1>10
  <2> QED
    BY <1>8, <1>10, <1>11, <1>14, <2>1, ResultColumns, NoRowColumns
<1>16. Merged(new) /\ new.count = Cardinality(all) /\ new.sales = Total(sales, "total") /\ new.returns = Total(all \ sales, "total")
  BY <1>3, <1>15 DEF Merged
<1>17. /\ Total(sales, "total") = SumIn(db, {x \in all : db[x].status = "PAID"}, "total")
       /\ Total(all \ sales, "total") = SumIn(db, {x \in all : db[x].status = "RETURNED"}, "total")
  <2>1. PICK paid, back : paid = {x \in all : db[x].status = "PAID"} /\ back = {x \in all : db[x].status = "RETURNED"}
    OBVIOUS
  <2>2. sales = paid /\ all \ sales = back
    BY <1>2, <1>7, <2>1 DEF Status, Receipt
  <2> QED
    BY <2>1, <2>2 DEF Total, SumIn
<1>18. ReceiptsStand(rows) /\ MergesStand(rows) /\ CashIn(rows) = CashIn(db)
  <2>1. \A d \in Rows("POS") \cup Rows("MERGE") : d # m /\ d \notin all => rows[d] = db[d]
    BY <1>12 DEF Rows
  <2>2. all \in SUBSET ReceiptsIn(db) /\ m \in Rows("MERGE") /\ db[m] = NoRow /\ \A x \in all : db[x].merged = NoRef
    BY <1>7, <1>8
  <2>3. \A x \in all : /\ DOMAIN rows[x] = DOMAIN db[x] /\ rows[x].merged = m
                       /\ \A c \in DOMAIN db[x] \ {"merged"} : rows[x][c] = db[x][c]
    BY <1>13
  <2>4. /\ Merged(rows[m]) /\ rows[m].count = Cardinality(all)
        /\ rows[m].sales = SumIn(db, {x \in all : db[x].status = "PAID"}, "total")
        /\ rows[m].returns = SumIn(db, {x \in all : db[x].status = "RETURNED"}, "total")
    BY <1>14, <1>16, <1>17
  <2> QED
    BY <2>1, <2>2, <2>3, <2>4, ConsolidationStands
<1>19. DOMAIN books = DOMAIN sums /\ \A k \in DOMAIN sums : sums[k] \in Int => books[k] = sums[k]
  <2>1. \A k : k \notin DOMAIN Nothing
    BY NothingIsEmpty
  <2> QED
    BY <1>11, <2>1 DEF Posted
<1>20. ShelvesStand(rows, books)
  <2> SUFFICES ASSUME NEW l \in Rows("LVL"), rows[l] # NoRow
              PROVE  Shelved(rows[l]) /\ Sle(l) \in DOMAIN books /\ books[Sle(l)] = rows[l].current - rows[l].opening
    BY DEF ShelvesStand
  <2>1. rows[l] = db[l]
    BY <1>7, <1>12 DEF Rows, ReceiptsIn
  <2>2. Shelved(db[l]) /\ Sle(l) \in DOMAIN sums /\ sums[Sle(l)] = db[l].current - db[l].opening
    BY <2>1 DEF RegisterInv, RegisterStands, ShelvesStand
  <2>3. sums[Sle(l)] \in Int
    BY <2>2 DEF Shelved
  <2> QED
    BY <1>19, <2>1, <2>2, <2>3
<1>21. Till \in DOMAIN books /\ books[Till] = CashIn(rows)
  BY <1>18, <1>19, RegisterFacts
<1>22. DOMAIN put \subseteq DOMAIN db
  BY <1>8, <1>10
<1>23. KeepsRegister(put, Nothing)
  BY <1>11, <1>18, <1>20, <1>21, <1>22 DEF KeepsRegister, RegisterStands
<1> QED
  BY <1>6, <1>23, StageKeepsRegister

\* One row of another kind.
LEMMA OtherRowKeepsRegister ==
  ASSUME RegisterInv, NEW s \in Sessions, NEW d \in DOMAIN db, d[1] \notin {"POS", "LVL", "MERGE"}, NEW r,
         Stage(s, d :> r, Nothing, {})
  PROVE  RegisterInv'
<1> HIDE DEF Sessions
<1>1. PICK put : put = d :> r
  OBVIOUS
<1>2. DOMAIN put = {d}
  BY <1>1, OneRow
<1> QED
  BY <1>1, <1>2, QuietStageKeeps

LEMMA CloseShiftKeeps ==
  ASSUME RegisterInv, NEW s \in Sessions, NEW shift \in Live("SHIFT"), NEW c \in Rows("CLOSE"), CloseShift(s, shift, c)
  PROVE  RegisterInv'
<1> HIDE DEF Sessions
<1>1. PICK closing, closed, put :
        /\ closing = c :> [status |-> "SUBMITTED", shift |-> shift, cash |-> CashSales(shift)]
        /\ closed = shift :> [status |-> "CLOSED"]
        /\ put = closing @@ closed
  OBVIOUS
<1>2. DOMAIN closing = {c} /\ DOMAIN closed = {shift}
  BY <1>1, OneRow
<1>3. DOMAIN put = {c, shift}
  BY <1>1, <1>2 DEF @@
<1>4. Stage(s, put, Nothing, {})
  BY <1>1 DEF CloseShift
<1>5. DOMAIN put \subseteq DOMAIN db /\ \A d \in DOMAIN put : d[1] \notin {"POS", "LVL", "MERGE"}
  BY <1>3 DEF Rows, Live
<1> QED
  BY <1>4, <1>5, QuietStageKeeps

LEMMA PosNextKeeps ==
  ASSUME RegisterInv, NEW s \in Sessions,
         PosHandlers(s, STRING, [qty : Nat \ {0}, tender : Tenders, paid : Nat], Nat \ {0})
  PROVE  RegisterInv'
<1> HIDE DEF Sessions
<1>1. CASE \E shift \in Rows("SHIFT"), user \in STRING : Fresh(shift) /\ OpenShift(s, user, shift)
  <2>1. PICK shift \in Rows("SHIFT"), user \in STRING : OpenShift(s, user, shift)
    BY <1>1
  <2>2. shift \in DOMAIN db /\ shift[1] \notin {"POS", "LVL", "MERGE"}
    BY DEF Rows
  <2> QED
    BY <2>1, <2>2, OtherRowKeepsRegister DEF OpenShift
<1>2. CASE \E shift \in Live("SHIFT"), receipt \in Rows("POS"), level \in Live("LVL") :
            /\ Fresh(receipt)
            /\ \/ \E sale \in [qty : Nat \ {0}, tender : Tenders, paid : Nat] :
                    ProcessPosSale(s, shift, sale.qty, sale.tender, sale.paid, receipt, level)
               \/ \E sold \in Live("POS"), q \in Nat \ {0} : ProcessPosReturn(s, shift, sold, q, receipt, level)
  <2>1. PICK shift \in Live("SHIFT"), receipt \in Rows("POS"), level \in Live("LVL") :
            /\ Fresh(receipt)
            /\ \/ \E sale \in [qty : Nat \ {0}, tender : Tenders, paid : Nat] :
                    ProcessPosSale(s, shift, sale.qty, sale.tender, sale.paid, receipt, level)
               \/ \E sold \in Live("POS"), q \in Nat \ {0} : ProcessPosReturn(s, shift, sold, q, receipt, level)
    BY <1>2
  <2>2. CASE \E sale \in [qty : Nat \ {0}, tender : Tenders, paid : Nat] :
               ProcessPosSale(s, shift, sale.qty, sale.tender, sale.paid, receipt, level)
    <3>1. PICK sale \in [qty : Nat \ {0}, tender : Tenders, paid : Nat] :
            ProcessPosSale(s, shift, sale.qty, sale.tender, sale.paid, receipt, level)
      BY <2>2
    <3>2. PICK q \in Nat \ {0}, tender \in Tenders, paid \in Nat : q = sale.qty /\ tender = sale.tender /\ paid = sale.paid
      OBVIOUS
    <3> QED
      BY <2>1, <3>1, <3>2, ProcessPosSaleKeeps
  <2>3. CASE \E sold \in Live("POS"), q \in Nat \ {0} : ProcessPosReturn(s, shift, sold, q, receipt, level)
    BY <2>1, <2>3, ProcessPosReturnKeeps
  <2> QED
    BY <2>1, <2>2, <2>3
<1>3. CASE \E shift \in Live("SHIFT") :
            \/ \E c \in Rows("CLOSE") : Fresh(c) /\ CloseShift(s, shift, c)
            \/ \E m \in Rows("MERGE") : Fresh(m) /\ ConsolidateShiftInvoices(s, shift, m)
  BY <1>3, CloseShiftKeeps, ConsolidateShiftInvoicesKeeps
<1>4. CASE \E cart \in Rows("CART") :
            \/ Fresh(cart) /\ ParkCart(s, cart)
            \/ db[cart] # NoRow /\ (RestoreParkedCart(s, cart) \/ DeleteParkedCart(s, cart))
  <2>1. PICK cart \in Rows("CART") : ParkCart(s, cart) \/ RestoreParkedCart(s, cart) \/ DeleteParkedCart(s, cart)
    BY <1>4
  <2>2. cart \in DOMAIN db /\ cart[1] \notin {"POS", "LVL", "MERGE"}
    BY DEF Rows
  <2> QED
    BY <2>1, <2>2, OtherRowKeepsRegister DEF ParkCart, RestoreParkedCart, DeleteParkedCart
<1> QED
  BY <1>1, <1>2, <1>3, <1>4 DEF PosHandlers

\* What is committed is what TillsAgree says.
LEMMA RegisterAgrees == RegisterStands(db, sums) => TillsAgree
<1> SUFFICES ASSUME RegisterStands(db, sums) PROVE TillsAgree
  OBVIOUS
<1>1. Live("POS") = ReceiptsIn(db) /\ \A m : Of("POS", "merged", m) = MergedIn(db, m)
  BY DEF Live, ReceiptsIn, Of, MergedIn
<1>2. BooksMatchReceipts
  BY <1>1 DEF RegisterStands, ShelvesStand, BooksMatchReceipts, CashIn, Book, Live
<1>3. ReceiptReturnedOnce
  BY <1>1, ReturnedIsSum DEF RegisterStands, ReceiptsStand, ReceiptReturnedOnce, Status
<1>4. ConsolidatedOnce
  <2> SUFFICES ASSUME NEW m \in Live("MERGE")
              PROVE  LET in == MergedIn(db, m) IN
                     /\ db[m].count = Cardinality(in)
                     /\ db[m].sales = Total({r \in in : Status(r) = "PAID"}, "total")
                     /\ db[m].returns = Total({r \in in : Status(r) = "RETURNED"}, "total")
    BY <1>1 DEF ConsolidatedOnce
  <2>1. MergeStands(db, m)
    BY DEF RegisterStands, MergesStand, Live
  <2> QED
    BY <2>1 DEF MergeStands, SumIn, Total, Status
<1> QED
  BY <1>2, <1>3, <1>4 DEF TillsAgree

LEMMA RegisterStart ==
  ASSUME RegisterComplete, TillsAgree, OneSession, \A s \in Sessions : Free(s)
  PROVE  RegisterInv
<1> HIDE DEF Sessions
<1>1. Live("POS") = ReceiptsIn(db) /\ \A m : Of("POS", "merged", m) = MergedIn(db, m)
  BY DEF Live, ReceiptsIn, Of, MergedIn
<1>2. ReceiptsStand(db)
  BY <1>1, ReturnedIsSum DEF RegisterComplete, TillsAgree, ReceiptReturnedOnce, ReceiptsStand, Status, Live
<1>3. MergesStand(db)
  <2> SUFFICES ASSUME NEW m \in Rows("MERGE"), db[m] # NoRow PROVE MergeStands(db, m)
    BY DEF MergesStand
  <2>1. m \in Live("MERGE") /\ Merged(db[m])
    BY DEF Live, RegisterComplete
  <2>2. LET in == MergedIn(db, m) IN
        /\ db[m].count = Cardinality(in)
        /\ db[m].sales = Total({r \in in : Status(r) = "PAID"}, "total")
        /\ db[m].returns = Total({r \in in : Status(r) = "RETURNED"}, "total")
    BY <1>1, <2>1 DEF TillsAgree, ConsolidatedOnce
  <2> QED
    BY <2>1, <2>2 DEF MergeStands, SumIn, Total, Status
<1>4. ShelvesStand(db, sums) /\ Till \in DOMAIN sums /\ sums[Till] = CashIn(db)
  BY <1>1 DEF RegisterComplete, TillsAgree, BooksMatchReceipts, ShelvesStand, CashIn, Book, Live
<1> QED
  BY <1>2, <1>3, <1>4 DEF RegisterInv, RegisterStands, RegisterComplete, Free

-----------------------------------------------------------------------------

(* For requests one after the other: the receipts, the consolidations, the *)
(* till and the shelves agree, now and as they will be when the request in *)
(* progress commits.                                                       *)
THEOREM RegisterInvariance == PosSpec /\ OneSession => []RegisterInv
<1> HIDE DEF Sessions
<1>1. RegisterComplete /\ TillsAgree /\ (\A s \in Sessions : Free(s)) /\ OneSession => RegisterInv
  BY RegisterStart
<1>2. RegisterInv /\ [\E s \in Sessions :
                        \/ EndOfRequest(s)
                        \/ PosHandlers(s, STRING, [qty : Nat \ {0}, tender : Tenders, paid : Nat], Nat \ {0})]_vars
        => RegisterInv'
  <2> SUFFICES ASSUME RegisterInv,
                      [\E s \in Sessions :
                        \/ EndOfRequest(s)
                        \/ PosHandlers(s, STRING, [qty : Nat \ {0}, tender : Tenders, paid : Nat], Nat \ {0})]_vars
              PROVE  RegisterInv'
    OBVIOUS
  <2>1. CASE \E s \in Sessions : EndOfRequest(s)
    BY <2>1, CommitKeepsRegister, RollbackKeepsRegister DEF EndOfRequest
  <2>2. CASE \E s \in Sessions : PosHandlers(s, STRING, [qty : Nat \ {0}, tender : Tenders, paid : Nat], Nat \ {0})
    BY <2>2, PosNextKeeps
  <2>3. CASE UNCHANGED vars
    <3>1. db' = db /\ sums' = sums /\ req' = req /\ Sessions' = Sessions
      BY <2>3 DEF vars, Sessions
    <3>2. RegisterStands(db, sums)'
      BY <3>1, SameRegister DEF RegisterInv
    <3>3. ASSUME NEW s \in Sessions, req[s] # Idle PROVE KeepsRegister(req[s].put, req[s].add)'
      <4>1. PICK put, add : put = req[s].put /\ add = req[s].add /\ put = req'[s].put /\ add = req'[s].add
        BY <3>1
      <4>2. PICK rows, books : rows = Result(put) /\ books = Posted(add) /\ rows = Result(put)' /\ books = Posted(add)'
        BY <3>1 DEF Result, After, Posted
      <4>3. DOMAIN put \subseteq DOMAIN db /\ RegisterStands(rows, books)
        BY <3>3, <4>1, <4>2 DEF RegisterInv, KeepsRegister
      <4>4. RegisterStands(rows, books)'
        BY <3>1, <4>3, SameRegister
      <4> QED
        BY <3>1, <4>1, <4>2, <4>3, <4>4 DEF KeepsRegister
    <3> QED
      BY <3>1, <3>2, <3>3 DEF RegisterInv, OneSession, Rows
  <2> QED
    BY <2>1, <2>2, <2>3
<1> QED
  BY <1>1, <1>2, PTL DEF PosSpec

(* Whatever is sold, returned, closed and consolidated, one request after  *)
(* the other: the till and the stock ledger follow the receipts, no        *)
(* receipt is returned beyond what it sold, and a consolidated invoice is  *)
(* worth exactly the receipts that it took in, each of them once.          *)
THEOREM RegisterInOrder == PosSpec /\ OneSession => []TillsAgree
<1>1. RegisterInv => TillsAgree
  BY RegisterAgrees DEF RegisterInv
<1> QED
  BY <1>1, RegisterInvariance, PTL

-----------------------------------------------------------------------------
(* Payables: what one request after the other keeps up besides *)

\* The receipts and debit notes among any rows, and the notes to an invoice.
GoodsIn(rows) == {g \in Rows("GRN") : rows[g] # NoRow}
NotesIn(rows) == {n \in Rows("DN") : rows[n] # NoRow}
NotesTo(rows, inv) == {n \in NotesIn(rows) : rows[n].invoice = inv}

\* What is owed for an invoice before any debit note.
Owed(row) == IF row.status = "MATCHED" THEN row.qty ELSE 0

LevelsStand(rows, books) ==
  /\ Shelf(rows[Main]) /\ Shelf(rows[Quarantine])
  /\ rows[Main].current = SumIn(rows, GoodsIn(rows), "accepted") - SumIn(rows, NotesIn(rows), "qty")
  /\ rows[Quarantine].current = SumIn(rows, GoodsIn(rows), "rejected")
  /\ books[Sle(Main)] = rows[Main].current /\ books[Sle(Quarantine)] = rows[Quarantine].current

NotesStand(rows) ==
  \A n \in NotesIn(rows) : {"status", "invoice", "qty"} \subseteq DOMAIN rows[n] /\ rows[n].qty \in Int

BillsPosted(rows, books) ==
  \A inv \in Rows("SINV") : books[AP(inv)] = Owed(rows[inv]) - SumIn(rows, NotesTo(rows, inv), "qty")

LevelsMatch(rows, books) == LevelsStand(rows, books) /\ NotesStand(rows) /\ BillsPosted(rows, books)

ShelfTables ==
  /\ Rows("LVL") = {Main, Quarantine} /\ {Sle(Main), Sle(Quarantine)} \cup {AP(i) : i \in Rows("SINV")} \subseteq DOMAIN sums
  /\ IsFiniteSet(Rows("GRN")) /\ IsFiniteSet(Rows("DN"))

\* Each request leads from such rows and books to such ones again.
OneByOne ==
  /\ LevelsMatch(db, sums)
  /\ \A s \in Sessions : req[s] # Idle => LevelsMatch(Result(req[s].put), Posted(req[s].add))

PayablesInv == SupplyInv /\ ShelfTables /\ (OneSession => OneByOne)

LEMMA SameShelves ==
  ASSUME DOMAIN db' = DOMAIN db, DOMAIN sums' = DOMAIN sums
  PROVE  /\ \A rows, books : LevelsMatch(rows, books)' = LevelsMatch(rows, books)
         /\ ShelfTables' = ShelfTables
<1>1. \A kind : Rows(kind)' = Rows(kind)
  BY DEF Rows
<1>2. \A rows : GoodsIn(rows)' = GoodsIn(rows) /\ NotesIn(rows)' = NotesIn(rows)
  BY <1>1 DEF GoodsIn, NotesIn
<1>3. \A rows, inv : NotesTo(rows, inv)' = NotesTo(rows, inv)
  BY <1>2 DEF NotesTo
<1>4. \A rows, books : LevelsStand(rows, books)' = LevelsStand(rows, books)
  BY <1>2 DEF LevelsStand, Shelf, SumIn, Main, Quarantine, Sle
<1>5. \A rows : NotesStand(rows)' = NotesStand(rows)
  BY <1>2 DEF NotesStand
<1>6. \A rows, books : BillsPosted(rows, books)' = BillsPosted(rows, books)
  BY <1>1, <1>3 DEF BillsPosted, SumIn, Owed, AP
<1>7. ShelfTables' = ShelfTables
  BY <1>1 DEF ShelfTables, Sle, AP, Main, Quarantine
<1> QED
  BY <1>4, <1>5, <1>6, <1>7 DEF LevelsMatch

LEMMA StageKeepsPayables ==
  ASSUME PayablesInv, NEW s \in Sessions, NEW put, NEW add, NEW locks, Stage(s, put, add, locks), SupplyInv',
         OneSession => LevelsMatch(Result(put), Posted(add))
  PROVE  PayablesInv'
<1>1. Sessions' = Sessions
  BY StageIsOne
<1>2. req'[s].add = add /\ sums' = sums
  BY DEF Stage, Request, Sessions
<1> HIDE DEF Sessions
<1>3. db' = db /\ req'[s].put = Staged(put)
  BY StageIsOne
<1>4. ShelfTables'
  BY <1>2, <1>3, SameShelves DEF PayablesInv
<1>5. OneSession' = OneSession
  BY <1>1 DEF OneSession
<1>6. ASSUME OneSession PROVE OneByOne'
  <2>1. \A t \in Sessions : t = s
    BY <1>6 DEF OneSession
  <2>2. PICK staged : staged = Staged(put)
    OBVIOUS
  <2>3. Result(staged) = Result(put)
    BY <2>2, StagedAfter DEF Result
  <2>4. PICK rows, books : rows = Result(staged) /\ books = Posted(add) /\ rows = Result(staged)' /\ books = Posted(add)'
    BY <1>2, <1>3 DEF Result, After, Posted
  <2>5. LevelsMatch(rows, books) /\ LevelsMatch(db, sums)
    BY <1>6, <2>3, <2>4 DEF PayablesInv, OneByOne
  <2>6. LevelsMatch(rows, books)' /\ LevelsMatch(db, sums)'
    BY <1>2, <1>3, <2>5, SameShelves
  <2>7. ASSUME NEW t \in Sessions' PROVE LevelsMatch(Result(req[t].put), Posted(req[t].add))'
    <3>1. req'[t].put = staged /\ req'[t].add = add
      BY <1>1, <1>2, <1>3, <2>1, <2>2
    <3> QED
      BY <2>4, <2>6, <3>1
  <2> QED
    BY <2>6, <2>7 DEF OneByOne
<1> QED
  BY <1>4, <1>5, <1>6 DEF PayablesInv

LEMMA CommitKeepsPayables ==
  ASSUME PayablesInv, NEW s \in Sessions, Commit(s)
  PROVE  PayablesInv'
<1>1. Sessions' = Sessions /\ req'[s] = Idle /\ DOMAIN db' = DOMAIN db /\ req[s] # Idle
  BY CommitIsOne
<1>2. SupplyInv'
  BY CommitKeepsSupply DEF PayablesInv
<1> HIDE DEF Sessions
<1>3. PICK put, add : put = req[s].put /\ add = req[s].add
  OBVIOUS
<1>4. db' = Result(put) /\ sums' = Posted(add) /\ DOMAIN sums' = DOMAIN sums
  BY <1>3 DEF Commit, CommitAnd, Result, After, Posted
<1>5. PICK rows, books : rows = Result(put) /\ books = Posted(add) /\ rows = db' /\ books = sums'
  BY <1>4
<1>6. OneSession' = OneSession /\ ShelfTables'
  BY <1>1, <1>4, SameShelves DEF PayablesInv, OneSession
<1>7. ASSUME OneSession PROVE OneByOne'
  <2>1. LevelsMatch(rows, books)
    BY <1>1, <1>3, <1>5, <1>7 DEF PayablesInv, OneByOne
  <2>2. LevelsMatch(rows, books)'
    BY <1>1, <1>4, <2>1, SameShelves
  <2>3. \A t \in Sessions' : req'[t] = Idle
    BY <1>1, <1>7 DEF OneSession
  <2> QED
    BY <1>5, <2>2, <2>3 DEF OneByOne
<1> QED
  BY <1>2, <1>6, <1>7 DEF PayablesInv

LEMMA RollbackKeepsPayables ==
  ASSUME PayablesInv, NEW s \in Sessions, Rollback(s)
  PROVE  PayablesInv'
<1>1. Sessions' = Sessions /\ req'[s] = Idle /\ db' = db /\ sums' = sums
  BY DEF Rollback, Sessions
<1>2. SupplyInv'
  BY RollbackKeepsSupply DEF PayablesInv
<1> HIDE DEF Sessions
<1>3. OneSession' = OneSession /\ ShelfTables'
  BY <1>1, SameShelves DEF PayablesInv, OneSession
<1>4. ASSUME OneSession PROVE OneByOne'
  <2>1. \A t \in Sessions' : req'[t] = Idle
    BY <1>1, <1>4 DEF OneSession
  <2>2. LevelsMatch(db, sums)'
    BY <1>1, <1>4, SameShelves DEF PayablesInv, OneByOne
  <2> QED
    BY <2>1, <2>2 DEF OneByOne
<1> QED
  BY <1>2, <1>3, <1>4 DEF PayablesInv

LEMMA IdlePayables ==
  ASSUME PayablesInv, UNCHANGED vars
  PROVE  PayablesInv'
<1>1. db' = db /\ sums' = sums /\ req' = req /\ Sessions' = Sessions
  BY DEF vars, Sessions
<1>2. SupplyInv'
  BY IdleSupply DEF PayablesInv
<1> HIDE DEF Sessions
<1>3. OneSession' = OneSession /\ ShelfTables'
  BY <1>1, SameShelves DEF PayablesInv, OneSession
<1>4. ASSUME OneSession, NEW s \in Sessions, req[s] # Idle
      PROVE  LevelsMatch(Result(req[s].put), Posted(req[s].add))'
  <2>1. PICK put, add : put = req[s].put /\ add = req[s].add /\ put = req'[s].put /\ add = req'[s].add
    BY <1>1
  <2>2. PICK rows, books : rows = Result(put) /\ books = Posted(add) /\ rows = Result(put)' /\ books = Posted(add)'
    BY <1>1 DEF Result, After, Posted
  <2>3. LevelsMatch(rows, books)
    BY <1>4, <2>1, <2>2 DEF PayablesInv, OneByOne
  <2>4. LevelsMatch(rows, books)'
    BY <1>1, <2>3, SameShelves
  <2> QED
    BY <2>1, <2>2, <2>4
<1>5. OneSession => LevelsMatch(db, sums)'
  BY <1>1, SameShelves DEF PayablesInv, OneByOne
<1>6. OneSession => OneByOne'
  BY <1>1, <1>4, <1>5 DEF OneByOne
<1> QED
  BY <1>2, <1>3, <1>6 DEF PayablesInv

-----------------------------------------------------------------------------
(* Payables: the handlers, one request after the other *)

\* What a handler leaves of the rows of a kind.
Leaves(rows, kind) == \A d \in Rows(kind) : rows[d] = db[d]

LEMMA LeftAlone ==
  ASSUME NEW put, NEW rows, rows = Result(put), NEW kind, Rows(kind) \cap DOMAIN put = {}
  PROVE  Leaves(rows, kind)
<1>1. ASSUME NEW d \in Rows(kind) PROVE rows[d] = db[d]
  <2>1. d \in DOMAIN db \ DOMAIN put
    BY DEF Rows
  <2> QED
    BY <2>1, ResultElsewhere
<1> QED
  BY <1>1 DEF Leaves

LEMMA GoodsSame ==
  ASSUME NEW rows, Leaves(rows, "GRN")
  PROVE  /\ SumIn(rows, GoodsIn(rows), "accepted") = SumIn(db, GoodsIn(db), "accepted")
         /\ SumIn(rows, GoodsIn(rows), "rejected") = SumIn(db, GoodsIn(db), "rejected")
<1>1. PICK set : set = GoodsIn(db)
  OBVIOUS
<1>2. GoodsIn(rows) = set /\ \A g \in set : rows[g] = db[g]
  BY <1>1 DEF Leaves, GoodsIn
<1>3. SumIn(rows, set, "accepted") = SumIn(db, set, "accepted") /\ SumIn(rows, set, "rejected") = SumIn(db, set, "rejected")
  BY <1>2, SumUnchanged
<1> QED
  BY <1>1, <1>2, <1>3

LEMMA NotesSame ==
  ASSUME NEW rows, Leaves(rows, "DN")
  PROVE  /\ SumIn(rows, NotesIn(rows), "qty") = SumIn(db, NotesIn(db), "qty")
         /\ \A inv : SumIn(rows, NotesTo(rows, inv), "qty") = SumIn(db, NotesTo(db, inv), "qty")
         /\ NotesStand(db) => NotesStand(rows)
<1>1. NotesIn(rows) = NotesIn(db) /\ \A n \in NotesIn(db) : rows[n] = db[n]
  BY DEF Leaves, NotesIn
<1>2. SumIn(rows, NotesIn(db), "qty") = SumIn(db, NotesIn(db), "qty")
  BY <1>1, SumUnchanged
<1>3. ASSUME NEW inv PROVE SumIn(rows, NotesTo(rows, inv), "qty") = SumIn(db, NotesTo(db, inv), "qty")
  <2>1. PICK set : set = NotesTo(db, inv)
    OBVIOUS
  <2>2. NotesTo(rows, inv) = set /\ \A n \in set : rows[n] = db[n]
    BY <1>1, <2>1 DEF NotesTo
  <2>3. SumIn(rows, set, "qty") = SumIn(db, set, "qty")
    BY <2>2, SumUnchanged
  <2> QED
    BY <2>1, <2>2, <2>3
<1>4. NotesStand(db) => NotesStand(rows)
  BY <1>1 DEF NotesStand
<1> QED
  BY <1>1, <1>2, <1>3, <1>4

\* A book that nothing is posted to, and one that q is posted to.
LEMMA PostedElsewhere == ASSUME NEW add, NEW k \in DOMAIN sums \ DOMAIN add, sums[k] \in Int PROVE Posted(add)[k] = sums[k]
  BY DEF Posted

LEMMA PostedTo == ASSUME NEW add, NEW k \in DOMAIN sums \cap DOMAIN add PROVE Posted(add)[k] = sums[k] + add[k]
  BY DEF Posted

LEMMA BooksDiffer ==
  /\ Sle(Main) # Sle(Quarantine) /\ Main # Quarantine
  /\ \A i : AP(i) # Sle(Main) /\ AP(i) # Sle(Quarantine)
  /\ \A i, j : AP(i) = AP(j) => i = j
  BY DEF Sle, AP, Main, Quarantine

\* The sums over the rows are whole numbers.
LEMMA SupplySums ==
  ASSUME PayablesInv, NotesStand(db)
  PROVE  /\ SumIn(db, GoodsIn(db), "accepted") \in Int /\ SumIn(db, GoodsIn(db), "rejected") \in Int
         /\ SumIn(db, NotesIn(db), "qty") \in Int /\ \A inv : SumIn(db, NotesTo(db, inv), "qty") \in Int
<1>1. GoodsIn(db) \subseteq Rows("GRN") /\ NotesIn(db) \subseteq Rows("DN") /\ \A inv : NotesTo(db, inv) \subseteq NotesIn(db)
  BY DEF GoodsIn, NotesIn, NotesTo
<1>2. IsFiniteSet(GoodsIn(db)) /\ IsFiniteSet(NotesIn(db)) /\ \A inv : IsFiniteSet(NotesTo(db, inv))
  BY <1>1, FS_Subset DEF PayablesInv, ShelfTables
<1>3. \A g \in GoodsIn(db) : db[g]["accepted"] \in Int /\ db[g]["rejected"] \in Int
  BY DEF PayablesInv, SupplyInv, SupplyStands, GoodsStand, ReceiptRow, GoodsIn
<1>4. \A n \in NotesIn(db) : db[n]["qty"] \in Int
  BY DEF NotesStand
<1>5. \A inv : \A n \in NotesTo(db, inv) : db[n]["qty"] \in Int
  BY <1>1, <1>4
<1>6. SumIn(db, GoodsIn(db), "accepted") \in Int /\ SumIn(db, GoodsIn(db), "rejected") \in Int
  BY <1>2, <1>3, SumInInt
<1>7. SumIn(db, NotesIn(db), "qty") \in Int
  BY <1>2, <1>4, SumInInt
<1>8. \A inv : SumIn(db, NotesTo(db, inv), "qty") \in Int
  BY <1>2, <1>5, SumInInt
<1> QED
  BY <1>6, <1>7, <1>8

\* What is owed for an invoice is a whole number.
LEMMA OwedIsInt ==
  ASSUME SupplyInv, NEW i \in Rows("SINV")
  PROVE  Owed(db[i]) \in Int
<1>1. CASE db[i] = NoRow
  BY <1>1, NoRowColumns DEF Owed
<1>2. CASE db[i] # NoRow
  <2>1. db[i].qty = db[db[i].po].qty /\ LiveOrder(db, db[i].po)
    BY <1>2 DEF SupplyInv, SupplyStands, BillsStand
  <2>2. Ordered(db[db[i].po])
    BY <2>1 DEF SupplyInv, SupplyStands, OrdersStand, OrderStands, LiveOrder
  <2> QED
    BY <2>1, <2>2 DEF Owed, Ordered
<1> QED
  BY <1>1, <1>2

LEMMA ShelfFacts ==
  ASSUME PayablesInv, OneSession
  PROVE  /\ LevelsStand(db, sums) /\ NotesStand(db) /\ BillsPosted(db, sums)
         /\ sums[Sle(Main)] \in Int /\ sums[Sle(Quarantine)] \in Int
         /\ \A i \in Rows("SINV") : sums[AP(i)] \in Int
         /\ {Sle(Main), Sle(Quarantine)} \cup {AP(i) : i \in Rows("SINV")} \subseteq DOMAIN sums
         /\ Main \in Rows("LVL") /\ Quarantine \in Rows("LVL")
<1>1. LevelsStand(db, sums) /\ NotesStand(db) /\ BillsPosted(db, sums)
  BY DEF PayablesInv, OneByOne, LevelsMatch
<1>2. sums[Sle(Main)] \in Int /\ sums[Sle(Quarantine)] \in Int
  BY <1>1 DEF LevelsStand, Shelf
<1>3. ASSUME NEW i \in Rows("SINV") PROVE sums[AP(i)] \in Int
  <2>1. PICK o, n : o = Owed(db[i]) /\ n = SumIn(db, NotesTo(db, i), "qty")
    OBVIOUS
  <2>2. o \in Int /\ n \in Int
    BY <1>1, <2>1, OwedIsInt, SupplySums DEF PayablesInv
  <2>3. sums[AP(i)] = o - n
    BY <1>1, <2>1 DEF BillsPosted
  <2> QED
    BY <2>2, <2>3
<1> QED
  BY <1>1, <1>2, <1>3 DEF PayablesInv, ShelfTables

Leaving(put, kinds) == \A kind \in kinds : Rows(kind) \cap DOMAIN put = {}

\* A request that writes no goods, debit notes or levels and posts what
\* becomes owed.
LEMMA BillsKeep ==
  ASSUME PayablesInv, OneSession, NEW put, NEW add, NEW rows, rows = Result(put), Leaving(put, {"GRN", "DN", "LVL"}),
         Sle(Main) \notin DOMAIN add, Sle(Quarantine) \notin DOMAIN add,
         \A i \in Rows("SINV") : Owed(rows[i]) = Owed(db[i]) + (IF AP(i) \in DOMAIN add THEN add[AP(i)] ELSE 0),
         \A k \in DOMAIN add : add[k] \in Int
  PROVE  LevelsMatch(rows, Posted(add))
<1>1. Leaves(rows, "GRN") /\ Leaves(rows, "DN") /\ Leaves(rows, "LVL")
  BY LeftAlone DEF Leaving
<1>2. PICK books : books = Posted(add)
  OBVIOUS
<1>3. LevelsStand(rows, books)
  <2>1. rows[Main] = db[Main] /\ rows[Quarantine] = db[Quarantine]
    BY <1>1, ShelfFacts DEF Leaves
  <2>2. books[Sle(Main)] = sums[Sle(Main)]
    BY <1>2, PostedElsewhere, ShelfFacts
  <2>3. books[Sle(Quarantine)] = sums[Sle(Quarantine)]
    BY <1>2, PostedElsewhere, ShelfFacts
  <2>4. /\ SumIn(rows, GoodsIn(rows), "accepted") = SumIn(db, GoodsIn(db), "accepted")
        /\ SumIn(rows, GoodsIn(rows), "rejected") = SumIn(db, GoodsIn(db), "rejected")
    BY <1>1, GoodsSame
  <2>5. SumIn(rows, NotesIn(rows), "qty") = SumIn(db, NotesIn(db), "qty")
    BY <1>1, NotesSame
  <2>6. LevelsStand(db, sums)
    BY ShelfFacts
  <2> QED
    BY <2>1, <2>2, <2>3, <2>4, <2>5, <2>6 DEF LevelsStand
<1>4. NotesStand(rows)
  BY <1>1, NotesSame, ShelfFacts
<1>5. ASSUME NEW i \in Rows("SINV")
      PROVE  books[AP(i)] = Owed(rows[i]) - SumIn(rows, NotesTo(rows, i), "qty")
  <2>1. PICK old, new, notes : old = Owed(db[i]) /\ new = Owed(rows[i]) /\ notes = SumIn(db, NotesTo(db, i), "qty")
    OBVIOUS
  <2>2. old \in Int /\ notes \in Int /\ NotesStand(db)
    <3>1. NotesStand(db)
      BY ShelfFacts
    <3> QED
      BY <2>1, <3>1, OwedIsInt, SupplySums DEF PayablesInv
  <2>3. SumIn(rows, NotesTo(rows, i), "qty") = notes
    BY <1>1, <2>1, NotesSame
  <2>4. sums[AP(i)] = old - notes
    BY <2>1, ShelfFacts DEF BillsPosted
  <2>5. AP(i) \in DOMAIN sums
    BY ShelfFacts
  <2>6. CASE AP(i) \in DOMAIN add
    <3>1. PICK a : a = add[AP(i)]
      OBVIOUS
    <3>2. books[AP(i)] = sums[AP(i)] + a /\ a \in Int
      BY <1>2, <2>5, <2>6, <3>1, PostedTo
    <3>3. new = old + a
      BY <2>1, <2>6, <3>1
    <3> QED
      BY <2>1, <2>2, <2>3, <2>4, <3>2, <3>3
  <2>7. CASE AP(i) \notin DOMAIN add
    <3>1. books[AP(i)] = sums[AP(i)]
      BY <1>2, <2>5, <2>7, PostedElsewhere, ShelfFacts
    <3>2. new = old
      BY <2>1, <2>2, <2>7
    <3> QED
      BY <2>1, <2>3, <2>4, <3>1, <3>2
  <2> QED
    BY <2>6, <2>7
<1>6. BillsPosted(rows, books)
  BY <1>5 DEF BillsPosted
<1> QED
  BY <1>2, <1>3, <1>4, <1>6 DEF LevelsMatch

\* The goods that a receipt or an inspection moves.
Moves(rows, books, accepted, rejected) ==
  /\ SumIn(rows, GoodsIn(rows), "accepted") = SumIn(db, GoodsIn(db), "accepted") + accepted
  /\ SumIn(rows, GoodsIn(rows), "rejected") = SumIn(db, GoodsIn(db), "rejected") + rejected
  /\ Shelf(rows[Main]) /\ Shelf(rows[Quarantine])
  /\ rows[Main].current = db[Main].current + accepted
  /\ rows[Quarantine].current = db[Quarantine].current + rejected
  /\ books[Sle(Main)] = sums[Sle(Main)] + accepted
  /\ books[Sle(Quarantine)] = sums[Sle(Quarantine)] + rejected

LEMMA GoodsKeep ==
  ASSUME PayablesInv, OneSession, NEW put, NEW add, NEW rows, rows = Result(put), Leaving(put, {"SINV", "DN"}),
         \A i : AP(i) \notin DOMAIN add, NEW accepted \in Int, NEW rejected \in Int,
         Moves(rows, Posted(add), accepted, rejected)
  PROVE  LevelsMatch(rows, Posted(add))
<1>1. Leaves(rows, "SINV") /\ Leaves(rows, "DN")
  BY LeftAlone DEF Leaving
<1>2. PICK books : books = Posted(add)
  OBVIOUS
<1>3. LevelsStand(rows, books)
  <2>1. PICK a, r, n : a = SumIn(db, GoodsIn(db), "accepted") /\ r = SumIn(db, GoodsIn(db), "rejected")
                       /\ n = SumIn(db, NotesIn(db), "qty")
    OBVIOUS
  <2>2. NotesStand(db)
    BY ShelfFacts
  <2>3. a \in Int /\ r \in Int /\ n \in Int
    BY <2>1, <2>2, SupplySums
  <2>4. LevelsStand(db, sums)
    BY ShelfFacts
  <2>5. SumIn(rows, NotesIn(rows), "qty") = n
    BY <1>1, <2>1, NotesSame
  <2>6. Moves(rows, books, accepted, rejected)
    BY <1>2
  <2>7. db[Main].current = a - n /\ db[Quarantine].current = r /\ sums[Sle(Main)] = a - n /\ sums[Sle(Quarantine)] = r
    BY <2>1, <2>4 DEF LevelsStand
  <2>8. /\ rows[Main].current = (a - n) + accepted /\ rows[Quarantine].current = r + rejected
        /\ books[Sle(Main)] = (a - n) + accepted /\ books[Sle(Quarantine)] = r + rejected
        /\ SumIn(rows, GoodsIn(rows), "accepted") = a + accepted
        /\ SumIn(rows, GoodsIn(rows), "rejected") = r + rejected
    BY <2>1, <2>6, <2>7 DEF Moves
  <2>9. (a - n) + accepted = (a + accepted) - n
    BY <2>3
  <2>10. Shelf(rows[Main]) /\ Shelf(rows[Quarantine])
    BY <2>6 DEF Moves
  <2> QED
    BY <2>5, <2>8, <2>9, <2>10 DEF LevelsStand
<1>4. NotesStand(rows)
  BY <1>1, NotesSame, ShelfFacts
<1>5. ASSUME NEW i \in Rows("SINV")
      PROVE  books[AP(i)] = Owed(rows[i]) - SumIn(rows, NotesTo(rows, i), "qty")
  <2>1. books[AP(i)] = sums[AP(i)]
    BY <1>2, PostedElsewhere, ShelfFacts
  <2>2. rows[i] = db[i]
    BY <1>1 DEF Leaves
  <2>3. SumIn(rows, NotesTo(rows, i), "qty") = SumIn(db, NotesTo(db, i), "qty")
    BY <1>1, NotesSame
  <2> QED
    BY <2>1, <2>2, <2>3, ShelfFacts DEF BillsPosted
<1>6. BillsPosted(rows, books)
  BY <1>5 DEF BillsPosted
<1> QED
  BY <1>2, <1>3, <1>4, <1>6 DEF LevelsMatch

\* A sum over rows of which one is new or has changed.
OneNew(rows, set, d, c) ==
  /\ d \notin set /\ IsFiniteSet(set) /\ rows[d][c] \in Int
  /\ \A x \in set : rows[x][c] = db[x][c] /\ db[x][c] \in Int

Grown(rows, set, d, c) == SumIn(rows, set \cup {d}, c) = SumIn(db, set, c) + rows[d][c]

LEMMA SumWithNew ==
  ASSUME NEW rows, NEW set, NEW d, NEW c, OneNew(rows, set, d, c)
  PROVE  Grown(rows, set, d, c)
<1>0. /\ d \notin set /\ IsFiniteSet(set) /\ rows[d][c] \in Int
      /\ \A x \in set : rows[x][c] = db[x][c] /\ db[x][c] \in Int
  BY DEF OneNew
<1>1. PICK f, g : f = [x \in set \cup {d} |-> rows[x][c]] /\ g = [x \in set |-> db[x][c]]
  OBVIOUS
<1>2. Summable(f, set) /\ f[d] = rows[d][c] /\ f[d] \in Int
  BY <1>0, <1>1 DEF Summable
<1>3. SumFunctionOnSet(f, set \cup {d}) = f[d] + SumFunctionOnSet(f, set)
  BY <1>0, <1>2, SumAdd
<1>4. SumFunctionOnSet(f, set) = SumFunctionOnSet(g, set)
  BY <1>0, <1>1, SumEqual
<1>5. SumFunctionOnSet(f, set) \in Int
  BY <1>2, SumInt
<1>6. SumIn(rows, set \cup {d}, c) = SumFunctionOnSet(f, set \cup {d}) /\ SumIn(db, set, c) = SumFunctionOnSet(g, set)
  BY <1>1 DEF SumIn
<1>7. SumFunctionOnSet(f, set \cup {d}) = SumFunctionOnSet(g, set) + rows[d][c]
  BY <1>0, <1>2, <1>3, <1>4, <1>5
<1> QED
  BY <1>6, <1>7 DEF Grown

OneChanged(rows, set, d, c) ==
  /\ d \in set /\ IsFiniteSet(set) /\ rows[d][c] \in Int
  /\ \A x \in set : db[x][c] \in Int
  /\ \A x \in set \ {d} : rows[x][c] = db[x][c]

Shifted(rows, set, d, c) == SumIn(rows, set, c) = SumIn(db, set, c) - db[d][c] + rows[d][c]

LEMMA SumWithChanged ==
  ASSUME NEW rows, NEW set, NEW d, NEW c, OneChanged(rows, set, d, c)
  PROVE  Shifted(rows, set, d, c)
<1>0. /\ d \in set /\ IsFiniteSet(set) /\ rows[d][c] \in Int
      /\ \A x \in set : db[x][c] \in Int
      /\ \A x \in set \ {d} : rows[x][c] = db[x][c]
  BY DEF OneChanged
<1>1. PICK f, g : f = [x \in set |-> db[x][c]] /\ g = [x \in set |-> rows[x][c]]
  OBVIOUS
<1>2. Summable(f, set) /\ g[d] \in Int /\ g[d] = rows[d][c] /\ f[d] = db[d][c] /\ \A x \in set \ {d} : g[x] = f[x]
  BY <1>0, <1>1 DEF Summable
<1>3. SumFunctionOnSet(g, set) = SumFunctionOnSet(f, set) - f[d] + g[d]
  BY <1>0, <1>2, SumChange
<1>4. SumIn(rows, set, c) = SumFunctionOnSet(g, set) /\ SumIn(db, set, c) = SumFunctionOnSet(f, set)
  BY <1>1 DEF SumIn
<1> QED
  BY <1>2, <1>3, <1>4 DEF Shifted

\* A new or changed row, as it is once the request has committed.
LEMMA ResultOverlaid ==
  ASSUME NEW put, NEW d \in DOMAIN db, d \in DOMAIN put
  PROVE  Overlaid(Result(put)[d], put[d], db[d])
<1>1. Result(put)[d] = Over(db, put, d)
  BY OverIsAfter DEF Result
<1>2. Overlaid(Over(db, put, d), put[d], db[d])
  BY OverColumns
<1> QED
  BY <1>1, <1>2

LEMMA NothingPosted == DOMAIN Nothing = {} /\ \A k : k \notin DOMAIN Nothing
  BY DEF Nothing

\* A request that writes one paper and owes nothing more.
LEMMA PaperKeeps ==
  ASSUME PayablesInv, OneSession, NEW put, NEW d, DOMAIN put = {d}, d[1] \in {"LCV", "SCORE"}
  PROVE  LevelsMatch(Result(put), Posted(Nothing))
<1>1. PICK rows : rows = Result(put)
  OBVIOUS
<1>2. Leaving(put, {"GRN", "DN", "LVL"}) /\ Rows("SINV") \cap DOMAIN put = {}
  BY DEF Leaving, Rows
<1>3. Leaves(rows, "SINV")
  BY <1>1, <1>2, LeftAlone
<1>4. \A i \in Rows("SINV") : Owed(rows[i]) = Owed(db[i]) + 0
  BY <1>3, OwedIsInt DEF Leaves, PayablesInv
<1>5. PICK add : add = Nothing
  OBVIOUS
<1>6. \A k : k \notin DOMAIN add
  BY <1>5, NothingPosted
<1>7. \A i \in Rows("SINV") : Owed(rows[i]) = Owed(db[i]) + (IF AP(i) \in DOMAIN add THEN add[AP(i)] ELSE 0)
  BY <1>4, <1>6
<1>8. LevelsMatch(rows, Posted(add))
  BY <1>1, <1>2, <1>6, <1>7, BillsKeep
<1> QED
  BY <1>1, <1>5, <1>8

LEMMA SubmitLandedCostVoucherKeeps ==
  ASSUME PayablesInv, NEW s \in Sessions, NEW lcv \in Rows("LCV"), db[lcv] # NoRow, SubmitLandedCostVoucher(s, lcv)
  PROVE  PayablesInv'
<1>1. PICK r, put : r = [status |-> "SUBMITTED"] /\ put = lcv :> r
  OBVIOUS
<1>2. DOMAIN put = {lcv} /\ Stage(s, put, Nothing, {})
  BY <1>1, OneRow DEF SubmitLandedCostVoucher
<1>3. lcv[1] \in {"LCV", "SCORE"}
  BY DEF Rows
<1>4. SupplyInv'
  BY SubmitLandedCostVoucherSupply DEF PayablesInv
<1>5. OneSession => LevelsMatch(Result(put), Posted(Nothing))
  BY <1>2, <1>3, PaperKeeps
<1> QED
  BY <1>2, <1>4, <1>5, StageKeepsPayables

LEMMA CreateLandedCostVoucherKeeps ==
  ASSUME PayablesInv, NEW s \in Sessions, NEW charges \in Nat, NEW lcv \in Rows("LCV"), Fresh(lcv), Live("GRN") # {},
         CreateLandedCostVoucher(s, charges, Live("GRN"), lcv)
  PROVE  PayablesInv'
<1>1. PICK r, put : Stage(s, put, Nothing, {}) /\ put = lcv :> r
  BY DEF CreateLandedCostVoucher
<1>2. DOMAIN put = {lcv}
  BY <1>1, OneRow
<1>3. lcv[1] \in {"LCV", "SCORE"}
  BY DEF Rows
<1>4. SupplyInv'
  BY CreateLandedCostVoucherSupply DEF PayablesInv
<1>5. OneSession => LevelsMatch(Result(put), Posted(Nothing))
  BY <1>2, <1>3, PaperKeeps
<1> QED
  BY <1>1, <1>4, <1>5, StageKeepsPayables

LEMMA ScorecardKeeps ==
  ASSUME PayablesInv, NEW s \in Sessions, NEW score \in Rows("SCORE"), Fresh(score), CalculateAndGenerateScorecard(s, score)
  PROVE  PayablesInv'
<1>1. PICK r, put : Stage(s, put, Nothing, {}) /\ put = score :> r
  BY DEF CalculateAndGenerateScorecard
<1>2. DOMAIN put = {score}
  BY <1>1, OneRow
<1>3. score[1] \in {"LCV", "SCORE"}
  BY DEF Rows
<1>4. SupplyInv'
  BY ScorecardSupply DEF PayablesInv
<1>5. OneSession => LevelsMatch(Result(put), Posted(Nothing))
  BY <1>2, <1>3, PaperKeeps
<1> QED
  BY <1>1, <1>4, <1>5, StageKeepsPayables

\* A request that writes one invoice and posts what becomes owed for it.
LEMMA BillKeeps ==
  ASSUME PayablesInv, OneSession, NEW put, NEW inv \in Rows("SINV"), DOMAIN put = {inv}, NEW add, DOMAIN add \subseteq {AP(inv)},
         NEW q \in Int, q = (IF AP(inv) \in DOMAIN add THEN add[AP(inv)] ELSE 0),
         Owed(Result(put)[inv]) = Owed(db[inv]) + q
  PROVE  LevelsMatch(Result(put), Posted(add))
<1>1. PICK rows : rows = Result(put)
  OBVIOUS
<1>2. inv[1] = "SINV" /\ inv \in DOMAIN db
  BY DEF Rows
<1>3. Leaving(put, {"GRN", "DN", "LVL"})
  BY <1>2 DEF Leaving, Rows
<1>4. Sle(Main) \notin DOMAIN add /\ Sle(Quarantine) \notin DOMAIN add
  BY BooksDiffer
<1>5. \A k \in DOMAIN add : add[k] \in Int
  OBVIOUS
<1>6. ASSUME NEW i \in Rows("SINV")
      PROVE  Owed(rows[i]) = Owed(db[i]) + (IF AP(i) \in DOMAIN add THEN add[AP(i)] ELSE 0)
  <2>1. CASE i = inv
    BY <1>1, <2>1
  <2>2. CASE i # inv
    <3>1. i \in DOMAIN db \ DOMAIN put
      BY <2>2 DEF Rows
    <3>2. rows[i] = db[i]
      BY <1>1, <3>1, ResultElsewhere
    <3>3. AP(i) \notin DOMAIN add
      BY <2>2, BooksDiffer
    <3>4. PICK o : o = Owed(db[i]) /\ o \in Int
      BY OwedIsInt DEF PayablesInv
    <3> QED
      BY <3>2, <3>3, <3>4
  <2> QED
    BY <2>1, <2>2
<1>7. LevelsMatch(rows, Posted(add))
  BY <1>1, <1>3, <1>4, <1>5, <1>6, BillsKeep
<1> QED
  BY <1>1, <1>7

LEMMA CreateSupplierInvoiceKeeps ==
  ASSUME PayablesInv, NEW s \in Sessions, NEW po \in Live("PO"), NEW inv \in Rows("SINV"), Fresh(inv), CreateSupplierInvoice(s, po, inv)
  PROVE  PayablesInv'
<1>1. PICK r, put : r = [status |-> "UNMATCHED", po |-> po, qty |-> db[po].qty - BilledQty(po)] /\ put = inv :> r
  OBVIOUS
<1>2. Stage(s, put, Nothing, {po})
  BY <1>1 DEF CreateSupplierInvoice
<1>3. "status" \in DOMAIN r /\ r.status = "UNMATCHED"
  BY <1>1
<1>4. DOMAIN put = {inv} /\ put[inv] = r
  <2>1. put = inv :> r
    BY <1>1
  <2> QED
    BY <2>1, OneRow
<1>5. inv \in DOMAIN db /\ db[inv] = NoRow
  BY FreshIsNew DEF Rows
<1>6. PICK row : row = Result(put)[inv]
  OBVIOUS
<1>7. Overlaid(row, r, db[inv])
  <2>1. Overlaid(Result(put)[inv], put[inv], db[inv])
    BY <1>4, <1>5, ResultOverlaid
  <2> QED
    BY <1>4, <1>6, <2>1
<1>8. row.status = "UNMATCHED"
  BY <1>3, <1>7 DEF Overlaid
<1>9. Owed(row) = 0 /\ Owed(db[inv]) = 0
  BY <1>5, <1>8, NoRowColumns DEF Owed
<1>10. SupplyInv'
  BY CreateSupplierInvoiceSupply DEF PayablesInv
<1>11. ASSUME OneSession PROVE LevelsMatch(Result(put), Posted(Nothing))
  <2>1. PICK add, q : add = Nothing /\ q = 0
    OBVIOUS
  <2>2. DOMAIN add \subseteq {AP(inv)} /\ q \in Int /\ q = (IF AP(inv) \in DOMAIN add THEN add[AP(inv)] ELSE 0)
    BY <2>1, NothingPosted
  <2>3. Owed(Result(put)[inv]) = Owed(db[inv]) + q
    BY <1>6, <1>9, <2>1
  <2>4. LevelsMatch(Result(put), Posted(add))
    BY <1>4, <1>11, <2>2, <2>3, BillKeeps
  <2> QED
    BY <2>1, <2>4
<1> QED
  BY <1>2, <1>10, <1>11, StageKeepsPayables

LEMMA MatchInvoiceKeeps ==
  ASSUME PayablesInv, NEW s \in Sessions, NEW inv \in Live("SINV"), NEW approved, MatchInvoice(s, inv, approved)
  PROVE  PayablesInv'
<1>1. \E status, add :
        /\ Stage(s, inv :> [status |-> status], add, {})
        /\ \/ status = "MATCHED" /\ add = AP(inv) :> db[inv].qty
           \/ status # "MATCHED" /\ add = Nothing
  <2>1. CASE PostMatch(s, inv, approved)
    <3>1. PICK status, add :
            /\ status = IF db[inv].qty <= Ceiling \/ approved THEN "MATCHED" ELSE "STAGED"
            /\ add = IF db[inv].qty <= Ceiling \/ approved THEN AP(inv) :> db[inv].qty ELSE Nothing
      OBVIOUS
    <3>2. Stage(s, inv :> [status |-> status], add, {})
      BY <2>1, <3>1 DEF PostMatch
    <3>3. \/ status = "MATCHED" /\ add = AP(inv) :> db[inv].qty
          \/ status # "MATCHED" /\ add = Nothing
      BY <3>1
    <3> QED
      BY <3>2, <3>3
  <2>2. CASE Dispute(s, inv)
    <3>1. PICK status : status = "DISPUTED"
      OBVIOUS
    <3>2. Stage(s, inv :> [status |-> status], Nothing, {}) /\ status # "MATCHED"
      BY <2>2, <3>1 DEF Dispute
    <3> QED
      BY <3>2
  <2> QED
    BY <2>1, <2>2 DEF MatchInvoice, DisputeUnreceived, DisputeMismatch
<1>2. PICK status, add :
        /\ Stage(s, inv :> [status |-> status], add, {})
        /\ \/ status = "MATCHED" /\ add = AP(inv) :> db[inv].qty
           \/ status # "MATCHED" /\ add = Nothing
  BY <1>1
<1>3. PICK put, r : r = [status |-> status] /\ put = inv :> r
  OBVIOUS
<1>4. DOMAIN put = {inv} /\ put[inv] = r /\ DOMAIN r = {"status"} /\ r.status = status /\ Stage(s, put, add, {})
  BY <1>2, <1>3, OneRow
<1>5. inv \in Rows("SINV") /\ inv \in DOMAIN db /\ db[inv] # NoRow
  BY DEF Live, Rows
<1>6. PICK row, old : row = Result(put)[inv] /\ old = db[inv]
  OBVIOUS
<1>7. Overlaid(row, r, old)
  <2>1. Overlaid(Result(put)[inv], put[inv], db[inv])
    BY <1>4, <1>5, ResultOverlaid
  <2> QED
    BY <1>4, <1>6, <2>1
<1>8. Bill(old)
  BY <1>5, <1>6 DEF PayablesInv, SupplyInv, SupplyStands, BillsStand
<1>9. row.status = status /\ row.qty = old.qty
  BY <1>4, <1>7, <1>8 DEF Overlaid, Bill
<1>10. old.status # "MATCHED"
  BY <1>6 DEF MatchInvoice, Status
<1>11. old.qty \in Int
  <2>1. old.qty = db[old.po].qty /\ LiveOrder(db, old.po)
    BY <1>5, <1>6 DEF PayablesInv, SupplyInv, SupplyStands, BillsStand
  <2>2. Ordered(db[old.po])
    BY <2>1 DEF PayablesInv, SupplyInv, SupplyStands, OrdersStand, OrderStands, LiveOrder
  <2> QED
    BY <2>1, <2>2 DEF Ordered
<1>12. ASSUME OneSession PROVE LevelsMatch(Result(put), Posted(add))
  <2>1. CASE status = "MATCHED"
    <3>1. add = AP(inv) :> old.qty
      BY <1>2, <1>6, <2>1
    <3>2. PICK k, q : k = AP(inv) /\ q = old.qty /\ add = k :> q
      BY <3>1
    <3>3. DOMAIN add = {k} /\ add[k] = q
      BY <3>2, OneRow
    <3>4. DOMAIN add \subseteq {AP(inv)} /\ q \in Int /\ q = (IF AP(inv) \in DOMAIN add THEN add[AP(inv)] ELSE 0)
      BY <1>11, <3>2, <3>3
    <3>5. Owed(row) = q /\ Owed(old) = 0
      BY <1>9, <1>10, <2>1, <3>2 DEF Owed
    <3>6. Owed(Result(put)[inv]) = Owed(db[inv]) + q
      BY <1>6, <3>4, <3>5
    <3> QED
      BY <1>4, <1>5, <1>12, <3>4, <3>6, BillKeeps
  <2>2. CASE status # "MATCHED"
    <3>1. PICK q : q = 0
      OBVIOUS
    <3>2. DOMAIN add \subseteq {AP(inv)} /\ q \in Int /\ q = (IF AP(inv) \in DOMAIN add THEN add[AP(inv)] ELSE 0)
      BY <1>2, <2>2, <3>1, NothingPosted
    <3>3. Owed(Result(put)[inv]) = Owed(db[inv]) + q
      BY <1>6, <1>9, <1>10, <2>2, <3>1 DEF Owed
    <3> QED
      BY <1>4, <1>5, <1>12, <3>2, <3>3, BillKeeps
  <2> QED
    BY <2>1, <2>2
<1>13. SupplyInv'
  BY MatchInvoiceSupply DEF PayablesInv
<1> QED
  BY <1>4, <1>12, <1>13, StageKeepsPayables

\* The postings of one or two books.
LEMMA OnePosting ==
  ASSUME NEW k, NEW q, NEW add, add = k :> q
  PROVE  DOMAIN add = {k} /\ add[k] = q
  BY OneRow

TwoRows(f, k, q, m, r) == DOMAIN f = {k, m} /\ f[k] = q /\ f[m] = r

LEMMA TwoPostings ==
  ASSUME NEW k, NEW q, NEW m, NEW r, k # m
  PROVE  TwoRows(k :> q @@ m :> r, k, q, m, r)
<1>1. PICK one, two, both : one = k :> q /\ two = m :> r /\ both = one @@ two
  OBVIOUS
<1>2. DOMAIN one = {k} /\ one[k] = q /\ DOMAIN two = {m} /\ two[m] = r
  BY <1>1, OneRow
<1>3. DOMAIN both = {k, m} /\ both[k] = q /\ both[m] = r
  BY <1>1, <1>2 DEF @@
<1> QED
  BY <1>1, <1>3 DEF TwoRows

\* A level that q units came in to.
LEMMA LevelMoved ==
  ASSUME NEW put, NEW l \in DOMAIN db, l \in DOMAIN put, NEW q \in Int, Shelf(db[l]),
         put[l] = [current |-> db[l].current + q, available |-> db[l].available + q]
  PROVE  Shelf(Result(put)[l]) /\ Result(put)[l].current = db[l].current + q
<1>1. PICK row, new, old : row = Result(put)[l] /\ new = put[l] /\ old = db[l]
  OBVIOUS
<1>2. Overlaid(Result(put)[l], put[l], db[l])
  BY ResultOverlaid
<1>3. Overlaid(row, new, old)
  BY <1>1, <1>2
<1>4. DOMAIN new = {"current", "available"} /\ new.current = old.current + q /\ new.available = old.available + q
  BY <1>1
<1>5. Shelf(old)
  BY <1>1
<1>6. {"current", "available"} \subseteq DOMAIN row /\ row.current = old.current + q /\ row.available = old.available + q
  BY <1>3, <1>4 DEF Overlaid
<1>7. Shelf(row)
  BY <1>5, <1>6 DEF Shelf
<1> QED
  BY <1>1, <1>6, <1>7

LEMMA CreateGoodsReceiptKeeps ==
  ASSUME PayablesInv, NEW s \in Sessions, NEW po \in Live("PO"), NEW q \in Nat \ {0}, NEW grn \in Rows("GRN"), Fresh(grn),
         CreateGoodsReceipt(s, po, q, grn)
  PROVE  PayablesInv'
<1>1. PICK r, st, level, put, add :
        /\ r = [status |-> "COMPLETED", po |-> po, qty |-> q, accepted |-> q, rejected |-> 0, inspected |-> FALSE]
        /\ level = [current |-> db[Main].current + q, available |-> db[Main].available + q]
        /\ put = grn :> r @@ po :> st @@ Main :> level
        /\ add = Sle(Main) :> q
        /\ Stage(s, put, add, {po})
  BY DEF CreateGoodsReceipt, Moved
<1>2. put = grn :> r @@ po :> st @@ Main :> level /\ Stage(s, put, add, {po}) /\ add = Sle(Main) :> q
  BY <1>1
<1>3. NewGoods(r, po, q)
  BY <1>1 DEF NewGoods
<1>4. grn \in DOMAIN db /\ grn[1] = "GRN" /\ db[grn] = NoRow /\ po[1] = "PO" /\ Main[1] = "LVL" /\ Quarantine[1] = "LVL"
      /\ Main \in DOMAIN db /\ Quarantine \in DOMAIN db
  <2>1. Main \in Rows("LVL") /\ Quarantine \in Rows("LVL")
    BY DEF PayablesInv, ShelfTables
  <2> QED
    BY <2>1, FreshIsNew DEF Rows, Live, Main
<1>5. DOMAIN put = {grn, po, Main} /\ put[grn] = r /\ put[Main] = level
  <2>1. PICK one, two, three, both : /\ one = grn :> r /\ two = po :> st /\ three = Main :> level /\ both = one @@ two
                                     /\ put = both @@ three
    BY <1>2
  <2>2. DOMAIN one = {grn} /\ one[grn] = r /\ DOMAIN two = {po} /\ DOMAIN three = {Main} /\ three[Main] = level
    BY <2>1, OneRow
  <2>3. DOMAIN both = {grn, po} /\ both[grn] = r
    BY <1>4, <2>1, <2>2 DEF @@
  <2> QED
    BY <1>4, <2>1, <2>2, <2>3 DEF @@
<1>6. PICK rows, books : rows = Result(put) /\ books = Posted(add)
  OBVIOUS
<1>7. Overlaid(rows[grn], r, NoRow)
  <2>1. Overlaid(Result(put)[grn], put[grn], db[grn])
    BY <1>4, <1>5, ResultOverlaid
  <2> QED
    BY <1>4, <1>5, <1>6, <2>1
<1>8. rows[grn].accepted = q /\ rows[grn].rejected = 0 /\ rows[grn] # NoRow
  BY <1>3, <1>7, NoRowColumns DEF Overlaid, NewGoods
<1>9. ASSUME NEW g \in Rows("GRN"), g # grn PROVE rows[g] = db[g]
  <2>1. g \in DOMAIN db \ DOMAIN put
    BY <1>4, <1>5, <1>9 DEF Rows
  <2> QED
    BY <1>6, <2>1, ResultElsewhere
<1>10. PICK old : old = GoodsIn(db)
  OBVIOUS
<1>11. GoodsIn(rows) = old \cup {grn} /\ grn \notin old /\ old \subseteq Rows("GRN")
  BY <1>4, <1>8, <1>9, <1>10 DEF GoodsIn
<1>12. IsFiniteSet(old) /\ \A g \in old : db[g]["accepted"] \in Int /\ db[g]["rejected"] \in Int
  <2>1. IsFiniteSet(old)
    BY <1>11, FS_Subset DEF PayablesInv, ShelfTables
  <2>2. \A g \in old : ReceiptRow(db[g])
    BY <1>10 DEF GoodsIn, PayablesInv, SupplyInv, SupplyStands, GoodsStand
  <2> QED
    BY <2>1, <2>2 DEF ReceiptRow
<1>13. ASSUME NEW c \in {"accepted", "rejected"}
       PROVE  SumIn(rows, GoodsIn(rows), c) = SumIn(db, GoodsIn(db), c) + rows[grn][c]
  <2>1. \A g \in old : rows[g][c] = db[g][c] /\ db[g][c] \in Int
    BY <1>9, <1>11, <1>12
  <2>2. rows[grn][c] \in Int
    BY <1>8
  <2>3. OneNew(rows, old, grn, c)
    BY <1>11, <1>12, <2>1, <2>2 DEF OneNew
  <2>4. Grown(rows, old, grn, c)
    BY <2>3, SumWithNew
  <2> QED
    BY <1>10, <1>11, <2>4 DEF Grown
<1>14. SupplyInv'
  BY <1>4, CreateGoodsReceiptSupply DEF PayablesInv
<1>15. ASSUME OneSession PROVE LevelsMatch(rows, books)
  <2>1. Shelf(db[Main]) /\ Shelf(db[Quarantine])
    BY <1>15, ShelfFacts DEF LevelsStand
  <2>2. Shelf(rows[Main]) /\ rows[Main].current = db[Main].current + q
    <3>1. put[Main] = [current |-> db[Main].current + q, available |-> db[Main].available + q]
      BY <1>1, <1>5
    <3>2. Main \in DOMAIN put /\ q \in Int
      BY <1>5
    <3>3. Shelf(Result(put)[Main]) /\ Result(put)[Main].current = db[Main].current + q
      BY <1>4, <2>1, <3>1, <3>2, LevelMoved
    <3> QED
      BY <1>6, <3>3
  <2>3. rows[Quarantine] = db[Quarantine]
    <3>1. Quarantine \in DOMAIN db \ DOMAIN put
      BY <1>4, <1>5, BooksDiffer
    <3> QED
      BY <1>6, <3>1, ResultElsewhere
  <2>4. PICK k : k = Sle(Main)
    OBVIOUS
  <2>5. DOMAIN add = {k} /\ add[k] = q
    BY <1>2, <2>4, OnePosting
  <2>6. Sle(Quarantine) \notin DOMAIN add /\ \A i : AP(i) \notin DOMAIN add
    BY <2>4, <2>5, BooksDiffer
  <2>7. books[Sle(Main)] = sums[Sle(Main)] + q
    <3>1. k \in DOMAIN sums \cap DOMAIN add
      BY <1>15, <2>4, <2>5, ShelfFacts
    <3> QED
      BY <1>6, <2>4, <2>5, <3>1, PostedTo
  <2>8. books[Sle(Quarantine)] = sums[Sle(Quarantine)]
    BY <1>6, <1>15, <2>6, PostedElsewhere, ShelfFacts
  <2>9. sums[Sle(Quarantine)] \in Int
    BY <1>15, ShelfFacts
  <2>10. SumIn(rows, GoodsIn(rows), "accepted") = SumIn(db, GoodsIn(db), "accepted") + q
    BY <1>8, <1>13
  <2>11. SumIn(rows, GoodsIn(rows), "rejected") = SumIn(db, GoodsIn(db), "rejected") + 0
    BY <1>8, <1>13
  <2>12. rows[Quarantine].current = db[Quarantine].current + 0
    BY <2>1, <2>3 DEF Shelf
  <2>13. books[Sle(Quarantine)] = sums[Sle(Quarantine)] + 0
    BY <2>8, <2>9
  <2>14. Moves(rows, books, q, 0)
    BY <2>1, <2>2, <2>3, <2>7, <2>10, <2>11, <2>12, <2>13 DEF Moves
  <2>15. Leaving(put, {"SINV", "DN"})
    BY <1>4, <1>5 DEF Leaving, Rows
  <2>16. PICK a, b : a = q /\ b = 0
    OBVIOUS
  <2>17. Moves(rows, Posted(add), a, b) /\ a \in Int /\ b \in Int
    BY <1>6, <2>14, <2>16
  <2>18. LevelsMatch(rows, Posted(add))
    BY <1>6, <1>15, <2>6, <2>15, <2>17, GoodsKeep
  <2> QED
    BY <1>6, <2>18
<1>16. OneSession => LevelsMatch(Result(put), Posted(add))
  BY <1>6, <1>15
<1> QED
  BY <1>2, <1>14, <1>16, StageKeepsPayables

LEMMA InspectGrnKeeps ==
  ASSUME PayablesInv, NEW s \in Sessions, NEW grn \in Live("GRN"), NEW rejected \in 0..db[grn].qty, InspectGrn(s, grn, rejected)
  PROVE  PayablesInv'
<1>1. PICK r, moves, put, add, locks :
        /\ r = [accepted |-> db[grn].qty - rejected, rejected |-> rejected, inspected |-> TRUE]
        /\ moves = (IF rejected > 0 THEN Moved(Main, -rejected) @@ Moved(Quarantine, rejected) ELSE Nothing)
        /\ put = grn :> r @@ moves
        /\ add = Sle(Main) :> -rejected @@ Sle(Quarantine) :> rejected
        /\ Stage(s, put, add, locks)
  BY DEF InspectGrn
<1>2. put = grn :> r @@ moves /\ Stage(s, put, add, locks)
  BY <1>1
<1>3. DOMAIN r = {"accepted", "rejected", "inspected"} /\ r.accepted = db[grn].qty - rejected /\ r.rejected = rejected
  BY <1>1
<1>4. grn \in DOMAIN db /\ grn[1] = "GRN" /\ db[grn] # NoRow /\ grn \in Rows("GRN") /\ Main[1] = "LVL" /\ Quarantine[1] = "LVL"
      /\ Main \in DOMAIN db /\ Quarantine \in DOMAIN db
  <2>1. Main \in Rows("LVL") /\ Quarantine \in Rows("LVL")
    BY DEF PayablesInv, ShelfTables
  <2> QED
    BY <2>1 DEF Rows, Live, Main, Quarantine
<1>5. /\ rejected > 0 => /\ DOMAIN moves = {Main, Quarantine}
                         /\ moves[Main] = [current |-> db[Main].current + (-rejected), available |-> db[Main].available + (-rejected)]
                         /\ moves[Quarantine] = [current |-> db[Quarantine].current + rejected,
                                                 available |-> db[Quarantine].available + rejected]
      /\ ~(rejected > 0) => DOMAIN moves = {}
  <2>1. CASE rejected > 0
    <3>1. PICK up, down :
            /\ down = [current |-> db[Main].current + (-rejected), available |-> db[Main].available + (-rejected)]
            /\ up = [current |-> db[Quarantine].current + rejected, available |-> db[Quarantine].available + rejected]
      OBVIOUS
    <3>2. moves = Main :> down @@ Quarantine :> up
      BY <1>1, <2>1, <3>1 DEF Moved
    <3>4. TwoRows(Main :> down @@ Quarantine :> up, Main, down, Quarantine, up)
      BY BooksDiffer, TwoPostings
    <3>3. DOMAIN moves = {Main, Quarantine} /\ moves[Main] = down /\ moves[Quarantine] = up
      BY <3>2, <3>4 DEF TwoRows
    <3> QED
      BY <2>1, <3>1, <3>3
  <2>2. CASE ~(rejected > 0)
    <3>1. moves = Nothing
      BY <1>1, <2>2
    <3> QED
      BY <2>2, <3>1, NothingPosted
  <2> QED
    BY <2>1, <2>2
<1>6. DOMAIN put = {grn} \cup DOMAIN moves /\ put[grn] = r /\ \A d \in DOMAIN moves : d # grn => put[d] = moves[d]
  <2>1. PICK one : one = grn :> r
    OBVIOUS
  <2>2. DOMAIN one = {grn} /\ one[grn] = r /\ put = one @@ moves
    BY <1>2, <2>1, OneRow
  <2> QED
    BY <2>2 DEF @@
<1>7. DOMAIN moves \subseteq {Main, Quarantine}
  BY <1>5
<1>8. PICK rows, books : rows = Result(put) /\ books = Posted(add)
  OBVIOUS
<1>9. ReceiptRow(db[grn]) /\ db[grn].accepted = db[grn].qty /\ db[grn].rejected = 0
  <2>1. ReceiptRow(db[grn]) /\ ~db[grn].inspected
    BY <1>4 DEF PayablesInv, SupplyInv, SupplyStands, GoodsStand, InspectGrn, NotInspected
  <2> QED
    BY <2>1 DEF ReceiptRow
<1>10. PICK qty : qty = db[grn].qty /\ qty \in Nat
  BY <1>9 DEF ReceiptRow
<1>11. Overlaid(rows[grn], r, db[grn])
  <2>1. Overlaid(Result(put)[grn], put[grn], db[grn])
    BY <1>4, <1>6, ResultOverlaid
  <2> QED
    BY <1>6, <1>8, <2>1
<1>12. rows[grn].accepted = qty - rejected /\ rows[grn].rejected = rejected /\ rows[grn] # NoRow
  <2>1. rows[grn].accepted = qty - rejected /\ rows[grn].rejected = rejected /\ "accepted" \in DOMAIN rows[grn]
    BY <1>3, <1>10, <1>11 DEF Overlaid
  <2> QED
    BY <2>1, NoRowColumns
<1>13. ASSUME NEW g \in Rows("GRN"), g # grn PROVE rows[g] = db[g]
  <2>1. g \in DOMAIN db \ DOMAIN put
    BY <1>4, <1>6, <1>7, <1>13 DEF Rows
  <2> QED
    BY <1>8, <2>1, ResultElsewhere
<1>14. PICK old : old = GoodsIn(db)
  OBVIOUS
<1>15. GoodsIn(rows) = old /\ grn \in old /\ old \subseteq Rows("GRN")
  BY <1>4, <1>12, <1>13, <1>14 DEF GoodsIn
<1>16. IsFiniteSet(old) /\ \A g \in old : db[g]["accepted"] \in Int /\ db[g]["rejected"] \in Int
  <2>1. IsFiniteSet(old)
    BY <1>15, FS_Subset DEF PayablesInv, ShelfTables
  <2>2. \A g \in old : ReceiptRow(db[g])
    BY <1>14 DEF GoodsIn, PayablesInv, SupplyInv, SupplyStands, GoodsStand
  <2> QED
    BY <2>1, <2>2 DEF ReceiptRow
<1>17. ASSUME NEW c \in {"accepted", "rejected"}
       PROVE  SumIn(rows, GoodsIn(rows), c) = SumIn(db, GoodsIn(db), c) - db[grn][c] + rows[grn][c]
  <2>1. \A g \in old : db[g][c] \in Int
    BY <1>16
  <2>2. \A g \in old \ {grn} : rows[g][c] = db[g][c]
    BY <1>13, <1>15
  <2>3. rows[grn][c] \in Int
    BY <1>10, <1>12
  <2>4. OneChanged(rows, old, grn, c)
    BY <1>15, <1>16, <2>1, <2>2, <2>3 DEF OneChanged
  <2>5. Shifted(rows, old, grn, c)
    BY <2>4, SumWithChanged
  <2> QED
    BY <1>14, <1>15, <2>5 DEF Shifted
<1>18. SupplyInv'
  BY <1>4, InspectGrnSupply DEF PayablesInv
<1>19. ASSUME OneSession PROVE LevelsMatch(rows, books)
  <2>1. Shelf(db[Main]) /\ Shelf(db[Quarantine]) /\ NotesStand(db)
    BY <1>19, ShelfFacts DEF LevelsStand
  <2>2. /\ Shelf(rows[Main]) /\ rows[Main].current = db[Main].current + (-rejected)
        /\ Shelf(rows[Quarantine]) /\ rows[Quarantine].current = db[Quarantine].current + rejected
    <3>1. CASE rejected > 0
      <4>1. Main \in DOMAIN put /\ Quarantine \in DOMAIN put /\ Main # grn /\ Quarantine # grn
        BY <1>4, <1>5, <1>6, <3>1
      <4>2. put[Main] = moves[Main] /\ put[Quarantine] = moves[Quarantine]
        BY <1>5, <1>6, <3>1, <4>1
      <4>3. put[Main] = [current |-> db[Main].current + (-rejected), available |-> db[Main].available + (-rejected)]
        BY <1>5, <3>1, <4>2
      <4>4. put[Quarantine] = [current |-> db[Quarantine].current + rejected, available |-> db[Quarantine].available + rejected]
        BY <1>5, <3>1, <4>2
      <4>5. PICK n : n = -rejected /\ n \in Int
        OBVIOUS
      <4>6. Shelf(Result(put)[Main]) /\ Result(put)[Main].current = db[Main].current + n
        BY <1>4, <2>1, <4>1, <4>3, <4>5, LevelMoved
      <4>7. Shelf(Result(put)[Quarantine]) /\ Result(put)[Quarantine].current = db[Quarantine].current + rejected
        BY <1>4, <2>1, <4>1, <4>4, LevelMoved
      <4> QED
        BY <1>8, <4>5, <4>6, <4>7
    <3>2. CASE ~(rejected > 0)
      <4>1. rejected = 0 /\ DOMAIN put = {grn}
        BY <1>5, <1>6, <1>10, <3>2
      <4>2. Main \in DOMAIN db \ DOMAIN put /\ Quarantine \in DOMAIN db \ DOMAIN put
        BY <1>4, <4>1
      <4>3. rows[Main] = db[Main] /\ rows[Quarantine] = db[Quarantine]
        BY <1>8, <4>2, ResultElsewhere
      <4> QED
        BY <2>1, <4>1, <4>3 DEF Shelf
    <3> QED
      BY <3>1, <3>2
  <2>3. PICK k, m, n : k = Sle(Main) /\ m = Sle(Quarantine) /\ n = -rejected
    OBVIOUS
  <2>4. DOMAIN add = {k, m} /\ add[k] = n /\ add[m] = rejected
    <3>1. add = k :> n @@ m :> rejected /\ k # m
      BY <1>1, <2>3, BooksDiffer
    <3>2. TwoRows(k :> n @@ m :> rejected, k, n, m, rejected)
      BY <3>1, TwoPostings
    <3> QED
      BY <3>1, <3>2 DEF TwoRows
  <2>5. \A i : AP(i) \notin DOMAIN add
    BY <2>3, <2>4, BooksDiffer
  <2>6. k \in DOMAIN sums \cap DOMAIN add /\ m \in DOMAIN sums \cap DOMAIN add
    BY <1>19, <2>3, <2>4, ShelfFacts
  <2>7. books[k] = sums[k] + n /\ books[m] = sums[m] + rejected
    BY <1>8, <2>4, <2>6, PostedTo
  <2>8. PICK a, b : a = SumIn(db, GoodsIn(db), "accepted") /\ b = SumIn(db, GoodsIn(db), "rejected")
    OBVIOUS
  <2>9. a \in Int /\ b \in Int
    BY <2>1, <2>8, SupplySums
  <2>10. SumIn(rows, GoodsIn(rows), "accepted") = a - qty + (qty - rejected)
    BY <1>9, <1>10, <1>12, <1>17, <2>8
  <2>11. SumIn(rows, GoodsIn(rows), "rejected") = b - 0 + rejected
    BY <1>9, <1>12, <1>17, <2>8
  <2>12. a - qty + (qty - rejected) = a + n /\ b - 0 + rejected = b + rejected
    BY <1>10, <2>3, <2>9
  <2>13. Moves(rows, books, n, rejected)
    BY <2>2, <2>3, <2>7, <2>8, <2>10, <2>11, <2>12 DEF Moves
  <2>14. Leaving(put, {"SINV", "DN"})
    BY <1>4, <1>6, <1>7 DEF Leaving, Rows
  <2>15. n \in Int /\ rejected \in Int
    BY <1>10, <2>3
  <2>16. Moves(rows, Posted(add), n, rejected)
    BY <1>8, <2>13
  <2>17. LevelsMatch(rows, Posted(add))
    BY <1>8, <1>19, <2>5, <2>14, <2>15, <2>16, GoodsKeep
  <2> QED
    BY <1>8, <2>17
<1>20. OneSession => LevelsMatch(Result(put), Posted(add))
  BY <1>8, <1>19
<1> QED
  BY <1>2, <1>18, <1>20, StageKeepsPayables

LEMMA IssueDebitNoteKeeps ==
  ASSUME PayablesInv, NEW s \in Sessions, NEW inv \in Live("SINV"), NEW q \in Int, NEW dn \in Rows("DN"), Fresh(dn),
         IssueDebitNote(s, inv, q, dn)
  PROVE  PayablesInv'
<1>1. PICK r, level, put, add :
        /\ r = [status |-> "POSTED", invoice |-> inv, qty |-> q]
        /\ level = [current |-> db[Main].current - q, available |-> db[Main].available - q]
        /\ put = dn :> r @@ Main :> level
        /\ add = Sle(Main) :> -q @@ AP(inv) :> -q
        /\ Stage(s, put, add, {inv})
  BY DEF IssueDebitNote
<1>2. put = dn :> r @@ Main :> level /\ Stage(s, put, add, {inv})
  BY <1>1
<1>3. DOMAIN r = {"status", "invoice", "qty"} /\ r.invoice = inv /\ r.qty = q
  BY <1>1
<1>4. /\ dn \in DOMAIN db /\ dn[1] = "DN" /\ db[dn] = NoRow /\ Main[1] = "LVL" /\ Main \in DOMAIN db /\ Quarantine \in DOMAIN db
      /\ inv \in Rows("SINV") /\ Quarantine[1] = "LVL"
  <2>1. Main \in Rows("LVL") /\ Quarantine \in Rows("LVL")
    BY DEF PayablesInv, ShelfTables
  <2> QED
    BY <2>1, FreshIsNew DEF Rows, Live, Main, Quarantine
<1>5. DOMAIN put = {dn, Main} /\ put[dn] = r /\ put[Main] = level
  <2>1. TwoRows(dn :> r @@ Main :> level, dn, r, Main, level)
    BY <1>4, TwoPostings
  <2> QED
    BY <1>2, <2>1 DEF TwoRows
<1>6. PICK rows, books : rows = Result(put) /\ books = Posted(add)
  OBVIOUS
<1>7. Overlaid(rows[dn], r, NoRow)
  <2>1. Overlaid(Result(put)[dn], put[dn], db[dn])
    BY <1>4, <1>5, ResultOverlaid
  <2> QED
    BY <1>4, <1>5, <1>6, <2>1
<1>8. DOMAIN rows[dn] = {"status", "invoice", "qty"} /\ rows[dn].invoice = inv /\ rows[dn].qty = q /\ rows[dn] # NoRow
  <2>1. DOMAIN rows[dn] = {"status", "invoice", "qty"} /\ rows[dn].invoice = inv /\ rows[dn].qty = q
    BY <1>3, <1>7, NoRowColumns DEF Overlaid
  <2> QED
    BY <2>1, NoRowColumns
<1>9. ASSUME NEW n \in Rows("DN"), n # dn PROVE rows[n] = db[n]
  <2>1. n \in DOMAIN db \ DOMAIN put
    BY <1>4, <1>5, <1>9 DEF Rows
  <2> QED
    BY <1>6, <2>1, ResultElsewhere
<1>10. NotesIn(rows) = NotesIn(db) \cup {dn} /\ dn \notin NotesIn(db) /\ NotesIn(db) \subseteq Rows("DN")
  BY <1>4, <1>8, <1>9 DEF NotesIn
<1>11. NotesTo(rows, inv) = NotesTo(db, inv) \cup {dn}
  BY <1>8, <1>9, <1>10 DEF NotesTo
<1>12. \A i : i # inv => NotesTo(rows, i) = NotesTo(db, i)
  BY <1>8, <1>9, <1>10 DEF NotesTo
<1>13. Leaving(put, {"SINV", "GRN"})
  BY <1>4, <1>5 DEF Leaving, Rows
<1>14. Leaves(rows, "SINV") /\ Leaves(rows, "GRN")
  BY <1>6, <1>13, LeftAlone DEF Leaving
<1>15. SupplyInv'
  BY <1>4, IssueDebitNoteSupply DEF PayablesInv
<1>16. ASSUME OneSession PROVE LevelsMatch(rows, books)
  <2>1. Shelf(db[Main]) /\ Shelf(db[Quarantine]) /\ NotesStand(db) /\ LevelsStand(db, sums)
    BY <1>16, ShelfFacts DEF LevelsStand
  <2>2. IsFiniteSet(NotesIn(db)) /\ \A n \in NotesIn(db) : db[n]["qty"] \in Int
    <3>1. IsFiniteSet(NotesIn(db))
      BY <1>10, FS_Subset DEF PayablesInv, ShelfTables
    <3> QED
      BY <2>1, <3>1 DEF NotesStand
  <2>3. PICK m : m = -q /\ m \in Int
    OBVIOUS
  <2>4. Shelf(rows[Main]) /\ rows[Main].current = db[Main].current + m
    <3>1. put[Main] = [current |-> db[Main].current + m, available |-> db[Main].available + m]
      BY <1>1, <1>5, <2>1, <2>3 DEF Shelf
    <3>2. Main \in DOMAIN put
      BY <1>5
    <3>3. Shelf(Result(put)[Main]) /\ Result(put)[Main].current = db[Main].current + m
      BY <1>4, <2>1, <2>3, <3>1, <3>2, LevelMoved
    <3> QED
      BY <1>6, <3>3
  <2>5. rows[Quarantine] = db[Quarantine]
    <3>1. Quarantine \in DOMAIN db \ DOMAIN put
      BY <1>4, <1>5, BooksDiffer
    <3> QED
      BY <1>6, <3>1, ResultElsewhere
  <2>6. PICK k, l : k = Sle(Main) /\ l = AP(inv)
    OBVIOUS
  <2>7. DOMAIN add = {k, l} /\ add[k] = m /\ add[l] = m
    <3>1. add = k :> m @@ l :> m /\ k # l
      BY <1>1, <2>3, <2>6, BooksDiffer
    <3>2. TwoRows(k :> m @@ l :> m, k, m, l, m)
      BY <3>1, TwoPostings
    <3> QED
      BY <3>1, <3>2 DEF TwoRows
  <2>8. Sle(Quarantine) \notin DOMAIN add
    BY <2>6, <2>7, BooksDiffer
  <2>9. books[k] = sums[k] + m /\ books[l] = sums[l] + m
    <3>1. k \in DOMAIN sums \cap DOMAIN add /\ l \in DOMAIN sums \cap DOMAIN add
      BY <1>4, <1>16, <2>6, <2>7, ShelfFacts
    <3> QED
      BY <1>6, <2>7, <3>1, PostedTo
  <2>10. books[Sle(Quarantine)] = sums[Sle(Quarantine)]
    BY <1>6, <1>16, <2>8, PostedElsewhere, ShelfFacts
  <2>11. PICK a, b, n : a = SumIn(db, GoodsIn(db), "accepted") /\ b = SumIn(db, GoodsIn(db), "rejected")
                        /\ n = SumIn(db, NotesIn(db), "qty")
    OBVIOUS
  <2>12. a \in Int /\ b \in Int /\ n \in Int
    BY <2>1, <2>11, SupplySums
  <2>13. SumIn(rows, NotesIn(rows), "qty") = n + q
    <3>0. PICK set, c : set = NotesIn(db) /\ c = "qty"
      OBVIOUS
    <3>1. \A x \in set : rows[x][c] = db[x][c] /\ db[x][c] \in Int
      BY <1>9, <1>10, <2>2, <3>0
    <3>2. rows[dn][c] \in Int /\ IsFiniteSet(set) /\ dn \notin set
      BY <1>8, <1>10, <2>2, <3>0
    <3>4. OneNew(rows, set, dn, c)
      BY <3>1, <3>2 DEF OneNew
    <3>5. Grown(rows, set, dn, c)
      BY <3>4, SumWithNew
    <3>3. SumIn(rows, set \cup {dn}, c) = SumIn(db, set, c) + rows[dn][c]
      BY <3>5 DEF Grown
    <3> QED
      BY <1>8, <1>10, <2>11, <3>0, <3>3
  <2>14. LevelsStand(rows, books)
    <3>1. SumIn(rows, GoodsIn(rows), "accepted") = a /\ SumIn(rows, GoodsIn(rows), "rejected") = b
      BY <1>14, <2>11, GoodsSame
    <3>2. db[Main].current = a - n /\ db[Quarantine].current = b /\ sums[k] = a - n /\ sums[Sle(Quarantine)] = b
      BY <2>1, <2>6, <2>11 DEF LevelsStand
    <3>3. (a - n) + m = a - (n + q)
      BY <2>3, <2>12
    <3>4. rows[Main].current = a - (n + q) /\ books[Sle(Main)] = a - (n + q)
      BY <2>4, <2>6, <2>9, <3>2, <3>3
    <3> QED
      BY <2>1, <2>4, <2>5, <2>10, <2>13, <3>1, <3>2, <3>4 DEF LevelsStand
  <2>15. NotesStand(rows)
    <3>1. \A x \in NotesIn(db) : rows[x] = db[x]
      BY <1>9, <1>10
    <3> QED
      BY <1>8, <1>10, <2>1, <3>1 DEF NotesStand
  <2>16. ASSUME NEW i \in Rows("SINV") PROVE books[AP(i)] = Owed(rows[i]) - SumIn(rows, NotesTo(rows, i), "qty")
    <3>1. PICK o, t : o = Owed(db[i]) /\ t = SumIn(db, NotesTo(db, i), "qty")
      OBVIOUS
    <3>2. o \in Int /\ t \in Int
      BY <2>1, <3>1, OwedIsInt, SupplySums DEF PayablesInv
    <3>3. sums[AP(i)] = o - t /\ Owed(rows[i]) = o
      BY <1>14, <1>16, <3>1, ShelfFacts DEF BillsPosted, Leaves
    <3>4. CASE i = inv
      <4>1. PICK set, c : set = NotesTo(db, inv) /\ c = "qty"
        OBVIOUS
      <4>2. set \subseteq NotesIn(db)
        BY <4>1 DEF NotesTo
      <4>3. IsFiniteSet(set) /\ dn \notin set
        BY <1>10, <2>2, <4>2, FS_Subset
      <4>4. \A x \in set : rows[x][c] = db[x][c] /\ db[x][c] \in Int
        BY <1>9, <1>10, <2>2, <4>1, <4>2
      <4>5. rows[dn][c] \in Int /\ IsFiniteSet(set) /\ dn \notin set
        BY <1>8, <4>1, <4>3
      <4>10. OneNew(rows, set, dn, c)
        BY <4>4, <4>5 DEF OneNew
      <4>11. Grown(rows, set, dn, c)
        BY <4>10, SumWithNew
      <4>6. SumIn(rows, set \cup {dn}, c) = SumIn(db, set, c) + rows[dn][c]
        BY <4>11 DEF Grown
      <4>7. SumIn(rows, NotesTo(rows, i), "qty") = t + q
        BY <1>8, <1>11, <3>1, <3>4, <4>1, <4>6
      <4>8. books[AP(i)] = (o - t) + m
        BY <2>6, <2>9, <3>3, <3>4
      <4>9. (o - t) + m = o - (t + q)
        BY <2>3, <3>2
      <4> QED
        BY <3>3, <4>7, <4>8, <4>9
    <3>5. CASE i # inv
      <4>1. AP(i) \notin DOMAIN add
        BY <2>6, <2>7, <3>5, BooksDiffer
      <4>2. books[AP(i)] = sums[AP(i)]
        BY <1>6, <1>16, <4>1, PostedElsewhere, ShelfFacts
      <4>3. PICK set : set = NotesTo(db, i)
        OBVIOUS
      <4>4. \A x \in set : rows[x]["qty"] = db[x]["qty"]
        BY <1>9, <1>10, <4>3 DEF NotesTo
      <4>5. SumIn(rows, set, "qty") = SumIn(db, set, "qty")
        BY <4>4, SumUnchanged
      <4>6. NotesTo(rows, i) = set
        BY <1>12, <3>5, <4>3
      <4>7. SumIn(rows, NotesTo(rows, i), "qty") = t
        BY <3>1, <4>3, <4>5, <4>6
      <4> QED
        BY <3>3, <4>2, <4>7
    <3> QED
      BY <3>4, <3>5
  <2>17. BillsPosted(rows, books)
    BY <2>16 DEF BillsPosted
  <2> QED
    BY <2>14, <2>15, <2>17 DEF LevelsMatch
<1>17. OneSession => LevelsMatch(Result(put), Posted(add))
  BY <1>6, <1>16
<1> QED
  BY <1>2, <1>15, <1>17, StageKeepsPayables

-----------------------------------------------------------------------------
(* Payables: every step *)

AnyPayables == [goods |-> Nat \ {0}, returns |-> Nat, charges |-> Nat]

LEMMA PayablesStep ==
  ASSUME PayablesInv, NEW s \in Sessions, PayablesHandlers(s, AnyPayables)
  PROVE  PayablesInv'
<1> HIDE DEF Sessions
<1>0. AnyPayables.goods = Nat \ {0} /\ AnyPayables.returns = Nat /\ AnyPayables.charges = Nat
  BY DEF AnyPayables
<1>1. ASSUME NEW po \in Live("PO"), NEW grn \in Rows("GRN"), NEW q \in Nat \ {0}, Fresh(grn), CreateGoodsReceipt(s, po, q, grn)
      PROVE  PayablesInv'
  BY <1>1, CreateGoodsReceiptKeeps
<1>2. ASSUME NEW po \in Live("PO"), NEW inv \in Rows("SINV"), Fresh(inv), CreateSupplierInvoice(s, po, inv)
      PROVE  PayablesInv'
  BY <1>2, CreateSupplierInvoiceKeeps
<1>3. ASSUME NEW grn \in Live("GRN"), NEW rejected \in 0..db[grn].qty, InspectGrn(s, grn, rejected)
      PROVE  PayablesInv'
  BY <1>3, InspectGrnKeeps
<1>4. ASSUME NEW inv \in Live("SINV"), NEW approved \in BOOLEAN, MatchInvoice(s, inv, approved)
      PROVE  PayablesInv'
  BY <1>4, MatchInvoiceKeeps
<1>5. ASSUME NEW inv \in Live("SINV"), NEW dn \in Rows("DN"), NEW q \in Nat, Fresh(dn), IssueDebitNote(s, inv, q, dn)
      PROVE  PayablesInv'
  BY <1>5, IssueDebitNoteKeeps
<1>6. ASSUME NEW lcv \in Rows("LCV"), NEW charges \in Nat, Fresh(lcv), Live("GRN") # {},
             CreateLandedCostVoucher(s, charges, Live("GRN"), lcv)
      PROVE  PayablesInv'
  BY <1>6, CreateLandedCostVoucherKeeps
<1>7. ASSUME NEW lcv \in Rows("LCV"), db[lcv] # NoRow, SubmitLandedCostVoucher(s, lcv)
      PROVE  PayablesInv'
  BY <1>7, SubmitLandedCostVoucherKeeps
<1>8. ASSUME NEW score \in Rows("SCORE"), Fresh(score), CalculateAndGenerateScorecard(s, score)
      PROVE  PayablesInv'
  BY <1>8, ScorecardKeeps
<1> QED
  BY <1>0, <1>1, <1>2, <1>3, <1>4, <1>5, <1>6, <1>7, <1>8 DEF PayablesHandlers

LEMMA PayablesStart ==
  ASSUME PayablesComplete, PayablesAgree, \A s \in Sessions : Free(s)
  PROVE  PayablesInv
<1> HIDE DEF Sessions
<1>1. SupplyTables /\ ShelfTables
  BY DEF PayablesComplete, SupplyTables, ShelfTables
<1>2. \A po : Received(po) = QtyReceived(db, po)
  BY ReceivedIs
<1>3. OrdersStand(db)
  <2> SUFFICES ASSUME NEW po \in Live("PO") PROVE OrderStands(db[po], QtyReceived(db, po))
    BY DEF OrdersStand, Live
  <2>1. Ordered(db[po])
    BY DEF PayablesComplete
  <2>2. Received(po) <= db[po].qty + db[po].over /\ (Status(po) = "COMPLETED") = (Received(po) >= db[po].qty)
    BY DEF PayablesComplete, PayablesAgree, ReceivedWithinOrder
  <2> QED
    BY <1>2, <2>1, <2>2 DEF OrderStands, Status
<1>4. GoodsStand(db)
  BY DEF PayablesComplete, GoodsStand, Live, LiveOrder
<1>5. BillsStand(db)
  <2> SUFFICES ASSUME NEW i \in Live("SINV") PROVE BillStands(db, i)
    BY DEF BillsStand, BillStands, Live
  <2>1. PICK po : po = db[i].po
    OBVIOUS
  <2>2. Bill(db[i]) /\ LiveOrder(db, po) /\ db[i].qty = db[po].qty
    BY <2>1 DEF PayablesComplete, Bill, LiveOrder, Live
  <2>3. \A j \in BillsOf(db, po) : i = j
    BY <2>1 DEF PayablesComplete, BillsOf, Live
  <2>4. db[i].status = "MATCHED" => CoveredByReceipt(db, po, db[i].qty)
    <3>1. ASSUME Status(i) = "MATCHED" PROVE CoveredByReceipt(db, po, db[i].qty)
      <4>1. PICK g \in Of("GRN", "po", po) : Matches(ComparedLines(i, g))
        BY <2>1, <3>1 DEF PayablesComplete
      <4>2. db[i].qty <= db[g].qty
        BY <4>1 DEF Matches, ComparedLines
      <4>3. g \in ReceiptsOf(db, po)
        BY <4>1 DEF Of, Live, ReceiptsOf
      <4> QED
        BY <4>2, <4>3 DEF CoveredByReceipt
    <3> QED
      BY <3>1 DEF Status
  <2> QED
    BY <2>1, <2>2, <2>3, <2>4 DEF BillStands
<1>6. VouchersStand(db)
  BY DEF PayablesComplete, PayablesAgree, ChargesFullyAllocated, VouchersStand, Voucher, Live
<1>7. \A s \in Sessions : req[s] = Idle
  BY DEF Free
<1>8. OneSession => OneByOne
  <2> SUFFICES ASSUME OneSession PROVE LevelsMatch(db, sums)
    BY <1>7 DEF OneByOne
  <2>1. GoodsIn(db) = Live("GRN") /\ NotesIn(db) = Live("DN") /\ \A i : NotesTo(db, i) = Of("DN", "invoice", i)
    BY DEF GoodsIn, NotesIn, NotesTo, Live, Of
  <2>2. Shelf(db[Main]) /\ Shelf(db[Quarantine]) /\ {Main, Quarantine} = Rows("LVL")
        /\ {Sle(Main), Sle(Quarantine)} \cup {AP(i) : i \in Rows("SINV")} \subseteq DOMAIN sums
    BY DEF PayablesComplete
  <2>3. /\ db[Main].current = Total(Live("GRN"), "accepted") - Total(Live("DN"), "qty")
        /\ db[Quarantine].current = Total(Live("GRN"), "rejected")
        /\ \A l \in Live("LVL") : Book(Sle(l)) = db[l].current
    BY DEF PayablesComplete, PayablesAgree, RejectedGoodsAccounted
  <2>4. Main \in Live("LVL") /\ Quarantine \in Live("LVL")
    <3>1. db[Main] # NoRow /\ db[Quarantine] # NoRow
      BY <2>2, NoRowColumns DEF Shelf
    <3> QED
      BY <2>2, <3>1 DEF Live
  <2>5. sums[Sle(Main)] = db[Main].current /\ sums[Sle(Quarantine)] = db[Quarantine].current
    BY <2>2, <2>3, <2>4 DEF Book
  <2>6. LevelsStand(db, sums)
    BY <2>1, <2>2, <2>3, <2>5 DEF LevelsStand, SumIn, Total
  <2>7. NotesStand(db)
    BY <2>1 DEF NotesStand, PayablesComplete
  <2>8. ASSUME NEW i \in Rows("SINV") PROVE sums[AP(i)] = Owed(db[i]) - SumIn(db, NotesTo(db, i), "qty")
    <3>1. CASE i \in Live("SINV")
      <4>1. Book(AP(i)) = (IF Status(i) = "MATCHED" THEN db[i].qty ELSE 0) - Total(Of("DN", "invoice", i), "qty")
        BY <3>1 DEF PayablesAgree, PaidForReceived
      <4>2. Book(AP(i)) = sums[AP(i)]
        BY <2>2 DEF Book
      <4> QED
        BY <2>1, <4>1, <4>2 DEF Owed, Status, SumIn, Total
    <3>2. CASE i \notin Live("SINV")
      <4>1. db[i] = NoRow /\ sums[AP(i)] = 0
        BY <3>2 DEF Live, PayablesComplete
      <4>2. NotesTo(db, i) = {}
        BY <2>1, <3>2 DEF PayablesComplete, NotesTo
      <4>3. SumIn(db, NotesTo(db, i), "qty") = 0
        BY <4>2, SumInNone
      <4> QED
        BY <4>1, <4>3, NoRowColumns DEF Owed
    <3> QED
      BY <3>1, <3>2
  <2>9. BillsPosted(db, sums)
    BY <2>8 DEF BillsPosted
  <2> QED
    BY <2>6, <2>7, <2>9 DEF LevelsMatch
<1>9. MarksStand(db)
  BY DEF PayablesComplete, MarksStand, Marks, Live
<1>10. LocksApart /\ InsertsApart
  BY <1>7 DEF LocksApart, InsertsApart
<1>11. SupplyStands(db)
  BY <1>3, <1>4, <1>5, <1>6, <1>9 DEF SupplyStands
<1> QED
  BY <1>1, <1>7, <1>8, <1>10, <1>11 DEF PayablesInv, SupplyInv

\* The one matched invoice of an order is covered by one of its receipts.
LEMMA MatchedWithinReceived ==
  ASSUME PayablesInv, NEW po
  PROVE  Total({i \in Of("SINV", "po", po) : Status(i) = "MATCHED"}, "qty") <= Received(po)
<1>1. PICK S, f : S = {i \in Of("SINV", "po", po) : Status(i) = "MATCHED"} /\ f = [i \in S |-> db[i]["qty"]]
  OBVIOUS
<1>2. Received(po) = QtyReceived(db, po) /\ QtyReceived(db, po) \in Nat
  BY ReceivedIs, ReceivedFacts DEF PayablesInv
<1>3. CASE S = {}
  <2>1. Total(S, "qty") = 0
    BY <1>1, <1>3, SumEmpty DEF Total
  <2> QED
    BY <1>1, <1>2, <2>1
<1>4. ASSUME NEW i \in S PROVE Total(S, "qty") <= Received(po)
  <2>1. i \in BillsOf(db, po) /\ i \in Rows("SINV") /\ db[i] # NoRow /\ db[i].po = po /\ db[i].status = "MATCHED"
    BY <1>1, <1>4 DEF BillsOf, Of, Live, Status
  <2>2. S \subseteq BillsOf(db, po)
    BY <1>1 DEF BillsOf, Of, Live
  <2>3. \A j \in BillsOf(db, po) : i = j
    BY <2>1 DEF PayablesInv, SupplyInv, SupplyStands, BillsStand
  <2>4. S = {i}
    BY <1>4, <2>2, <2>3
  <2>5. PICK q : q = db[i].qty
    OBVIOUS
  <2>6. CoveredByReceipt(db, po, q)
    BY <2>1, <2>5 DEF PayablesInv, SupplyInv, SupplyStands, BillsStand
  <2>7. PICK g \in ReceiptsOf(db, po) : q <= db[g].qty
    BY <2>6 DEF CoveredByReceipt
  <2>8. db[g].qty <= QtyReceived(db, po) /\ db[g].qty \in Int
    <3>1. ReceiptRow(db[g])
      BY <2>7 DEF PayablesInv, SupplyInv, SupplyStands, GoodsStand, ReceiptsOf
    <3>2. db[g].qty <= QtyReceived(db, po)
      BY ReceivedFacts DEF PayablesInv
    <3> QED
      BY <3>1, <3>2 DEF ReceiptRow
  <2>9. q \in Int
    <3>1. db[i].qty = db[po].qty /\ LiveOrder(db, po)
      BY <2>1 DEF PayablesInv, SupplyInv, SupplyStands, BillsStand
    <3>2. Ordered(db[po])
      BY <3>1 DEF PayablesInv, SupplyInv, SupplyStands, OrdersStand, OrderStands, LiveOrder
    <3> QED
      BY <2>5, <3>1, <3>2 DEF Ordered
  <2>10. f[i] = q /\ f[i] \in Int
    BY <1>1, <1>4, <2>5, <2>9
  <2>11. SumFunctionOnSet(f, {i}) = q
    BY <2>10, SumOne
  <2>12. Total(S, "qty") = q
    BY <1>1, <2>4, <2>11 DEF Total
  <2> QED
    BY <1>2, <2>7, <2>8, <2>9, <2>12
<1> QED
  BY <1>1, <1>3, <1>4

LEMMA PayablesInvAgrees == ASSUME PayablesInv PROVE PayablesAgree
<1>1. ReceivedWithinOrder
  <2> SUFFICES ASSUME NEW po \in Live("PO")
               PROVE  /\ Received(po) <= db[po].qty + db[po].over
                      /\ (Status(po) = "COMPLETED") = (Received(po) >= db[po].qty)
    BY DEF ReceivedWithinOrder
  <2>1. OrderStands(db[po], QtyReceived(db, po))
    BY DEF PayablesInv, SupplyInv, SupplyStands, OrdersStand, Live
  <2> QED
    BY <2>1, ReceivedIs DEF OrderStands, Status
<1>2. GoodsIn(db) = Live("GRN") /\ NotesIn(db) = Live("DN") /\ \A i : NotesTo(db, i) = Of("DN", "invoice", i)
  BY DEF GoodsIn, NotesIn, NotesTo, Live, Of
<1>3. RejectedGoodsAccounted
  <2> SUFFICES ASSUME OneSession
               PROVE  /\ db[Main].current = Total(Live("GRN"), "accepted") - Total(Live("DN"), "qty")
                      /\ db[Quarantine].current = Total(Live("GRN"), "rejected")
                      /\ \A l \in Live("LVL") : Book(Sle(l)) = db[l].current
                      /\ \A sc \in Live("SCORE") : db[sc].rejected > 0 => db[sc].quality < 100
    BY DEF RejectedGoodsAccounted
  <2>1. LevelsStand(db, sums)
    BY ShelfFacts
  <2>2. \A l \in Live("LVL") : Book(Sle(l)) = db[l].current
    BY <2>1 DEF LevelsStand, Book, PayablesInv, ShelfTables, Live
  <2>3. \A sc \in Live("SCORE") : db[sc].rejected > 0 => db[sc].quality < 100
    BY DEF PayablesInv, SupplyInv, SupplyStands, MarksStand, Marks, Live
  <2>4. /\ db[Main].current = Total(Live("GRN"), "accepted") - Total(Live("DN"), "qty")
        /\ db[Quarantine].current = Total(Live("GRN"), "rejected")
    BY <1>2, <2>1 DEF LevelsStand, SumIn, Total
  <2> QED
    BY <2>2, <2>3, <2>4
<1>4. PaidForReceived
  <2>1. ASSUME OneSession, NEW inv \in Live("SINV")
        PROVE  Book(AP(inv)) = (IF Status(inv) = "MATCHED" THEN db[inv].qty ELSE 0) - Total(Of("DN", "invoice", inv), "qty")
    <3>1. inv \in Rows("SINV") /\ AP(inv) \in DOMAIN sums
      BY DEF Live, PayablesInv, ShelfTables
    <3>2. sums[AP(inv)] = Owed(db[inv]) - SumIn(db, NotesTo(db, inv), "qty")
      BY <2>1, <3>1, ShelfFacts DEF BillsPosted
    <3> QED
      BY <1>2, <3>1, <3>2 DEF Book, Owed, Status, SumIn, Total
  <2>2. \A po \in Live("PO") : Total({i \in Of("SINV", "po", po) : Status(i) = "MATCHED"}, "qty") <= Received(po)
    BY MatchedWithinReceived
  <2> QED
    BY <2>1, <2>2 DEF PaidForReceived
<1>5. ChargesFullyAllocated
  BY DEF ChargesFullyAllocated, PayablesInv, SupplyInv, SupplyStands, VouchersStand, Voucher, Live
<1> QED
  BY <1>1, <1>3, <1>4, <1>5 DEF PayablesAgree

\* The invariant that payables rest on holds whatever amounts are asked for
\* and however many requests overlap.
THEOREM PayablesInvariance == PayablesSpec => []PayablesInv
<1>1. PayablesSpec => PayablesInv
  BY PayablesStart DEF PayablesSpec
<1>2. PayablesInv /\ [\E s \in Sessions :
                        EndOfRequest(s) \/ PayablesHandlers(s, [goods |-> Nat \ {0}, returns |-> Nat, charges |-> Nat])]_vars
        => PayablesInv'
  <2> SUFFICES ASSUME PayablesInv,
                      [\E s \in Sessions : EndOfRequest(s) \/ PayablesHandlers(s, [goods |-> Nat \ {0}, returns |-> Nat, charges |-> Nat])]_vars
               PROVE  PayablesInv'
    OBVIOUS
  <2>1. ASSUME NEW s \in Sessions, EndOfRequest(s) PROVE PayablesInv'
    BY <2>1, CommitKeepsPayables, RollbackKeepsPayables DEF EndOfRequest
  <2>2. ASSUME NEW s \in Sessions, PayablesHandlers(s, [goods |-> Nat \ {0}, returns |-> Nat, charges |-> Nat]) PROVE PayablesInv'
    BY <2>2, PayablesStep DEF AnyPayables
  <2>3. CASE UNCHANGED vars
    BY <2>3, IdlePayables
  <2> QED
    BY <2>1, <2>2, <2>3
<1> QED
  BY <1>1, <1>2, PTL DEF PayablesSpec

\* Receipts stay within their orders, invoices are matched and posted for
\* received goods only, shelves and books agree, and vouchers give out all of
\* their charges.
THEOREM ReceiptsAndBillsAgree == PayablesSpec => []PayablesAgree
<1>1. PayablesInv => PayablesAgree
  BY PayablesInvAgrees
<1> QED
  BY <1>1, PayablesInvariance, PTL

=============================================================================
