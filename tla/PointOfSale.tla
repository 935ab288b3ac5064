----------------------------- MODULE PointOfSale -----------------------------
(***************************************************************************)
(* The point of sale (pos_service.py): cashier shifts, register sales with *)
(* one or several tenders, returns against a receipt, parked carts, the    *)
(* closing of a shift and the consolidation of its receipts.  No handler   *)
(* takes a lock (bundles, which lock their component levels, are left      *)
(* out); every receipt has one line of one item at price Price, tax        *)
(* included.                                                               *)
(*                                                                         *)
(* Rows: SHIFT [status, user]; POS [status, shift, qty, total, paid,       *)
(* method, source, cash, posted, merged] a receipt or a return (source is  *)
(* its receipt); CART [status]; CLOSE [status, shift, cash] the closing    *)
(* entry; MERGE [status, shift, sales, returns, count] the consolidated    *)
(* sales invoice, credit note and merge log of one consolidation.          *)
(* Books: "TILL" the operating-cash account; "SLE" the stock ledger of a   *)
(* level.                                                                  *)
(***************************************************************************)
EXTENDS Database

Price == 2
Till == <<"TILL", 1>>

OpenShift(s, user, shift) ==
  /\ \A x \in Live("SHIFT") : ~(db[x].user = user /\ Status(x) = "OPEN")
  /\ Stage(s, shift :> [status |-> "OPEN", user |-> user], Nothing, {})

Move(level, q) ==
  level :> [current |-> db[level].current + q, available |-> db[level].available + q]

\* Mutant of CashTaken: the change is not credited back.
CashTendered(tender, paid, total) ==
  IF tender = "SPLIT" THEN paid - 1 ELSE IF tender = "CASH" THEN total ELSE 0

\* What a sale adds to the till: all of a cash sale, of a split tender the
\* cash part (here all but one unit) less the change.
CashTaken(tender, paid, total) ==
  LET change == IF paid > total THEN paid - total ELSE 0 IN
  IF tender = "SPLIT" THEN paid - 1 - change ELSE IF tender = "CASH" THEN total ELSE 0

\* A split that does not cover the total is an unbalanced journal; the
\* ledger refuses it and the exception is swallowed: paid, but not posted.
ProcessPosSale(s, shift, q, tender, paid, receipt, level) ==
  LET total  == Price * q
      posted == tender = "SPLIT" => paid >= total
      cash   == IF posted THEN CashTaken(tender, paid, total) ELSE 0
  IN /\ Status(shift) = "OPEN"
     /\ Stage(s,
          receipt :> [status |-> "PAID", shift |-> shift, qty |-> q, total |-> total, paid |-> paid,
                      method |-> tender, source |-> NoRef, cash |-> cash, posted |-> posted,
                      merged |-> NoRef]
            @@ Move(level, -q),
          Till :> cash @@ Sle(level) :> -q, {})

ReturnedQty(receipt) == Total(Of("POS", "source", receipt), "qty")

\* Mutant of CanReturn: earlier returns are not counted.
CanReturnAgain(receipt, q) == q <= db[receipt].qty

CanReturn(receipt, q) == ReturnedQty(receipt) + q <= db[receipt].qty

\* A return on any open shift, paid out of the till however it was paid.
ProcessPosReturn(s, shift, receipt, q, ret, level) ==
  /\ Status(shift) = "OPEN"
  /\ Status(receipt) = "PAID"
  /\ CanReturn(receipt, q)
  /\ LET total == (db[receipt].total * q) \div db[receipt].qty IN
     Stage(s,
       ret :> [status |-> "RETURNED", shift |-> shift, qty |-> q, total |-> total, paid |-> total,
               method |-> "CASH", source |-> receipt, cash |-> -total, posted |-> TRUE,
               merged |-> NoRef]
         @@ Move(level, q),
       Till :> -total @@ Sle(level) :> q, {})

ParkCart(s, cart) == Stage(s, cart :> [status |-> "PARKED"], Nothing, {})
RestoreParkedCart(s, cart) == Stage(s, cart :> [status |-> "RESTORED"], Nothing, {})
DeleteParkedCart(s, cart) == Stage(s, cart :> NoRow, Nothing, {})

ShiftSales(shift) == {r \in Of("POS", "shift", shift) : Status(r) = "PAID"}
CashSales(shift) == Total({r \in ShiftSales(shift) : db[r].method = "CASH"}, "total")

\* The closing entry adds up the sales; returns are not subtracted and the
\* status of the shift is not looked at.
CloseShift(s, shift, closing) ==
  Stage(s,
    closing :> [status |-> "SUBMITTED", shift |-> shift, cash |-> CashSales(shift)]
      @@ shift :> [status |-> "CLOSED"],
    Nothing, {})

\* Mutant of Unconsolidated: every receipt of the shift.
AllReceipts(shift) == Of("POS", "shift", shift)

Unconsolidated(shift) == {r \in Of("POS", "shift", shift) : db[r].merged = NoRef}

ConsolidateShiftInvoices(s, shift, merge) ==
  LET all   == Unconsolidated(shift)
      sales == {r \in all : Status(r) = "PAID"}
  IN /\ all # {}
     /\ Stage(s,
          [r \in all |-> [merged |-> merge]]
            @@ merge :> [status |-> "PAID", shift |-> shift, sales |-> Total(sales, "total"),
                         returns |-> Total(all \ sales, "total"), count |-> Cardinality(all)],
          Nothing, {})

\* A sale is a quantity, a tender and what is paid.
PosHandlers(s, users, sales, returned) ==
  \/ \E shift \in Rows("SHIFT"), user \in users : Fresh(shift) /\ OpenShift(s, user, shift)
  \/ \E shift \in Live("SHIFT"), receipt \in Rows("POS"), level \in Live("LVL") :
       /\ Fresh(receipt)
       /\ \/ \E sale \in sales : ProcessPosSale(s, shift, sale.qty, sale.tender, sale.paid, receipt, level)
          \/ \E sold \in Live("POS"), q \in returned : ProcessPosReturn(s, shift, sold, q, receipt, level)
  \/ \E shift \in Live("SHIFT") :
       \/ \E c \in Rows("CLOSE") : Fresh(c) /\ CloseShift(s, shift, c)
       \/ \E m \in Rows("MERGE") : Fresh(m) /\ ConsolidateShiftInvoices(s, shift, m)
  \/ \E cart \in Rows("CART") :
       \/ Fresh(cart) /\ ParkCart(s, cart)
       \/ db[cart] # NoRow /\ (RestoreParkedCart(s, cart) \/ DeleteParkedCart(s, cart))

Tenders == {"CASH", "CARD", "SPLIT"}

\* The exact amount or a unit more, and a split that falls short.
PosNext(s) ==
  LET paid(q) == {Price * q, Price * q + 1}
      full    == UNION {[qty : {q}, tender : Tenders, paid : paid(q)] : q \in 1..2}
  IN PosHandlers(s, {"cashier"}, full \cup {[qty |-> 2, tender |-> "SPLIT", paid |-> Price]}, 1..2)

-----------------------------------------------------------------------------
(* Properties *)

\* One receipt is never returned more than it sold, over all its returns,
\* on whichever shift they were made.
ReceiptReturnedOnce ==
  \A r \in Live("POS") : Status(r) = "PAID" => ReturnedQty(r) <= db[r].qty

\* What a posted receipt brings to the till, of a split tender the part paid
\* in cash; a refund takes its own out.
TillShare(row) ==
  IF row.status = "RETURNED" THEN -row.total
  ELSE IF row.method = "CASH" THEN row.total
  ELSE IF row.method = "SPLIT" /\ row.paid >= row.total THEN row.total - 1 ELSE 0

\* The till account and the stock ledger follow the receipts.
BooksMatchReceipts ==
  Till \in DOMAIN sums =>
  /\ Book(Till) = SumFunctionOnSet([r \in Live("POS") |-> TillShare(db[r])], Live("POS"))
  /\ \A l \in Live("LVL") : Book(Sle(l)) = db[l].current - db[l].opening

\* A consolidated invoice is worth exactly the receipts that point to it:
\* consolidating an open shift, and again after more sales, counts no
\* receipt twice and leaves none out.
ConsolidatedOnce ==
  \A m \in Live("MERGE") :
    LET in == Of("POS", "merged", m) IN
    /\ db[m].count = Cardinality(in)
    /\ db[m].sales = Total({r \in in : Status(r) = "PAID"}, "total")
    /\ db[m].returns = Total({r \in in : Status(r) = "RETURNED"}, "total")

\* A register's receipts, returns, cash and consolidated invoices agree.
TillsAgree == BooksMatchReceipts /\ ReceiptReturnedOnce /\ ConsolidatedOnce

Receipt(row) ==
  /\ {"status", "shift", "qty", "total", "paid", "method", "source", "merged"} \subseteq DOMAIN row
  /\ row.qty \in Nat \ {0} /\ row.total \in Int /\ row.paid \in Int
  /\ row.status \in {"PAID", "RETURNED"}

Merged(row) == {"status", "count", "sales", "returns"} \subseteq DOMAIN row
Shelved(row) == {"status", "current", "available", "opening"} \subseteq DOMAIN row /\ row.current \in Int /\ row.opening \in Int

\* Rows are complete and refer to committed rows, and every level has its books.
RegisterComplete ==
  /\ IsFiniteSet(Rows("POS"))
  /\ \A r \in Live("POS") :
       /\ Receipt(db[r])
       /\ db[r].source = NoRef \/ db[r].source \in Live("POS")
       /\ db[r].merged = NoRef \/ db[r].merged \in Live("MERGE")
  /\ \A m \in Live("MERGE") : Merged(db[m])
  /\ \A l \in Live("LVL") : Shelved(db[l]) /\ Sle(l) \in DOMAIN sums
  /\ Till \in DOMAIN sums

\* Any shifts, quantities and amounts paid.
PosSpec ==
  /\ RegisterComplete /\ TillsAgree /\ \A s \in Sessions : Free(s)
  /\ [][\E s \in Sessions :
          \/ EndOfRequest(s)
          \/ PosHandlers(s, STRING, [qty : Nat \ {0}, tender : Tenders, paid : Nat], Nat \ {0})]_vars
=============================================================================
