----------------------------- MODULE SalesOrders -----------------------------
(***************************************************************************)
(* Quotation to order to delivery to invoice (api/routes/commercial.py,    *)
(* and the order intake of api/routes/webhooks.py) for one customer, one   *)
(* item and one warehouse, with the row locks the handlers take.           *)
(*                                                                         *)
(* A handler that takes one row lock and then only the stock row is one    *)
(* step.  The handlers that hold one row while they wait for another take  *)
(* a step per lock and per sum they read; a guard that fails makes them    *)
(* give up, which releases their locks and changes nothing.                *)
(***************************************************************************)
EXTENDS Integers, FiniteSets, FiniteSetsExt

CONSTANTS
  Quotes,
  Orders,
  Notes,       \* delivery notes; a note has at most one invoice
  Customer,    \* the customer row, as a lock
  None,        \* no order, quotation, session
  Sessions,    \* requests in progress at the same time
  Quantity,    \* the quantity, and amount, of every order
  CreditLimit,
  Opening      \* the opening stock

ASSUME SalesAssumption ==
  /\ Quantity \in Nat \ {0}
  /\ CreditLimit \in Nat
  /\ Opening \in Nat
  /\ IsFiniteSet(Orders) /\ IsFiniteSet(Notes)
  /\ None \notin Quotes \cup Orders \cup Notes \cup Sessions \cup {Customer}
  /\ Quotes \cap Orders = {} /\ Quotes \cap Notes = {} /\ Orders \cap Notes = {}
  /\ Customer \notin Quotes \cup Orders \cup Notes

VARIABLES
  quote,     \* quote[q]: the quotation's status
  order,     \* order[o]: the order's row, its line folded in
  note,      \* note[n]: the delivery note's row, its invoice folded in
  current,   \* the stock row: current_qty
  reserved,  \* the stock row: reserved_qty
  lock,      \* lock[x]: the session that holds row x
  sess       \* sess[s]: how far the request of session s got

tables == <<quote, order, note, current, reserved>>
salesVars == <<tables, lock, sess>>

Rows == Quotes \cup Orders \cup Notes \cup {Customer}
Status == {"NONE", "PENDING_CONFIRMATION", "CONFIRMED", "PARTIALLY_DELIVERED", "DELIVERED", "CANCELLED"}

OrderRow == [status: Status, from: Orders \cup {None}, source: Quotes \cup {None},
             delivered: 0..Quantity, invoiced: 0..Quantity]
NoteRow == [order: Orders \cup {None}, qty: 0..Quantity, invoiced: BOOLEAN]

NoOrder == [status |-> "NONE", from |-> None, source |-> None, delivered |-> 0, invoiced |-> 0]
NoNote == [order |-> None, qty |-> 0, invoiced |-> FALSE]
Idle == [at |-> "idle", row |-> None, invoices |-> 0]

Steps == {"idle", "convertCustomer", "convertSum", "convertReserve",
          "confirmOriginal", "confirmCustomer", "confirmSum", "confirmReserve",
          "cancel", "invoice"}

SalesTypeOK ==
  /\ quote \in [Quotes -> {"SENT", "ACCEPTED"}]
  /\ order \in [Orders -> OrderRow]
  /\ note \in [Notes -> NoteRow]
  /\ current \in 0..Opening
  /\ reserved \in 0..current
  /\ lock \in [Rows -> Sessions \cup {None}]
  /\ sess \in [Sessions -> [at: Steps, row: Rows \cup {None}, invoices: Nat]]

SalesInit ==
  /\ quote = [q \in Quotes |-> "SENT"]
  /\ order = [o \in Orders |-> NoOrder]
  /\ note = [n \in Notes |-> NoNote]
  /\ current = Opening
  /\ reserved = 0
  /\ lock = [x \in Rows |-> None]
  /\ sess = [s \in Sessions |-> Idle]

-----------------------------------------------------------------------------
(* Row locks and the end of a request. *)

Free(x) == lock[x] = None
Lock(s, x) == Free(x) /\ lock' = [lock EXCEPT ![x] = s]
ReleaseAll(s) == lock' = [x \in Rows |-> IF lock[x] = s THEN None ELSE lock[x]]
Goto(s, at) == sess' = [sess EXCEPT ![s].at = at]
Open(s, at, x) == sess' = [sess EXCEPT ![s] = [Idle EXCEPT !.at = at, !.row = x]]
End(s) == ReleaseAll(s) /\ sess' = [sess EXCEPT ![s] = Idle]

\* HTTPException: the session rolls back.
Reject(s) == End(s) /\ UNCHANGED tables

\* Steps that only take a lock or read a sum.
Reading == UNCHANGED tables

-----------------------------------------------------------------------------
(* Credit. *)

TotalOf(statuses, besides) ==
  Quantity * Cardinality({o \in Orders \ besides : order[o].status \in statuses})

\* SalesInvoice not PAID or CANCELLED; payments are not modelled.
OpenInvoices == SumFunction([n \in Notes |-> IF note[n].invoiced THEN note[n].qty ELSE 0])

\* The two handlers count different orders as open.
OpenAtConvert == TotalOf({"PENDING_CONFIRMATION", "CONFIRMED", "PARTIALLY_DELIVERED"}, {})
OpenAtConfirm(o) == TotalOf({"PENDING_CONFIRMATION", "CONFIRMED"}, {o})

WithinCredit(s, others) == sess[s].invoices + others + Quantity <= CreditLimit

\* Mutant of CustomerStep: the customer row is read without FOR UPDATE.
CustomerUnlocked(s, at, next) ==
  /\ sess[s].at = at
  /\ sess' = [sess EXCEPT ![s].at = next, ![s].invoices = OpenInvoices]
  /\ UNCHANGED lock
  /\ Reading

\* Lock the customer row, then sum its open invoices.
CustomerStep(s, at, next) ==
  /\ sess[s].at = at
  /\ Lock(s, Customer)
  /\ sess' = [sess EXCEPT ![s].at = next, ![s].invoices = OpenInvoices]
  /\ Reading

\* Sum the open orders; give up when the limit is exceeded.
SumStep(s, at, others, next) ==
  /\ sess[s].at = at
  /\ IF WithinCredit(s, others) THEN Goto(s, next) /\ UNCHANGED <<tables, lock>>
                                ELSE Reject(s)

\* Mutant of CanReserve: what is already reserved is not subtracted.
CanReserveOnHand == current >= Quantity

\* The stock row is locked, fresh, until the request commits.
CanReserve == current - reserved >= Quantity

-----------------------------------------------------------------------------
(* convert_quote_to_order *)

\* Mutant of ConvertOpen: the quotation is read without FOR UPDATE.
ConvertUnlocked(s, q) ==
  /\ sess[s].at = "idle"
  /\ quote[q] = "SENT"
  /\ Open(s, "convertCustomer", q)
  /\ UNCHANGED lock
  /\ Reading

ConvertOpen(s, q) ==
  /\ sess[s].at = "idle"
  /\ Lock(s, q)
  /\ quote[q] = "SENT"
  /\ Open(s, "convertCustomer", q)
  /\ Reading

\* The order is created CONFIRMED with its stock reserved.
ConvertReserve(s, o) ==
  /\ sess[s].at = "convertReserve"
  /\ order[o] = NoOrder
  /\ IF CanReserve
     THEN /\ order' = [order EXCEPT ![o] =
                         [NoOrder EXCEPT !.status = "CONFIRMED", !.source = sess[s].row]]
          /\ quote' = [quote EXCEPT ![sess[s].row] = "ACCEPTED"]
          /\ reserved' = reserved + Quantity
          /\ End(s)
          /\ UNCHANGED <<note, current>>
     ELSE Reject(s)

Convert(s) ==
  \/ \E q \in Quotes : ConvertOpen(s, q)
  \/ CustomerStep(s, "convertCustomer", "convertSum")
  \/ SumStep(s, "convertSum", OpenAtConvert, "convertReserve")
  \/ \E o \in Orders : ConvertReserve(s, o)

-----------------------------------------------------------------------------
(* confirm_pending_sales_order *)

\* Mutant of ConfirmOpen: the order is read without FOR UPDATE.
ConfirmUnlocked(s, o) ==
  /\ sess[s].at = "idle"
  /\ order[o].status = "PENDING_CONFIRMATION"
  /\ Open(s, IF order[o].from = None THEN "confirmCustomer" ELSE "confirmOriginal", o)
  /\ UNCHANGED lock
  /\ Reading

ConfirmOpen(s, o) ==
  /\ sess[s].at = "idle"
  /\ Lock(s, o)
  /\ order[o].status = "PENDING_CONFIRMATION"
  /\ Open(s, IF order[o].from = None THEN "confirmCustomer" ELSE "confirmOriginal", o)
  /\ Reading

\* Mutant of ConfirmOriginal: the status of the original is not looked at.
ConfirmAnyway(s) ==
  /\ sess[s].at = "confirmOriginal"
  /\ Lock(s, order[sess[s].row].from)
  /\ Goto(s, "confirmCustomer")
  /\ Reading

\* "Cancel the original sales order before confirming its amendment."
ConfirmOriginal(s) ==
  LET original == order[sess[s].row].from IN
  /\ sess[s].at = "confirmOriginal"
  /\ Free(original)
  /\ IF order[original].status = "CANCELLED"
     THEN Lock(s, original) /\ Goto(s, "confirmCustomer") /\ Reading
     ELSE Reject(s)

ConfirmReserve(s) ==
  /\ sess[s].at = "confirmReserve"
  /\ IF CanReserve
     THEN /\ order' = [order EXCEPT ![sess[s].row].status = "CONFIRMED"]
          /\ reserved' = reserved + Quantity
          /\ End(s)
          /\ UNCHANGED <<quote, note, current>>
     ELSE Reject(s)

Confirm(s) ==
  \/ \E o \in Orders : ConfirmOpen(s, o)
  \/ ConfirmOriginal(s)
  \/ CustomerStep(s, "confirmCustomer", "confirmSum")
  \/ SumStep(s, "confirmSum", OpenAtConfirm(sess[s].row), "confirmReserve")
  \/ ConfirmReserve(s)

-----------------------------------------------------------------------------
(* cancel_sales_order *)

\* Mutant of Cancellable: orders with deliveries can be cancelled.
CancellableLate(o) == order[o].status \notin {"NONE", "CANCELLED", "DELIVERED"}

Cancellable(o) == order[o].status \in {"PENDING_CONFIRMATION", "CONFIRMED"}

CancelOpen(s, o) ==
  /\ sess[s].at = "idle"
  /\ Lock(s, o)
  /\ Cancellable(o)
  /\ Open(s, "cancel", o)
  /\ Reading

Remaining(o) == Quantity - order[o].delivered
NotesOf(o) == {n \in Notes : note[n].order = o}

\* Mutant of GiveBack: pending orders give stock back too.
GiveBackAlways(o) == Remaining(o)

\* The reservation a cancelled order releases.
GiveBack(o) == IF order[o].status = "CONFIRMED" THEN Remaining(o) ELSE 0

\* Its delivery notes are locked too: one that exists refuses the cancellation.
CancelCommit(s) ==
  LET o == sess[s].row IN
  /\ sess[s].at = "cancel"
  /\ \A n \in NotesOf(o) : Free(n)
  /\ IF NotesOf(o) = {} /\ reserved >= GiveBack(o)
     THEN /\ order' = [order EXCEPT ![o].status = "CANCELLED"]
          /\ reserved' = reserved - GiveBack(o)
          /\ End(s)
          /\ UNCHANGED <<quote, note, current>>
     ELSE Reject(s)

Cancel(s) == CancelCommit(s) \/ \E o \in Orders : CancelOpen(s, o)

-----------------------------------------------------------------------------
(* Intake, amend and fulfil: one order or customer lock, then the stock. *)

\* The order intake of webhooks.py creates a draft without a credit check.
Intake(o) ==
  /\ order[o] = NoOrder
  /\ Free(Customer)
  /\ order' = [order EXCEPT ![o].status = "PENDING_CONFIRMATION"]
  /\ UNCHANGED <<quote, note, current, reserved, lock, sess>>

\* amend_sales_order: a pending copy, the original is left as it is.
Amend(o, revision) ==
  /\ Free(o)
  /\ order[o].status \in {"PENDING_CONFIRMATION", "CONFIRMED"}
  /\ order[revision] = NoOrder
  /\ order' = [order EXCEPT ![revision] =
                 [NoOrder EXCEPT !.status = "PENDING_CONFIRMATION", !.from = o,
                                 !.source = order[o].source]]
  /\ UNCHANGED <<quote, note, current, reserved, lock, sess>>

StockAfterDelivery(q) == current' = current - q /\ reserved' = Max({0, reserved - q})

\* fulfill_sales_order: part or all of what is undelivered, on one note.
Fulfil(o, n, q) ==
  /\ Free(o)
  /\ order[o].status \in {"CONFIRMED", "PARTIALLY_DELIVERED"}
  /\ note[n] = NoNote
  /\ q \in 1..Remaining(o)
  /\ current >= q
  /\ reserved >= q
  /\ note' = [note EXCEPT ![n] = [order |-> o, qty |-> q, invoiced |-> FALSE]]
  /\ order' = [order EXCEPT ![o].delivered = @ + q,
                            ![o].status = IF q = Remaining(o) THEN "DELIVERED" ELSE "PARTIALLY_DELIVERED"]
  /\ StockAfterDelivery(q)
  /\ UNCHANGED <<quote, lock, sess>>

-----------------------------------------------------------------------------
(* create_sales_invoice_from_delivery *)

InvoiceOpen(s, n) ==
  /\ sess[s].at = "idle"
  /\ Lock(s, n)
  /\ note[n] # NoNote
  /\ ~note[n].invoiced
  /\ Open(s, "invoice", n)
  /\ Reading

\* Mutant of InvoiceCommit: the line's invoiced_quantity is not advanced.
InvoiceUncounted(s) ==
  /\ sess[s].at = "invoice"
  /\ Free(note[sess[s].row].order)
  /\ note' = [note EXCEPT ![sess[s].row].invoiced = TRUE]
  /\ End(s)
  /\ UNCHANGED <<quote, order, current, reserved>>

InvoiceCommit(s) ==
  LET n == sess[s].row
      o == note[n].order IN
  /\ sess[s].at = "invoice"
  /\ Free(o)
  /\ IF /\ order[o].status \in {"PARTIALLY_DELIVERED", "DELIVERED"}
        /\ order[o].invoiced + note[n].qty <= order[o].delivered
     THEN /\ note' = [note EXCEPT ![n].invoiced = TRUE]
          /\ order' = [order EXCEPT ![o].invoiced = @ + note[n].qty]
          /\ End(s)
          /\ UNCHANGED <<quote, current, reserved>>
     ELSE Reject(s)

Invoice(s) == InvoiceCommit(s) \/ \E n \in Notes : InvoiceOpen(s, n)

-----------------------------------------------------------------------------
\* The client disconnects, the process dies or a statement fails.
Abort(s) == sess[s].at # "idle" /\ Reject(s)

SalesNext ==
  \/ \E s \in Sessions : Convert(s) \/ Confirm(s) \/ Cancel(s) \/ Invoice(s) \/ Abort(s)
  \/ \E o \in Orders :
       \/ Intake(o)
       \/ \E revision \in Orders : Amend(o, revision)
       \/ \E n \in Notes, q \in 1..Quantity : Fulfil(o, n, q)

SalesSpec == SalesInit /\ [][SalesNext]_salesVars

-----------------------------------------------------------------------------
(* Properties. *)

\* What order o has reserved and not delivered.
Owed(o) == IF order[o].status \in {"CONFIRMED", "PARTIALLY_DELIVERED"} THEN Remaining(o) ELSE 0

\* reserved_qty is exactly what confirmed and partly delivered orders still
\* have to deliver, whichever handlers ran side by side.
ReservedIsOwed == reserved = SumFunction([o \in Orders |-> Owed(o)])

\* What note n delivered of order o, and what was invoiced of that.
Delivered(o, n) == IF note[n].order = o THEN note[n].qty ELSE 0
Invoiced(o, n) == IF note[n].invoiced THEN Delivered(o, n) ELSE 0

\* The order's counters are the sums of its notes and of their invoices, so no
\* delivery is invoiced twice, and what left the stock is on the notes.
CountersMatchNotes ==
  /\ \A o \in Orders :
       /\ order[o].delivered = SumFunction([n \in Notes |-> Delivered(o, n)])
       /\ order[o].invoiced = SumFunction([n \in Notes |-> Invoiced(o, n)])
  /\ Opening - current = SumFunction([n \in Notes |-> note[n].qty])

\* A cancelled order is never revived and a delivered one never reopened, by
\* no request that looked at it before.
OrderFinality ==
  [][\A o \in Orders : order[o].status \in {"CANCELLED", "DELIVERED"} =>
                        order'[o].status = order[o].status]_salesVars

\* "Convert an unexpired quote once": at most one order comes from a quotation
\* other than as an amendment.
QuoteConvertedOnce ==
  \A q \in Quotes : Cardinality({o \in Orders : order[o].source = q /\ order[o].from = None}) <= 1

\* An amendment is confirmed, delivered or invoiced only in place of an
\* original that is cancelled and stays so.
AmendmentReplaces ==
  \A o \in Orders :
    (order[o].from # None /\ order[o].status \in {"CONFIRMED", "PARTIALLY_DELIVERED", "DELIVERED"})
      => order[order[o].from].status = "CANCELLED"

\* Stock, counters and orders agree, through conversions and amendments.
OrdersAgree == SalesTypeOK /\ ReservedIsOwed /\ CountersMatchNotes /\ QuoteConvertedOnce /\ AmendmentReplaces

\* The confirmed, undelivered orders of a customer never exceed the credit
\* limit, though every request checks it on sums read earlier.
ConfirmedWithinCredit == TotalOf({"CONFIRMED"}, {}) <= CreditLimit

\* The rows a session waits for while it holds others.
Awaited(s) ==
  {x \in Rows :
     \/ sess[s].at \in {"convertCustomer", "confirmCustomer"} /\ x = Customer
     \/ sess[s].at = "confirmOriginal" /\ x = order[sess[s].row].from
     \/ sess[s].at = "cancel" /\ x \in NotesOf(sess[s].row)
     \/ sess[s].at = "invoice" /\ x = note[sess[s].row].order}

\* No two requests wait for rows the other one holds: a cancellation locks
\* order then note, an invoice note then order, and still never meet.
NoLockCycle ==
  \A s, t \in Sessions :
    ~ (/\ s # t
       /\ \E x \in Awaited(s) : lock[x] = t
       /\ \E x \in Awaited(t) : lock[x] = s)

\* What convert_quote_to_order enforces, of every state: open orders, the
\* partly delivered ones included, stay within the credit limit.
OpenWithinCredit == TotalOf({"CONFIRMED", "PARTIALLY_DELIVERED"}, {}) <= CreditLimit
=============================================================================
