------------------------------ MODULE Procurement ------------------------------
(***************************************************************************)
(* From demand to purchase order: material requests (requisition_service), *)
(* purchase orders (api/routes/ap.py), requests for quotation with their   *)
(* supplier quotations, and blanket orders.  The purchase-order handlers   *)
(* lock the request and its lines; the conversion of a request reads it    *)
(* first and locks the lines afterwards; sourcing and blanket orders lock  *)
(* nothing.  Every document has one line.                                  *)
(*                                                                         *)
(* Rows: MR [status, qty, ordered, from] request, from is the one it       *)
(* amends; PO [status, mr, qty, hash, from, source] order, hash tells that *)
(* its prices are calculated, source the quotation or blanket order it     *)
(* comes from; RFQ [status]; SQ [status, rfq, qty, asked] quotation;       *)
(* BLANKET [status, qty, ordered].                                         *)
(***************************************************************************)
EXTENDS Database

Order(status, mr, qty, hash, from, source) ==
  [status |-> status, mr |-> mr, qty |-> qty, hash |-> hash, from |-> from, source |-> source, over |-> 0]

Open == {"SUBMITTED", "PARTIALLY_ORDERED"}

CreateMaterialRequest(s, mr, qty) ==
  Stage(s, mr :> [status |-> "DRAFT", qty |-> qty, ordered |-> 0, from |-> NoRef], Nothing, {})

UpdateDraftMaterialRequest(s, mr, qty) ==
  /\ Status(mr) = "DRAFT"
  /\ db[mr].ordered = 0
  /\ Stage(s, mr :> [qty |-> qty], Nothing, {mr})

\* What is left to order becomes a new draft; the amended request stays open.
AmendMaterialRequest(s, mr, new) ==
  /\ Status(mr) \in Open \cup {"ORDERED"}
  /\ db[mr].qty > db[mr].ordered
  /\ Stage(s, new :> [status |-> "DRAFT", qty |-> db[mr].qty - db[mr].ordered, ordered |-> 0, from |-> mr],
           Nothing, {mr})

SubmitMaterialRequest(s, mr) ==
  Status(mr) = "DRAFT" /\ Stage(s, mr :> [status |-> "SUBMITTED"], Nothing, {mr})

CancelMaterialRequest(s, mr) ==
  /\ Status(mr) \notin {"ORDERED", "CANCELLED"}
  /\ Stage(s, mr :> [status |-> "CANCELLED"], Nothing, {mr})

\* An item at its reorder level: a draft request for the shortage.
CheckReorderReplenishment(s, level, mr) ==
  /\ db[level].available <= db[level].reorder
  /\ CreateMaterialRequest(s, mr, 1)

Progress(qty, ordered) ==
  IF ordered >= qty THEN "ORDERED" ELSE IF ordered > 0 THEN "PARTIALLY_ORDERED" ELSE "SUBMITTED"

\* refresh_material_request_progress: not for a cancelled or a draft request.
Refreshed(mr, ordered) ==
  mr :> [ordered |-> ordered,
         status  |-> IF Status(mr) \in {"CANCELLED", "DRAFT"} THEN Status(mr)
                     ELSE Progress(db[mr].qty, ordered)]

\* The conversion reads the request and its lines,
BeginConversion(s, mr) ==
  /\ Status(mr) \in Open
  /\ db[mr].ordered < db[mr].qty
  /\ Hold(s, [op |-> "convert", mr |-> mr, ordered |-> db[mr].ordered], {})

\* then locks the lines, and works on with the values it has read.
CreatePoFromMaterialRequest(s, q, po) ==
  LET m == req[s].memo IN
  /\ At(s, "convert")
  /\ q <= db[m.mr].qty - m.ordered
  /\ Finish(s,
       po :> Order("SUBMITTED", m.mr, q, FALSE, NoRef, NoRef)
         @@ m.mr :> [ordered |-> m.ordered + q, status |-> Progress(db[m.mr].qty, m.ordered + q)],
       Nothing, {m.mr})

Drafted(mr) == Total({po \in Of("PO", "mr", mr) : Status(po) = "DRAFT"}, "qty")

Uncommitted(mr, q) == db[mr].ordered + Drafted(mr) + q <= db[mr].qty

NewOrder(mr, q, submit) == Order(IF submit THEN "SUBMITTED" ELSE "DRAFT", mr, q, TRUE, NoRef, NoRef)

OrderedFrom(mr, q) == Refreshed(mr, db[mr].ordered + q)

CreatePurchaseOrder(s, mr, q, submit, po) ==
  /\ Status(mr) \in Open
  /\ Uncommitted(mr, q)
  /\ Stage(s,
       po :> NewOrder(mr, q, submit) @@ IF submit THEN OrderedFrom(mr, q) ELSE Nothing,
       Nothing, {mr})

RecalculatePurchaseOrderDraft(s, po) ==
  Status(po) = "DRAFT" /\ Stage(s, po :> [hash |-> TRUE], Nothing, {po})

UpdatePurchaseOrderDraft(s, po, q) ==
  LET mr == db[po].mr IN
  /\ Status(po) = "DRAFT"
  /\ Status(mr) \in Open
  /\ Uncommitted(mr, q - db[po].qty)
  /\ Stage(s, po :> [qty |-> q, hash |-> TRUE], Nothing, {po, mr})

\* Mutant of Submittable: the line of the request is not read again.
SubmittableDraft(po) == Status(po) = "DRAFT" /\ db[po].hash

\* An amendment waits until its original is cancelled.
Submittable(po) ==
  /\ Status(po) = "DRAFT" /\ db[po].hash
  /\ db[po].from # NoRef => Status(db[po].from) = "CANCELLED"
  /\ db[db[po].mr].ordered + db[po].qty <= db[db[po].mr].qty
  /\ Status(db[po].mr) \in Open

SubmitPurchaseOrder(s, po) ==
  /\ Submittable(po)
  /\ Stage(s, po :> [status |-> "SUBMITTED"] @@ Refreshed(db[po].mr, db[db[po].mr].ordered + db[po].qty),
           Nothing, {po, db[po].from, db[po].mr} \ {NoRef})

\* An order without receipts and invoices; a submitted one gives its
\* quantity back to the request.
CancelPurchaseOrder(s, po) ==
  LET mr   == db[po].mr
      back == Status(po) = "SUBMITTED" /\ mr # NoRef
      left == IF db[mr].ordered > db[po].qty THEN db[mr].ordered - db[po].qty ELSE 0
  IN /\ Status(po) \in {"DRAFT", "SUBMITTED"}
     /\ Of("GRN", "po", po) = {} /\ Of("SINV", "po", po) = {}
     /\ Stage(s, po :> [status |-> "CANCELLED"] @@ IF back THEN Refreshed(mr, left) ELSE Nothing,
              Nothing, {po} \cup IF back THEN {mr} ELSE {})

AmendPurchaseOrder(s, po, new) ==
  /\ Status(po) = "SUBMITTED"
  /\ Of("GRN", "po", po) = {} /\ Of("SINV", "po", po) = {}
  /\ Stage(s, new :> Order("DRAFT", db[po].mr, db[po].qty, FALSE, po, NoRef), Nothing, {po})

-----------------------------------------------------------------------------
(* Sourcing and blanket orders *)

CreateRfq(s, rfq) == Stage(s, rfq :> [status |-> "DRAFT"], Nothing, {})

SendRfq(s, rfq) == Stage(s, rfq :> [status |-> "SENT"], Nothing, {})

CreateSupplierQuotation(s, rfq, q, sq) ==
  Stage(s,
    sq :> [status |-> "SUBMITTED", rfq |-> rfq, qty |-> q]
      @@ IF Status(rfq) = "SENT" THEN rfq :> [status |-> "QUOTES_RECEIVED"] ELSE Nothing,
    Nothing, {})

\* Mutant of Awardable: the status of the quotation is not looked at.
AwardableAgain(sq) == TRUE

Awardable(sq) == Status(sq) = "SUBMITTED"

\* The others are rejected, an earlier award stands.
AwardQuotationToPo(s, sq, po) ==
  LET others == {x \in Of("SQ", "rfq", db[sq].rfq) : x # sq /\ Status(x) # "AWARDED"} IN
  /\ Awardable(sq)
  /\ Stage(s,
       [x \in others |-> [status |-> "REJECTED"]]
         @@ sq :> [status |-> "AWARDED"]
         @@ db[sq].rfq :> [status |-> "COMPLETED"]
         @@ po :> Order("SUBMITTED", NoRef, db[sq].qty, FALSE, NoRef, sq),
       Nothing, {})

CreateBlanketOrder(s, bo, qty) ==
  Stage(s, bo :> [status |-> "ACTIVE", qty |-> qty, ordered |-> 0], Nothing, {})

\* Mutant of Drawable: the quantity is compared with the whole commitment.
DrawableAgain(bo, q) == Status(bo) = "ACTIVE" /\ q <= db[bo].qty

Drawable(bo, q) == Status(bo) = "ACTIVE" /\ q <= db[bo].qty - db[bo].ordered

CreatePoFromBlanketOrder(s, bo, q, po) ==
  /\ Drawable(bo, q)
  /\ Stage(s,
       bo :> [ordered |-> db[bo].ordered + q,
              status  |-> IF db[bo].ordered + q >= db[bo].qty THEN "CLOSED" ELSE "ACTIVE"]
         @@ po :> Order("SUBMITTED", NoRef, q, FALSE, NoRef, bo),
       Nothing, {})

-----------------------------------------------------------------------------

ConversionNext(s, quantities) ==
  \/ \E mr \in Live("MR") : BeginConversion(s, mr)
  \/ \E po \in Rows("PO"), q \in quantities : Fresh(po) /\ CreatePoFromMaterialRequest(s, q, po)

OrderNext(s, quantities) ==
  \/ \E mr \in Rows("MR"), q \in quantities :
       \/ Fresh(mr) /\ CreateMaterialRequest(s, mr, q)
       \/ db[mr] # NoRow /\ UpdateDraftMaterialRequest(s, mr, q)
  \/ \E mr \in Live("MR") :
       \/ SubmitMaterialRequest(s, mr) \/ CancelMaterialRequest(s, mr)
       \/ \E new \in Rows("MR") : Fresh(new) /\ AmendMaterialRequest(s, mr, new)
       \/ \E po \in Rows("PO"), q \in quantities, submit \in BOOLEAN :
            Fresh(po) /\ CreatePurchaseOrder(s, mr, q, submit, po)
  \/ \E level \in Live("LVL"), mr \in Rows("MR") : Fresh(mr) /\ CheckReorderReplenishment(s, level, mr)
  \/ \E po \in Live("PO") : CancelPurchaseOrder(s, po)
  \/ \E po \in {p \in Live("PO") : db[p].mr # NoRef} :
       \/ RecalculatePurchaseOrderDraft(s, po) \/ SubmitPurchaseOrder(s, po)
       \/ \E q \in quantities : UpdatePurchaseOrderDraft(s, po, q)
       \/ \E new \in Rows("PO") : Fresh(new) /\ AmendPurchaseOrder(s, po, new)

SourcingNext(s, quantities, commitments) ==
  \/ \E rfq \in Rows("RFQ") :
       \/ Fresh(rfq) /\ CreateRfq(s, rfq)
       \/ db[rfq] # NoRow /\ SendRfq(s, rfq)
       \/ \E sq \in Rows("SQ"), q \in quantities :
            db[rfq] # NoRow /\ Fresh(sq) /\ CreateSupplierQuotation(s, rfq, q, sq)
  \/ \E bo \in Rows("BLANKET"), qty \in commitments : Fresh(bo) /\ CreateBlanketOrder(s, bo, qty)
  \/ \E po \in Rows("PO") :
       /\ Fresh(po)
       /\ \/ \E sq \in Live("SQ") : AwardQuotationToPo(s, sq, po)
          \/ \E bo \in Live("BLANKET"), q \in quantities : CreatePoFromBlanketOrder(s, bo, q, po)

-----------------------------------------------------------------------------
(* Properties *)

Placed(mr) == Total({po \in Of("PO", "mr", mr) : Status(po) \notin {"DRAFT", "CANCELLED"}}, "qty")

\* A line of a request is never ordered beyond what was asked for, its
\* counter is the sum of the orders placed, and its status follows, while
\* orders are drafted, edited, submitted, amended and cancelled at once.
DemandOrderedOnce ==
  \A mr \in Live("MR") :
    /\ db[mr].ordered = Placed(mr)
    /\ Placed(mr) <= db[mr].qty
    /\ Status(mr) \notin {"DRAFT", "CANCELLED"} => Status(mr) = Progress(db[mr].qty, db[mr].ordered)

\* An awarded quotation has one order for its quantity and no other
\* quotation has one; a blanket order is drawn as far as its orders go,
\* never beyond the commitment, and closed when nothing is left.
SourcedOnce ==
  /\ \A sq \in Live("SQ") :
       Total(Of("PO", "source", sq), "qty") = IF Status(sq) = "AWARDED" THEN db[sq].qty ELSE 0
  /\ \A bo \in Live("BLANKET") :
       /\ db[bo].ordered = Total(Of("PO", "source", bo), "qty")
       /\ db[bo].ordered <= db[bo].qty
       /\ (Status(bo) = "CLOSED") = (db[bo].ordered = db[bo].qty)

\* Whatever the demand comes from, it is ordered once and within its source.
OrdersMatchSources == DemandOrderedOnce /\ SourcedOnce

-----------------------------------------------------------------------------
Positive == Nat \ {0}

DemandRow(row) ==
  /\ {"status", "qty", "ordered"} \subseteq DOMAIN row /\ row.qty \in Positive /\ row.ordered \in Nat
  /\ row.status = "DRAFT" => row.ordered = 0

OrderRow(row) ==
  {"status", "mr", "qty", "source"} \subseteq DOMAIN row /\ row.qty \in Positive /\ row.mr \in Live("MR") \cup {NoRef}

QuoteRow(row) ==
  {"status", "rfq", "qty"} \subseteq DOMAIN row /\ row.rfq \in Rows("RFQ") /\ row.qty \in Positive

CommitmentRow(row) ==
  {"status", "qty", "ordered"} \subseteq DOMAIN row /\ row.qty \in Positive /\ row.ordered \in Nat

\* Rows are complete, and refer to rows that exist.
PurchasesComplete ==
  /\ IsFiniteSet(DOMAIN db)
  /\ \A mr \in Live("MR") : DemandRow(db[mr])
  /\ \A po \in Live("PO") : OrderRow(db[po])
  /\ \A sq \in Live("SQ") : QuoteRow(db[sq])

\* An order comes from a request, or from a quotation or a blanket order, or
\* from none of them.
SourcedRow(row) ==
  row.source \in Live("SQ") \cup Live("BLANKET") \cup {NoRef} /\ (row.source # NoRef => row.mr = NoRef)

SourcesComplete ==
  /\ \A po \in Live("PO") : SourcedRow(db[po])
  /\ \A bo \in Live("BLANKET") : CommitmentRow(db[bo])

\* Any quantities.  Conversions are made one after the other only: they read
\* a request before they lock it.
PurchasingSpec ==
  /\ PurchasesComplete /\ SourcesComplete /\ OrdersMatchSources /\ \A s \in Sessions : Free(s)
  /\ [][\E s \in Sessions :
          \/ EndOfRequest(s) \/ OrderNext(s, Positive) \/ SourcingNext(s, Positive, Positive)
          \/ OneSession /\ ConversionNext(s, Positive)]_vars
=============================================================================
