------------------------------- MODULE Payables -------------------------------
(***************************************************************************)
(* From purchase order to payable: goods receipts and their inspection,    *)
(* supplier invoices and their three-way match, debit notes, landed costs  *)
(* and the supplier scorecard.  Receipts lock their order, inspections the *)
(* receipt and the levels; a receipt writes the level without a lock and a *)
(* match locks nothing.  Unit prices are 1, amounts are quantities.        *)
(*                                                                         *)
(* Rows: PO [status, qty, over] an order and the receipt tolerance in      *)
(* units; GRN [status, po, qty, accepted, rejected, inspected]; SINV       *)
(* [status, po, qty] an invoice, status is its matching status; DN         *)
(* [status, invoice, qty]; LVL the receiving and the quarantine level; LCV *)
(* [status, charges, share] a landed cost voucher, share[grn] its part;    *)
(* SCORE [status, quality, standing].                                      *)
(* Books: <<"AP", inv>> what was posted for an invoice; "SLE" per level.   *)
(***************************************************************************)
EXTENDS Database

Main == <<"LVL", 1>>
Quarantine == <<"LVL", 2>>
AP(inv) == <<"AP", inv>>
Ceiling == 2   \* amounts above it need a human

Received(po) == Total(Of("GRN", "po", po), "qty")

\* Mutant of Receivable: every receipt is compared with the order alone.
ReceivableAlone(po, q) ==
  Status(po) \in {"SUBMITTED", "PARTIALLY_RECEIVED"} /\ q <= db[po].qty + db[po].over

Receivable(po, q) ==
  Status(po) \in {"SUBMITTED", "PARTIALLY_RECEIVED"} /\ Received(po) + q <= db[po].qty + db[po].over

\* The receipt is COMPLETED at once and everything counts as accepted.
CreateGoodsReceipt(s, po, q, grn) ==
  /\ Receivable(po, q)
  /\ Stage(s,
       grn :> [status |-> "COMPLETED", po |-> po, qty |-> q, accepted |-> q, rejected |-> 0,
               inspected |-> FALSE]
         @@ po :> [status |-> IF Received(po) + q >= db[po].qty THEN "COMPLETED" ELSE "PARTIALLY_RECEIVED"]
         @@ Moved(Main, q),
       Sle(Main) :> q, {po})

\* Mutant of NotInspected: a line may be inspected again.
InspectedAgain(grn) == TRUE

NotInspected(grn) == ~db[grn].inspected

\* Rejected goods go to quarantine, if they are still on the shelf.
InspectGrn(s, grn, rejected) ==
  /\ NotInspected(grn)
  /\ rejected > 0 => db[Main].available >= rejected
  /\ Stage(s,
       grn :> [accepted |-> db[grn].qty - rejected, rejected |-> rejected, inspected |-> TRUE]
         @@ IF rejected > 0 THEN Moved(Main, -rejected) @@ Moved(Quarantine, rejected) ELSE Nothing,
       Sle(Main) :> -rejected @@ Sle(Quarantine) :> rejected,
       {grn} \cup IF rejected > 0 THEN {Main, Quarantine} ELSE {})

BilledQty(po) == Total(Of("SINV", "po", po), "qty")

Invoiceable(po) == Status(po) \in {"SUBMITTED", "PARTIALLY_RECEIVED", "COMPLETED"}

\* An invoice without lines bills what is left of the order.
CreateSupplierInvoice(s, po, inv) ==
  /\ Invoiceable(po)
  /\ BilledQty(po) < db[po].qty
  /\ Stage(s, inv :> [status |-> "UNMATCHED", po |-> po, qty |-> db[po].qty - BilledQty(po)], Nothing, {po})

\* The last receipt of the order, if there is one.
MatchedReceipt(inv) ==
  {grn \in Of("GRN", "po", db[inv].po) : \A g \in Of("GRN", "po", db[inv].po) : g[2] <= grn[2]}

ComparedLines(inv, grn) == [ordered |-> db[db[inv].po].qty, received |-> db[grn].qty, billed |-> db[inv].qty]

\* Mutant of Matches: the invoice is compared with the order.
MatchesOrder(lines) == lines.billed <= lines.ordered

\* The price is the one of the order.
Matches(lines) == lines.billed <= lines.received

\* Above the ceiling a posting waits for a human.
PostMatch(s, inv, approved) ==
  LET posts == db[inv].qty <= Ceiling \/ approved IN
  /\ \E grn \in MatchedReceipt(inv) : Matches(ComparedLines(inv, grn))
  /\ Stage(s, inv :> [status |-> IF posts THEN "MATCHED" ELSE "STAGED"],
           IF posts THEN AP(inv) :> db[inv].qty ELSE Nothing, {})

Dispute(s, inv) == Stage(s, inv :> [status |-> "DISPUTED"], Nothing, {})

DisputeUnreceived(s, inv) == MatchedReceipt(inv) = {} /\ Dispute(s, inv)

DisputeMismatch(s, inv) ==
  /\ \E grn \in MatchedReceipt(inv) : ~Matches(ComparedLines(inv, grn))
  /\ Dispute(s, inv)

\* Everything but a match that was posted is evaluated again.
MatchInvoice(s, inv, approved) ==
  /\ Status(inv) # "MATCHED"
  /\ PostMatch(s, inv, approved) \/ DisputeUnreceived(s, inv) \/ DisputeMismatch(s, inv)

\* No limit is checked; the goods leave the shelf unlocked.
IssueDebitNote(s, inv, q, dn) ==
  Stage(s,
    dn :> [status |-> "POSTED", invoice |-> inv, qty |-> q]
      @@ Main :> [current |-> db[Main].current - q, available |-> db[Main].available - q],
    Sle(Main) :> -q @@ AP(inv) :> -q, {inv})

Landed(grn) == IF db[grn].accepted > 0 THEN db[grn].accepted ELSE db[grn].qty

AllLanded(grns) == SumFunctionOnSet([g \in grns |-> Landed(g)], grns)

\* Mutant of Share: every line gets its rounded fraction.
ShareRounded(charges, grn, all) == (charges * Landed(grn)) \div AllLanded(all)

\* The rounded fraction by quantity; the last line takes the remainder.
Share(charges, grn, all) ==
  LET fraction(g) == (charges * Landed(g)) \div AllLanded(all)
      others      == {g \in all : g[2] < grn[2]}
  IN IF \A g \in all : g[2] <= grn[2]
     THEN charges - SumFunctionOnSet([g \in others |-> fraction(g)], others) ELSE fraction(grn)

CreateLandedCostVoucher(s, charges, grns, lcv) ==
  Stage(s,
    lcv :> [status |-> "DRAFT", charges |-> charges,
            share |-> [grn \in grns |-> Share(charges, grn, grns)]],
    Nothing, {})

SubmitLandedCostVoucher(s, lcv) ==
  Status(lcv) = "DRAFT" /\ Stage(s, lcv :> [status |-> "SUBMITTED"], Nothing, {})

\* A line with nothing accepted counts as accepted in full.
Quality(grns) ==
  LET ok  == AllLanded(grns)
      all == ok + Total(grns, "rejected")
  IN IF all = 0 THEN 100 ELSE (ok * 100) \div all

Otif(pos, grns) ==
  LET ordered == Total(pos, "qty")
      ratio   == (Total(grns, "qty") * 100) \div ordered
  IN IF ordered = 0 \/ ratio > 100 THEN 100 ELSE ratio

CalculateAndGenerateScorecard(s, score) ==
  LET quality == Quality(Live("GRN"))
      total   == (40 * Otif(Live("PO"), Live("GRN")) + 40 * quality + 20 * 100) \div 100
  IN Stage(s,
       score :> [status |-> "LIVE", quality |-> quality, rejected |-> Total(Live("GRN"), "rejected"),
                 standing |-> CASE total >= 85 -> "PREFERRED" [] total >= 70 /\ total < 85 -> "STANDARD"
                                [] total >= 50 /\ total < 70 -> "AT_RISK" [] total < 50 -> "BLACKLISTED"],
       Nothing, {})

\* What requests ask for: goods received, goods sent back, landed costs.
PayablesHandlers(s, asked) ==
  \/ \E po \in Live("PO") :
       \/ \E grn \in Rows("GRN"), q \in asked.goods : Fresh(grn) /\ CreateGoodsReceipt(s, po, q, grn)
       \/ \E inv \in Rows("SINV") : Fresh(inv) /\ CreateSupplierInvoice(s, po, inv)
  \/ \E grn \in Live("GRN") : \E rejected \in 0..db[grn].qty : InspectGrn(s, grn, rejected)
  \/ \E inv \in Live("SINV") :
       \/ \E approved \in BOOLEAN : MatchInvoice(s, inv, approved)
       \/ \E dn \in Rows("DN"), q \in asked.returns : Fresh(dn) /\ IssueDebitNote(s, inv, q, dn)
  \/ \E lcv \in Rows("LCV") :
       \/ \E charges \in asked.charges :
            Fresh(lcv) /\ Live("GRN") # {} /\ CreateLandedCostVoucher(s, charges, Live("GRN"), lcv)
       \/ db[lcv] # NoRow /\ SubmitLandedCostVoucher(s, lcv)
  \/ \E score \in Rows("SCORE") :
       Fresh(score) /\ Live("GRN") # {} /\ CalculateAndGenerateScorecard(s, score)

PayablesNext(s) ==
  /\ Live("LVL") = {Main, Quarantine}
  /\ PayablesHandlers(s, [goods |-> 1..3, returns |-> {1}, charges |-> {5}])

-----------------------------------------------------------------------------
(* Properties *)

\* Overlapping receipts never take in more than the order and its
\* tolerance, and the order is open exactly while something is missing.
ReceivedWithinOrder ==
  \A po \in Live("PO") :
    Rows("GRN") # {} =>
      /\ Received(po) <= db[po].qty + db[po].over
      /\ (Status(po) = "COMPLETED") = (Received(po) >= db[po].qty)

\* One request after the other, the shelf and the quarantine hold what the
\* receipts and inspections put there, less the goods sent back, and a
\* supplier with rejected goods is not given full marks.
RejectedGoodsAccounted ==
  OneSession /\ Rows("GRN") # {} =>
    /\ db[Main].current = Total(Live("GRN"), "accepted") - Total(Live("DN"), "qty")
    /\ db[Quarantine].current = Total(Live("GRN"), "rejected")
    /\ \A l \in Live("LVL") : Book(Sle(l)) = db[l].current
    /\ \A sc \in Live("SCORE") :
         db[sc].rejected > 0 => db[sc].quality < 100

\* What is posted to the supplier is what was matched less the debit
\* notes, and no more is matched than was received for the order.
PaidForReceived ==
  /\ OneSession =>
       \A inv \in Live("SINV") :
         Book(AP(inv)) = (IF Status(inv) = "MATCHED" THEN db[inv].qty ELSE 0)
                           - Total(Of("DN", "invoice", inv), "qty")
  /\ \A po \in Live("PO") :
       Total({i \in Of("SINV", "po", po) : Status(i) = "MATCHED"}, "qty") <= Received(po)

\* A landed cost voucher gives out all of its charges, whatever the
\* rounding of the shares.
ChargesFullyAllocated ==
  \A lcv \in Live("LCV") :
    SumFunctionOnSet(db[lcv].share, DOMAIN db[lcv].share) = db[lcv].charges

\* Receipts, inspections, invoices and landed costs of an order agree.
PayablesAgree == ReceivedWithinOrder /\ RejectedGoodsAccounted /\ PaidForReceived /\ ChargesFullyAllocated

Ordered(row) == {"status", "qty", "over"} \subseteq DOMAIN row /\ row.qty \in Nat /\ row.over \in Nat

ReceiptRow(row) ==
  /\ {"status", "po", "qty", "accepted", "rejected", "inspected"} \subseteq DOMAIN row
  /\ row.qty \in Nat \ {0} /\ row.accepted \in Nat /\ row.rejected \in Nat
  /\ ~row.inspected => row.accepted = row.qty /\ row.rejected = 0

Shelf(row) == {"current", "available"} \subseteq DOMAIN row /\ row.current \in Int /\ row.available \in Int

\* Rows are complete, and an order has one invoice at most, which bills all
\* of it and is matched with one of its receipts.
PayablesComplete ==
  /\ \A kind \in {"GRN", "SINV", "DN"} : IsFiniteSet(Rows(kind))
  /\ Rows("GRN") # {} /\ \A g \in Rows("GRN") : g = <<"GRN", g[2]>> /\ g[2] \in Nat
  /\ \A po \in Live("PO") : Ordered(db[po])
  /\ \A g \in Live("GRN") : ReceiptRow(db[g]) /\ db[g].po \in Live("PO")
  /\ \A i \in Live("SINV") :
       /\ {"status", "po", "qty"} \subseteq DOMAIN db[i]
       /\ db[i].po \in Live("PO") /\ db[i].qty = db[db[i].po].qty
       /\ \A j \in Live("SINV") : db[j].po = db[i].po => i = j
       /\ Status(i) = "MATCHED" => \E g \in Of("GRN", "po", db[i].po) : Matches(ComparedLines(i, g))
  /\ \A dn \in Live("DN") :
       {"status", "invoice", "qty"} \subseteq DOMAIN db[dn] /\ db[dn].invoice \in Live("SINV") /\ db[dn].qty \in Int
  /\ \A l \in Live("LCV") : {"status", "charges", "share"} \subseteq DOMAIN db[l]
  /\ \A c \in Live("SCORE") :
       {"status", "quality", "rejected"} \subseteq DOMAIN db[c] /\ (db[c].rejected > 0 => db[c].quality < 100)
  /\ Rows("LVL") = {Main, Quarantine} /\ Shelf(db[Main]) /\ Shelf(db[Quarantine])
  /\ {Sle(Main), Sle(Quarantine)} \cup {AP(i) : i \in Rows("SINV")} \subseteq DOMAIN sums
  /\ \A k \in DOMAIN sums : sums[k] \in Int
  /\ OneSession => \A i \in Rows("SINV") \ Live("SINV") : sums[AP(i)] = 0

\* Any amounts.
PayablesSpec ==
  /\ PayablesComplete /\ PayablesAgree /\ \A s \in Sessions : Free(s)
  /\ [][\E s \in Sessions :
          EndOfRequest(s) \/ PayablesHandlers(s, [goods |-> Nat \ {0}, returns |-> Nat, charges |-> Nat])]_vars
=============================================================================
