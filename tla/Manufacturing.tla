---------------------------- MODULE Manufacturing ----------------------------
(***************************************************************************)
(* The shop floor: production plans, work orders, job cards, downtimes     *)
(* (workflows/manufacturing) and subcontracting orders.  No handler locks  *)
(* a row; what keeps a work order from being staged or completed twice is  *)
(* its status and, when two requests overlap, the unique number of the     *)
(* stock entry each of them inserts.  One unit takes one unit of material. *)
(*                                                                         *)
(* Rows: PLAN [status, lines] a plan, lines the sequence of its [item,     *)
(* qty]; WO [status, plan, item, qty, produced, staged] work order; STE a  *)
(* stock entry by its number; JC [status, wo, done] the job card of a work *)
(* order; WS [status] workstation; DT [status, fault] downtime; SCO        *)
(* [status, qty, supplied, consumed, sent] subcontracting order, sent once *)
(* material has gone to the vendor; SCR [status, qty, taken] receipt and   *)
(* the material its ledger entry took from the vendor; LVL the levels of   *)
(* the store, the shop floor (or vendor) and the finished goods.           *)
(***************************************************************************)
EXTENDS Database, Sequences

Store == <<"LVL", 1>>
Floor == <<"LVL", 2>>
Goods == <<"LVL", 3>>
Station == <<"WS", 1>>

Transfer(wo) == <<"STE", 2 * wo[2] - 1>>      \* ST-MAT-TRANSFER-<number>
Manufacture(wo) == <<"STE", 2 * wo[2]>>       \* ST-MANUFACTURE-<number>
Card(wo) == <<"JC", wo[2]>>

CreateProductionPlan(s, plan, lines) ==
  Stage(s, plan :> [status |-> "DRAFT", lines |-> lines], Nothing, {})

NewWorkOrder(wo, plan, line) ==
  wo :> [status |-> "SCHEDULED", plan |-> plan, item |-> line.item, qty |-> line.qty,
         produced |-> 0, staged |-> FALSE]
    @@ Card(wo) :> [status |-> "PENDING", wo |-> wo, done |-> 0]

\* The order of line i is numbered after it; a line whose item has an order
\* of this plan already gets none.
GenerateWorkOrdersFromPlan(s, plan) ==
  LET lines   == db[plan].lines
      wo(i)   == <<"WO", i>>
      missing == {i \in DOMAIN lines :
                    /\ \A w \in Of("WO", "plan", plan) : db[w].item # lines[i].item
                    /\ \A j \in 1..(i - 1) : lines[j].item # lines[i].item}
      cards   == {wo(i) : i \in missing} \cup {Card(wo(i)) : i \in missing}
  IN /\ \A i \in missing : db[wo(i)] = NoRow
     /\ Stage(s,
          [d \in cards |-> NewWorkOrder(wo(d[2]), plan, lines[d[2]])[d]]
            @@ plan :> [status |-> "IN_PROCESS"],
          Nothing, {wo(i) : i \in missing})

\* Mutant of Unnumbered: stock entries are numbered at random.
UnnumberedAtRandom(entry) == TRUE

\* The unique index on the entry number.
Unnumbered(entry) == db[entry] = NoRow

StageMaterialsToWip(s, wo) ==
  /\ Status(wo) \notin {"COMPLETED", "CANCELLED"}
  /\ Unnumbered(Transfer(wo))
  /\ db[Store].current >= db[wo].qty
  /\ Stage(s,
       Transfer(wo) :> [status |-> "SUBMITTED"] @@ wo :> [status |-> "IN_PROCESS", staged |-> TRUE]
         @@ Moved(Store, -db[wo].qty) @@ Moved(Floor, db[wo].qty),
       Sle(Store) :> -db[wo].qty @@ Sle(Floor) :> db[wo].qty, {Transfer(wo)})

\* Mutant of Released: the station is released whatever its state.
ReleasedAnyway == Station :> [status |-> "OPERATIONAL"]

Released == IF Status(Station) = "IN_USE" THEN Station :> [status |-> "OPERATIONAL"] ELSE Nothing

\* The floor is not asked whether it has the material.
CompleteManufacture(s, wo, q) ==
  LET card == Card(wo) IN
  /\ Status(wo) # "COMPLETED"
  /\ Unnumbered(Manufacture(wo))
  /\ Stage(s,
       Manufacture(wo) :> [status |-> "SUBMITTED"]
         @@ wo :> [status |-> "COMPLETED", produced |-> db[wo].produced + q]
         @@ Moved(Floor, -q) @@ Moved(Goods, q)
         @@ IF Status(card) = "COMPLETED" THEN Nothing
            ELSE card :> [status |-> "COMPLETED", done |-> db[wo].qty] @@ Released,
       Sle(Floor) :> -q @@ Sle(Goods) :> q, {Manufacture(wo)})

StartJobCard(s, card) ==
  LET wo == db[card].wo IN
  /\ Status(card) # "COMPLETED"
  /\ Status(Station) # "FAULT"
  /\ Stage(s,
       card :> [status |-> "WORK_IN_PROGRESS"] @@ Station :> [status |-> "IN_USE"]
         @@ IF Status(wo) \in {"DRAFT", "SCHEDULED"} THEN wo :> [status |-> "IN_PROCESS"] ELSE Nothing,
       Nothing, {})

\* Neither asks for the status of the card.
PauseJobCard(s, card, q) ==
  Stage(s, card :> [status |-> "PAUSED", done |-> db[card].done + q] @@ Released, Nothing, {})

CompleteJobCard(s, card, q) ==
  Stage(s, card :> [status |-> "COMPLETED", done |-> db[card].done + q] @@ Released, Nothing, {})

RecordDowntime(s, dt, fault) ==
  Stage(s, dt :> [status |-> "OPEN", fault |-> fault]
             @@ Station :> [status |-> IF fault THEN "FAULT" ELSE "MAINTENANCE"],
        Nothing, {})

\* Whatever other downtime is open.
ResolveDowntime(s, dt) ==
  Stage(s, dt :> [status |-> "RESOLVED"] @@ Station :> [status |-> "OPERATIONAL"], Nothing, {})

-----------------------------------------------------------------------------
(* Subcontracting: one unit of material per finished unit, at the vendor *)

CreateSubcontractingOrder(s, sco, qty) ==
  Stage(s, sco :> [status |-> "DRAFT", qty |-> qty, supplied |-> 0, consumed |-> 0, sent |-> FALSE],
        Nothing, {})

SubmitSubcontractingOrder(s, sco) ==
  Status(sco) = "DRAFT" /\ Stage(s, sco :> [status |-> "SUBMITTED"], Nothing, {})

TransferSubcontractingMaterials(s, sco, q) ==
  /\ Status(sco) \in {"SUBMITTED", "IN_PROCESS"}
  /\ Stage(s,
       sco :> [status |-> "IN_PROCESS", supplied |-> db[sco].supplied + q, sent |-> TRUE]
         @@ Moved(Store, -q) @@ Moved(Floor, q),
       Sle(Store) :> -q @@ Sle(Floor) :> q, {})

Consumption(sco, q) == q

\* By a receipt of its whole quantity alone.
Completing(sco, q) == IF q >= db[sco].qty THEN "COMPLETED" ELSE Status(sco)

ReceivedGoods(q) == Moved(Goods, q)

\* Before materials were sent no warehouse is known to take them from:
\* they only count as consumed.
TakenFromVendor(sco, used) == IF db[sco].sent THEN used ELSE 0

\* In any status.
ReceiveSubcontractingReceipt(s, sco, q, scr) ==
  LET used  == Consumption(sco, q)
      taken == TakenFromVendor(sco, used)
  IN Stage(s,
       scr :> [status |-> "COMPLETED", qty |-> q, taken |-> taken]
         @@ sco :> [consumed |-> db[sco].consumed + used, status |-> Completing(sco, q)]
         @@ Moved(Floor, -taken) @@ ReceivedGoods(q),
       Sle(Floor) :> -taken @@ Sle(Goods) :> q, {})

-----------------------------------------------------------------------------

ManufacturingNext(s) ==
  \/ \E plan \in Rows("PLAN") :
       \/ \E lines \in {<<[item |-> 1, qty |-> 2]>>, <<[item |-> 1, qty |-> 1], [item |-> 2, qty |-> 2]>>,
                        <<[item |-> 1, qty |-> 2], [item |-> 1, qty |-> 1]>>} :
            Len(lines) <= Cardinality(Rows("WO")) /\ Fresh(plan) /\ CreateProductionPlan(s, plan, lines)
       \/ db[plan] # NoRow /\ GenerateWorkOrdersFromPlan(s, plan)
  \/ \E wo \in Live("WO") :
       \/ StageMaterialsToWip(s, wo)
       \/ \E q \in 1..2 : CompleteManufacture(s, wo, q)
  \/ \E card \in Live("JC") :
       \/ StartJobCard(s, card)
       \/ \E q \in 0..1 : db[card].done + q <= 2 /\ (PauseJobCard(s, card, q) \/ CompleteJobCard(s, card, q))
  \/ \E dt \in Rows("DT") :
       \/ \E fault \in BOOLEAN : Fresh(dt) /\ RecordDowntime(s, dt, fault)
       \/ db[dt] # NoRow /\ ResolveDowntime(s, dt)
  \/ \E sco \in Rows("SCO") :
       \/ Fresh(sco) /\ CreateSubcontractingOrder(s, sco, 2)
       \/ /\ db[sco] # NoRow
          /\ \/ SubmitSubcontractingOrder(s, sco)
             \/ \E q \in 1..2 :
                  \/ db[sco].supplied + q <= 3 /\ TransferSubcontractingMaterials(s, sco, q)
                  \/ \E scr \in Rows("SCR") : Fresh(scr) /\ ReceiveSubcontractingReceipt(s, sco, q, scr)

-----------------------------------------------------------------------------
(* Properties *)

Making == Rows("WO") # {} \/ Rows("SCO") # {}
Staged == Total({wo \in Live("WO") : db[wo].staged}, "qty") + Total(Live("SCO"), "supplied")
Consumed == Total(Live("WO"), "produced") + Total(Live("SCR"), "taken")
Made == Total(Live("WO"), "produced") + Total(Live("SCR"), "qty")

\* Even when requests overlap, the stock ledger holds for the store, the
\* floor and the finished goods what work orders, subcontracting orders and
\* receipts say was staged, used and made, each once; one request after the
\* other, so do the levels.
MadeAndUsedOnce ==
  Making =>
    /\ Book(Sle(Store)) = -Staged
    /\ Book(Sle(Floor)) = Staged - Consumed
    /\ Book(Sle(Goods)) = Made
    /\ Total(Live("SCO"), "consumed") = Total(Live("SCR"), "qty")
    /\ OneSession =>
         \A l \in Live("LVL") : db[l].current = db[l].opening + Book(Sle(l))

\* While a breakdown is open, no pause, completion or start of a job card
\* puts the workstation back to use.
BreakdownLocksOut ==
  Rows("DT") # {} /\ OneSession =>
    \A dt \in Live("DT") : Status(dt) = "OPEN" /\ db[dt].fault => Status(Station) = "FAULT"

\* The shop floor's material, output and machine states agree.
ShopFloorAgrees == MadeAndUsedOnce /\ BreakdownLocksOut
=============================================================================
