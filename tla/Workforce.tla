------------------------------- MODULE Workforce -------------------------------
(***************************************************************************)
(* Shifts, their trades, certifications and audited expenses (workforce/,  *)
(* api/routes/workforce), and the plant's telemetry, maintenance tickets   *)
(* and automatic reorders (iot/, supply_chain/replenishment).              *)
(*                                                                         *)
(* The verifier of certifications, the auditor's receipts and the          *)
(* temperature history live in the memory of the process: a handler writes *)
(* them at once, a rollback leaves them and a restart clears them.  A unit *)
(* of time is one shift; Rest, WeekLength and WeeklyMax scale the eleven   *)
(* hours, the calendar week and the forty-eight hours.                     *)
(*                                                                         *)
(* Rows: CREW [status]; DUTY [status, crew, start] a shift; CERT [status,  *)
(* crew]; EXPENSE [status, receipt]; MEMORY [status, certified, receipts]  *)
(* the process; PLANT [status] workstation; TICKET [status, plant,         *)
(* critical]; SHELF [status, qty, dear] an item and its stock; REORDER     *)
(* [status, shelf, qty, received] an order of the replenishment.           *)
(***************************************************************************)
EXTENDS Database

CONSTANTS Rest, WeekLength, WeeklyMax

Memory == <<"MEMORY", 1>>

\* A handler that also changes the memory.
StageWithMemory(s, put, add, certified, receipts) ==
  /\ Free(s)
  /\ req' = [req EXCEPT ![s] = Request(put, add, {}, [op |-> "commit"])]
  /\ db' = [db EXCEPT ![Memory].certified = @ \cup certified, ![Memory].receipts = @ \cup receipts]
  /\ UNCHANGED sums

\* The process restarts, its requests are rolled back.
Restart ==
  /\ Rows("MEMORY") # {} /\ (db[Memory].certified # {} \/ db[Memory].receipts # {})
  /\ db' = [db EXCEPT ![Memory].certified = {}, ![Memory].receipts = {}]
  /\ req' = [s \in Sessions |-> Idle]
  /\ UNCHANGED sums

AddCertification(s, cert, crew) ==
  StageWithMemory(s, cert :> [status |-> "ACTIVE", crew |-> crew], Nothing, {crew}, {})

\* Nothing is checked when a shift is entered.
CreateShift(s, duty, crew, start) ==
  Stage(s, duty :> [status |-> "SCHEDULED", crew |-> crew, start |-> start], Nothing, {})

WeekOf(t) == t \div WeekLength
InWeek(crew, week) == {d \in Of("DUTY", "crew", crew) : WeekOf(db[d].start) = week}

\* The last shift that ends before the traded one starts; a shift that
\* overlaps it or follows it is not looked at.
RestBefore(crew, start) ==
  LET ends == {db[d].start + 1 : d \in Of("DUTY", "crew", crew)}
      before == {t \in ends : t <= start} IN
  IF before = {} THEN Rest ELSE start - Max(before)

WithinWeek(crew, start) == Cardinality(InWeek(crew, WeekOf(start))) + 1 <= WeeklyMax

\* evaluate_shift_trade for a shift of the roster, and for a machine that
\* asks for a certification.
TradeShift(s, duty, to, certificate) ==
  /\ RestBefore(to, db[duty].start) >= Rest
  /\ WithinWeek(to, db[duty].start)
  /\ certificate => to \in db[Memory].certified
  /\ Stage(s, duty :> [crew |-> to, status |-> "TRANSFERRED"], Nothing, {})

\* The auditor approves small claims itself and posts them; a receipt of
\* such a claim, or of a larger one within the policy, is remembered.
AuditExpense(s, claim, receipt, compliant, small) ==
  LET seen == receipt \in db[Memory].receipts
      approved == compliant /\ ~seen /\ small IN
  StageWithMemory(s,
    claim :> [status |-> IF approved THEN "AUTO_APPROVED" ELSE "FLAGGED", receipt |-> receipt],
    IF approved THEN <<"REIMBURSED", receipt>> :> 1 ELSE Nothing,
    {}, IF compliant /\ ~seen THEN {receipt} ELSE {})

-----------------------------------------------------------------------------
(* Telemetry and tickets *)

\* A frame below the failure threshold has no effect; one above it opens a
\* ticket each time, at a workstation that is created if it is unknown.
IngestTelemetry(s, plant, ticket, catastrophic) ==
  Stage(s,
    ticket :> [status |-> "OPEN", plant |-> plant, critical |-> catastrophic]
      @@ IF catastrophic THEN plant :> [status |-> "CRITICAL_FAULT"]
         ELSE IF db[plant] = NoRow THEN plant :> [status |-> "OPERATIONAL"] ELSE Nothing,
    <<"FAULT_EVENTS", plant>> :> 1, {})

CreateTicket(s, plant, ticket, critical) ==
  Stage(s,
    ticket :> [status |-> "OPEN", plant |-> plant, critical |-> critical]
      @@ IF db[plant] = NoRow THEN plant :> [status |-> "OPERATIONAL"] ELSE Nothing,
    Nothing, {})

\* The workstation is not opened again.
UpdateTicketStatus(s, ticket, status) == Stage(s, ticket :> [status |-> status], Nothing, {})

SimulateFault(s, plant) == Stage(s, plant :> [status |-> "FAULT"], Nothing, {})

-----------------------------------------------------------------------------
(* Replenishment *)

ReorderPoint == 1
OrderQuantity == 2

\* Mutant of OnOrder: an order received in part is not counted.
OnOrderSubmitted(shelf) ==
  Total({o \in Of("REORDER", "shelf", shelf) : Status(o) = "SUBMITTED"}, "qty")

\* Drafts are not counted, an order received in part is counted in full.
OnOrder(shelf) ==
  Total({o \in Of("REORDER", "shelf", shelf) : Status(o) \in {"SUBMITTED", "PARTIALLY_RECEIVED"}}, "qty")

Replenish(s, shelf, order) ==
  /\ db[shelf].qty + OnOrder(shelf) <= ReorderPoint
  /\ Stage(s,
       order :> [status |-> IF db[shelf].dear THEN "DRAFT" ELSE "SUBMITTED", shelf |-> shelf,
                 qty |-> OrderQuantity, received |-> 0],
       Nothing, {})

\* Outside: stock is used, and the orders are submitted and received.
UseStock(shelf) ==
  /\ db[shelf].qty > 0
  /\ db' = [db EXCEPT ![shelf].qty = @ - 1]
  /\ UNCHANGED <<sums, req>>

SubmitReorder(order) ==
  /\ Status(order) = "DRAFT"
  /\ db' = [db EXCEPT ![order].status = "SUBMITTED"]
  /\ UNCHANGED <<sums, req>>

ReceiveReorder(order) ==
  LET o == db[order] IN
  /\ Status(order) \in {"SUBMITTED", "PARTIALLY_RECEIVED"}
  /\ db' = [db EXCEPT ![o.shelf].qty = @ + 1, ![order].received = @ + 1,
              ![order].status = IF o.received + 1 = o.qty THEN "RECEIVED" ELSE "PARTIALLY_RECEIVED"]
  /\ UNCHANGED <<sums, req>>

-----------------------------------------------------------------------------

WorkforceEnvironment ==
  \/ Restart
  \/ \E shelf \in Rows("SHELF") : UseStock(shelf)
  \/ \E order \in Live("REORDER") : SubmitReorder(order) \/ ReceiveReorder(order)

WorkforceNext(s) ==
  \/ \E cert \in Rows("CERT"), crew \in Live("CREW") : Fresh(cert) /\ AddCertification(s, cert, crew)
  \/ \E duty \in Rows("DUTY"), crew \in Live("CREW"), start \in 0..(2 * WeekLength - 1) :
       Fresh(duty) /\ CreateShift(s, duty, crew, start)
  \/ \E duty \in Live("DUTY"), to \in Live("CREW"), certificate \in BOOLEAN :
       to # db[duty].crew /\ TradeShift(s, duty, to, certificate)
  \/ \E claim \in Rows("EXPENSE"), receipt \in 1..2, compliant, small \in BOOLEAN :
       Fresh(claim) /\ AuditExpense(s, claim, receipt, compliant, small)
  \/ \E plant \in Rows("PLANT"), ticket \in Rows("TICKET"), grave \in BOOLEAN :
       Fresh(ticket) /\ (IngestTelemetry(s, plant, ticket, grave) \/ CreateTicket(s, plant, ticket, grave))
  \/ \E ticket \in Live("TICKET"), status \in {"IN_PROGRESS", "CLOSED"} : UpdateTicketStatus(s, ticket, status)
  \/ \E plant \in Live("PLANT") : SimulateFault(s, plant)
  \/ \E shelf \in Rows("SHELF"), order \in Rows("REORDER") : Fresh(order) /\ Replenish(s, shelf, order)

-----------------------------------------------------------------------------
(* The replenishment never orders beyond one order quantity over the       *)
(* reorder point, counting what is in stock and still to come, whatever    *)
(* part of its orders has arrived (orders that wait for approval are not   *)
(* counted by the code, nor here).                                         *)
NotOverstocked ==
  \A shelf \in Rows("SHELF") : ~db[shelf].dear =>
    LET open == {o \in Of("REORDER", "shelf", shelf) : Status(o) \in {"SUBMITTED", "PARTIALLY_RECEIVED"}} IN
    db[shelf].qty + Total(open, "qty") - Total(open, "received") <= ReorderPoint + OrderQuantity

\* After a trade the new holder rests between shifts for the statutory time
\* (workforce/shift_swapper, "rest intervals (>=11h)"): while every shift
\* was entered with that rest, trading keeps it.
TradesKeepRest ==
  \A d, e \in Live("DUTY") :
    d # e /\ db[d].crew = db[e].crew /\ db[d].start <= db[e].start /\ "TRANSFERRED" \in {Status(d), Status(e)} =>
      db[e].start - (db[d].start + 1) >= Rest
=============================================================================
