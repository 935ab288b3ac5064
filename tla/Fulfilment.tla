------------------------------- MODULE Fulfilment -------------------------------
(***************************************************************************)
(* What moves goods and values besides stock entries: pick lists, packing  *)
(* slips, delivery trips, serial numbers, batches and variants             *)
(* (workflows/stock), exchange rates and revaluations (currency), and the  *)
(* dealings between companies (companies).  Most of these handlers set a   *)
(* status without asking for the one before it; none takes a lock.         *)
(*                                                                         *)
(* Rows: TRIP [status]; STOP [status, trip, note]; SHIPMENT [status] the   *)
(* delivery note of a stop; PICK [status]; PICKED [status, pick, want,     *)
(* got]; PACK [status]; TRACKED [status, batches, serials] an item; SERIAL *)
(* [status, stored]; LOTNO [status] batch; VARIANT [status, serials]; RATE *)
(* [status, inverse, day, rate]; REVAL [status, gain]; COMPANY [status];   *)
(* DEALING [status, amount].  Books: the foreign balance of an account,    *)
(* its value adjustments, and the unrealised gains and losses.             *)
(***************************************************************************)
EXTENDS Database

\* Mutant of CreateTrip: the stop is inserted in a transaction before the trip.
CreateTripLater(s, trip, stop, note) ==
  Stage(s, stop :> [status |-> "PENDING", trip |-> trip, note |-> note], Nothing, {})

CreateTrip(s, trip, stop, note) ==
  Stage(s, trip :> [status |-> "DRAFT"] @@ stop :> [status |-> "PENDING", trip |-> trip, note |-> note], Nothing, {})

DispatchTrip(s, trip) == Stage(s, trip :> [status |-> "IN_TRANSIT"], Nothing, {})

CompleteStop(s, stop) ==
  Stage(s,
    stop :> [status |-> "DELIVERED"]
      @@ IF db[stop].note = NoRef THEN Nothing ELSE db[stop].note :> [status |-> "DELIVERED"],
    Nothing, {})

\* Also with stops that are pending.
CompleteTrip(s, trip) == Stage(s, trip :> [status |-> "COMPLETED"], Nothing, {})

CreatePickList(s, pick, picked, want) ==
  Stage(s,
    pick :> [status |-> "DRAFT"] @@ picked :> [status |-> "LIVE", pick |-> pick, want |-> want, got |-> 0],
    Nothing, {})

\* More than wanted may be picked, and also from a completed list.
UpdatePickedQty(s, picked, got) ==
  LET pick == db[picked].pick IN
  Stage(s,
    picked :> [got |-> got] @@ IF Status(pick) = "DRAFT" THEN pick :> [status |-> "PICKING"] ELSE Nothing,
    Nothing, {})

CompletePickList(s, pick) == Stage(s, pick :> [status |-> "COMPLETED"], Nothing, {})

CreatePackingSlip(s, pack) == Stage(s, pack :> [status |-> "DRAFT"], Nothing, {})
SubmitPackingSlip(s, pack) == Stage(s, pack :> [status |-> "SUBMITTED"], Nothing, {})

CreateBatchNumber(s, item, lot, expired) ==
  Stage(s, lot :> [status |-> IF expired THEN "EXPIRED" ELSE "ACTIVE"] @@ item :> [batches |-> TRUE], Nothing, {})

CreateSerialNumber(s, item, serial, stored) ==
  Stage(s,
    serial :> [status |-> IF stored THEN "ACTIVE" ELSE "AVAILABLE", stored |-> stored] @@ item :> [serials |-> TRUE],
    Nothing, {})

UpdateSerialStatus(s, serial, status, stored) ==
  Stage(s, serial :> ([status |-> status] @@ IF stored THEN [stored |-> TRUE] ELSE Nothing), Nothing, {})

\* A variant keeps the tracking that the template had when it was made.
GenerateVariant(s, item, variant) ==
  Stage(s, variant :> [status |-> "LIVE", serials |-> db[item].serials] @@ item :> [variants |-> TRUE], Nothing, {})

-----------------------------------------------------------------------------
(* Currency: rates in sixths, so that 6 is par and 36 / r the reciprocal *)

Par == 6
ForeignBalance == <<"FX", "BALANCE">>
Adjustment == <<"FX", "ADJUSTMENT">>
Unrealised == <<"FX", "UNREALISED">>

\* A second rate of the same day replaces the first.
SetExchangeRate(s, rate, inverse, day, value) ==
  LET same == {r \in Live("RATE") : db[r].inverse = inverse /\ db[r].day = day} IN
  IF same # {}
  THEN Stage(s, [r \in same |-> [rate |-> value]], Nothing, {})
  ELSE Fresh(rate) /\ Stage(s, rate :> [status |-> "LIVE", inverse |-> inverse, day |-> day, rate |-> value], Nothing, {})

Latest(day, inverse) ==
  LET known == {r \in Live("RATE") : db[r].inverse = inverse /\ db[r].day <= day} IN
  {r \in known : \A q \in known : db[q].day <= db[r].day}

\* Without a rate either way it is par.
LatestRate(day) ==
  IF Latest(day, FALSE) # {} THEN db[CHOOSE r \in Latest(day, FALSE) : TRUE].rate
  ELSE IF Latest(day, TRUE) # {} THEN (Par * Par) \div db[CHOOSE r \in Latest(day, TRUE) : TRUE].rate
  ELSE Par

\* Mutant of Revaluation: a loss is posted on one side only.
RevaluationOneSided(diff) ==
  IF diff >= 0 THEN Adjustment :> diff @@ Unrealised :> -diff ELSE Adjustment :> diff

Revaluation(diff) == Adjustment :> diff @@ Unrealised :> -diff

\* The difference is taken from the foreign balance at par, so that what an
\* earlier revaluation posted is not taken off.
ExecuteRevaluation(s, reval, day) ==
  LET diff == (Book(ForeignBalance) * LatestRate(day)) \div Par - Book(ForeignBalance) IN
  Stage(s, reval :> [status |-> "POSTED", gain |-> diff], Revaluation(diff), {})

CreateCompany(s, company) == Stage(s, company :> [status |-> "ACTIVE"], Nothing, {})
RecordDealing(s, dealing, amount) == Stage(s, dealing :> [status |-> "OPEN", amount |-> amount], Nothing, {})

\* get_consolidated_trial_balance takes the dealings off both sides.
Consolidated(debit, credit) ==
  LET off == Total(Live("DEALING"), "amount") IN
  [debit |-> Max({0, debit - off}), credit |-> Max({0, credit - off})]

\* Outside: postings in the foreign currency.
ForeignPosting(amount) ==
  /\ ForeignBalance \in DOMAIN sums /\ sums[ForeignBalance] = 0
  /\ sums' = [sums EXCEPT ![ForeignBalance] = amount]
  /\ UNCHANGED <<db, req>>

-----------------------------------------------------------------------------

DeliveryNext(s) ==
  \/ \E trip \in Rows("TRIP"), stop \in Rows("STOP"), note \in Live("SHIPMENT") \cup {NoRef} :
       Fresh(trip) /\ Fresh(stop) /\ CreateTrip(s, trip, stop, note)
  \/ \E trip \in Live("TRIP") : DispatchTrip(s, trip) \/ CompleteTrip(s, trip)
  \/ \E stop \in Live("STOP") : CompleteStop(s, stop)
  \/ \E pick \in Rows("PICK"), picked \in Rows("PICKED") : Fresh(pick) /\ Fresh(picked) /\ CreatePickList(s, pick, picked, 2)
  \/ \E picked \in Live("PICKED"), got \in 0..3 : UpdatePickedQty(s, picked, got)
  \/ \E pick \in Live("PICK") : CompletePickList(s, pick)
  \/ \E pack \in Rows("PACK") : Fresh(pack) /\ CreatePackingSlip(s, pack)
  \/ \E pack \in Live("PACK") : SubmitPackingSlip(s, pack)

TrackingNext(s) ==
  \/ \E item \in Live("TRACKED") :
       \/ \E lot \in Rows("LOTNO"), expired \in BOOLEAN : Fresh(lot) /\ CreateBatchNumber(s, item, lot, expired)
       \/ \E serial \in Rows("SERIAL"), stored \in BOOLEAN : Fresh(serial) /\ CreateSerialNumber(s, item, serial, stored)
       \/ \E variant \in Rows("VARIANT") : Fresh(variant) /\ GenerateVariant(s, item, variant)
  \/ \E serial \in Live("SERIAL"), status \in {"DELIVERED", "RETURNED"}, stored \in BOOLEAN :
       UpdateSerialStatus(s, serial, status, stored)

CurrencyNext(s) ==
  \/ \E rate \in Rows("RATE"), inverse \in BOOLEAN, day \in 1..2, value \in {3, 12} :
       SetExchangeRate(s, rate, inverse, day, value)
  \/ \E reval \in Rows("REVAL"), day \in 1..2 : Fresh(reval) /\ ExecuteRevaluation(s, reval, day)
  \/ \E company \in Rows("COMPANY") : Fresh(company) /\ CreateCompany(s, company)
  \/ \E dealing \in Rows("DEALING"), amount \in 1..3 : Fresh(dealing) /\ RecordDealing(s, dealing, amount)

FulfilmentNext(s) == DeliveryNext(s) \/ TrackingNext(s) \/ CurrencyNext(s)

-----------------------------------------------------------------------------
(* A revaluation keeps the ledger balanced and, when the account was not   *)
(* revalued before, leaves it at the spot value of its balance; and the    *)
(* consolidated totals stay balanced whatever is eliminated.               *)
RevaluationsBalance ==
  /\ Book(Adjustment) + Book(Unrealised) = 0
  /\ Book(Adjustment) = Total(Live("REVAL"), "gain")
  /\ \A debit \in 0..4 : LET c == Consolidated(debit, debit) IN c.debit = c.credit
=============================================================================
