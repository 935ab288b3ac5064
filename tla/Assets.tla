--------------------------------- MODULE Assets ---------------------------------
(***************************************************************************)
(* Fixed assets and their maintenance (workflows/assets, maintenance):     *)
(* depreciation plans, their posting, capitalised repairs, revaluation,    *)
(* disposal, movements, and preventive visits.  No handler takes a lock.   *)
(* Posting a depreciation does not ask whether the asset was scrapped, and *)
(* scrapping does not ask whether it was scrapped before.                  *)
(*                                                                         *)
(* Rows: ASSET [status, gross, book, accum, salvage, straight, place]; DEP *)
(* [status, asset, amount], the n-th of its plan, due in that order; MOVE  *)
(* [status, asset, from, to]; UPKEEP [status, due] maintenance schedule;   *)
(* VISIT [status, upkeep, day].  Books: the ledger accounts of the assets, *)
(* and per asset the disposals and the capitalised repairs posted.         *)
(***************************************************************************)
EXTENDS Database

CONSTANTS
  Places,    \* locations of assets
  Values     \* the values and days that a request may name

AssetAccount(a) == <<"ASSETS", a>>
Disposals(asset) == <<"DISPOSAL", asset>>
Capitalised(asset) == <<"CAPITALISED", asset>>

Life == Cardinality(Rows("DEP"))   \* the periods of the category

\* Decimal.quantize to the unit; the ties it rounds to even do not occur
\* when Life is odd.
Nearest(a, b) == (2 * a + b) \div (2 * b)

\* The book value after each of n periods that lead to the salvage value.
StraightLine(book, salvage, n) ==
  LET base == Max({0, book - salvage}) IN
  [i \in 0..n |-> IF i = n THEN book - base ELSE book - i * Nearest(base, n)]

Declining(book, salvage, n) ==
  LET after[i \in 0..n] ==
        IF i = 0 THEN book
        ELSE IF i = n THEN Min({after[n - 1], salvage})
        ELSE Min({after[i - 1], Max({salvage, after[i - 1] - Nearest(2 * after[i - 1], Life)})})
  IN  after

\* Mutant of Plan: the rest is not put into the last period.
PlanRounded(book, salvage, n, straight) ==
  [i \in 1..n |-> Nearest(Max({0, book - salvage}), n)]

\* The amounts of n periods.
Plan(book, salvage, n, straight) ==
  LET after == IF straight THEN StraightLine(book, salvage, n) ELSE Declining(book, salvage, n)
  IN  [i \in 1..n |-> after[i - 1] - after[i]]

CreateAsset(s, asset, gross, salvage, straight, place) ==
  Stage(s,
    asset :> [status |-> "SUBMITTED", gross |-> gross, book |-> gross, accum |-> 0,
              salvage |-> salvage, straight |-> straight, place |-> place]
      @@ IF gross <= salvage THEN Nothing
         ELSE LET plan == Plan(gross, salvage, Life, straight) IN
              [d \in Rows("DEP") |-> [status |-> "PLANNED", asset |-> asset, amount |-> plan[d[2]]]],
    Nothing, {})

PostDepreciation(s, dep) ==
  LET asset == db[dep].asset
      amount == db[dep].amount
      book == db[asset].book - amount IN
  /\ Status(dep) = "PLANNED"
  /\ Stage(s,
       dep :> [status |-> "POSTED"]
         @@ asset :> [accum |-> db[asset].accum + amount, book |-> book,
                      status |-> IF book <= db[asset].salvage THEN "FULLY_DEPRECIATED" ELSE "IN_USE"],
       AssetAccount("EXPENSE") :> amount @@ AssetAccount("ACCUMULATED") :> -amount, {})

RecordMovement(s, asset, move, to) ==
  Stage(s,
    move :> [status |-> "LIVE", asset |-> asset, from |-> db[asset].place, to |-> to]
      @@ asset :> [place |-> to],
    Nothing, {})

\* Only a capitalised repair has an effect; the plan stays as it was.
RecordRepair(s, asset, cost) ==
  Stage(s, asset :> [gross |-> db[asset].gross + cost, book |-> db[asset].book + cost],
    AssetAccount("FIXED") :> cost @@ AssetAccount("CASH") :> -cost @@ Capitalised(asset) :> cost, {})

ScrapAsset(s, asset) ==
  LET a == db[asset] IN
  Stage(s, asset :> [status |-> "SCRAPPED", book |-> 0],
    AssetAccount("LOSS") :> Max({0, a.book}) @@ AssetAccount("ACCUMULATED") :> Max({0, a.accum})
      @@ AssetAccount("FIXED") :> -a.gross @@ Disposals(asset) :> 1, {})

\* The planned rows are spread again, in the order of their dates.
AdjustValue(s, asset, new) ==
  LET a == db[asset]
      delta == new - a.book
      planned == {d \in Of("DEP", "asset", asset) : Status(d) = "PLANNED"}
      plan == Plan(new, a.salvage, Cardinality(planned), a.straight)
      rank(d) == Cardinality({e \in planned : e[2] <= d[2]}) IN
  /\ a.status # "SCRAPPED"
  /\ new >= 0 /\ new >= a.accum /\ delta # 0
  /\ Stage(s,
       asset :> [book |-> new, gross |-> a.gross + delta]
         @@ [d \in planned |-> [amount |-> plan[rank(d)]]],
       AssetAccount("FIXED") :> delta @@ AssetAccount(IF delta > 0 THEN "GAIN" ELSE "LOSS") :> -delta, {})

-----------------------------------------------------------------------------
(* Maintenance, with one period between two visits *)

CreateUpkeep(s, upkeep, start) ==
  Stage(s, upkeep :> [status |-> "ACTIVE", due |-> start + 1], Nothing, {})

\* A visit entered late moves the due date back.
RecordVisit(s, upkeep, visit, day, done) ==
  Stage(s,
    visit :> [status |-> IF done THEN "COMPLETED" ELSE "SCHEDULED", upkeep |-> upkeep, day |-> day]
      @@ IF done /\ Status(upkeep) = "ACTIVE" THEN upkeep :> [due |-> day + 1] ELSE Nothing,
    Nothing, {})

-----------------------------------------------------------------------------

AssetsNext(s) ==
  \/ \E asset \in Rows("ASSET"), salvage \in 0..1, straight \in BOOLEAN, place \in Places :
       Fresh(asset) /\ CreateAsset(s, asset, Max(Values), salvage, straight, place)
  \/ \E dep \in Live("DEP") : PostDepreciation(s, dep)
  \/ \E asset \in Live("ASSET"), move \in Rows("MOVE"), to \in Places :
       Fresh(move) /\ RecordMovement(s, asset, move, to)
  \/ \E asset \in Live("ASSET") :
       \/ Book(Capitalised(asset)) = 0 /\ RecordRepair(s, asset, 2)
       \/ Book(Disposals(asset)) < 1 /\ ScrapAsset(s, asset)
       \/ \E new \in Values : AdjustValue(s, asset, new)
  \/ \E upkeep \in Rows("UPKEEP"), day \in Values : Fresh(upkeep) /\ CreateUpkeep(s, upkeep, day)
  \/ \E upkeep \in Live("UPKEEP"), visit \in Rows("VISIT"), day \in Values, done \in BOOLEAN :
       Fresh(visit) /\ RecordVisit(s, upkeep, visit, day, done)

-----------------------------------------------------------------------------
(* Until it is scrapped, the value of an asset is what it cost less what   *)
(* the ledger has depreciated, and its plan leads to the salvage value,    *)
(* neither below it nor, without a capitalised repair, short of it;        *)
(* posting in any order and revaluing in between included.                 *)
PlanEndsAtSalvage ==
  \A asset \in Live("ASSET") : Book(Disposals(asset)) = 0 =>
    LET planned == {d \in Of("DEP", "asset", asset) : Status(d) = "PLANNED"}
        posted == {d \in Of("DEP", "asset", asset) : Status(d) = "POSTED"}
        left == Max({0, db[asset].book - db[asset].salvage}) IN
    /\ db[asset].book = db[asset].gross - db[asset].accum
    /\ db[asset].accum = Total(posted, "amount")
    /\ db[asset].accum = -Book(AssetAccount("ACCUMULATED"))
    /\ Total(planned, "amount") <= left
    /\ planned # {} /\ Book(Capitalised(asset)) = 0 => Total(planned, "amount") = left
=============================================================================
