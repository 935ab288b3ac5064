------------------------------ MODULE MCFinance ------------------------------
(* The finance components, each in a small scenario of its own: the rows   *)
(* of the initial database decide which component can move.                *)
EXTENDS MCScenario, Receivables, PointOfSale, RecurringBilling

c1 == "customer"

Level == <<"LVL", 1>> :> [status |-> "LIVE", current |-> 0, available |-> 0, opening |-> 0]

Invoice(n, total, qty) ==
  <<"INV", n>> :> [status |-> "ISSUED", customer |-> c1, total |-> total, qty |-> qty, line |-> <<"SOL", n>>]
OrderLine(n, qty) == <<"SOL", n>> :> [status |-> "LIVE", invoiced |-> qty, returned |-> 0]

\* Two overlapping requests that settle or credit two invoices of one
\* customer, or credit one invoice twice.
SettlementInit ==
  /\ \/ db = Invoice(1, 9, 2) @@ Invoice(2, 1, 1) @@ OrderLine(1, 2) @@ OrderLine(2, 1) @@ Level
             @@ New("ADVALLOC", 2) @@ New("BANKTX", 1) @@ New("CN", 1)
     \/ db = Invoice(1, 9, 2) @@ OrderLine(1, 2) @@ Level @@ New("BANKTX", 1) @@ New("CN", 2)
  /\ sums = AR(<<"INV", 1>>) :> 9 @@ AR(<<"INV", 2>>) :> (IF <<"INV", 2>> \in DOMAIN db THEN 1 ELSE 0)
            @@ Zero({ADV(c1), <<"DEPOSITS", c1>>, <<"SLE", 1>>})
  /\ req = Idling({s1, s2})

\* A register, one request at a time: several sales in a shift, two shifts, or a
\* shift consolidated twice.
PosInit(shifts, sales, merges) ==
  /\ db = Level @@ New("SHIFT", shifts) @@ New("POS", sales) @@ New("CLOSE", 1) @@ New("MERGE", merges)
  /\ sums = Zero({Till, Sle(<<"LVL", 1>>)})
  /\ req = Idling({s1})

CartInit ==
  /\ db = New("CART", 2) @@ New("SHIFT", 1)
  /\ sums = Zero({Till})
  /\ req = Idling({s1})

LastDay == 17

\* One subscription over two intervals, or two over a shorter time.
SubscriptionInit(sessions) ==
  /\ \E n \in 1..2 : db = Clock :> [status |-> "LIVE", now |-> 13 + n] @@ New("SUB", n)
  /\ sums = Zero({Billed(<<"SUB", n>>, d) : n \in 1..2, d \in 14..LastDay})
  /\ req = Idling(sessions)

DunningInit ==
  /\ db = Clock :> [status |-> "LIVE", now |-> 14] @@ New("DTYPE", 2)
          @@ [d \in {<<"DUE", 1>>, <<"DUE", 2>>} |-> [status |-> "ISSUED", due |-> d[2] - 1]]
  /\ sums = Zero({Notice(<<"DUE", n>>, <<"DTYPE", l>>) : n \in 1..2, l \in 1..2})
  /\ req = Idling({s1})

FinanceInit ==
  SettlementInit \/ PosInit(1, 3, 1) \/ PosInit(2, 2, 1) \/ PosInit(1, 2, 2) \/ CartInit \/ SubscriptionInit({s1}) \/ DunningInit

FinanceNext ==
  \/ NextDay(LastDay)
  \/ \E s \in Sessions : EndOfRequest(s) \/ ReceivablesNext(s) \/ PosNext(s) \/ BillingNext(s)

FinanceSpec == FinanceInit /\ [][FinanceNext]_vars
=============================================================================
