------------------------------- MODULE MCSupply -------------------------------
(* Purchasing, manufacturing and warehouse components, each in a small      *)
(* scenario of its own.                                                     *)
EXTENDS MCScenario, Procurement, Payables, Manufacturing

DemandInit(sessions, requests, orders) ==
  /\ db = New("MR", requests) @@ New("PO", orders)
          @@ <<"LVL", 1>> :> [status |-> "LIVE", available |-> 1, reorder |-> 2]
  /\ sums = Nothing
  /\ req = Idling(sessions)

SourcingInit ==
  /\ db = New("RFQ", 1) @@ New("SQ", 3) @@ New("BLANKET", 1) @@ New("PO", 2)
  /\ sums = Nothing
  /\ req = Idling({s1})

Shelves == [d \in {Main, Quarantine} |-> [status |-> "LIVE", current |-> 0, available |-> 0]]

PayablesInit(sessions, dn, lcv) ==
  /\ db = <<"PO", 1>> :> ([over |-> 1] @@ Order("SUBMITTED", NoRef, 3, TRUE, NoRef, NoRef)) @@ Shelves @@ New("GRN", 2)
          @@ New("SINV", 1) @@ New("DN", dn) @@ New("LCV", lcv) @@ New("SCORE", lcv)
  /\ sums = Zero({Sle(Main), Sle(Quarantine), AP(<<"SINV", 1>>)})
  /\ req = Idling(sessions)

Site(opening) ==
  [l \in {Store, Floor, Goods} |->
     LET q == IF l = Store THEN opening ELSE 0 IN
     [status |-> "LIVE", current |-> q, available |-> q, opening |-> q]]
SiteBooks == Zero({Sle(Store), Sle(Floor), Sle(Goods)})

MakingInit(sessions, orders, downtimes) ==
  /\ db = Site(3) @@ Station :> [status |-> "OPERATIONAL"] @@ New("PLAN", 1) @@ New("WO", orders)
          @@ New("STE", 2 * orders) @@ New("JC", orders) @@ New("DT", downtimes)
  /\ sums = SiteBooks
  /\ req = Idling(sessions)

SubcontractingInit ==
  /\ db = Site(3) @@ New("SCO", 1) @@ New("SCR", 2)
  /\ sums = SiteBooks
  /\ req = Idling({s1})

SupplyInit ==
  \/ MakingInit({s1, s2}, 1, 0) \/ MakingInit({s1}, 2, 0) \/ MakingInit({s1}, 1, 1) \/ SubcontractingInit
  \/ PayablesInit({s1, s2}, 0, 0) \/ PayablesInit({s1}, 1, 1)
  \/ DemandInit({s1, s2}, 1, 2) \/ DemandInit({s1}, 2, 2) \/ SourcingInit

SupplyNext ==
  \E s \in Sessions :
    \/ EndOfRequest(s) \/ OrderNext(s, 1..2) \/ SourcingNext(s, 1..2, {3}) \/ PayablesNext(s) \/ ManufacturingNext(s)
    \/ OneSession /\ ConversionNext(s, 1..2)

SupplySpec == SupplyInit /\ [][SupplyNext]_vars
=============================================================================
