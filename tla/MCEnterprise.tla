----------------------------- MODULE MCEnterprise -----------------------------
(* Every request-handler component, each in its own small scenarios.        *)
EXTENDS MCFinance, MCSupply, MCOrganisation, Schema

Init == FinanceInit \/ SupplyInit \/ OrganisationInit
Next == FinanceNext \/ SupplyNext \/ OrganisationNext
Spec == Init /\ [][Next]_vars
=============================================================================
