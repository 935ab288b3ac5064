---------------------------- MODULE MCOrganisation ----------------------------
(* Quality, payroll, personnel and the other office components, each in    *)
(* small scenarios of its own, one request after the other unless said.    *)
EXTENDS MCScenario, Quality, Payroll, Personnel, LedgerPosting, Workspace, Assets, Engagements, Workforce, Fulfilment, Messaging, MailIntake, MasterData

QualityInit ==
  /\ db = New("QI", 1) @@ New("NC", 1) @@ New("CAPA", 2)
          @@ <<"LOT", 1>> :> [status |-> "LIVE", held |-> FALSE] @@ Line :> [status |-> "OPERATIONAL"]
  /\ sums = Zero({HeldEvents(<<"LOT", 1>>)})
  /\ req = Idling({s1})

Staff(n) == [e \in {<<"EMP", k>> : k \in 1..n} |-> [status |-> "ACTIVE", base |-> 4]]
Accounts == Zero({Account(a) : a \in {"SALARY", "PAYABLE", "TAX", "ADVANCE", "BANK", "EXPENSE"}})

\* One employee with leave, an absence, an advance and an addition.
SlipInit ==
  /\ db = Staff(1) @@ New("ATT", 1) @@ New("ALLOC", 1) @@ New("LEAVE", 1) @@ New("SLIP", 2)
          @@ New("EXTRA", 1)
  /\ sums = Accounts
  /\ req = Idling({s1})

\* Payroll runs: two employees, one of them with an advance; one with a claim.
BatchInit ==
  /\ \/ db = Staff(2) @@ New("ADV", 1) @@ New("PERIOD", 1) @@ New("SLIP", 2) @@ New("BATCH", 1)
     \/ db = Staff(1) @@ New("ADV", 1) @@ New("PERIOD", 1) @@ New("SLIP", 2) @@ New("BATCH", 1)
             @@ <<"CLAIM", 1>> :> [status |-> "SUBMITTED", amount |-> 1]
  /\ sums = Accounts
  /\ req = Idling({s1})

Person(n) == <<"STAFF", n>> :> [status |-> "ACTIVE", active |-> TRUE, grade |-> 1]

\* Joining and leaving with two checklists.
ExitInit ==
  /\ db = Person(1) @@ New("LIST", 2) @@ New("TASK", 4) @@ New("FNF", 1) @@ New("ITEM", 1)
  /\ sums = Nothing
  /\ req = Idling({s1})

\* Two overlapping requests about promotions or about a settlement of an
\* employee who has left.
ApprovalInit ==
  /\ \/ db = Person(1) @@ New("PROMO", 2) @@ New("POLICY", 1)
     \/ db = Person(1) @@ <<"LIST", 1>> :> [status |-> "COMPLETED", emp |-> <<"STAFF", 2>>, leaving |-> TRUE]
             @@ <<"STAFF", 2>> :> [status |-> "LEFT", active |-> FALSE, grade |-> 1]
             @@ New("FNF", 1) @@ New("ITEM", 1)
  /\ sums = Nothing
  /\ req = Idling({s1, s2})

\* Two known accounts, the last of them active or not.
PostingInit(sessions) ==
  /\ \E account, period \in {"ACTIVE", "INACTIVE", "OPEN", "LOCKED"} :
       /\ account \in {"ACTIVE", "INACTIVE"} /\ period \in {"OPEN", "LOCKED"}
       /\ db = New("GLACC", 1) @@ <<"GLACC", 2>> :> [status |-> account] @@ Period :> [status |-> period]
               @@ New("JE", 2) @@ New("AUDIT", 3)
  /\ sums = Zero({GL(<<"GLACC", 1>>), GL(<<"GLACC", 2>>), PostedEvents})
  /\ req = Idling(sessions)

SetupInit ==
  /\ db = New("TENANT", 1) @@ New("GUIDE", 1) @@ New("STEP", 2) @@ New("MASTER", 2)
  /\ sums = Nothing
  /\ req = Idling({s1})

\* Two checkouts of one workspace and two events of the provider.
AccessInit ==
  /\ db = New("SAAS", 2) @@ New("PROV", 2)
  /\ sums = Nothing
  /\ req = Idling({s1})

\* One asset with a plan of three periods, moved once; or its maintenance.
AssetInit ==
  /\ \/ db = New("ASSET", 1) @@ New("DEP", 3)
     \/ db = New("ASSET", 1) @@ New("MOVE", 1)
     \/ db = New("UPKEEP", 1) @@ New("VISIT", 2)
  /\ sums = Zero({AssetAccount("ACCUMULATED"), Disposals(<<"ASSET", 1>>), Capitalised(<<"ASSET", 1>>)})
  /\ req = Idling({s1})

\* A lead with two opportunities; an issue and a warranty claim; a project.
EngagementInit ==
  /\ \/ db = New("LEAD", 1) @@ New("OPP", 2) @@ New("CUST", 2) @@ New("OFFER", 2)
     \/ db = New("SLA", 2) @@ New("ISSUE", 1) @@ <<"HOUR", 1>> :> [status |-> "LIVE", now |-> 1]
     \/ db = New("CLAIMED", 1) @@ <<"HOUR", 1>> :> [status |-> "LIVE", now |-> 1]
     \/ db = New("PROJECT", 1) @@ New("JOB", 2) @@ New("TIME", 2)
  /\ sums = Nothing
  /\ req = Idling({s1})

\* Two workers and their shifts; receipts; telemetry; an item to reorder.
WorkforceInit ==
  LET memory == Memory :> [status |-> "LIVE", certified |-> {}, receipts |-> {}]
      crew == [c \in {<<"CREW", k>> : k \in 1..2} |-> [status |-> "ACTIVE"]] IN
  /\ \/ db = memory @@ crew @@ New("CERT", 1) @@ New("DUTY", 2)
     \/ db = memory @@ New("EXPENSE", 2)
     \/ db = New("PLANT", 1) @@ New("TICKET", 2)
     \/ \E dear \in BOOLEAN : db = <<"SHELF", 1>> :> [status |-> "LIVE", qty |-> 1, dear |-> dear] @@ New("REORDER", 3)
  /\ sums = Nothing
  /\ req = Idling({s1})

\* A trip with its pick list; tracked items; rates and two revaluations.
FulfilmentInit ==
  /\ \/ db = New("TRIP", 1) @@ New("STOP", 1) @@ <<"SHIPMENT", 1>> :> [status |-> "SUBMITTED"]
             @@ New("PICK", 1) @@ New("PICKED", 1) @@ New("PACK", 1)
     \/ db = New("LOTNO", 1) @@ New("SERIAL", 1) @@ New("VARIANT", 1)
             @@ <<"TRACKED", 1>> :> [status |-> "LIVE", batches |-> FALSE, serials |-> FALSE, variants |-> FALSE]
     \/ db = New("RATE", 2) @@ New("REVAL", 2)
     \/ db = New("COMPANY", 2) @@ New("DEALING", 2)
  /\ sums = Zero({ForeignBalance, Adjustment, Unrealised})
  /\ req = Idling({s1})

\* Two deliveries of messages that overlap; one-time codes and a booking;
\* knowledge.
MessagingInit ==
  LET books(n) == Zero({Hands(<<"ANS", k>>) : k \in 1..n}) IN
  \/ /\ db = New("CHAT", 1) @@ New("MSG", 2) @@ New("ANS", 2) @@ New("HELP", 1)
     /\ sums = books(2)
     /\ req = Idling({s1, s2})
  \/ /\ \/ db = New("CHAT", 1) @@ New("MSG", 2) @@ New("ANS", 2) @@ New("CODE", 2)
        \/ db = Chat :> [NewChat EXCEPT !.verified = TRUE] @@ New("MSG", 2) @@ New("ANS", 2) @@ New("BOOKED", 1)
        \/ db = New("SOURCE", 1) @@ New("CHUNK", 4)
     /\ sums = books(2)
     /\ req = Idling({s1})

\* Mail from the webhook and, with overlapping requests, from an account.
MailInit ==
  /\ \/ db = New("MAIL", 2) @@ New("FLOW", 1) @@ New("DRAFTED", 2)
     \/ db = New("MAIL", 1) @@ New("DRAFTED", 2) @@ Gmail :> [status |-> "CONNECTED"] @@ <<"LETTER", 1>> :> [status |-> "UNREAD"]
  /\ sums = Nothing
  /\ req = Idling({s1, s2})

\* Groups, a sales team, a payment schedule and the catalogue; overlapping
\* requests for the points of a customer.
MasterDataInit ==
  LET bill(n, status, total) == <<"BILL", n>> :> [status |-> status, total |-> total] IN
  /\ \/ /\ \/ db = New("GROUP", 3) \/ db = New("SPLIT", 2)
           \/ db = New("TERMS", 2) @@ New("MILESTONE", 3) @@ bill(1, "ISSUED", 7)
           \/ db = New("STOCKED", 2)
        /\ req = Idling({s1})
     \/ /\ db = Customer :> [status |-> "LIVE"] @@ bill(1, "ISSUED", 3) @@ bill(2, "PAID", 2) @@ New("POINTS", 4)
        /\ req = Idling({s1, s2})
  /\ sums = Zero({ItemLedger(<<"STOCKED", k>>) : k \in 1..2})

OrganisationInit == MasterDataInit \/ MailInit \/ MessagingInit \/ FulfilmentInit \/ WorkforceInit \/ EngagementInit \/ AssetInit \/ PostingInit({s1}) \/ SetupInit \/ AccessInit \/ QualityInit \/ SlipInit \/ BatchInit \/ ExitInit \/ ApprovalInit

OrganisationNext ==
  \/ WorkspaceEnvironment \/ HourPasses \/ WorkforceEnvironment \/ ForeignPosting(2)
  \/ \E s \in Sessions :
       EndOfRequest(s) \/ QualityNext(s) \/ PayrollNext(s) \/ PersonnelNext(s) \/ LedgerNext(s) \/ WorkspaceNext(s) \/ AssetsNext(s)
         \/ EngagementsNext(s) \/ WorkforceNext(s) \/ FulfilmentNext(s) \/ MessagingNext(s) \/ MailIntakeNext(s)
         \/ MasterDataNext(s)

OrganisationSpec == OrganisationInit /\ [][OrganisationNext]_vars

-----------------------------------------------------------------------------
(* Properties of several components *)

\* Documents that are derived from others agree with them: depreciation plans,
\* conversions and project totals, replenishments, revaluations, exits,
\* group trees, loyalty points and payment schedules.
RecordsAgree ==
  MasterDataAgrees /\ PlanEndsAtSalvage /\ EngagementsAgree /\ NotOverstocked /\ RevaluationsBalance /\ LeaversAreInactive

\* Every message that came in, by chat or by mail, is handled once.
MessagesHandledOnce == AnsweredOnce /\ KnowledgeIsLast /\ MailHandledOnce

\* What a person decided or a reviewer verified no overlapping or later
\* request undoes: mail, settlements, quality findings.
DecisionsStand == DecisionStands /\ ApprovedNetStands /\ ClosedWhenVerified
=============================================================================
