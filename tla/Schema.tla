-------------------------------- MODULE Schema --------------------------------
(***************************************************************************)
(* The tables (db/models): what a committed row of each kind may hold and  *)
(* which of its columns are foreign keys.  A set of rows folds a document  *)
(* and its lines into one row and keeps the columns that the components    *)
(* compute with.  A status is one the model declares; "\cup" adds the ones *)
(* that the handlers write although the model does not declare them.       *)
(***************************************************************************)
EXTENDS Database

Ref(kind) == {kind} \X (Nat \ {0})
Maybe(kind) == Ref(kind) \cup {NoRef}
Present == [status : {"LIVE"}]   \* a row without a status

Table(rows, refs) == [rows |-> rows, refs |-> refs]

-----------------------------------------------------------------------------
(* Sales and receivables *)

SalesInvoiceRow ==
  [status : {"ISSUED", "PAID", "CANCELLED"}, customer : {"customer"}, total : Nat, qty : Nat, line : Ref("SOL")]
SalesOrderItemRow == [status : {"LIVE"}, invoiced : Nat, returned : Nat]
AdvancePaymentAllocationRow == [status : {"POSTED"}, invoice : Ref("INV"), amount : Nat \ {0}]
GeneralLedgerEntryRow == [status : {"POSTED"}, invoice : Ref("INV"), amount : Nat \ {0}]
CreditNoteRow == [status : {"DRAFT", "POSTED", "CANCELLED"}, invoice : Ref("INV"), qty : Nat \ {0}, amount : Nat]
StockLevelRow ==
  [status : {"LIVE"}, current : Int, available : Int]
    \cup [status : {"LIVE"}, current : Int, available : Int, opening : Nat]
    \cup [status : {"LIVE"}, available : Int, reorder : Nat]
POSOpeningEntryRow == [status : {"OPEN", "CLOSED"}, user : {"cashier"}]
POSInvoiceRow ==
  [status : {"PAID", "RETURNED", "CANCELLED"}, shift : Ref("SHIFT"), qty : Nat \ {0}, total : Nat, paid : Nat,
   method : {"CASH", "CARD", "SPLIT"}, source : Maybe("POS"), cash : Int, posted : BOOLEAN, merged : Maybe("MERGE")]
POSParkedCartRow == [status : {"PARKED", "RESTORED", "CANCELLED"}]
POSClosingEntryRow == [status : {"DRAFT", "SUBMITTED"}, shift : Ref("SHIFT"), cash : Int]
POSInvoiceMergeLogRow == [status : {"PAID"}, shift : Ref("SHIFT"), sales : Nat, returns : Nat, count : Nat \ {0}]
SubscriptionRow ==
  [status : {"TRIALING", "ACTIVE", "GRACE_PERIOD", "PAST_DUE", "PAUSED", "CANCELLED", "COMPLETED"},
   first : Nat, next : Nat, trial : Nat, every : Nat \ {0}, resumed : BOOLEAN]
DunningTypeRow == [status : {"LIVE"}, days : Nat]
OverdueInvoiceRow == [status : {"ISSUED", "PAID", "CANCELLED"}, due : Nat]

FinanceTables ==
  [INV |-> Table(SalesInvoiceRow, {"line"}), SOL |-> Table(SalesOrderItemRow, {}),
   ADVALLOC |-> Table(AdvancePaymentAllocationRow, {"invoice"}), BANKTX |-> Table(GeneralLedgerEntryRow, {"invoice"}),
   CN |-> Table(CreditNoteRow, {"invoice"}), LVL |-> Table(StockLevelRow, {}),
   SHIFT |-> Table(POSOpeningEntryRow, {}), POS |-> Table(POSInvoiceRow, {"shift", "source", "merged"}),
   CART |-> Table(POSParkedCartRow, {}), CLOSE |-> Table(POSClosingEntryRow, {"shift"}),
   MERGE |-> Table(POSInvoiceMergeLogRow, {"shift"}), SUB |-> Table(SubscriptionRow, {}),
   DTYPE |-> Table(DunningTypeRow, {}), DUE |-> Table(OverdueInvoiceRow, {}),
   CLOCK |-> Table([status : {"LIVE"}, now : Nat], {})]

-----------------------------------------------------------------------------
(* Purchasing, making and quality *)

MaterialRequestRow ==
  [status : {"DRAFT", "SUBMITTED", "ORDERED", "PARTIALLY_ORDERED", "CANCELLED"}, qty : Nat \ {0}, ordered : Nat, from : Maybe("MR")]
PurchaseOrderRow ==
  [status : {"DRAFT", "SUBMITTED", "PARTIALLY_RECEIVED", "COMPLETED", "CANCELLED"}, mr : Maybe("MR"), qty : Nat \ {0},
   hash : BOOLEAN, from : Maybe("PO"), source : Ref("SQ") \cup Maybe("BLANKET"), over : Nat]
RequestForQuotationRow == [status : {"DRAFT", "SENT", "QUOTES_RECEIVED", "COMPLETED", "CANCELLED"}]
SupplierQuotationRow ==
  [status : {"DRAFT", "SUBMITTED", "AWARDED", "REJECTED"}, rfq : Ref("RFQ"), qty : Nat \ {0}]
BlanketOrderRow == [status : {"DRAFT", "ACTIVE", "EXPIRED", "CLOSED"}, qty : Nat, ordered : Nat]
GoodsReceiptNoteRow ==
  [status : {"COMPLETED"}, po : Ref("PO"), qty : Nat \ {0}, accepted : Nat, rejected : Nat, inspected : BOOLEAN]
SupplierInvoiceRow == [status : {"UNMATCHED", "MATCHED", "DISPUTED", "STAGED", "POSTED"}, po : Ref("PO"), qty : Nat \ {0}]
DebitNoteRow == [status : {"DRAFT", "POSTED", "CANCELLED"}, invoice : Ref("SINV"), qty : Nat \ {0}]
\* share[grn] for the receipts of the voucher, of which there are at most two.
LandedCostVoucherRow ==
  [status : {"DRAFT", "SUBMITTED", "CANCELLED"}, charges : Nat, share : UNION {[grns -> 0..5] : grns \in SUBSET ({"GRN"} \X (1..2))}]
SupplierScorecardRow ==
  [status : {"LIVE"}, rejected : Nat, quality : 0..100, standing : {"PREFERRED", "STANDARD", "AT_RISK"}]
ProductionPlanRow ==
  [status : {"DRAFT", "SUBMITTED", "IN_PROCESS", "COMPLETED", "CANCELLED"},
   lines : UNION {[1..n -> [item : 1..2, qty : 1..2]] : n \in 1..2}]
WorkOrderRow ==
  [status : {"DRAFT", "SCHEDULED", "IN_PROCESS", "COMPLETED", "STOPPED", "CANCELLED"}, plan : Maybe("PLAN"),
   item : Nat, qty : Nat \ {0}, produced : Nat, staged : BOOLEAN]
StockEntryRow == [status : {"DRAFT", "SUBMITTED", "CANCELLED"}]
JobCardRow == [status : {"PENDING", "WORK_IN_PROGRESS", "PAUSED", "COMPLETED", "CANCELLED"}, wo : Ref("WO"), done : Nat]
WorkstationRow ==
  [status : {"OPERATIONAL", "IN_USE", "MAINTENANCE", "FAULT", "IDLE"} \cup {"PAUSED_QUALITY_HOLD", "CRITICAL_FAULT"}]
DowntimeEntryRow == [status : {"OPEN", "RESOLVED"}, fault : BOOLEAN]
SubcontractingOrderRow ==
  [status : {"DRAFT", "SUBMITTED", "IN_PROCESS", "COMPLETED", "CANCELLED"}, qty : Nat \ {0}, supplied : Nat, consumed : Nat, sent : BOOLEAN]
SubcontractingReceiptRow == [status : {"COMPLETED"}, qty : Nat \ {0}, taken : Nat]
QualityInspectionRow == [status : {"PASS", "FAIL", "REJECTED"}]
NonConformanceRow == [status : {"OPEN", "INVESTIGATING", "CAPA_ASSIGNED", "CLOSED"}, from : Maybe("QI")]
QualityActionRow == [status : {"OPEN", "IN_PROGRESS", "IMPLEMENTED", "VERIFIED_CLOSED"}, nc : Ref("NC")]
HeldBatchRow == [status : {"LIVE"}, held : BOOLEAN]

SupplyTables ==
  [MR |-> Table(MaterialRequestRow, {"from"}), PO |-> Table(PurchaseOrderRow, {"mr", "from", "source"}),
   RFQ |-> Table(RequestForQuotationRow, {}), SQ |-> Table(SupplierQuotationRow, {"rfq"}),
   BLANKET |-> Table(BlanketOrderRow, {}), GRN |-> Table(GoodsReceiptNoteRow, {"po"}),
   SINV |-> Table(SupplierInvoiceRow, {"po"}), DN |-> Table(DebitNoteRow, {"invoice"}),
   LCV |-> Table(LandedCostVoucherRow, {}), SCORE |-> Table(SupplierScorecardRow, {}),
   PLAN |-> Table(ProductionPlanRow, {}), WO |-> Table(WorkOrderRow, {"plan"}), STE |-> Table(StockEntryRow, {}),
   JC |-> Table(JobCardRow, {"wo"}), WS |-> Table(WorkstationRow, {}), DT |-> Table(DowntimeEntryRow, {}),
   SCO |-> Table(SubcontractingOrderRow, {}), SCR |-> Table(SubcontractingReceiptRow, {}),
   QI |-> Table(QualityInspectionRow, {}), NC |-> Table(NonConformanceRow, {"from"}),
   CAPA |-> Table(QualityActionRow, {"nc"}), LOT |-> Table(HeldBatchRow, {})]

-----------------------------------------------------------------------------
(* People and pay *)

SalaryStructureAssignmentRow == [status : {"ACTIVE"}, base : Nat]
AttendanceRow == [status : {"PRESENT", "ABSENT", "ON_LEAVE", "HALF_DAY"}]
LeaveAllocationRow == [status : {"LIVE"}, total : Nat]
LeaveApplicationRow ==
  [status : {"DRAFT", "SUBMITTED", "APPROVED", "REJECTED", "CANCELLED"}, from : Nat, to : Nat, lwp : BOOLEAN]
EmployeeAdvanceRow ==
  [status : {"PENDING", "APPROVED", "PAID", "REPAID"}, emp : Ref("EMP"), amount : Nat, monthly : Nat, repaid : Nat]
AdditionalSalaryRow ==
  [status : {"PENDING", "EARNED", "INCLUDED", "PAID"}, emp : Ref("EMP"), day : Nat, amount : Nat, bonus : BOOLEAN,
   slip : Maybe("SLIP")]
ExpenseClaimRow ==
  [status : {"SUBMITTED", "AUTO_APPROVED", "FLAGGED", "APPROVED", "PAID", "REJECTED"}, amount : Nat]
PayrollPeriodRow == [status : {"OPEN", "CLOSED"}, from : Nat, to : Nat]
SalarySlipRow ==
  [status : {"DRAFT", "SUBMITTED", "PAID", "CANCELLED"}, emp : Ref("EMP"), from : Nat, to : Nat, gross : Nat, tax : Nat,
   emi : Nat, net : Nat]
PayrollEntryRow == [status : {"DRAFT", "SUBMITTED", "CANCELLED"}, from : Nat, to : Nat]
EmployeeRow == [status : {"ACTIVE", "ON_LEAVE", "SUSPENDED", "LEFT"}, active : BOOLEAN, grade : Nat]
EmployeePromotionRow ==
  [status : {"PENDING", "APPROVED", "REJECTED", "CANCELLED"}, emp : Ref("STAFF"), from : Nat, to : Nat, effective : BOOLEAN]
ChecklistRow == [status : {"PENDING", "IN_PROGRESS", "COMPLETED"}, emp : Ref("STAFF"), leaving : BOOLEAN]
ChecklistTaskRow == [status : {"OPEN", "DONE"}, list : Ref("LIST")]
FullAndFinalStatementRow == [status : {"DRAFT", "PENDING_APPROVAL", "APPROVED", "PAID", "CANCELLED"} \cup {"DELETED"}, list : Ref("LIST"), net : Int]
FullAndFinalStatementItemRow == [status : {"LIVE"}, fnf : Ref("FNF"), amount : Int]
LeavePolicyAssignmentRow == [status : {"ACTIVE"}]
WorkerRow == [status : {"ACTIVE", "ON_LEAVE", "SUSPENDED", "LEFT"}]
ShiftScheduleRow ==
  [status : {"SCHEDULED", "SWAP_REQUESTED", "COMPLETED", "CANCELLED", "TRANSFERRED"}, crew : Ref("CREW"), start : Nat]
OperatorCertificationRow == [status : {"ACTIVE"}, crew : Ref("CREW")]
AuditedExpenseRow ==
  [status : {"SUBMITTED", "AUTO_APPROVED", "FLAGGED", "APPROVED", "PAID", "REJECTED"}, receipt : Nat]

PeopleTables ==
  [EMP |-> Table(SalaryStructureAssignmentRow, {}), ATT |-> Table(AttendanceRow, {}),
   ALLOC |-> Table(LeaveAllocationRow, {}), LEAVE |-> Table(LeaveApplicationRow, {}),
   ADV |-> Table(EmployeeAdvanceRow, {"emp"}), EXTRA |-> Table(AdditionalSalaryRow, {"emp", "slip"}),
   CLAIM |-> Table(ExpenseClaimRow, {}), PERIOD |-> Table(PayrollPeriodRow, {}),
   SLIP |-> Table(SalarySlipRow, {"emp"}), BATCH |-> Table(PayrollEntryRow, {}), STAFF |-> Table(EmployeeRow, {}),
   PROMO |-> Table(EmployeePromotionRow, {"emp"}), LIST |-> Table(ChecklistRow, {"emp"}),
   TASK |-> Table(ChecklistTaskRow, {"list"}), FNF |-> Table(FullAndFinalStatementRow, {"list"}),
   ITEM |-> Table(FullAndFinalStatementItemRow, {"fnf"}), POLICY |-> Table(LeavePolicyAssignmentRow, {}),
   CREW |-> Table(WorkerRow, {}), DUTY |-> Table(ShiftScheduleRow, {"crew"}),
   CERT |-> Table(OperatorCertificationRow, {"crew"}), EXPENSE |-> Table(AuditedExpenseRow, {}),
   MEMORY |-> Table([status : {"LIVE"}, certified : SUBSET Ref("CREW"), receipts : SUBSET Nat], {})]

-----------------------------------------------------------------------------
(* The ledger and the workspace *)

AccountRow == [status : {"ACTIVE", "INACTIVE"}]
FiscalPeriodRow == [status : {"OPEN", "LOCKED"}]
JournalRow == Present
AgentAuditLogRow == [status : {"LIVE"}, prev : Maybe("AUDIT")]
TenantRow == [status : {"AWAITING_SETUP", "READY"}]
OnboardingProgressRow == [status : {"OPEN", "DONE"}]
OnboardingStepRow == [status : {"OPEN", "DONE"}, guide : Ref("GUIDE"), byHand : BOOLEAN]
SaaSSubscriptionRow ==
  [status : {"pending", "trialing", "active", "past_due", "paused", "cancelled", "ended"}, prov : BOOLEAN, trial : BOOLEAN,
   asked : BOOLEAN]
SafePayWebhookEventRow ==
  [status : {"SENT", "PROCESSED", "ERROR"}, of : Ref("SAAS"), named : BOOLEAN,
   type : {"created", "succeeded", "failed", "paused", "resumed", "cancelled", "ended"}]

WorkspaceTables ==
  [GLACC |-> Table(AccountRow, {}), FISCAL |-> Table(FiscalPeriodRow, {}), JE |-> Table(JournalRow, {}),
   AUDIT |-> Table(AgentAuditLogRow, {"prev"}), TENANT |-> Table(TenantRow, {}),
   GUIDE |-> Table(OnboardingProgressRow, {}), STEP |-> Table(OnboardingStepRow, {"guide"}),
   MASTER |-> Table([status : {"LIVE"}, demo : BOOLEAN], {}), SAAS |-> Table(SaaSSubscriptionRow, {}),
   PROV |-> Table(SafePayWebhookEventRow, {})]

-----------------------------------------------------------------------------
(* Assets, customers, goods and currencies *)

AssetRow ==
  [status : {"DRAFT", "SUBMITTED", "IN_USE", "MAINTENANCE", "SCRAPPED", "SOLD"} \cup {"FULLY_DEPRECIATED"},
   gross : Nat, book : Int, accum : Nat, salvage : Nat, straight : BOOLEAN, place : {"hall", "yard"}]
AssetDepreciationScheduleRow == [status : {"PLANNED", "POSTED"}, asset : Ref("ASSET"), amount : Nat]
AssetMovementRow == [status : {"LIVE"}, asset : Ref("ASSET"), from : {"hall", "yard"}, to : {"hall", "yard"}]
MaintenanceScheduleRow == [status : {"ACTIVE", "PAUSED", "EXPIRED"}, due : Nat]
MaintenanceVisitRow ==
  [status : {"SCHEDULED", "IN_PROGRESS", "COMPLETED", "CANCELLED"}, upkeep : Ref("UPKEEP"), day : Nat]
LeadRow ==
  [status : {"LEAD", "OPEN", "REPLIED", "OPPORTUNITY", "QUOTATION", "INTERESTED", "CONVERTED", "DO_NOT_CONTACT"},
   rated : {"UNQUALIFIED", "IN_PROCESS", "QUALIFIED"}, customer : Maybe("CUST")]
OpportunityRow ==
  [status : {"PROSPECTING", "QUALIFICATION", "PROPOSAL", "NEGOTIATION", "CLOSED_WON", "CLOSED_LOST"}, lead : Ref("LEAD")]
CustomerRow == [status : {"ACTIVE"}, lead : Ref("LEAD")]
SalesQuotationRow ==
  [status : {"DRAFT", "SENT", "ACCEPTED", "REJECTED", "EXPIRED"}, opp : Ref("OPP"), customer : Ref("CUST")]
ServiceLevelAgreementRow == [status : {"ACTIVE"}, default : BOOLEAN, own : BOOLEAN]
IssueRow ==
  [status : {"OPEN", "REPLIED", "ON_HOLD", "RESOLVED", "CLOSED"}, sla : Maybe("SLA"), reply : Nat, solve : Nat,
   replied : Nat, solved : Nat, shown : {"WITHIN_SLA", "RESPONSE_BREACHED", "RESOLUTION_BREACHED", "FULFILLED"}]
WarrantyClaimRow ==
  [status : {"OPEN", "IN_REVIEW", "APPROVED", "REPLACED", "REPAIRED", "REJECTED", "CLOSED"} \cup {"RESOLVED"},
   covered : {"IN_WARRANTY", "OUT_OF_WARRANTY", "NO_WARRANTY"}]
ProjectRow ==
  [status : {"PLANNING", "IN_PROGRESS", "ON_HOLD", "COMPLETED", "CANCELLED"}, cost : Nat, billed : Nat, done : 0..100]
ProjectTaskRow == [status : {"OPEN", "WORKING", "PENDING_REVIEW", "COMPLETED"}, project : Ref("PROJECT"), hours : Nat]
TimesheetRow == [status : {"DRAFT", "SUBMITTED", "BILLED"}, project : Ref("PROJECT"), hours : Nat, billable : BOOLEAN]
MaintenanceTicketRow ==
  [status : {"OPEN", "IN_PROGRESS", "RESOLVED", "CLOSED"}, plant : Ref("PLANT"), critical : BOOLEAN]
ReorderLevelRow == [status : {"LIVE"}, qty : Nat, dear : BOOLEAN]
ReorderRow ==
  [status : {"DRAFT", "SUBMITTED", "PARTIALLY_RECEIVED", "COMPLETED", "CANCELLED"} \cup {"RECEIVED"},
   shelf : Ref("SHELF"), qty : Nat \ {0}, received : Nat]
DeliveryTripRow == [status : {"DRAFT", "IN_TRANSIT", "COMPLETED", "CANCELLED"}]
DeliveryStopRow ==
  [status : {"PENDING", "ARRIVED", "DELIVERED", "FAILED"}, trip : Ref("TRIP"), note : Maybe("SHIPMENT")]
DeliveryNoteRow == [status : {"SUBMITTED", "DISPATCHED", "DELIVERED"}]
PickListRow == [status : {"DRAFT", "PICKING", "COMPLETED", "CANCELLED"}]
PickListItemRow == [status : {"LIVE"}, pick : Ref("PICK"), want : Nat, got : Nat]
PackingSlipRow == [status : {"DRAFT", "SUBMITTED", "CANCELLED"}]
ItemRow == [status : {"LIVE"}, batches : BOOLEAN, serials : BOOLEAN, variants : BOOLEAN]
SerialNoRow ==
  [status : {"ACTIVE", "DELIVERED", "EXPIRED", "MAINTENANCE"} \cup {"AVAILABLE", "RETURNED"}, stored : BOOLEAN]
BatchRow == [status : {"ACTIVE", "EXPIRED", "RECALLED"}]
ItemVariantRow == [status : {"LIVE"}, serials : BOOLEAN]
CurrencyExchangeRateRow == [status : {"LIVE"}, inverse : BOOLEAN, day : Nat, rate : Nat \ {0}]
ExchangeRateRevaluationRow == [status : {"POSTED"}, gain : Int]
CompanyRow == [status : {"ACTIVE"}]
InterCompanyTransactionRow == [status : {"OPEN"}, amount : Nat]

ServiceTables ==
  [ASSET |-> Table(AssetRow, {}), DEP |-> Table(AssetDepreciationScheduleRow, {"asset"}),
   MOVE |-> Table(AssetMovementRow, {"asset"}), UPKEEP |-> Table(MaintenanceScheduleRow, {}),
   VISIT |-> Table(MaintenanceVisitRow, {"upkeep"}), LEAD |-> Table(LeadRow, {"customer"}),
   OPP |-> Table(OpportunityRow, {"lead"}), CUST |-> Table(CustomerRow, {"lead"}),
   OFFER |-> Table(SalesQuotationRow, {"opp", "customer"}), SLA |-> Table(ServiceLevelAgreementRow, {}),
   ISSUE |-> Table(IssueRow, {"sla"}), HOUR |-> Table([status : {"LIVE"}, now : Nat], {}),
   CLAIMED |-> Table(WarrantyClaimRow, {}), PROJECT |-> Table(ProjectRow, {}), JOB |-> Table(ProjectTaskRow, {"project"}),
   TIME |-> Table(TimesheetRow, {"project"}), PLANT |-> Table(WorkstationRow, {}),
   TICKET |-> Table(MaintenanceTicketRow, {"plant"}), SHELF |-> Table(ReorderLevelRow, {}),
   REORDER |-> Table(ReorderRow, {"shelf"})]

GoodsTables ==
  [TRIP |-> Table(DeliveryTripRow, {}), STOP |-> Table(DeliveryStopRow, {"trip", "note"}),
   SHIPMENT |-> Table(DeliveryNoteRow, {}), PICKED |-> Table(PickListItemRow, {"pick"}),
   PACK |-> Table(PackingSlipRow, {}), TRACKED |-> Table(ItemRow, {}), SERIAL |-> Table(SerialNoRow, {}),
   LOTNO |-> Table(BatchRow, {}), VARIANT |-> Table(ItemVariantRow, {}), RATE |-> Table(CurrencyExchangeRateRow, {}),
   REVAL |-> Table(ExchangeRateRevaluationRow, {}), COMPANY |-> Table(CompanyRow, {}),
   DEALING |-> Table(InterCompanyTransactionRow, {})] @@ "PICK" :> Table(PickListRow, {})

-----------------------------------------------------------------------------
(* Master data *)

ItemGroupRow ==
  [status : {"LIVE", "DELETED"}, parent : Maybe("GROUP"), folder : BOOLEAN, left : Nat \ {0}, right : Nat \ {0}]
SalesTeamRow == [status : {"LIVE"}, share : 0..10]
BillRow == [status : {"ISSUED", "PAID", "CANCELLED"}, total : Nat]
LoyaltyPointEntryRow == [status : {"EARN", "REDEEM"}, bill : Maybe("BILL"), points : Nat \ {0}]
PaymentTermsTemplateRow == [status : {"LIVE"}, portions : {<<50, 50>>, <<30, 30, 40>>}]
PaymentScheduleRow == [status : {"UNPAID", "PARTIAL", "PAID", "OVERDUE", "DELETED"}, bill : Ref("BILL"), amount : Nat]
CatalogueItemRow == [status : {"LIVE"}, current : Nat]

MasterTables ==
  [GROUP |-> Table(ItemGroupRow, {"parent"}), SPLIT |-> Table(SalesTeamRow, {}), BILL |-> Table(BillRow, {}),
   MEMBER |-> Table(Present, {}), POINTS |-> Table(LoyaltyPointEntryRow, {"bill"}),
   TERMS |-> Table(PaymentTermsTemplateRow, {}), MILESTONE |-> Table(PaymentScheduleRow, {"bill"}),
   STOCKED |-> Table(CatalogueItemRow, {})]

-----------------------------------------------------------------------------
(* Messages *)

WhatsAppConversationRow == [status : {"ACTIVE", "HUMAN_HANDOFF"}, issue : Maybe("HELP"), verified : BOOLEAN]
InboundMessageRow == [status : {"RECEIVED"}, early : BOOLEAN]
OutboundMessageRow ==
  [status : {"PENDING", "SENT", "FAILED"}, reply : Maybe("MSG"), of : Maybe("MSG"), auto : BOOLEAN]
SupportIssueRow == [status : {"OPEN", "REPLIED"}]
WhatsAppOTPChallengeRow == [status : {"OPEN", "USED"}, tries : 0..5]
AppointmentRow == [status : {"SCHEDULED", "CONFIRMED", "CANCELLED"}]
KnowledgeSourceRow == [status : {"READY", "DELETED"}, chunks : Nat]
KnowledgeRow == [status : {"LIVE", "DELETED"}, source : Ref("SOURCE")]

InboundEmailRow ==
  [status : {"HUMAN_REVIEW_REQUIRED", "FILTERED_NOTIFICATION", "DURABLY_ACCEPTED", "ACCEPTED_FOR_MANUAL_PROCESSING",
             "REJECTED", "SALES_ORDER_DRAFT_CREATED"},
   order : BOOLEAN, flow : Maybe("FLOW"), draft : Maybe("DRAFTED")]
DAGExecutionRow == [status : {"DISPATCHED", "RUNNING"}]
DraftedOrderRow == [status : {"PENDING_CONFIRMATION"}, mail : Ref("MAIL")]
TenantOAuthConnectionRow == [status : {"CONNECTED", "DISCONNECTED"}]

MessageTables ==
  [CHAT |-> Table(WhatsAppConversationRow, {"issue"}), MSG |-> Table(InboundMessageRow, {}),
   ANS |-> Table(OutboundMessageRow, {"reply", "of"}), HELP |-> Table(SupportIssueRow, {}),
   CODE |-> Table(WhatsAppOTPChallengeRow, {}), BOOKED |-> Table(AppointmentRow, {}),
   SOURCE |-> Table(KnowledgeSourceRow, {}), CHUNK |-> Table(KnowledgeRow, {"source"}),
   MAIL |-> Table(InboundEmailRow, {"flow", "draft"}), FLOW |-> Table(DAGExecutionRow, {}),
   DRAFTED |-> Table(DraftedOrderRow, {"mail"}), GMAIL |-> Table(TenantOAuthConnectionRow, {}),
   LETTER |-> Table([status : {"UNREAD", "READ"}], {})]

Tables == MasterTables @@ MessageTables @@ FinanceTables @@ SupplyTables @@ PeopleTables @@ WorkspaceTables @@ ServiceTables @@ GoodsTables

\* A committed row has the columns of its table, and the rows that its
\* foreign keys name are committed too.
WellFormed(d) ==
  /\ db[d] \in Tables[d[1]].rows
  /\ \A column \in Tables[d[1]].refs : db[d][column] # NoRef => db[db[d][column]] # NoRow

(* Whatever requests overlap, commit or fail, every committed row holds    *)
(* what its table may hold and refers to committed rows only.              *)
RowsWellFormed == \A d \in DOMAIN db : db[d] # NoRow => WellFormed(d)
=============================================================================
