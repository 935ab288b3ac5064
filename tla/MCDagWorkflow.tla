--------------------------- MODULE MCDagWorkflow ---------------------------
(***************************************************************************)
(* The two workflow templates of ChiefOrchestrator                         *)
(* (src/src/erp/orchestration/orchestrator.py), for TLC.                   *)
(***************************************************************************)
EXTENDS DagWorkflow, TLC

CONSTANTS p1, p2, x1, x2, x3

\* build_rfq_workflow_dag: a diamond, every node on the recovery allowlist; the
\* production node has no guardrail action.
RfqNodes == {"parse", "cost", "makespan", "quote"}
RfqDeps ==
  [n \in RfqNodes |->
     CASE n = "parse" -> {}
       [] n \in {"cost", "makespan"} -> {"parse"}
       [] n = "quote" -> {"cost", "makespan"}]
RfqRegistered == {"parse", "cost", "quote"}

\* build_order_fulfillment_workflow_dag: a chain; provisioning and dispatch are
\* neither on the allowlist nor registered with the guardrail.
OrderNodes == {"extract", "stock", "provision", "fulfil", "dispatch"}
OrderDeps ==
  [n \in OrderNodes |->
     CASE n = "extract" -> {}
       [] n = "stock" -> {"extract"}
       [] n = "provision" -> {"extract", "stock"}
       [] n = "fulfil" -> {"provision"}
       [] n = "dispatch" -> {"fulfil"}]
OrderSafe == {"extract", "stock", "fulfil"}
OrderRegistered == {"extract", "stock", "fulfil"}
=============================================================================
