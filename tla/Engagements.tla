------------------------------ MODULE Engagements ------------------------------
(***************************************************************************)
(* The work for customers: leads, opportunities and quotations             *)
(* (workflows/crm), support issues under service level agreements          *)
(* (workflows/support), warranty claims, and projects with their tasks and *)
(* timesheets (workflows/projects).  No handler takes a lock.  Statuses    *)
(* that a request names freely are drawn from the ones the code knows.     *)
(*                                                                         *)
(* Rows: LEAD [status, customer]; OPP [status, lead] an opportunity in a   *)
(* sales stage; CUST [status, lead] customer and the lead it came from;    *)
(* OFFER [status, opp, customer]; SLA [status, default, own] own when of   *)
(* one customer; ISSUE [status, sla, reply, solve, replied, solved, shown] *)
(* deadlines, times (0: not yet) and the shown state of the agreement;     *)
(* HOUR [status, now]; CLAIMED [status, covered] warranty claim; PROJECT   *)
(* [status, cost, billed, done]; JOB [status, project, hours] task; TIME   *)
(* [status, project, hours, billable] timesheet.                           *)
(***************************************************************************)
EXTENDS Database

Qualifications == {"QUALIFIED", "IN_PROCESS", "UNQUALIFIED"}
Stages == {"PROSPECTING", "PROPOSAL", "CLOSED_WON", "CLOSED_LOST"}

CreateLead(s, lead, rated) ==
  Stage(s, lead :> [status |-> "LEAD", rated |-> rated, customer |-> NoRef], Nothing, {})

CreateOpportunity(s, opp, lead, stage) ==
  Stage(s, opp :> [status |-> stage, lead |-> lead], Nothing, {})

Converted == [status |-> "CONVERTED", rated |-> "QUALIFIED"]

\* A lead may be converted again.
ConvertLeadToOpportunity(s, lead, opp) ==
  Stage(s, opp :> [status |-> "QUALIFICATION", lead |-> lead] @@ lead :> Converted, Nothing, {})

ConvertLeadToCustomer(s, lead, customer) ==
  /\ db[lead].customer = NoRef
  /\ Stage(s,
       customer :> [status |-> "ACTIVE", lead |-> lead] @@ lead :> (Converted @@ [customer |-> customer]),
       Nothing, {})

UpdateStage(s, opp, stage) == Stage(s, opp :> [status |-> stage], Nothing, {})

\* Mutant of CustomerOf: the customer of the lead is not looked up.
CustomerOfNone(lead) == NoRef

\* The customer that a lead has become.
CustomerOf(lead) == db[lead].customer

\* The lead keeps its status, also when its customer is new.
ConvertToQuotation(s, opp, offer, customer) ==
  LET lead == db[opp].lead
      known == CustomerOf(lead) # NoRef IN
  Stage(s,
    offer :> [status |-> "DRAFT", opp |-> opp, customer |-> IF known THEN CustomerOf(lead) ELSE customer]
      @@ opp :> [status |-> "PROPOSAL"]
      @@ IF known THEN Nothing
         ELSE customer :> [status |-> "ACTIVE", lead |-> lead] @@ lead :> [customer |-> customer],
    Nothing, {})

-----------------------------------------------------------------------------
(* Support: an answer is due after one hour, a solution after two *)

Now == db[<<"HOUR", 1>>].now

NewSla(sla, default, own) ==
  sla :> [status |-> "ACTIVE", default |-> default, own |-> own]
    @@ [x \in {y \in Live("SLA") : default /\ db[y].default} |-> [default |-> FALSE]]

CreateSla(s, sla, default, own) == Stage(s, NewSla(sla, default, own), Nothing, {})

\* The customer's own agreement, the default one, or any; the latest first.
Agreements(ofCustomer) ==
  LET own == {x \in Live("SLA") : ofCustomer /\ db[x].own}
      default == {x \in Live("SLA") : db[x].default}
      pool == IF own # {} THEN own ELSE IF default # {} THEN default ELSE Live("SLA") IN
  {x \in pool : \A y \in pool : y[2] <= x[2]}

\* Without any agreement a default one is created.
CreateIssue(s, issue, ofCustomer, fresh) ==
  \E sla \in IF Live("SLA") = {} THEN {fresh} ELSE Agreements(ofCustomer) :
    Stage(s,
      issue :> [status |-> "OPEN", sla |-> sla, reply |-> Now + 1, solve |-> Now + 2,
                replied |-> 0, solved |-> 0, shown |-> "WITHIN_SLA"]
        @@ IF sla = fresh THEN NewSla(fresh, TRUE, FALSE) ELSE Nothing,
      Nothing, {})

\* Listing the issues writes what they show.
ListIssues(s) ==
  LET open == {i \in Live("ISSUE") : Status(i) \notin {"RESOLVED", "CLOSED"}}
      late == {i \in open : Now > db[i].solve}
      mute == {i \in open \ late : db[i].replied = 0 /\ Now > db[i].reply} IN
  /\ late \cup mute # {}
  /\ Stage(s, [i \in late |-> [shown |-> "RESOLUTION_BREACHED"]] @@ [i \in mute |-> [shown |-> "RESPONSE_BREACHED"]],
       Nothing, {})

\* An answer opens a solved issue again.
AddAgentReply(s, issue) ==
  Stage(s,
    issue :> ([status |-> "REPLIED"]
      @@ IF db[issue].replied # 0 THEN Nothing
         ELSE [replied |-> Now]
                @@ IF Now > db[issue].reply THEN [shown |-> "RESPONSE_BREACHED"] ELSE Nothing),
    Nothing, {})

ResolveIssue(s, issue, status) ==
  Stage(s,
    issue :> [status |-> status, solved |-> Now,
              shown |-> IF Now > db[issue].solve THEN "RESOLUTION_BREACHED" ELSE "FULFILLED"],
    Nothing, {})

\* The warranty is looked up once, when the claim is made.
CreateWarrantyClaim(s, claim, expiry) ==
  Stage(s,
    claim :> [status |-> "OPEN",
              covered |-> IF expiry = 0 THEN "NO_WARRANTY"
                          ELSE IF expiry >= Now THEN "IN_WARRANTY" ELSE "OUT_OF_WARRANTY"],
    Nothing, {})

ResolveWarrantyClaim(s, claim, status) == Stage(s, claim :> [status |-> status], Nothing, {})

\* Outside: an hour passes, up to LastHour.
LastHour == 4
HourPasses ==
  /\ Rows("HOUR") # {} /\ Now < LastHour
  /\ db' = [db EXCEPT ![<<"HOUR", 1>>].now = @ + 1]
  /\ UNCHANGED <<sums, req>>

-----------------------------------------------------------------------------
(* Projects, at a cost of one and a price of two an hour *)

CreateProject(s, project) ==
  Stage(s, project :> [status |-> "IN_PROGRESS", cost |-> 0, billed |-> 0, done |-> 0], Nothing, {})

\* Mutant of Recalculated: the timesheet of the request is not seen.
RecalculatedBefore(project, jobs, times) ==
  [cost |-> Total(Of("TIME", "project", project), "hours"),
   billed |-> 2 * Total({t \in Of("TIME", "project", project) : db[t].billable}, "hours")]

\* recalculate_project sees the flushed rows of its own request: jobs and
\* times are the project's tasks and timesheets with them.  A project that
\* was completed stays so.
Recalculated(project, jobs, times) ==
  LET finished == {j \in DOMAIN jobs : jobs[j].status = "COMPLETED"}
      hours(T) == MapThenSumSet(LAMBDA t : times[t].hours, T) IN
  [cost |-> hours(DOMAIN times), billed |-> 2 * hours({t \in DOMAIN times : times[t].billable})]
    @@ (IF jobs = Nothing THEN Nothing
        ELSE [done |-> (100 * Cardinality(finished)) \div Cardinality(DOMAIN jobs)])
    @@ (IF jobs # Nothing /\ finished = DOMAIN jobs THEN [status |-> "COMPLETED"] ELSE Nothing)

RowsOf(kind, project) == [r \in Of(kind, "project", project) |-> db[r]]

CreateTask(s, project, job) ==
  LET row == [status |-> "OPEN", project |-> project, hours |-> 0] IN
  Stage(s,
    job :> row @@ project :> Recalculated(project, job :> row @@ RowsOf("JOB", project), RowsOf("TIME", project)),
    Nothing, {})

UpdateTask(s, job, status, hours) ==
  LET project == db[job].project
      row == [status |-> status, project |-> project, hours |-> hours] IN
  Stage(s,
    job :> row @@ project :> Recalculated(project, job :> row @@ RowsOf("JOB", project), RowsOf("TIME", project)),
    Nothing, {})

LogTimesheet(s, project, time, hours, billable, job) ==
  LET row == [status |-> "SUBMITTED", project |-> project, hours |-> hours, billable |-> billable] IN
  /\ job # NoRef => db[job].project = project
  /\ Stage(s,
       time :> row
         @@ (IF job = NoRef THEN Nothing ELSE job :> [hours |-> db[job].hours + hours])
         @@ project :> Recalculated(project, RowsOf("JOB", project), time :> row @@ RowsOf("TIME", project)),
       Nothing, {})

RecordProjectUpdate(s, project, progress) ==
  Stage(s,
    project :> ([done |-> progress]
      @@ IF progress = 100 THEN [status |-> "COMPLETED"]
         ELSE IF Status(project) = "COMPLETED" THEN [status |-> "IN_PROGRESS"] ELSE Nothing),
    Nothing, {})

-----------------------------------------------------------------------------

SalesNext(s) ==
  \/ \E lead \in Rows("LEAD"), rated \in Qualifications : Fresh(lead) /\ CreateLead(s, lead, rated)
  \/ \E lead \in Live("LEAD"), opp \in Rows("OPP") :
       /\ Fresh(opp)
       /\ ConvertLeadToOpportunity(s, lead, opp) \/ \E stage \in Stages : CreateOpportunity(s, opp, lead, stage)
  \/ \E lead \in Live("LEAD"), customer \in Rows("CUST") : Fresh(customer) /\ ConvertLeadToCustomer(s, lead, customer)
  \/ \E opp \in Live("OPP"), stage \in Stages : UpdateStage(s, opp, stage)
  \/ \E opp \in Live("OPP"), offer \in Rows("OFFER"), customer \in Rows("CUST") :
       Fresh(offer) /\ Fresh(customer) /\ ConvertToQuotation(s, opp, offer, customer)

SupportNext(s) ==
  \/ \E sla \in Rows("SLA"), default, own \in BOOLEAN : Fresh(sla) /\ CreateSla(s, sla, default, own)
  \/ \E issue \in Rows("ISSUE"), ofCustomer \in BOOLEAN, fresh \in Rows("SLA") :
       Fresh(issue) /\ (Fresh(fresh) \/ Live("SLA") # {}) /\ CreateIssue(s, issue, ofCustomer, fresh)
  \/ ListIssues(s)
  \/ \E issue \in Live("ISSUE") :
       AddAgentReply(s, issue) \/ \E status \in {"RESOLVED", "CLOSED"} : ResolveIssue(s, issue, status)
  \/ \E claim \in Rows("CLAIMED"), expiry \in 0..LastHour : Fresh(claim) /\ CreateWarrantyClaim(s, claim, expiry)
  \/ \E claim \in Live("CLAIMED"), status \in {"RESOLVED", "REJECTED"} : ResolveWarrantyClaim(s, claim, status)

ProjectsNext(s) ==
  \/ \E project \in Rows("PROJECT") : Fresh(project) /\ CreateProject(s, project)
  \/ \E project \in Live("PROJECT") :
       \/ \E job \in Rows("JOB") : Fresh(job) /\ CreateTask(s, project, job)
       \/ \E time \in Rows("TIME"), hours \in {2}, billable \in BOOLEAN, job \in Live("JOB") \cup {NoRef} :
            Fresh(time) /\ LogTimesheet(s, project, time, hours, billable, job)
       \/ \E progress \in {50, 100} : RecordProjectUpdate(s, project, progress)
  \/ \E job \in Live("JOB"), status \in {"OPEN", "COMPLETED"}, hours \in {1} : UpdateTask(s, job, status, hours)

EngagementsNext(s) == SalesNext(s) \/ SupportNext(s) \/ ProjectsNext(s)

-----------------------------------------------------------------------------
(* However a lead is turned into business (converted itself, or through    *)
(* the quotations of its opportunities), it becomes one customer, which    *)
(* all its quotations name.                                                *)
OneCustomerPerLead ==
  /\ \A c, d \in Live("CUST") : db[c].lead = db[d].lead => c = d
  /\ \A o \in Live("OFFER") : db[o].customer = db[db[db[o].opp].lead].customer

\* The cost and the billing of a project are those of its timesheets, and
\* one default agreement at most is in force.
TotalsAndDefaultsAgree ==
  /\ \A p \in Live("PROJECT") :
       /\ db[p].cost = Total(Of("TIME", "project", p), "hours")
       /\ db[p].billed = 2 * Total({t \in Of("TIME", "project", p) : db[t].billable}, "hours")
  /\ \A x, y \in Live("SLA") : db[x].default /\ db[y].default => x = y

\* What the registers of the customers' work promise (workflows/crm,
\* support, projects) while no two requests overlap.
EngagementsAgree == OneCustomerPerLead /\ TotalsAndDefaultsAgree
=============================================================================
