------------------------------- MODULE Personnel -------------------------------
(***************************************************************************)
(* Employees: joining and leaving with their checklists                    *)
(* (workflows/hr/employee_service), promotions, and the full and final     *)
(* settlement of a leaver (api/routes/hr, "deep" records).  The approvals  *)
(* lock their record and the employee; the checklists and the plain        *)
(* create, update and delete routes lock nothing.                          *)
(*                                                                         *)
(* Rows: STAFF [status, active, grade]; PROMO [status, emp, from, to,      *)
(* effective] promotion; LIST [status, emp, leaving] the onboarding or     *)
(* separation of an employee; TASK [status, list] of a checklist; FNF      *)
(* [status, list, net] settlement; ITEM [status, fnf, amount] of it, a     *)
(* deduction is negative; POLICY y [status] leave policy assigned to       *)
(* employee 1 in year y.                                                   *)
(***************************************************************************)
EXTENDS Database

CreateEmployee(s, emp) ==
  Stage(s, emp :> [status |-> "ACTIVE", active |-> TRUE, grade |-> 1], Nothing, {})

\* The status is free text here; is_active is not a parameter.
UpdateEmployee(s, emp, status) == Stage(s, emp :> [status |-> status], Nothing, {})

\* A checklist and its tasks.
CreateChecklist(s, list, tasks, emp, leaving) ==
  Stage(s,
    list :> [status |-> "PENDING", emp |-> emp, leaving |-> leaving]
      @@ [t \in tasks |-> [status |-> "OPEN", list |-> list]],
    Nothing, {})

\* Mutant of AllDone: the task being completed is the last one.
AllDoneByOne(task) == TRUE

AllDone(task) ==
  \A t \in Of("TASK", "list", db[task].list) : t = task \/ Status(t) = "DONE"

Leave(emp) == emp :> [status |-> "LEFT", active |-> FALSE]

\* The tasks are read after the flush of this one and without a lock: two
\* tasks completed at once leave the list in progress.
CompleteTask(s, task) ==
  LET list == db[task].list IN
  Stage(s,
    task :> [status |-> "DONE"]
      @@ list :> [status |-> IF AllDone(task) THEN "COMPLETED" ELSE "IN_PROGRESS"]
      @@ IF AllDone(task) /\ db[list].leaving THEN Leave(db[list].emp) ELSE Nothing,
    Nothing, {})

-----------------------------------------------------------------------------
(* Promotions *)

CreatePromotion(s, promo, emp, from, to, effective) ==
  Stage(s, promo :> [status |-> "PENDING", emp |-> emp, from |-> from, to |-> to, effective |-> effective],
        Nothing, {})

\* A protected record cannot change its status here; anything else can.
UpdatePromotion(s, promo, to) == Stage(s, promo :> [to |-> to], Nothing, {})

\* Mutant of PromotionLocks: only the request itself is locked.
PromotionLocksRecord(promo) == {promo}

PromotionLocks(promo) == {promo, db[promo].emp}

\* A promotion of a later day is approved and never applied by itself.
ApprovePromotion(s, promo, approver) ==
  LET p == db[promo] IN
  /\ p.status = "PENDING"
  /\ db[approver].active
  /\ db[p.emp].grade = p.from
  /\ Stage(s,
       promo :> [status |-> "APPROVED"] @@ IF p.effective THEN p.emp :> [grade |-> p.to] ELSE Nothing,
       Nothing, PromotionLocks(promo))

-----------------------------------------------------------------------------
(* Full and final settlement *)

CreateSettlement(s, fnf, list) ==
  Stage(s, fnf :> [status |-> "DRAFT", list |-> list, net |-> 0], Nothing, {})

\* The draft is checked without a lock: it may be approved before the commit.
DeleteSettlement(s, fnf) == Status(fnf) = "DRAFT" /\ Stage(s, fnf :> [status |-> "DELETED"], Nothing, {})

\* Items are written in any status of their settlement.
PutItem(s, item, fnf, amount) ==
  Stage(s, item :> [status |-> "LIVE", fnf |-> fnf, amount |-> amount], Nothing, {})

Net(fnf) == Total(Of("ITEM", "fnf", fnf), "amount")

\* Mutant of RecalculationLocks: the statement is read without a lock.
NoRecalculationLocks(fnf) == {}

RecalculationLocks(fnf) == {fnf}

RecalculateSettlement(s, fnf) ==
  /\ Status(fnf) \in {"DRAFT", "PENDING_APPROVAL"}
  /\ Stage(s, fnf :> [net |-> Net(fnf)], Nothing, RecalculationLocks(fnf))

SubmitSettlement(s, fnf) ==
  /\ Status(fnf) = "DRAFT"
  /\ Of("ITEM", "fnf", fnf) # {}
  /\ Stage(s, fnf :> [net |-> Net(fnf), status |-> "PENDING_APPROVAL"], Nothing, {fnf})

ApproveSettlement(s, fnf, approver) ==
  /\ Status(fnf) = "PENDING_APPROVAL"
  /\ db[approver].active
  /\ Stage(s, fnf :> [status |-> "APPROVED"], Nothing, {fnf})

MarkSettlementPaid(s, fnf) ==
  LET list == db[fnf].list IN
  /\ Status(fnf) = "APPROVED"
  /\ \A t \in Of("TASK", "list", list) : Status(t) = "DONE"
  /\ Stage(s,
       fnf :> [status |-> "PAID"] @@ list :> [status |-> "COMPLETED"] @@ Leave(db[list].emp),
       Nothing, {fnf, db[list].emp})

ApplyLeavePolicy(s, year, emp) ==
  /\ db[emp].active
  /\ Stage(s, year :> [status |-> "ACTIVE"], Nothing, {})

-----------------------------------------------------------------------------

\* Completions of one list overlap in no scenario, see CompleteTask.
PersonnelNext(s) ==
  \/ \E e \in Rows("STAFF") :
       \/ Fresh(e) /\ CreateEmployee(s, e)
       \/ db[e] # NoRow /\ \E status \in {"ACTIVE", "ON_LEAVE"} : UpdateEmployee(s, e, status)
       \/ \E y \in Rows("POLICY") : db[e] # NoRow /\ db[y] = NoRow /\ ApplyLeavePolicy(s, y, e)
       \/ \E l \in Rows("LIST"), leaving \in BOOLEAN :
            /\ db[e] # NoRow /\ Fresh(l)
            /\ CreateChecklist(s, l, {t \in Rows("TASK") : t[2] \in {2 * l[2] - 1, 2 * l[2]}}, e, leaving)
  \/ \E t \in Live("TASK") : CompleteTask(s, t)
  \/ \E p \in Rows("PROMO") :
       \/ \E e \in Live("STAFF"), effective \in BOOLEAN : Fresh(p) /\ CreatePromotion(s, p, e, 1, 2, effective)
       \/ db[p] # NoRow /\ UpdatePromotion(s, p, 3)
       \/ \E a \in Live("STAFF") : db[p] # NoRow /\ ApprovePromotion(s, p, a)
  \/ \E f \in Rows("FNF") :
       \/ \E l \in Live("LIST") : Fresh(f) /\ db[l].leaving /\ CreateSettlement(s, f, l)
       \/ \E i \in Rows("ITEM"), amount \in {2, -1} : Status(f) \notin {"NONE", "DELETED"} /\ PutItem(s, i, f, amount)
       \/ DeleteSettlement(s, f) \/ RecalculateSettlement(s, f) \/ SubmitSettlement(s, f)
       \/ MarkSettlementPaid(s, f)
       \/ \E a \in Live("STAFF") : ApproveSettlement(s, f, a)

\* The records of a company, none of them with a request in progress: every
\* row has its columns, every foreign key names a row that is committed.
Columns ==
  [STAFF |-> {"status", "active", "grade"}, PROMO |-> {"status", "emp", "from", "to", "effective"},
   LIST |-> {"status", "emp", "leaving"}, TASK |-> {"status", "list"}, FNF |-> {"status", "list", "net"}]
KeyOf == [PROMO |-> "emp", LIST |-> "emp", TASK |-> "list", FNF |-> "list"]
KindOf == [PROMO |-> "STAFF", LIST |-> "STAFF", TASK |-> "LIST", FNF |-> "LIST"]

RowsComplete == \A d \in DOMAIN db : d[1] \in DOMAIN Columns /\ db[d] # NoRow => DOMAIN db[d] = Columns[d[1]]
KeysResolve == \A d \in DOMAIN db : d[1] \in DOMAIN KeyOf /\ db[d] # NoRow => db[d][KeyOf[d[1]]] \in Live(KindOf[d[1]])

PersonnelInit == RowsComplete /\ KeysResolve /\ \A s \in Sessions : Free(s)
PersonnelSpec == PersonnelInit /\ [][\E s \in Sessions : EndOfRequest(s) \/ PersonnelNext(s)]_vars

-----------------------------------------------------------------------------
(* Properties *)

\* The grade of an employee changes only by the approval of one promotion
\* that starts from the grade the employee has at that moment.  Two
\* promotions from one grade are never both applied.
GradeStepsOnce ==
  [][\A e \in Live("STAFF") :
       db'[e].grade # db[e].grade =>
         \E p \in Live("PROMO") :
           /\ Status(p) = "PENDING" /\ db'[p].status = "APPROVED"
           /\ db[p].emp = e /\ db[p].from = db[e].grade /\ db'[e].grade = db[p].to]_vars

\* What was approved is what is paid: from approval on the net amount of a
\* settlement stands, and so does the approval, though its items may still be
\* edited.  Only a deletion that saw the settlement as a draft can end it.
ApprovedNetStands ==
  [][\A f \in Live("FNF") :
       Status(f) \in {"APPROVED", "PAID"} /\ db'[f].status # "DELETED" =>
         db'[f].net = db[f].net /\ db'[f].status \in {"APPROVED", "PAID"}]_vars

\* An employee whose separation is complete, by its last task or by the
\* payment of the settlement, has every task done and no active account.
LeaversAreInactive ==
  \A l \in Live("LIST") :
    Status(l) = "COMPLETED" =>
      /\ \A t \in Of("TASK", "list", l) : Status(t) = "DONE"
      /\ db[l].leaving => ~db[db[l].emp].active
=============================================================================
