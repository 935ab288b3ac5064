-------------------------------- MODULE Payroll --------------------------------
(***************************************************************************)
(* Attendance, leave, employee advances, expense claims and the salary     *)
(* slips made of them (workflows/hr, workflows/payroll).  Days are         *)
(* numbers.  Nothing locks a row, so two overlapping requests can pay the  *)
(* same days; the scenarios run one request after the other.               *)
(*                                                                         *)
(* Rows: EMP [status, base, days] an employee with a salary structure,     *)
(* base is paid for a period of days; ATT d [status] the attendance of     *)
(* employee 1 on day d; ALLOC [status, total]; LEAVE [status, from, to,    *)
(* lwp] application of employee 1; ADV [status, emp, amount, monthly,      *)
(* repaid] advance; EXTRA [status, emp, day, amount, bonus, slip] an       *)
(* additional salary or a retention bonus; CLAIM [status, amount];         *)
(* PERIOD [status, from, to] payroll period; SLIP [status, emp, from, to,  *)
(* gross, tax, emi, net]; BATCH [status, from, to].                        *)
(* Books: the accounts "SALARY", "PAYABLE", "TAX", "ADVANCE", "BANK",      *)
(* "EXPENSE".                                                              *)
(***************************************************************************)
EXTENDS Database

Account(name) == <<"ACCOUNT", name>>
Overlap(r, from, to) == db[r].from <= to /\ db[r].to >= from

\* One record per employee and day, overwritten.
MarkAttendance(s, day, status) == Stage(s, <<"ATT", day>> :> [status |-> status], Nothing, {})

AllocateLeaves(s, alloc, total) == Stage(s, alloc :> [status |-> "LIVE", total |-> total], Nothing, {})

Days(r) == db[r].to - db[r].from + 1
Balance ==
  LET taken == {l \in Live("LEAVE") : Status(l) = "APPROVED" /\ ~db[l].lwp}
  IN Total(Live("ALLOC"), "total") - SumFunctionOnSet([l \in taken |-> Days(l)], taken)

SubmitLeaveApplication(s, leave, from, to, lwp) ==
  /\ ~lwp => to - from + 1 <= Balance
  /\ Stage(s, leave :> [status |-> "SUBMITTED", from |-> from, to |-> to, lwp |-> lwp], Nothing, {})

\* In any status; the balance is not looked at again.
ApproveLeaveApplication(s, leave) == Stage(s, leave :> [status |-> "APPROVED"], Nothing, {})
RejectLeaveApplication(s, leave) == Stage(s, leave :> [status |-> "REJECTED"], Nothing, {})

CreateEmployeeAdvance(s, adv, emp, amount, monthly) ==
  Stage(s, adv :> [status |-> "PENDING", emp |-> emp, amount |-> amount, monthly |-> monthly, repaid |-> 0],
        Nothing, {})

ApproveAndDisburseAdvance(s, adv) ==
  /\ Status(adv) = "PENDING"
  /\ Stage(s, adv :> [status |-> "PAID"],
           Account("ADVANCE") :> db[adv].amount @@ Account("BANK") :> -db[adv].amount, {})

ReimburseExpenseClaim(s, claim) ==
  /\ Status(claim) \notin {"PAID", "REJECTED"}
  /\ Stage(s, claim :> [status |-> "PAID"],
           Account("EXPENSE") :> db[claim].amount @@ Account("BANK") :> -db[claim].amount, {})

CreateAdditionalSalary(s, extra, emp, day, amount, bonus) ==
  Stage(s, extra :> [status |-> "PENDING", emp |-> emp, day |-> day, amount |-> amount, bonus |-> bonus,
                     slip |-> NoRef],
        Nothing, {})

CreatePayrollPeriod(s, period, from, to) ==
  /\ \A p \in Live("PERIOD") : Status(p) = "OPEN" => ~Overlap(p, from, to)
  /\ Stage(s, period :> [status |-> "OPEN", from |-> from, to |-> to], Nothing, {})

ClosePayrollPeriod(s, period) == Stage(s, period :> [status |-> "CLOSED"], Nothing, {})

-----------------------------------------------------------------------------
(* The slip *)

\* Mutant of Covered: only a slip of the same period counts.
CoveredExactly(emp, from, to) ==
  \E p \in Of("SLIP", "emp", emp) : db[p].from = from /\ db[p].to = to

Covered(emp, from, to) == \E p \in Of("SLIP", "emp", emp) : Overlap(p, from, to)

ClosedPeriod(from, to) ==
  \E p \in Live("PERIOD") : db[p].from = from /\ db[p].to = to /\ Status(p) # "OPEN"

\* Absences and unpaid leave both shorten the period: an absence on a day of
\* unpaid leave counts twice.
UnpaidDays(from, to) ==
  LET unpaid == {l \in Live("LEAVE") : Status(l) = "APPROVED" /\ db[l].lwp} IN
  Cardinality({a \in Live("ATT") : a[2] \in from..to /\ Status(a) = "ABSENT"})
    + SumFunctionOnSet([l \in unpaid |-> Cardinality((db[l].from..db[l].to) \cap (from..to))], unpaid)

PaymentDays(emp, from, to) ==
  LET unpaid == IF emp[2] = 1 THEN UnpaidDays(from, to) ELSE 0
      days   == to - from + 1
  IN IF unpaid >= days THEN 0 ELSE days - unpaid

Due(emp, from, to) ==
  {x \in Of("EXTRA", "emp", emp) : Status(x) = "PENDING" /\ db[x].day \in from..to}

\* The oldest advance that is paid out and not yet repaid.
OpenAdvances(emp) ==
  {a \in Of("ADV", "emp", emp) : Status(a) = "PAID" /\ db[a].repaid < db[a].amount}
ActiveAdvance(emp) == CHOOSE a \in OpenAdvances(emp) : \A b \in OpenAdvances(emp) : a[2] <= b[2]
Emi(emp) ==
  IF OpenAdvances(emp) = {} THEN 0
  ELSE LET a == ActiveAdvance(emp) IN Min({db[a].monthly, db[a].amount - db[a].repaid})

\* The two brackets of the tax.
Tax(gross) == IF gross > 3 THEN 1 ELSE 0

Slip(emp, from, to) ==
  LET pay   == (db[emp].base * PaymentDays(emp, from, to)) \div (to - from + 1)
      gross == pay + Total(Due(emp, from, to), "amount")
  IN [status |-> "DRAFT", emp |-> emp, from |-> from, to |-> to, gross |-> gross, tax |-> Tax(gross),
      emi |-> Emi(emp), net |-> gross - Tax(gross) - Emi(emp)]

\* The slip takes in what is due.
Slipped(slip, emp, from, to) ==
  slip :> Slip(emp, from, to)
    @@ [x \in Due(emp, from, to) |-> [status |-> IF db[x].bonus THEN "EARNED" ELSE "INCLUDED", slip |-> slip]]

Payable(emp, from, to) == from <= to /\ ~Covered(emp, from, to) /\ ~ClosedPeriod(from, to)

GenerateSalarySlip(s, slip, emp, from, to) ==
  /\ Payable(emp, from, to)
  /\ Stage(s, Slipped(slip, emp, from, to), Nothing, {})

\* One slip for every active employee, or none.
CreateBatchPayroll(s, batch, from, to, slipOf) ==
  LET active == {e \in Live("EMP") : Status(e) = "ACTIVE"} IN
  /\ active # {}
  /\ \A e \in active : Payable(e, from, to)
  /\ Stage(s,
       batch :> [status |-> "DRAFT", from |-> from, to |-> to]
         @@ [d \in UNION {DOMAIN Slipped(slipOf[e], e, from, to) : e \in active} |->
               Slipped(slipOf[CHOOSE e \in active : d \in DOMAIN Slipped(slipOf[e], e, from, to)],
                       CHOOSE e \in active : d \in DOMAIN Slipped(slipOf[e], e, from, to), from, to)[d]],
       Nothing, {})

CanSubmit(slip) == Status(slip) = "DRAFT" /\ db[slip].gross > 0 /\ db[slip].net >= 0

\* The recovery goes to the advance that is open now.
Submitted(slip) ==
  LET emp == db[slip].emp
      adv == ActiveAdvance(emp)
      paid == db[adv].repaid + db[slip].emi
  IN slip :> [status |-> "SUBMITTED"]
       @@ [x \in Of("EXTRA", "slip", slip) |-> [status |-> "PAID"]]
       @@ IF db[slip].emi > 0 /\ OpenAdvances(emp) # {}
          THEN adv :> [repaid |-> paid, status |-> IF paid >= db[adv].amount THEN "REPAID" ELSE "PAID"]
          ELSE Nothing

\* Mutant of Journal: the recovery is not credited to the advances.
JournalWithoutRecovery(slips) ==
  Account("SALARY") :> Total(slips, "gross") @@ Account("PAYABLE") :> -Total(slips, "net")
    @@ Account("TAX") :> -(Total(slips, "tax") + Total(slips, "emi"))

\* Gross against net and every deduction.
Journal(slips) ==
  Account("SALARY") :> Total(slips, "gross") @@ Account("PAYABLE") :> -Total(slips, "net")
    @@ Account("TAX") :> -Total(slips, "tax") @@ Account("ADVANCE") :> -Total(slips, "emi")

SubmitSalarySlip(s, slip) == CanSubmit(slip) /\ Stage(s, Submitted(slip), Journal({slip}), {})

\* Every draft of the period, the ones of other batches too, or none.
SubmitBatchPayroll(s, batch) ==
  LET drafts == {p \in Live("SLIP") : /\ Status(p) = "DRAFT"
                                      /\ db[p].from = db[batch].from /\ db[p].to = db[batch].to}
      touched == UNION {DOMAIN Submitted(p) : p \in drafts}
  IN /\ Status(batch) = "DRAFT"
     /\ \A p \in drafts : CanSubmit(p)
     /\ Stage(s,
          [d \in touched |-> Submitted(CHOOSE p \in drafts : d \in DOMAIN Submitted(p))[d]]
            @@ batch :> [status |-> "SUBMITTED"],
          Journal(drafts), {})

-----------------------------------------------------------------------------

\* What requests ask for: spans to pay, periods to open, days of leave,
\* amounts and instalments of advances, days and amounts of additions.
PayrollHandlers(s, asked) ==
  \/ \E att \in Rows("ATT"), status \in {"PRESENT", "ABSENT"} : MarkAttendance(s, att[2], status)
  \/ \E a \in Rows("ALLOC"), total \in asked.grants : AllocateLeaves(s, a, total)
  \/ \E l \in Rows("LEAVE") :
       \/ \E r \in asked.leaves, lwp \in BOOLEAN : Fresh(l) /\ SubmitLeaveApplication(s, l, r[1], r[2], lwp)
       \/ db[l] # NoRow /\ (ApproveLeaveApplication(s, l) \/ RejectLeaveApplication(s, l))
  \/ \E emp \in Live("EMP") :
       \/ \E adv \in Rows("ADV"), r \in asked.loans : Fresh(adv) /\ CreateEmployeeAdvance(s, adv, emp, r[1], r[2])
       \/ \E x \in Rows("EXTRA"), r \in asked.extras, bonus \in BOOLEAN :
            Fresh(x) /\ CreateAdditionalSalary(s, x, emp, r[1], r[2], bonus)
       \/ \E slip \in Rows("SLIP"), r \in asked.spans : Fresh(slip) /\ GenerateSalarySlip(s, slip, emp, r[1], r[2])
  \/ \E adv \in Live("ADV") : ApproveAndDisburseAdvance(s, adv)
  \/ \E claim \in Live("CLAIM") : ReimburseExpenseClaim(s, claim)
  \/ \E p \in Rows("PERIOD") :
       \/ \E r \in asked.periods : Fresh(p) /\ CreatePayrollPeriod(s, p, r[1], r[2])
       \/ db[p] # NoRow /\ ClosePayrollPeriod(s, p)
  \/ \E slip \in Live("SLIP") : SubmitSalarySlip(s, slip)
  \/ \E batch \in Rows("BATCH") :
       \/ \E r \in asked.spans, slipOf \in Injection(Live("EMP"), {p \in Rows("SLIP") : db[p] = NoRow}) :
            /\ Fresh(batch)
            /\ \A e, f \in Live("EMP") : e[2] < f[2] => slipOf[e][2] < slipOf[f][2]
            /\ \A e \in Live("EMP") :
                 \A p \in Rows("SLIP") : p[2] < slipOf[e][2] => db[p] # NoRow \/ \E f \in Live("EMP") : slipOf[f] = p
            /\ CreateBatchPayroll(s, batch, r[1], r[2], slipOf)
       \/ db[batch] # NoRow /\ SubmitBatchPayroll(s, batch)

PayrollNext(s) ==
  PayrollHandlers(s, [spans |-> {<<1, 2>>, <<3, 4>>, <<2, 3>>}, periods |-> {<<1, 2>>, <<3, 4>>}, leaves |-> {<<2, 2>>},
                      loans |-> {<<3, 2>>}, extras |-> {<<2, 1>>}, grants |-> {1}])

-----------------------------------------------------------------------------
(* Properties *)

SubmittedSlips == {p \in Live("SLIP") : Status(p) = "SUBMITTED"}

\* No day of an employee is on two slips, and an additional salary or bonus
\* is part of one slip at most, paid exactly when that slip is submitted.
EachDayPaidOnce ==
  /\ \A p, q \in Live("SLIP") : p # q /\ db[p].emp = db[q].emp => ~Overlap(p, db[q].from, db[q].to)
  /\ \A x \in Live("EXTRA") :
       /\ (db[x].slip = NoRef) = (Status(x) = "PENDING")
       /\ (Status(x) = "PAID") = (db[x].slip # NoRef /\ Status(db[x].slip) = "SUBMITTED")

\* The books of the payroll are those of the submitted slips, the advances
\* paid out less what the slips kept back, and the claims: every journal
\* balances.
PayrollPosted ==
  Account("SALARY") \in DOMAIN sums =>
    /\ Book(Account("SALARY")) = Total(SubmittedSlips, "gross")
    /\ Book(Account("PAYABLE")) = -Total(SubmittedSlips, "net")
    /\ Book(Account("ADVANCE")) =
         Total({a \in Live("ADV") : Status(a) # "PENDING"}, "amount") - Total(SubmittedSlips, "emi")
    /\ SumFunctionOnSet(sums, DOMAIN sums) = 0

\* Every day is paid once and every payment is in the ledger.
PayrollAgrees == EachDayPaidOnce /\ PayrollPosted

PaySlip(row) ==
  /\ {"status", "emp", "from", "to", "gross", "tax", "emi", "net"} \subseteq DOMAIN row
  /\ row.from \in Int /\ row.to \in Int /\ row.from <= row.to
  /\ row.gross \in Int /\ row.tax \in Int /\ row.emi \in Int /\ row.net = row.gross - row.tax - row.emi

Addition(row) == {"status", "emp", "day", "amount", "bonus", "slip"} \subseteq DOMAIN row /\ row.amount \in Int

Loan(row) ==
  /\ {"status", "emp", "amount", "monthly", "repaid"} \subseteq DOMAIN row
  /\ row.amount \in Int /\ row.monthly \in Int /\ row.repaid \in Int

Absence(row) == {"status", "from", "to", "lwp"} \subseteq DOMAIN row /\ row.from \in Int /\ row.to \in Int

\* Rows are complete, an addition refers to a committed slip, and the books
\* are those of the payroll.
PayrollComplete ==
  /\ \A kind \in {"SLIP", "EXTRA", "ADV", "LEAVE", "ATT"} : IsFiniteSet(Rows(kind))
  /\ \A p \in Live("SLIP") : PaySlip(db[p])
  /\ \A x \in Live("EXTRA") : Addition(db[x]) /\ (db[x].slip # NoRef => db[x].slip \in Live("SLIP"))
  /\ (\A a \in Rows("ADV") : a[2] \in Nat) /\ \A a \in Live("ADV") : Loan(db[a])
  /\ \A a \in Rows("ATT") : a = <<"ATT", a[2]>>
  /\ \A l \in Live("LEAVE") : Absence(db[l])
  /\ \A e \in Live("EMP") : {"status", "base"} \subseteq DOMAIN db[e] /\ db[e].base \in Int
  /\ IsFiniteSet(DOMAIN sums) /\ \A k \in DOMAIN sums : sums[k] \in Int
  /\ {Account(a) : a \in {"SALARY", "PAYABLE", "TAX", "ADVANCE", "BANK", "EXPENSE"}} \subseteq DOMAIN sums
  /\ \A c \in Live("CLAIM") : {"status", "amount"} \subseteq DOMAIN db[c] /\ db[c].amount \in Int

\* Any spans, leaves, advances and additions.
AnyPayroll ==
  [spans |-> Int \X Int, periods |-> Int \X Int, leaves |-> Int \X Int, loans |-> Nat \X Nat,
   extras |-> Int \X Nat, grants |-> Nat]

PayrollSpec ==
  /\ PayrollComplete /\ PayrollAgrees /\ \A s \in Sessions : Free(s)
  /\ [][\E s \in Sessions : EndOfRequest(s) \/ PayrollHandlers(s, AnyPayroll)]_vars
=============================================================================
