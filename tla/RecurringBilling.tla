--------------------------- MODULE RecurringBilling ---------------------------
(***************************************************************************)
(* What is billed without a cashier: the recurring subscriptions of a      *)
(* tenant's customers (subscription_service.py) and the dunning of overdue *)
(* invoices (dunning_service.py).  Both runs read all due rows, then write *)
(* them in one transaction, and neither locks anything.                    *)
(*                                                                         *)
(* Rows: CLOCK [status, now] the date; SUB [status, first, next, trial,    *)
(* every, resumed], dates in days; DTYPE [status, days] a dunning level;   *)
(* DUE [status, due] an issued invoice.                                    *)
(* Books: <<"BILLED", sub, day>> the invoices of subscription sub dated    *)
(* day; <<"NOTICE", invoice, level>> the notices sent.                     *)
(***************************************************************************)
EXTENDS Database

Clock == <<"CLOCK", 1>>
Today == db[Clock].now
Billed(sub, day) == <<"BILLED", sub, day>>
Notice(i, lvl) == <<"NOTICE", i, lvl>>
FirstReminderDays == 15

\* A day passes; bound: the days the books have keys for.
NextDay(last) ==
  /\ Clock \in DOMAIN db
  /\ Today < last
  /\ db' = [db EXCEPT ![Clock].now = @ + 1]
  /\ UNCHANGED <<sums, req>>

SubscribeCustomer(s, sub, trialDays, every) ==
  Stage(s,
    sub :> [status |-> IF trialDays > 0 THEN "TRIALING" ELSE "ACTIVE", first |-> Today + trialDays,
            next |-> Today + trialDays, trial |-> Today + trialDays, every |-> every, resumed |-> FALSE],
    Nothing, {})

PauseSubscription(s, sub) == Stage(s, sub :> [status |-> "PAUSED"], Nothing, {})

\* Any status becomes ACTIVE, a trial included, and billing starts again today.
ResumeSubscription(s, sub) ==
  Stage(s, sub :> [status |-> "ACTIVE", next |-> Today, resumed |-> TRUE], Nothing, {})

DueSubscriptions ==
  {sub \in Live("SUB") : Status(sub) \in {"ACTIVE", "TRIALING"} /\ db[sub].next <= Today}

\* Mutant of NextBilling: the next date is counted from the day of the run.
NextBillingFromToday(sub) == Today + db[sub].every

NextBilling(sub) == db[sub].next + db[sub].every

\* One period of every due subscription; a trial that has not ended is skipped.
ProcessRecurringBilling(s) ==
  LET due == {sub \in DueSubscriptions : Status(sub) = "TRIALING" => db[sub].trial <= Today} IN
  /\ due # {}
  /\ Stage(s,
       [sub \in due |-> [status |-> "ACTIVE", next |-> NextBilling(sub)]],
       [k \in {Billed(sub, db[sub].next) : sub \in due} |-> 1], {})

\* The highest level the invoice is overdue enough for.
Applicable(i, levels) ==
  {l \in DOMAIN levels : /\ Today - db[i].due >= levels[l]
                         /\ \A k \in DOMAIN levels : levels[k] <= Today - db[i].due => levels[k] <= levels[l]}

\* Mutant of NotYetSent: the level is not compared.
NotYetSentAtAll(i, l) == TRUE

NotYetSent(i, l) == sums[Notice(i, l)] = 0

\* Without configured levels a first reminder is created.
EvaluateOverdueInvoices(s) ==
  LET default == {t \in Rows("DTYPE") : Live("DTYPE") = {} /\ Fresh(t)}
      levels  == [l \in Live("DTYPE") \cup default |->
                    IF l \in default THEN FirstReminderDays ELSE db[l].days]
      overdue == {i \in Live("DUE") : Status(i) = "ISSUED" /\ db[i].due < Today}
      send    == {n \in overdue \X DOMAIN levels :
                    n[2] \in Applicable(n[1], levels) /\ NotYetSent(n[1], n[2])}
  IN /\ default # {} \/ send # {}
     /\ Stage(s, [l \in default |-> [status |-> "LIVE", days |-> FirstReminderDays]],
              [k \in {Notice(n[1], n[2]) : n \in send} |-> 1], {})

CreateDunningType(s, level, days) ==
  Stage(s, level :> [status |-> "LIVE", days |-> days], Nothing, {})

BillingHandlers(s, trials, intervals, days) ==
  \/ \E sub \in Rows("SUB") :
       \/ \E t \in trials, every \in intervals : Fresh(sub) /\ SubscribeCustomer(s, sub, t, every)
       \/ db[sub] # NoRow /\ PauseSubscription(s, sub)
       \/ db[sub] # NoRow /\ ~db[sub].resumed /\ ResumeSubscription(s, sub)  \* bound
  \/ ProcessRecurringBilling(s)
  \/ EvaluateOverdueInvoices(s)
  \/ \E l \in Rows("DTYPE"), n \in days : Fresh(l) /\ CreateDunningType(s, l, n)

BillingNext(s) == BillingHandlers(s, {0, 2}, {2}, {FirstReminderDays + 1})

-----------------------------------------------------------------------------
(* Properties *)

\* A subscription that was never resumed has one invoice for each period
\* between its first billing date and its next one, however late or often
\* the run is started and whatever pauses came in between.
EveryPeriodBilledOnce ==
  \A sub \in Live("SUB") :
    ~db[sub].resumed =>
      \A k \in DOMAIN sums :
        k[1] = "BILLED" /\ k[2] = sub =>
          sums[k] = IF /\ db[sub].first <= k[3] /\ k[3] < db[sub].next
                       /\ (k[3] - db[sub].first) % db[sub].every = 0 THEN 1 ELSE 0

\* A customer gets each dunning level of an invoice at most once, and no
\* level before the invoice is that late.
DunnedOncePerLevel ==
  \A k \in DOMAIN sums :
    k[1] = "NOTICE" =>
      /\ sums[k] <= 1
      /\ sums[k] = 1 => Today - db[k[2]].due >= db[k[3]].days

\* Repeated billing and dunning runs neither skip nor repeat a customer.
RunsRepeatSafely == EveryPeriodBilledOnce /\ DunnedOncePerLevel

\* Complete rows of subscriptions, dunning levels and overdue invoices; the
\* next date of a subscription is a whole number of intervals after its first.
PlanRow(row) ==
  /\ {"status", "first", "next", "trial", "every", "resumed"} \subseteq DOMAIN row
  /\ row.first \in Int /\ row.next \in Int /\ row.trial \in Int /\ row.every \in Nat \ {0} /\ row.resumed \in BOOLEAN
  /\ ~row.resumed => row.first <= row.next /\ (row.next - row.first) % row.every = 0

DunningRow(row) == {"status", "days"} \subseteq DOMAIN row /\ row.days \in Int
OverdueRow(row) == {"status", "due"} \subseteq DOMAIN row /\ row.due \in Int

\* Rows are complete, and what was billed or sent is to rows that exist.
BillingComplete ==
  /\ Clock \in DOMAIN db /\ "now" \in DOMAIN db[Clock] /\ Today \in Int
  /\ \A sub \in Live("SUB") : PlanRow(db[sub])
  /\ \A l \in Live("DTYPE") : DunningRow(db[l])
  /\ \A i \in Live("DUE") : OverdueRow(db[i])
  /\ \A k \in DOMAIN sums :
       /\ sums[k] \in Nat
       /\ k[1] = "BILLED" =>
            /\ k = Billed(k[2], k[3]) /\ k[3] \in Int
            /\ k[2] \in Rows("SUB") /\ db[k[2]] = NoRow => sums[k] = 0
       /\ k[1] = "NOTICE" =>
            /\ k = Notice(k[2], k[3]) /\ k[2] \in Live("DUE") /\ k[3] \in Rows("DTYPE")
            /\ db[k[3]] = NoRow => sums[k] = 0

\* Any rows and intervals, requests at any time of any day.
BillingSpec ==
  /\ BillingComplete /\ RunsRepeatSafely /\ \A s \in Sessions : Free(s)
  /\ [][\/ \E last \in Int : NextDay(last)
        \/ \E s \in Sessions : EndOfRequest(s) \/ BillingHandlers(s, Nat, Nat \ {0}, Int)]_vars
=============================================================================
