------------------------------- MODULE Workspace -------------------------------
(***************************************************************************)
(* A tenant's workspace: registration and setup (auth/provisioning), the   *)
(* onboarding checklist that watches the tenant's records (api/routes/     *)
(* onboarding), and its subscription, which the payment provider's         *)
(* webhooks keep up to date (api/routes/account_billing, safepay_webhooks).*)
(* The events of the provider come in any order, any number of times, and  *)
(* with or without our reference.  Trials are running or over; one plan.   *)
(*                                                                         *)
(* Rows: TENANT [status]; GUIDE [status] onboarding module; STEP [status,  *)
(* guide, byHand] its steps, the step n is proved by a record of kind n;   *)
(* MASTER k [status, demo] the records of kind k, demo while the setup     *)
(* made them all; SAAS [status, prov, trial, asked] subscription, prov is  *)
(* true once the provider's id is known, trial while a trial runs; PROV    *)
(* [status, of, type, named] an event of the provider about the            *)
(* subscription of, its status is that of our record of it.                *)
(***************************************************************************)
EXTENDS Database

Tenant == <<"TENANT", 1>>

DemoRecords == [m \in Rows("MASTER") |-> [status |-> "LIVE", demo |-> TRUE]]

\* Setup creates the blueprint, and demo records if asked.
Blueprint(demo) ==
  [g \in Rows("GUIDE") |-> [status |-> "OPEN"]]
    @@ [t \in Rows("STEP") |-> [status |-> "OPEN", guide |-> <<"GUIDE", 1>>, byHand |-> FALSE]]
    @@ IF demo THEN DemoRecords ELSE Nothing

RegisterTenant(s, provision) ==
  /\ db[Tenant] = NoRow
  /\ Stage(s,
       Tenant :> [status |-> IF provision THEN "READY" ELSE "AWAITING_SETUP"]
         @@ IF provision THEN Blueprint(FALSE) ELSE Nothing,
       Nothing, {})

CompleteSetup(s, demo) ==
  /\ Status(Tenant) = "AWAITING_SETUP"
  /\ Stage(s, Tenant :> [status |-> "READY"] @@ Blueprint(demo), Nothing, {})

CreateMaster(s, m) == Stage(s, m :> [status |-> "LIVE", demo |-> FALSE], Nothing, {})

\* Mutant of Validates: the records of the setup count.
ValidatesAny(step) == Status(<<"MASTER", step[2]>>) = "LIVE"

\* Only records created after the setup count.
Validates(step) ==
  LET m == <<"MASTER", step[2]>> IN Status(m) = "LIVE" /\ ~db[m].demo

Closing(guide, done) ==
  IF \A t \in Of("STEP", "guide", guide) : t \in done \/ Status(t) = "DONE"
  THEN guide :> [status |-> "DONE"] ELSE Nothing

GetOnboardingProgress(s) ==
  LET valid == {t \in Live("STEP") : Status(t) = "OPEN" /\ Validates(t)} IN
  /\ Live("STEP") # {}
  /\ Stage(s, [t \in valid |-> [status |-> "DONE"]] @@ Closing(<<"GUIDE", 1>>, valid), Nothing, {})

ManuallyCompleteStep(s, step) ==
  Stage(s, step :> [status |-> "DONE", byHand |-> TRUE] @@ Closing(db[step].guide, {step}), Nothing, {})

\* The module is left for the next GetOnboardingProgress.
ValidateStep(s, step) ==
  /\ Validates(step)
  /\ Stage(s, step :> [status |-> "DONE"], Nothing, {})

SkipModule(s, guide) ==
  Stage(s,
    guide :> [status |-> "DONE"] @@ [t \in Of("STEP", "guide", guide) |-> [status |-> "DONE", byHand |-> TRUE]],
    Nothing, {})

-----------------------------------------------------------------------------
(* The subscription *)

HasAccess(sub) == Status(sub) = "active" \/ (Status(sub) = "trialing" /\ db[sub].trial)

\* A checkout of the last half hour is taken up again, a later one starts a
\* new subscription beside it.
CreateCheckout(s, sub) ==
  /\ \A x \in Live("SAAS") : ~HasAccess(x)
  /\ Stage(s, sub :> [status |-> "pending", prov |-> FALSE, trial |-> FALSE, asked |-> FALSE], Nothing, {})

\* The provider is asked first, the flag is set when it has answered.
CancelSubscription(s, sub) ==
  /\ HasAccess(sub) /\ db[sub].prov /\ ~db[sub].asked
  /\ \A x \in Live("SAAS") : HasAccess(x) => x[2] <= sub[2]
  /\ Stage(s, sub :> [asked |-> TRUE], Nothing, {})

\* Without our reference the event is found by the provider's id, or as the
\* only pending checkout of that billing address.
Pending == {x \in Live("SAAS") : Status(x) = "pending"}

\* Mutant of Correlated: the latest pending checkout is taken.
CorrelatedLatest(ev) ==
  IF db[ev].named \/ db[db[ev].of].prov THEN {db[ev].of}
  ELSE {x \in Pending : \A y \in Pending : y[2] <= x[2]}

Correlated(ev) ==
  IF db[ev].named \/ db[db[ev].of].prov THEN {db[ev].of}
  ELSE IF Cardinality(Pending) = 1 THEN Pending ELSE {}

\* What an event does to a subscription; running: it tells of a trial that
\* is not over.  Creation never ends what later events have decided, but for
\* a pause.
Applied(sub, type, running) ==
  CASE type = "created" ->
         [trial |-> running]
           @@ IF Status(sub) \in {"active", "past_due", "cancelled", "ended"} THEN Nothing
              ELSE [status |-> IF running THEN "trialing" ELSE "pending"]
    [] type = "succeeded" -> [status |-> "active"]
    [] type = "failed"    -> [status |-> "past_due"]
    [] type = "cancelled" -> [status |-> "cancelled"]
    [] type = "ended"     -> [status |-> "ended"]
    [] type = "paused"    -> [status |-> "paused"]
    [] type = "resumed"   -> [status |-> "active"]

\* An event is processed once; one that found no subscription is kept with
\* its error and processed again when the provider repeats it.
ReceiveWebhook(s, ev) ==
  /\ Status(ev) # "PROCESSED"
  /\ \/ /\ Correlated(ev) = {}
        /\ Stage(s, ev :> [status |-> "ERROR"], Nothing, {})
     \/ \E sub \in Correlated(ev), running \in BOOLEAN :
          Stage(s,
            ev :> [status |-> "PROCESSED"] @@ sub :> (Applied(sub, db[ev].type, running) @@ [prov |-> TRUE]),
            Nothing, {sub, ev})

\* Outside: the provider issues an event, a trial runs out.
ProviderEvent(ev, sub, type, named) ==
  /\ \A e \in Rows("PROV") : e[2] < ev[2] => db[e] # NoRow
  /\ db[ev] = NoRow /\ db[sub] # NoRow
  /\ db' = [db EXCEPT ![ev] = [status |-> "SENT", of |-> sub, type |-> type, named |-> named]]
  /\ UNCHANGED <<sums, req>>

TrialEnds(sub) ==
  /\ db[sub] # NoRow /\ db[sub].trial
  /\ db' = [db EXCEPT ![sub].trial = FALSE]
  /\ UNCHANGED <<sums, req>>

-----------------------------------------------------------------------------

EventTypes == {"created", "succeeded", "failed", "cancelled", "ended", "paused", "resumed"}

WorkspaceEnvironment ==
  \/ \E ev \in Rows("PROV"), sub \in Rows("SAAS"), type \in EventTypes, named \in BOOLEAN :
       ProviderEvent(ev, sub, type, named)
  \/ \E sub \in Rows("SAAS") : TrialEnds(sub)

WorkspaceNext(s) ==
  \/ Rows("TENANT") # {} /\ \E flag \in BOOLEAN : RegisterTenant(s, flag) \/ CompleteSetup(s, flag)
  \/ \E m \in Rows("MASTER") : Status(Tenant) = "READY" /\ CreateMaster(s, m)
  \/ GetOnboardingProgress(s)
  \/ \E t \in Live("STEP") : ManuallyCompleteStep(s, t) \/ ValidateStep(s, t)
  \/ \E g \in Live("GUIDE") : SkipModule(s, g)
  \/ \E sub \in Rows("SAAS") :
       \/ Fresh(sub) /\ CreateCheckout(s, sub)
       \/ db[sub] # NoRow /\ CancelSubscription(s, sub)
  \/ \E ev \in Live("PROV") : ReceiveWebhook(s, ev)

-----------------------------------------------------------------------------
(* Properties *)

\* A step counts as done only for a record the customer made after the
\* setup, or by the customer's own word; a module only when its steps are.
OnboardingEarned ==
  /\ \A t \in Live("STEP") :
       Status(t) = "DONE" =>
         db[t].byHand \/ (Status(<<"MASTER", t[2]>>) = "LIVE" /\ ~db[<<"MASTER", t[2]>>].demo)
  /\ \A g \in Live("GUIDE") : Status(g) = "DONE" => \A t \in Of("STEP", "guide", g) : Status(t) = "DONE"

\* A subscription is active only when an event about that very subscription
\* said that it was paid or resumed, in whatever order, how often and with
\* whatever reference the events came: creation alone never implies paid.
AccessIsPaid ==
  \A sub \in Live("SAAS") :
    Status(sub) = "active" =>
      \E ev \in Live("PROV") :
        Status(ev) = "PROCESSED" /\ db[ev].of = sub /\ db[ev].type \in {"succeeded", "resumed"}

\* Setup progress was earned and access was paid for.
WorkspaceEarned == OnboardingEarned /\ AccessIsPaid

-----------------------------------------------------------------------------
StepRow(row) == {"status", "guide", "byHand"} \subseteq DOMAIN row /\ row.guide[1] = "GUIDE"

\* Only an event leaves the provider's id, and only then another status.
AccessRow(row) ==
  {"status", "prov", "trial", "asked"} \subseteq DOMAIN row /\ (row.prov \/ row.status = "pending")

EventRow(row) ==
  {"status", "of", "type", "named"} \subseteq DOMAIN row /\ row.of \in Live("SAAS") /\ row.type \in EventTypes

\* Rows are complete, and refer to rows that exist.
WorkspaceComplete ==
  /\ IsFiniteSet(DOMAIN db)
  /\ \A t \in Rows("STEP") : <<"MASTER", t[2]>> \in DOMAIN db
  /\ \A t \in Live("STEP") : StepRow(db[t])
  /\ \A sub \in Live("SAAS") : AccessRow(db[sub])
  /\ \A ev \in Live("PROV") : EventRow(db[ev])

\* Any rows, while the provider and the calendar go on.
WorkspaceSpec ==
  /\ WorkspaceComplete /\ WorkspaceEarned /\ \A s \in Sessions : Free(s)
  /\ [][WorkspaceEnvironment \/ \E s \in Sessions : EndOfRequest(s) \/ WorkspaceNext(s)]_vars
=============================================================================
