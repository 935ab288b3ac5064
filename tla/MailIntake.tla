------------------------------ MODULE MailIntake ------------------------------
(***************************************************************************)
(* Inbound mail: the webhook that records a message and accepts a request  *)
(* for quotation, the review of what it holds back (api/routes/webhooks)   *)
(* and the synchronisation of a Gmail account (events/gmail_integration).  *)
(* An accepted request for quotation is written three times, each write    *)
(* committed for itself: the snapshot of its workflow, the record of the   *)
(* message and, once the workflow's task runs, the snapshot again.         *)
(*                                                                         *)
(* Rows: MAIL n [status, order, flow, draft] message, order when its event *)
(* type is the customer order's; FLOW n [status] workflow; DRAFTED n       *)
(* [status, mail] the sales order drafted from a message; GMAIL 1 [status] *)
(* the connected account; LETTER n [status] the unread message of the      *)
(* account that is recorded as MAIL n (its key holds Gmail's identifier).  *)
(***************************************************************************)
EXTENDS Database

Gmail == <<"GMAIL", 1>>
MailOf(letter) == <<"MAIL", letter[2]>>
Intents == {"notice", "order", "invoice", "inquiry", "rfq"}

Held(intent) == intent \in {"order", "invoice", "inquiry"}
Mail(status, intent, flow) == [status |-> status, order |-> intent = "order", flow |-> flow, draft |-> NoRef]

\* ingest_email_webhook: what is not an explicit request waits for a person.
RecordMail(s, mail, intent) ==
  /\ intent # "rfq"
  /\ Stage(s, mail :> Mail(IF Held(intent) THEN "HUMAN_REVIEW_REQUIRED" ELSE "FILTERED_NOTIFICATION", intent, NoRef),
           Nothing, {})

Accepted(mail, flow) == mail :> Mail("DURABLY_ACCEPTED", "rfq", flow)

\* One commit of several: put is written, then the session writes next.
Then(s, op, next, put) ==
  /\ At(s, op)
  /\ CommitAnd(s, [req[s] EXCEPT !.put = put, !.memo = [@ EXCEPT !.op = next]])

BeginRfq(s, flow) ==
  /\ Free(s)
  /\ req' = [req EXCEPT ![s] = Request(flow :> [status |-> "DISPATCHED"], Nothing, {},
       [op |-> "snapshot", flow |-> flow])]
  /\ UNCHANGED <<db, sums>>

PersistSnapshot(s, mail) == At(s, "snapshot") /\ Then(s, "snapshot", "mail", Accepted(mail, req[s].memo.flow))

PersistMail(s) == At(s, "mail") /\ Then(s, "mail", "start", req[s].memo.flow :> [status |-> "RUNNING"])

\* The task of the workflow starts; the request is answered.
StartFlow(s) == At(s, "start") /\ CommitAnd(s, Idle)

-----------------------------------------------------------------------------
(* Review *)

\* Mutant of MailLocks: the record is read without FOR UPDATE.
NoMailLocks(mail) == {}

MailLocks(mail) == {mail}

ClassifyAsOrder(s, mail) ==
  /\ db[mail].draft = NoRef
  /\ Stage(s, mail :> [order |-> TRUE], Nothing, MailLocks(mail))

Decisions == {"ACCEPTED_FOR_MANUAL_PROCESSING", "REJECTED"}

ReviewMail(s, mail, decision) ==
  /\ Status(mail) = "HUMAN_REVIEW_REQUIRED"
  /\ Stage(s, mail :> [status |-> decision], Nothing, MailLocks(mail))

\* A message with a draft returns it and changes nothing.
CreateOrderFromMail(s, mail, drafted) ==
  /\ db[mail].order
  /\ db[mail].draft = NoRef
  /\ Status(mail) = "ACCEPTED_FOR_MANUAL_PROCESSING"
  /\ Stage(s, mail :> [status |-> "SALES_ORDER_DRAFT_CREATED", draft |-> drafted]
              @@ drafted :> [status |-> "PENDING_CONFIRMATION", mail |-> mail],
           Nothing, MailLocks(mail))

-----------------------------------------------------------------------------
(* Gmail *)

ConnectGmail(s) == Stage(s, Gmail :> [status |-> "CONNECTED"], Nothing, {})

DisconnectGmail(s) == db[Gmail] # NoRow /\ Stage(s, Gmail :> [status |-> "DISCONNECTED"], Nothing, {})

Syncing == Request(Nothing, Nothing, {}, [op |-> "sync"])

\* sync_inbox keeps the connection it read until it saves it at the end.
SyncGmail(s) == Status(Gmail) = "CONNECTED" /\ Hold(s, [op |-> "sync"], {})

\* A message that is recorded is skipped.
FetchLetter(s, letter, intent) ==
  /\ At(s, "sync")
  /\ Status(letter) = "UNREAD"
  /\ db[MailOf(letter)] = NoRow
  /\ req' = [req EXCEPT ![s] = [Syncing EXCEPT !.memo = [op |-> "insert"],
       !.put = MailOf(letter) :> Mail(IF intent = "notice" THEN "FILTERED_NOTIFICATION" ELSE "HUMAN_REVIEW_REQUIRED",
                                      intent, NoRef)]]
  /\ UNCHANGED <<db, sums>>

\* The insert, or its conflict with one that was faster.
InsertMail(s) ==
  /\ At(s, "insert")
  /\ IF \E mail \in DOMAIN req[s].put : db[mail] # NoRow
     THEN req' = [req EXCEPT ![s] = Syncing] /\ UNCHANGED <<db, sums>>
     ELSE CommitAnd(s, Syncing)

\* The recorded message is marked as read, which may fail.
MarkRead(s, letter) ==
  /\ At(s, "sync")
  /\ Status(letter) = "UNREAD" /\ db[MailOf(letter)] # NoRow
  /\ db' = [db EXCEPT ![letter].status = "READ"]
  /\ UNCHANGED <<sums, req>>

EndSync(s) ==
  /\ At(s, "sync")
  /\ Finish(s, Gmail :> [status |-> "CONNECTED"], Nothing, {})

-----------------------------------------------------------------------------
\* The webhook's messages are numbered after the letters.
Webhook == {m \in Rows("MAIL") : <<"LETTER", m[2]>> \notin DOMAIN db}

MailIntakeNext(s) ==
  \/ \E mail \in Webhook : Fresh(mail) /\
       \/ \E intent \in Intents : RecordMail(s, mail, intent)
       \/ PersistSnapshot(s, mail)
  \/ \E flow \in Rows("FLOW") : Fresh(flow) /\ BeginRfq(s, flow)
  \/ PersistMail(s) \/ StartFlow(s)
  \/ \E mail \in Live("MAIL") :
       \/ ClassifyAsOrder(s, mail)
       \/ \E decision \in Decisions : ReviewMail(s, mail, decision)
       \/ \E drafted \in Rows("DRAFTED") : Fresh(drafted) /\ CreateOrderFromMail(s, mail, drafted)
  \/ Gmail \in DOMAIN db /\ (ConnectGmail(s) \/ DisconnectGmail(s) \/ SyncGmail(s) \/ EndSync(s))
  \/ \E letter \in Rows("LETTER") :
       \/ \E intent \in Intents : FetchLetter(s, letter, intent)
       \/ MarkRead(s, letter)
  \/ InsertMail(s)

-----------------------------------------------------------------------------
(* Properties *)

\* A message that was acknowledged as accepted has a durable workflow, and
\* sales orders drafted from mail and the messages that name them agree: one
\* message, however often and by whomever it is processed, makes one draft.
MailHandledOnce ==
  /\ \A mail \in Live("MAIL") :
       /\ Status(mail) = "DURABLY_ACCEPTED" => db[db[mail].flow] # NoRow
       /\ (Status(mail) = "SALES_ORDER_DRAFT_CREATED") = (db[mail].draft # NoRef)
  /\ \A drafted \in Live("DRAFTED") : db[db[drafted].mail].draft = drafted

\* The decision of a reviewer stands: no second reviewer, and no later
\* synchronisation of the account that delivered the message, undoes it.
DecisionStands ==
  [][\A mail \in Live("MAIL") :
       /\ Status(mail) = "REJECTED" => db'[mail].status = "REJECTED"
       /\ Status(mail) = "ACCEPTED_FOR_MANUAL_PROCESSING" =>
            db'[mail].status \in {"ACCEPTED_FOR_MANUAL_PROCESSING", "SALES_ORDER_DRAFT_CREATED"}]_vars

-----------------------------------------------------------------------------
\* The mail of a company, none of it with a request in progress: messages have
\* their columns, letters their number, and every foreign key its row.
MailColumns == {"status", "order", "flow", "draft"}
MailboxComplete ==
  /\ \A letter \in Rows("LETTER") : letter = <<"LETTER", letter[2]>> /\ MailOf(letter) \in DOMAIN db
  /\ \A mail \in Live("MAIL") :
       DOMAIN db[mail] = MailColumns /\ (Status(mail) = "DURABLY_ACCEPTED" => db[mail].flow \in Live("FLOW"))
  /\ \A drafted \in Live("DRAFTED") : "mail" \in DOMAIN db[drafted] /\ db[drafted].mail \in Live("MAIL")

MailSpec ==
  /\ MailboxComplete /\ MailHandledOnce /\ \A s \in Sessions : Free(s)
  /\ [][\E s \in Sessions : EndOfRequest(s) \/ MailIntakeNext(s)]_vars
=============================================================================
