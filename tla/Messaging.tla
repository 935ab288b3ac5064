------------------------------ MODULE Messaging ------------------------------
(***************************************************************************)
(* WhatsApp support: the inbound, delivery and reply routes                *)
(* (api/routes/whatsapp), the support agent's tools                        *)
(* (ai/whatsapp_support_agent) and the bridge that receives and sends the  *)
(* messages (whatsapp-service/connection-manager).  A turn locks its       *)
(* conversation, but the tools that open an issue or send a code commit in *)
(* the middle of it: the rest of such a turn holds no lock.                *)
(*                                                                         *)
(* Rows: CHAT 1 [status, issue, verified] the conversation; MSG n [status, *)
(* early] the customer's message n, early when a turn for it committed     *)
(* before its answer; ANS [status, reply, of, auto] a message to the       *)
(* customer: reply is the inbound message its metadata names, of the one   *)
(* it answers; HELP [status] issue; CODE [status, tries] one-time code;    *)
(* SOURCE [status, chunks] and CHUNK [status, source] imported knowledge;  *)
(* BOOKED [status] appointment.  Books: the answers in the bridge's hands, *)
(* per ANS row.                                                            *)
(***************************************************************************)
EXTENDS Database

Chat == <<"CHAT", 1>>
Hands(out) == <<"HANDS", out>>
MostHands == 2   \* bound: deliveries of one answer the bridge works on at a time

NewChat == [status |-> "ACTIVE", issue |-> NoRef, verified |-> FALSE]
ChatNow == IF db[Chat] = NoRow THEN NewChat ELSE db[Chat]

\* The reply recorded for an inbound message, if any.
Replies(in) == Of("ANS", "reply", in)

\* Mutant of ChatLocks: the conversation is read without FOR UPDATE.
NoChatLocks == {}

ChatLocks == {Chat}

Inbound(in) == in :> [status |-> "RECEIVED", early |-> db[in] # NoRow /\ db[in].early]
Answer(out, in) == out :> [status |-> "PENDING", reply |-> in, of |-> in, auto |-> TRUE]

\* The message again: the recorded answer is returned, to be sent unless SENT.
InboundAnswered(s, in) ==
  /\ db[in] # NoRow
  /\ \E out \in Replies(in) :
       /\ Book(Hands(out)) < MostHands
       /\ Stage(s, Nothing, IF Status(out) = "SENT" THEN Nothing ELSE Hands(out) :> 1, ChatLocks)

\* In handoff the text is added to the issue, if any, each time it is delivered.
InboundToHuman(s, in) ==
  /\ Replies(in) = {}
  /\ ChatNow.status = "HUMAN_HANDOFF"
  /\ Stage(s, Inbound(in), Nothing, ChatLocks)

\* A turn that commits once: no tool, a booking, or the check of a code.
PlainTurn(s, in, out, extra) ==
  /\ Replies(in) = {}
  /\ ChatNow.status = "ACTIVE"
  /\ Stage(s, Inbound(in) @@ Answer(out, in) @@ extra @@ Chat :> ChatNow, Hands(out) :> 1, ChatLocks)

\* A turn whose tool commits: the message, the conversation and what the tool
\* made; then, without the lock, the answer, a row of its own, and rest.
EarlyTurn(s, in, made, rest) ==
  /\ Replies(in) = {}
  /\ ChatNow.status = "ACTIVE"
  /\ Free(s)
  /\ Lockable(s, ChatLocks)
  /\ req' = [req EXCEPT ![s] = Request(
       Chat :> ChatNow @@ in :> [status |-> "RECEIVED", early |-> TRUE] @@ made, Nothing, ChatLocks,
       [op |-> "early", in |-> in, rest |-> rest])]
  /\ UNCHANGED <<db, sums>>

CommitEarly(s, out) ==
  /\ At(s, "early")
  /\ Lockable(s, DOMAIN req[s].put)
  /\ LET memo == req[s].memo IN
     CommitAnd(s, [put |-> Answer(out, memo.in) @@ memo.rest, add |-> Hands(out) :> 1, locks |-> {}, memo |-> [op |-> "commit"]])

\* create_support_issue and escalate_to_human: create_issue commits.
OpenIssue(s, in, help, escalate) ==
  EarlyTurn(s, in, help :> [status |-> "OPEN"],
    Chat :> ([issue |-> help] @@ IF escalate THEN [status |-> "HUMAN_HANDOFF"] ELSE Nothing))

\* send_customer_otp: at most three in an hour, the open ones are used up.
SendCode(s, in, code, delivered) ==
  /\ Cardinality(Live("CODE")) < 3
  /\ EarlyTurn(s, in,
       code :> [status |-> "OPEN", tries |-> 0] @@ [c \in {d \in Live("CODE") : Status(d) = "OPEN"} |-> [status |-> "USED"]],
       IF delivered THEN Nothing ELSE code :> [status |-> "USED"])

\* verify_customer_otp; the fifth wrong code uses it up.
VerifyCode(s, in, out, code, right) ==
  /\ Status(code) = "OPEN"
  /\ db[code].tries < 5
  /\ PlainTurn(s, in, out,
       code :> [tries |-> db[code].tries + 1,
                status |-> IF right \/ db[code].tries = 4 THEN "USED" ELSE "OPEN"]
         @@ IF right THEN Chat :> [ChatNow EXCEPT !.verified = TRUE] ELSE Nothing)

BookAppointment(s, in, out, booked) == PlainTurn(s, in, out, booked :> [status |-> "SCHEDULED"])

UpdateAppointment(s, in, out, booked, status) ==
  /\ ChatNow.verified
  /\ PlainTurn(s, in, out, booked :> [status |-> status])

-----------------------------------------------------------------------------
(* The bridge *)

\* The bridge is done with an answer it holds and reports it.
Report(s, out, columns) ==
  /\ Book(Hands(out)) > 0
  /\ Free(s)
  /\ req' = [req EXCEPT ![s] = Request(out :> columns, Nothing, {}, [op |-> "commit"])]
  /\ sums' = [sums EXCEPT ![Hands(out)] = @ - 1]
  /\ UNCHANGED db

SendAnswer(s, out) == Report(s, out, [status |-> "SENT"])

\* The report of an error replaces the metadata, and the reply in it.
Failed == [status |-> "FAILED", reply |-> NoRef]

SendFails(s, out) == Report(s, out, Failed)

\* The text is sent and its report refused: it is reported as an error.
ReportFails(s) ==
  /\ At(s, "commit")
  /\ \E out \in Live("ANS") :
       /\ req[s].put = out :> [status |-> "SENT"]
       /\ req' = [req EXCEPT ![s].put = Request(out :> Failed, Nothing, {}, 0).put]
  /\ UNCHANGED <<db, sums>>

\* A person replies: the text is sent first; the issue's note commits.
ReplyByHand(s, out) ==
  /\ db[Chat] # NoRow
  /\ Stage(s,
       out :> [status |-> "SENT", reply |-> NoRef, of |-> NoRef, auto |-> FALSE]
         @@ Chat :> [status |-> "ACTIVE"]
         @@ IF ChatNow.issue = NoRef THEN Nothing
            ELSE ChatNow.issue :> [status |-> "REPLIED"],
       Nothing, {})

-----------------------------------------------------------------------------
(* Knowledge *)

Chunks(rows, source) == [c \in rows |-> [status |-> "LIVE", source |-> source]]

\* A file, a page or a table: its rows are written with the source.
ImportKnowledge(s, source, rows) ==
  Stage(s, source :> [status |-> "READY", chunks |-> Cardinality(rows)] @@ Chunks(rows, source), Nothing, {})

\* Mutant of Dropped: the rows of the last import stay.
DroppedNone(source) == Nothing

Dropped(source) ==
  [c \in {d \in Of("CHUNK", "source", source) : Status(d) = "LIVE"} |-> [status |-> "DELETED"]]

SyncKnowledge(s, source, rows) ==
  /\ Status(source) = "READY"
  /\ Stage(s, source :> [chunks |-> Cardinality(rows)] @@ Chunks(rows, source) @@ Dropped(source), Nothing, {})

DeleteKnowledge(s, source) ==
  Status(source) = "READY" /\ Stage(s, source :> [status |-> "DELETED"] @@ Dropped(source), Nothing, {})

-----------------------------------------------------------------------------
Turn(s, in, out) ==
  \/ PlainTurn(s, in, out, Nothing)
  \/ \E code \in Rows("CODE"), right \in BOOLEAN : VerifyCode(s, in, out, code, right)
  \/ \E b \in Rows("BOOKED") : Fresh(b) /\ BookAppointment(s, in, out, b)
  \/ \E b \in Live("BOOKED"), status \in {"CANCELLED", "CONFIRMED"} : UpdateAppointment(s, in, out, b, status)

LongTurn(s, in) ==
  \/ \E help \in Rows("HELP"), escalate \in BOOLEAN : Fresh(help) /\ OpenIssue(s, in, help, escalate)
  \/ \E code \in Rows("CODE"), delivered \in BOOLEAN : Fresh(code) /\ SendCode(s, in, code, delivered)

MessagingNext(s) ==
  \/ \E in \in Rows("MSG") :
       \/ InboundAnswered(s, in) \/ InboundToHuman(s, in) \/ LongTurn(s, in)
       \/ \E out \in Rows("ANS") : Fresh(out) /\ Turn(s, in, out)
  \/ \E out \in Live("ANS") : SendAnswer(s, out) \/ SendFails(s, out)
  \/ ReportFails(s)
  \/ \E out \in Rows("ANS") : Fresh(out) /\ (ReplyByHand(s, out) \/ CommitEarly(s, out))
  \/ \E source \in Rows("SOURCE"), last \in {1, 2} :
       LET free == {c \in Rows("CHUNK") : db[c] = NoRow}
           rows == {c \in free : Cardinality({d \in free : d[2] <= c[2]}) <= last} IN
       /\ Cardinality(rows) = last
       /\ (Fresh(source) /\ ImportKnowledge(s, source, rows)) \/ SyncKnowledge(s, source, rows)
  \/ \E source \in Rows("SOURCE") : DeleteKnowledge(s, source)

\* The messages of a company, none of them with a request in progress.
MessagesComplete ==
  /\ Chat \in DOMAIN db
  /\ db[Chat] # NoRow => "issue" \in DOMAIN db[Chat] /\ db[Chat].issue \in Rows("HELP") \cup {NoRef}
  /\ \A in \in Live("MSG") : "early" \in DOMAIN db[in]
  /\ \A out \in Live("ANS") : {"reply", "of", "auto"} \subseteq DOMAIN db[out] /\ db[out].reply \in {db[out].of, NoRef}
  /\ \A in \in Rows("MSG") : \A out, other \in Replies(in) : out # other => in \in Live("MSG") /\ db[in].early

MessagingSpec ==
  /\ MessagesComplete /\ \A s \in Sessions : Free(s)
  /\ [][\E s \in Sessions : EndOfRequest(s) \/ MessagingNext(s)]_vars

-----------------------------------------------------------------------------
(* Properties *)

\* A message that is delivered again, also while its first delivery is still
\* worked on, gets no second answer, unless a tool committed in its turn or
\* the delivery of its answer was reported as failed.
AnsweredOnce ==
  \A in \in Live("MSG") :
    Cardinality(Of("ANS", "of", in)) > 1 =>
      db[in].early \/ \E out \in Of("ANS", "of", in) : db[out].reply = NoRef

\* While a person has taken the conversation over, the agent stays silent: an
\* answer is recorded only for a conversation that is still the agent's, or at
\* the end of a turn that gave up its lock.
HandoffIsQuiet ==
  [][\A out \in Rows("ANS") :
       (db[out] = NoRow /\ db'[out] # NoRow /\ db'[out].auto) =>
         \/ ChatNow.status = "ACTIVE"
         \/ db[db'[out].of] # NoRow /\ db[db'[out].of].early]_vars

\* The agent searches the rows of the last import of a source, all of them
\* and no others.
KnowledgeIsLast ==
  \A source \in Live("SOURCE") :
    Cardinality({c \in Of("CHUNK", "source", source) : Status(c) = "LIVE"}) =
      IF Status(source) = "READY" THEN db[source].chunks ELSE 0
=============================================================================
