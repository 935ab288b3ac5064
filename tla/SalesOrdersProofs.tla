------------------------- MODULE SalesOrdersProofs -------------------------
(***************************************************************************)
(* Machine-checked safety of the sales handlers, for any number of orders, *)
(* quotations, delivery notes and overlapping requests: what the row locks *)
(* keep true between the statements of a request.                          *)
(***************************************************************************)
EXTENDS SalesOrders, SumTheorems

-----------------------------------------------------------------------------
(* The inductive invariant.                                                 *)

QuoteSteps == {"convertCustomer", "convertSum", "convertReserve"}
Cleared == {"confirmCustomer", "confirmSum", "confirmReserve"}
ConfirmSteps == Cleared \cup {"confirmOriginal"}

\* The types, but for what is computed from sums.
SalesShape ==
  /\ quote \in [Quotes -> {"SENT", "ACCEPTED"}]
  /\ order \in [Orders -> OrderRow]
  /\ note \in [Notes -> NoteRow]
  /\ lock \in [Rows -> Sessions \cup {None}]
  /\ sess = [s \in Sessions |-> sess[s]]
  /\ \A s \in Sessions :
       sess[s] \in [at : Steps, row : Rows \cup {None}, invoices : {sess[s].invoices}]

\* What a request has read of the rows it holds is still so.
InHand(s) ==
  /\ sess[s].at \in QuoteSteps => sess[s].row \in Quotes /\ quote[sess[s].row] = "SENT"
  /\ sess[s].at \in ConfirmSteps =>
       sess[s].row \in Orders /\ order[sess[s].row].status = "PENDING_CONFIRMATION"
  /\ sess[s].at = "confirmOriginal" => order[sess[s].row].from # None
  /\ sess[s].at \in Cleared /\ order[sess[s].row].from # None =>
       order[order[sess[s].row].from].status = "CANCELLED"
  /\ sess[s].at = "cancel" =>
       sess[s].row \in Orders /\ order[sess[s].row].status \in {"PENDING_CONFIRMATION", "CONFIRMED"}
  /\ sess[s].at = "invoice" =>
       sess[s].row \in Notes /\ note[sess[s].row].order # None /\ ~note[sess[s].row].invoiced

\* The rows a request has locked.
Held(s) ==
  {x \in Rows :
     \/ sess[s].at # "idle" /\ x = sess[s].row
     \/ sess[s].at \in Cleared /\ x = order[sess[s].row].from
     \/ sess[s].at \in {"convertSum", "convertReserve", "confirmSum", "confirmReserve"} /\ x = Customer}

LocksHeld == \A s \in Sessions, x \in Rows : lock[x] = s <=> x \in Held(s)

\* An amendment is younger than its original.
AmendsOlder ==
  \A o \in Orders :
    order[o].from # None =>
      /\ order[order[o].from].status # "NONE"
      /\ order[order[o].from].from # o
      /\ order[o].from # o

\* Only delivered orders have delivery notes.
NotesDelivered ==
  \A n \in Notes :
    \/ note[n] = NoNote
    \/ note[n].order # None /\ order[note[n].order].status \in {"PARTIALLY_DELIVERED", "DELIVERED"}

\* Order o was converted from quotation q; an amendment only inherits it.
From(o, q) == order[o].source = q /\ order[o].from = None

\* A quotation that is still open has no order, another one has at most one.
QuoteOrders ==
  \A q \in Quotes, o \in Orders :
    From(o, q) => quote[q] # "SENT" /\ \A p \in Orders : From(p, q) => p = o

SalesInv ==
  /\ SalesShape
  /\ \A s \in Sessions : InHand(s)
  /\ LocksHeld
  /\ AmendsOlder
  /\ NotesDelivered
  /\ AmendmentReplaces
  /\ QuoteOrders

LEMMA SalesInvInit == SalesInit => SalesInv
<1> SUFFICES ASSUME SalesInit PROVE SalesInv
  OBVIOUS
<1> USE SalesAssumption DEF SalesInit
<1>1. SalesShape
  BY DEF SalesShape, OrderRow, NoteRow, NoOrder, NoNote, Idle, Status, Steps
<1>2. \A s \in Sessions : InHand(s)
  BY DEF InHand, Idle, QuoteSteps, ConfirmSteps, Cleared
<1>3. LocksHeld
  BY DEF LocksHeld, Held, Idle, Cleared
<1>4. AmendsOlder /\ NotesDelivered /\ AmendmentReplaces /\ QuoteOrders
  BY DEF AmendsOlder, NotesDelivered, AmendmentReplaces, QuoteOrders, From, NoOrder, NoNote
<1> QED
  BY <1>1, <1>2, <1>3, <1>4 DEF SalesInv

\* The invariant keeps requests from waiting for each other.
LEMMA InvNoCycle == SalesInv => NoLockCycle
<1> SUFFICES ASSUME SalesInv, NEW s \in Sessions, NEW t \in Sessions, s # t,
                    NEW x \in Awaited(s), lock[x] = t, NEW y \in Awaited(t), lock[y] = s
             PROVE  FALSE
  BY DEF NoLockCycle
<1> USE SalesAssumption DEF SalesInv
<1>1. x \in Rows /\ y \in Rows
  BY DEF Awaited
<1>2. x \in Held(t) /\ y \in Held(s)
  BY <1>1 DEF LocksHeld
\* A cancellation waits for no note: its order has none.
<1>3. ASSUME NEW u \in Sessions, NEW z \in Awaited(u)
      PROVE  sess[u].at # "cancel"
  <2>1. SUFFICES ASSUME sess[u].at = "cancel" PROVE FALSE
    OBVIOUS
  <2>2. z \in Notes /\ note[z].order = sess[u].row
    BY <2>1 DEF Awaited, NotesOf
  <2>3. sess[u].row \in Orders /\ order[sess[u].row].status \in {"PENDING_CONFIRMATION", "CONFIRMED"}
    BY <2>1 DEF InHand
  <2>4. note[z] # NoNote
    BY <2>2, <2>3 DEF NoNote
  <2> QED
    BY <2>2, <2>3, <2>4 DEF NotesDelivered
\* Who has the customer row waits for nothing.
<1>4. ASSUME NEW u \in Sessions, NEW v \in Sessions, NEW z \in Awaited(u), z \in Held(v), NEW other \in Awaited(v)
      PROVE  sess[u].at \notin {"convertCustomer", "confirmCustomer"}
  <2>1. SUFFICES ASSUME sess[u].at \in {"convertCustomer", "confirmCustomer"} PROVE FALSE
    OBVIOUS
  <2>2. Customer \in Held(v)
    BY <1>4, <2>1 DEF Awaited
  <2>3. sess[v].at \notin {"convertSum", "convertReserve", "confirmSum", "confirmReserve"}
    BY <1>4 DEF Awaited
  <2>4. \/ sess[v].at # "idle" /\ Customer = sess[v].row
        \/ sess[v].at \in Cleared /\ Customer = order[sess[v].row].from
    BY <2>2, <2>3 DEF Held
  <2>5. sess[v].at \in Steps
    BY DEF SalesShape
  <2>6. sess[v].at # "idle" => sess[v].row \in Quotes \cup Orders \cup Notes
    BY <2>5 DEF InHand, QuoteSteps, ConfirmSteps, Cleared, Steps
  <2>7. sess[v].at \in Cleared => order[sess[v].row].from \in Orders \cup {None}
    BY DEF InHand, ConfirmSteps, SalesShape, OrderRow
  <2>8. Customer \notin Orders \cup {None}
    OBVIOUS
  <2> HIDE DEF SalesInv
  <2> QED
    BY <2>4, <2>6, <2>7, <2>8
<1>5. ASSUME NEW u \in Sessions, NEW v \in Sessions, NEW z \in Awaited(u), z \in Held(v), NEW other \in Awaited(v), other \in Held(u)
      PROVE  sess[u].at = "confirmOriginal" /\ sess[u].row \in Orders /\ z = order[sess[u].row].from /\ other = sess[u].row
  <2>1. sess[u].at \in {"confirmOriginal", "invoice"} /\ sess[v].at \in {"confirmOriginal", "invoice"}
    BY <1>3, <1>4, <1>5 DEF Awaited
  <2>2. other = sess[u].row
    BY <1>5, <2>1 DEF Held, Cleared
  <2>3. other \in Orders \cup {None}
    <3>1. CASE sess[v].at = "confirmOriginal"
      <4>1. sess[v].row \in Orders /\ other = order[sess[v].row].from
        BY <1>5, <3>1 DEF Awaited, InHand, ConfirmSteps
      <4> QED
        BY <4>1 DEF SalesShape, OrderRow
    <3>2. CASE sess[v].at = "invoice"
      <4>1. sess[v].row \in Notes /\ other = note[sess[v].row].order
        BY <1>5, <3>2 DEF Awaited, InHand
      <4> QED
        BY <4>1 DEF SalesShape, NoteRow
    <3> QED
      BY <2>1, <3>1, <3>2
  <2>4. sess[u].at # "invoice"
    BY <2>2, <2>3 DEF InHand
  <2>5. sess[u].row \in Orders
    BY <2>1, <2>4 DEF InHand, ConfirmSteps
  <2> QED
    BY <2>1, <2>2, <2>4, <2>5 DEF Awaited
<1>6. /\ sess[s].row \in Orders /\ x = order[sess[s].row].from /\ y = sess[s].row
      /\ sess[t].row \in Orders /\ y = order[sess[t].row].from /\ x = sess[t].row
  BY <1>2, <1>5
<1>7. order[x].from = y /\ order[y].from = x /\ x # None
  BY <1>6
<1> QED
  BY <1>6, <1>7 DEF AmendsOlder

-----------------------------------------------------------------------------
(* Types. *)

LEMMA CustomerShape ==
  ASSUME SalesShape, NEW s \in Sessions, NEW at, NEW next \in Steps, CustomerStep(s, at, next)
  PROVE  SalesShape'
<1> DEFINE new == [sess[s] EXCEPT !.at = next, !.invoices = OpenInvoices]
<1> USE SalesAssumption DEF SalesShape
<1>1. sess' = [sess EXCEPT ![s] = new]
  BY DEF CustomerStep
<1>2. new \in [at : Steps, row : Rows \cup {None}, invoices : {OpenInvoices}]
  OBVIOUS
<1>3. \A t \in Sessions : sess'[t] = IF t = s THEN new ELSE sess[t]
  BY <1>1
<1>4. lock' \in [Rows -> Sessions \cup {None}] /\ UNCHANGED <<quote, order, note>>
  BY DEF CustomerStep, Lock, Rows, Reading, tables
<1> HIDE DEF new
<1> QED
  BY <1>1, <1>2, <1>3, <1>4

\* The end of a request empties its session and takes its locks back.
LEMMA EndShape ==
  ASSUME SalesShape, NEW s \in Sessions, End(s),
         quote' \in [Quotes -> {"SENT", "ACCEPTED"}], order' \in [Orders -> OrderRow], note' \in [Notes -> NoteRow]
  PROVE  SalesShape'
<1>1. lock' \in [Rows -> Sessions \cup {None}]
  BY DEF SalesShape, End, ReleaseAll
<1>2. sess' = [sess EXCEPT ![s] = Idle]
  BY DEF End
<1>3. sess' = [t \in Sessions |-> sess'[t]]
  BY <1>2 DEF SalesShape
<1>4. ASSUME NEW t \in Sessions
      PROVE  sess'[t] \in [at : Steps, row : Rows \cup {None}, invoices : {sess'[t].invoices}]
  <2>1. sess'[t] = IF t = s THEN Idle ELSE sess[t]
    BY <1>2 DEF SalesShape
  <2>2. CASE t = s
    BY <2>1, <2>2 DEF Idle, Steps
  <2>3. CASE t # s
    BY <2>1, <2>3 DEF SalesShape
  <2> QED
    BY <2>2, <2>3
<1> QED
  BY <1>1, <1>3, <1>4 DEF SalesShape

LEMMA ShapeNext == SalesInv /\ SalesNext => SalesShape'
<1> SUFFICES ASSUME SalesInv, SalesNext PROVE SalesShape'
  OBVIOUS
<1> USE SalesAssumption DEF SalesInv, SalesShape, tables, Reading
<1>1. ASSUME NEW s \in Sessions, Reject(s) PROVE SalesShape'
  <2>1. End(s) /\ quote' = quote /\ order' = order /\ note' = note
    BY <1>1 DEF Reject
  <2> QED
    BY <2>1, EndShape
<1>2. ASSUME NEW s \in Sessions, Convert(s) PROVE SalesShape'
  <2>1. ASSUME NEW q \in Quotes, ConvertOpen(s, q) PROVE SalesShape'
    BY <2>1 DEF ConvertOpen, Lock, Open, Idle, Steps, Rows
  <2>2. CASE CustomerStep(s, "convertCustomer", "convertSum")
    BY <2>2, CustomerShape DEF Steps
  <2>3. CASE SumStep(s, "convertSum", OpenAtConvert, "convertReserve")
    BY <2>3, <1>1 DEF SumStep, Goto, Steps
  <2>4. ASSUME NEW o \in Orders, ConvertReserve(s, o) PROVE SalesShape'
    <3>1. CASE CanReserve
      <4>1. order' \in [Orders -> OrderRow]
        <5> DEFINE new == [NoOrder EXCEPT !.status = "CONFIRMED", !.source = sess[s].row]
        <5>1. sess[s].row \in Quotes /\ order' = [order EXCEPT ![o] = new]
          BY <2>4, <3>1 DEF ConvertReserve, InHand, QuoteSteps
        <5>2. NoOrder \in OrderRow
          BY DEF NoOrder, OrderRow, Status
        <5>3. new \in OrderRow
          BY <5>1, <5>2 DEF OrderRow, Status
        <5> QED
          BY <5>1, <5>3
      <4>2. End(s) /\ quote' \in [Quotes -> {"SENT", "ACCEPTED"}] /\ note' = note
        BY <2>4, <3>1 DEF ConvertReserve
      <4> QED
        BY <4>1, <4>2, EndShape
    <3>2. CASE ~CanReserve
      BY <2>4, <3>2, <1>1 DEF ConvertReserve
    <3> QED
      BY <3>1, <3>2
  <2> QED
    BY <1>2, <2>1, <2>2, <2>3, <2>4 DEF Convert
<1>3. ASSUME NEW s \in Sessions, Confirm(s) PROVE SalesShape'
  <2>1. ASSUME NEW o \in Orders, ConfirmOpen(s, o) PROVE SalesShape'
    BY <2>1 DEF ConfirmOpen, Lock, Open, Idle, Steps, Rows
  <2>2. CASE ConfirmOriginal(s)
    BY <2>2, <1>1 DEF ConfirmOriginal, Lock, Goto, Steps
  <2>3. CASE CustomerStep(s, "confirmCustomer", "confirmSum")
    BY <2>3, CustomerShape DEF Steps
  <2>4. CASE SumStep(s, "confirmSum", OpenAtConfirm(sess[s].row), "confirmReserve")
    BY <2>4, <1>1 DEF SumStep, Goto, Steps
  <2>5. CASE ConfirmReserve(s)
    <3>1. CASE CanReserve
      <4> DEFINE changed == [order[sess[s].row] EXCEPT !.status = "CONFIRMED"]
      <4>1. order' = [order EXCEPT ![sess[s].row] = changed] /\ sess[s].row \in Orders
        BY <2>5, <3>1 DEF ConfirmReserve, InHand, ConfirmSteps, Cleared
      <4>2. order' \in [Orders -> OrderRow]
        <5>1. order[sess[s].row] \in OrderRow
          BY <4>1
        <5>2. changed \in OrderRow
          BY <5>1 DEF OrderRow, Status
        <5> QED
          BY <4>1, <5>2
      <4>3. End(s) /\ quote' = quote /\ note' = note
        BY <2>5, <3>1 DEF ConfirmReserve
      <4> QED
        BY <4>2, <4>3, EndShape
    <3>2. CASE ~CanReserve
      BY <2>5, <3>2, <1>1 DEF ConfirmReserve
    <3> QED
      BY <3>1, <3>2
  <2> QED
    BY <1>3, <2>1, <2>2, <2>3, <2>4, <2>5 DEF Confirm
<1>4. ASSUME NEW s \in Sessions, Cancel(s) PROVE SalesShape'
  <2>1. ASSUME NEW o \in Orders, CancelOpen(s, o) PROVE SalesShape'
    BY <2>1 DEF CancelOpen, Lock, Open, Idle, Steps, Rows
  <2>2. CASE CancelCommit(s)
    <3>1. CASE Reject(s)
      BY <3>1, <1>1
    <3>2. CASE ~Reject(s)
      <4> DEFINE changed == [order[sess[s].row] EXCEPT !.status = "CANCELLED"]
      <4>1. order' = [order EXCEPT ![sess[s].row] = changed] /\ sess[s].row \in Orders
        BY <2>2, <3>2 DEF CancelCommit, InHand
      <4>2. order' \in [Orders -> OrderRow]
        <5>1. order[sess[s].row] \in OrderRow
          BY <4>1
        <5>2. changed \in OrderRow
          BY <5>1 DEF OrderRow, Status
        <5> QED
          BY <4>1, <5>2
      <4>3. End(s) /\ quote' = quote /\ note' = note
        BY <2>2, <3>2 DEF CancelCommit
      <4> QED
        BY <4>2, <4>3, EndShape
    <3> QED
      BY <3>1, <3>2
  <2> QED
    BY <1>4, <2>1, <2>2 DEF Cancel
<1>5. ASSUME NEW s \in Sessions, Invoice(s) PROVE SalesShape'
  <2>1. ASSUME NEW n \in Notes, InvoiceOpen(s, n) PROVE SalesShape'
    BY <2>1 DEF InvoiceOpen, Lock, Open, Idle, Steps, Rows
  <2>2. CASE InvoiceCommit(s)
    <3>1. CASE Reject(s)
      BY <3>1, <1>1
    <3>2. CASE ~Reject(s)
      <4> DEFINE n == sess[s].row  o == note[n].order
      <4>1. n \in Notes /\ o \in Orders
        <5>1. n \in Notes /\ o # None
          BY <2>2 DEF InvoiceCommit, InHand
        <5>2. o \in Orders \cup {None}
          BY <5>1 DEF NoteRow
        <5> QED
          BY <5>1, <5>2
      <4>2. order[o].invoiced + note[n].qty \in 0..Quantity
        <5>1. order[o].invoiced \in 0..Quantity /\ order[o].delivered \in 0..Quantity
          BY <4>1 DEF OrderRow
        <5>2. note[n].qty \in 0..Quantity
          BY <4>1 DEF NoteRow
        <5>3. order[o].invoiced + note[n].qty <= order[o].delivered
          BY <2>2, <3>2 DEF InvoiceCommit
        <5> HIDE DEF SalesInv, n, o
        <5>4. PICK i, d, q \in 0..Quantity : i = order[o].invoiced /\ d = order[o].delivered /\ q = note[n].qty
          BY <5>1, <5>2
        <5>5. i + q <= d
          BY <5>3, <5>4
        <5>6. i + q \in 0..Quantity
          BY <5>5
        <5> QED
          BY <5>4, <5>6
      <4>3. order' \in [Orders -> OrderRow] /\ note' \in [Notes -> NoteRow]
        <5> DEFINE new == [order[o] EXCEPT !.invoiced = @ + note[n].qty]
        <5>1. order' = [order EXCEPT ![o] = new] /\ note' = [note EXCEPT ![n].invoiced = TRUE]
          BY <2>2, <3>2 DEF InvoiceCommit
        <5>0. order[o] \in OrderRow
          BY <4>1
        <5>2. new \in OrderRow
          BY <4>2, <5>0 DEF OrderRow
        <5>3. note' \in [Notes -> NoteRow]
          <6> DEFINE changed == [note[n] EXCEPT !.invoiced = TRUE]
          <6>0. note[n] \in NoteRow
            BY <4>1
          <6>1. changed \in NoteRow
            BY <6>0 DEF NoteRow
          <6>2. note' = [note EXCEPT ![n] = changed]
            BY <5>1
          <6> QED
            BY <6>1, <6>2
        <5> QED
          BY <5>1, <5>2, <5>3
      <4>4. End(s) /\ quote' = quote
        BY <2>2, <3>2 DEF InvoiceCommit
      <4> QED
        BY <4>3, <4>4, EndShape
    <3> QED
      BY <3>1, <3>2
  <2> QED
    BY <1>5, <2>1, <2>2 DEF Invoice
<1>6. ASSUME NEW o \in Orders, Intake(o) PROVE SalesShape'
  BY <1>6 DEF Intake, OrderRow, Status
<1>7. ASSUME NEW o \in Orders, NEW r \in Orders, Amend(o, r) PROVE SalesShape'
  BY <1>7 DEF Amend, OrderRow, NoOrder, Status
<1>8. ASSUME NEW o \in Orders, NEW n \in Notes, NEW q \in 1..Quantity, Fulfil(o, n, q) PROVE SalesShape'
  <2>1. order[o].delivered + q \in 0..Quantity
    BY <1>8 DEF Fulfil, Remaining, OrderRow
  <2>2. order' \in [Orders -> OrderRow]
    <3> DEFINE new == [order[o] EXCEPT
                         !.delivered = @ + q,
                         !.status = IF q = Remaining(o) THEN "DELIVERED" ELSE "PARTIALLY_DELIVERED"]
    <3>1. order' = [order EXCEPT ![o] = new]
      BY <1>8 DEF Fulfil
    <3>2. order[o] \in OrderRow
      OBVIOUS
    <3>3. new \in OrderRow
      BY <2>1, <3>2 DEF OrderRow, Status
    <3> QED
      BY <3>1, <3>3
  <2>3. note' \in [Notes -> NoteRow]
    BY <1>8 DEF Fulfil, NoteRow
  <2> QED
    BY <1>8, <2>2, <2>3 DEF Fulfil
<1> QED
  BY <1>1, <1>2, <1>3, <1>4, <1>5, <1>6, <1>7, <1>8 DEF SalesNext, Abort

-----------------------------------------------------------------------------
(* Locks: a step of one request leaves what the others hold alone.          *)

\* The step does not concern request t.
Spared(t) ==
  /\ sess'[t] = sess[t]
  /\ \A q \in Quotes : lock[q] = t => quote'[q] = quote[q]
  /\ \A x \in Rows : lock'[x] = t <=> lock[x] = t
  /\ \A o \in Orders : lock[o] = t => order'[o] = order[o]
  /\ \A n \in Notes : lock[n] = t => note'[n] = note[n]

\* What the invariant says of the locks of request t.
Sound(t) == InHand(t) /\ \A x \in Rows : lock[x] = t <=> x \in Held(t)

LEMMA SparedSound ==
  ASSUME SalesInv, NEW t \in Sessions, Spared(t)
  PROVE  Sound(t)'
<1> USE SalesAssumption DEF SalesInv, Spared
<1>1. \A x \in Rows : x \in Held(t) => lock[x] = t
  BY DEF LocksHeld
<1>2. ASSUME sess[t].at \in ConfirmSteps \cup {"cancel"}
      PROVE  sess[t].row \in Orders /\ order'[sess[t].row] = order[sess[t].row]
  BY <1>1, <1>2 DEF InHand, Held, Rows, ConfirmSteps, Cleared
<1>3. ASSUME sess[t].at \in Cleared, order[sess[t].row].from # None
      PROVE  order'[order[sess[t].row].from] = order[order[sess[t].row].from]
  <2>1. order[sess[t].row].from \in Orders
    BY <1>2, <1>3 DEF ConfirmSteps, SalesShape, OrderRow
  <2> QED
    BY <1>1, <1>3, <2>1 DEF Held, Rows
<1>4. ASSUME sess[t].at = "invoice"
      PROVE  sess[t].row \in Notes /\ note'[sess[t].row] = note[sess[t].row]
  BY <1>1, <1>4 DEF InHand, Held, Rows
<1>q. ASSUME sess[t].at \in QuoteSteps
      PROVE  sess[t].row \in Quotes /\ quote'[sess[t].row] = quote[sess[t].row]
  BY <1>1, <1>q DEF InHand, Held, Rows, QuoteSteps
<1>5. InHand(t)'
  BY <1>q, <1>2, <1>3, <1>4 DEF InHand, ConfirmSteps, Cleared
<1>6. Held(t)' = Held(t)
  BY <1>2 DEF Held, Rows, ConfirmSteps
<1> QED
  BY <1>5, <1>6 DEF Sound, LocksHeld

LEMMA Unwritten ==
  ASSUME SalesInv, NEW t \in Sessions
  PROVE  /\ \A o \in Orders : order[o].status = "NONE" => lock[o] # t
         /\ \A n \in Notes : note[n].order = None => lock[n] # t
<1> USE SalesAssumption DEF SalesInv, LocksHeld, Held, Rows, InHand, QuoteSteps, ConfirmSteps, Cleared
<1>1. sess[t].at \in Steps
  BY DEF SalesShape
<1>2. ASSUME NEW o \in Orders, order[o].status = "NONE" PROVE lock[o] # t
  BY <1>1, <1>2 DEF Steps
<1>3. ASSUME NEW n \in Notes, note[n].order = None PROVE lock[n] # t
  <2>1. sess[t].at \in Cleared => order[sess[t].row].from \in Orders \cup {None}
    BY DEF SalesShape, OrderRow
  <2> QED
    BY <1>1, <1>3, <2>1 DEF Steps
<1> QED
  BY <1>2, <1>3

\* The end of a request releases its locks and no other.
LEMMA EndSound ==
  ASSUME SalesInv, NEW s \in Sessions, End(s)
  PROVE  /\ Sound(s)'
         /\ \A t \in Sessions \ {s} : sess'[t] = sess[t] /\ \A x \in Rows : lock'[x] = t <=> lock[x] = t
<1> USE SalesAssumption DEF SalesInv, SalesShape, End, ReleaseAll
<1>1. sess'[s] = Idle
  OBVIOUS
<1>2. \A x \in Rows : lock'[x] # s
  OBVIOUS
<1>3. Sound(s)'
  BY <1>1, <1>2 DEF Sound, InHand, Held, Idle, QuoteSteps, ConfirmSteps, Cleared
<1>4. \A t \in Sessions \ {s} : sess'[t] = sess[t] /\ \A x \in Rows : lock'[x] = t <=> lock[x] = t
  OBVIOUS
<1> QED
  BY <1>3, <1>4

\* A lock is only taken when it is free.
LEMMA LockSpares ==
  ASSUME SalesInv, NEW s \in Sessions, NEW x \in Rows, Lock(s, x)
  PROVE  /\ \A y \in Rows : lock'[y] = s <=> (lock[y] = s \/ y = x)
         /\ \A t \in Sessions \ {s}, y \in Rows : lock'[y] = t <=> lock[y] = t
BY SalesAssumption DEF SalesInv, SalesShape, Lock, Free

LEMMA RejectSound ==
  ASSUME SalesInv, NEW s \in Sessions, Reject(s)
  PROVE  \A t \in Sessions : Sound(t)'
BY EndSound, SparedSound DEF Reject, Spared, tables

\* A step that takes one more row and moves request s on.
LEMMA TakeSound ==
  ASSUME SalesInv, NEW s \in Sessions, NEW x \in Rows, Lock(s, x), Sound(s)', UNCHANGED tables,
         \A t \in Sessions \ {s} : sess'[t] = sess[t]
  PROVE  \A t \in Sessions : Sound(t)'
BY LockSpares, SparedSound DEF Spared, tables

LEMMA OpenSound ==
  ASSUME SalesInv, NEW s \in Sessions, NEW x \in Rows, NEW at,
         sess[s].at = "idle", Lock(s, x), Open(s, at, x), Reading, InHand(s)', at \notin Cleared,
         at \notin {"idle", "convertSum", "convertReserve"}
  PROVE  \A t \in Sessions : Sound(t)'
<1> USE DEF SalesInv, SalesShape, Open, Reading
<1>1. sess'[s].at = at /\ sess'[s].row = x /\ \A t \in Sessions \ {s} : sess'[t] = sess[t]
  BY DEF Idle
<1>2. \A y \in Rows : lock[y] # s
  BY DEF LocksHeld, Held, Cleared
<1>3. \A y \in Rows : lock'[y] = s <=> y = x
  BY <1>2, LockSpares
<1>4. Sound(s)'
  BY <1>1, <1>3 DEF Sound, Held, Cleared
<1> QED
  BY <1>1, <1>4, TakeSound

LEMMA CustomerSound ==
  ASSUME SalesInv, NEW s \in Sessions, NEW at, NEW next, CustomerStep(s, at, next),
         <<at, next>> \in {<<"convertCustomer", "convertSum">>, <<"confirmCustomer", "confirmSum">>}
  PROVE  \A t \in Sessions : Sound(t)'
<1> USE DEF SalesInv, SalesShape, CustomerStep, Reading, tables
<1>0. \/ at = "convertCustomer" /\ next = "convertSum"
      \/ at = "confirmCustomer" /\ next = "confirmSum"
  OBVIOUS
<1>1. sess'[s].at = next /\ sess'[s].row = sess[s].row /\ \A t \in Sessions \ {s} : sess'[t] = sess[t]
  OBVIOUS
<1>2. InHand(s)'
  BY <1>0, <1>1 DEF InHand, QuoteSteps, ConfirmSteps, Cleared
<1>3. Customer \in Rows /\ Lock(s, Customer)
  BY DEF Rows
<1>4. \A y \in Rows : lock'[y] = s <=> (lock[y] = s \/ y = Customer)
  BY <1>3, LockSpares
<1>5. \A y \in Rows : y \in Held(s)' <=> (y \in Held(s) \/ y = Customer)
  BY <1>0, <1>1 DEF Held, Cleared
<1>6. Sound(s)'
  BY <1>2, <1>4, <1>5 DEF Sound, LocksHeld
<1> QED
  BY <1>1, <1>3, <1>6, TakeSound

LEMMA SumSound ==
  ASSUME SalesInv, NEW s \in Sessions, NEW at, NEW others, NEW next, SumStep(s, at, others, next),
         <<at, next>> \in {<<"convertSum", "convertReserve">>, <<"confirmSum", "confirmReserve">>}
  PROVE  \A t \in Sessions : Sound(t)'
<1> USE DEF SalesInv, SalesShape, SumStep, Goto, tables
<1>0. \/ at = "convertSum" /\ next = "convertReserve"
      \/ at = "confirmSum" /\ next = "confirmReserve"
  OBVIOUS
<1>1. CASE WithinCredit(s, others)
  <2>1. sess'[s].at = next /\ sess'[s].row = sess[s].row /\ \A t \in Sessions \ {s} : sess'[t] = sess[t]
    BY <1>1
  <2>2. InHand(s)' /\ Held(s)' = Held(s)
    BY <1>0, <1>1, <2>1 DEF InHand, Held, QuoteSteps, ConfirmSteps, Cleared
  <2> QED
    BY <1>1, <2>1, <2>2, SparedSound DEF Spared, Sound, LocksHeld
<1>2. CASE ~WithinCredit(s, others)
  BY <1>2, RejectSound
<1> QED
  BY <1>1, <1>2

\* A request that writes orders it holds, or that nobody holds, and ends.
LEMMA WriteSound ==
  ASSUME SalesInv, NEW s \in Sessions, End(s),
         \A q \in Quotes : quote'[q] # quote[q] => \A t \in Sessions \ {s} : lock[q] # t,
         \A o \in Orders : order'[o] # order[o] => \A t \in Sessions \ {s} : lock[o] # t,
         \A n \in Notes : note'[n] # note[n] => \A t \in Sessions \ {s} : lock[n] # t
  PROVE  \A t \in Sessions : Sound(t)'
BY EndSound, SparedSound DEF Spared

LEMMA SoundNext == SalesInv /\ SalesNext => \A t \in Sessions : Sound(t)'
<1> SUFFICES ASSUME SalesInv, SalesNext PROVE \A t \in Sessions : Sound(t)'
  OBVIOUS
<1> USE SalesAssumption DEF SalesInv, SalesShape, tables
<1>1. ASSUME NEW s \in Sessions, Convert(s) PROVE \A t \in Sessions : Sound(t)'
  <2>1. ASSUME NEW q \in Quotes, ConvertOpen(s, q) PROVE \A t \in Sessions : Sound(t)'
    <3>1. InHand(s)'
      BY <2>1 DEF ConvertOpen, Open, Idle, InHand, QuoteSteps, ConfirmSteps, Cleared, Reading
    <3> QED
      BY <2>1, <3>1, OpenSound DEF ConvertOpen, Rows, Cleared
  <2>2. CASE CustomerStep(s, "convertCustomer", "convertSum")
    BY <2>2, CustomerSound
  <2>3. CASE SumStep(s, "convertSum", OpenAtConvert, "convertReserve")
    BY <2>3, SumSound
  <2>4. ASSUME NEW o \in Orders, ConvertReserve(s, o) PROVE \A t \in Sessions : Sound(t)'
    <3>1. CASE CanReserve
      <4>1. \A t \in Sessions : lock[o] # t
        BY <2>4, Unwritten DEF ConvertReserve, NoOrder
      <4>2. sess[s].row \in Quotes /\ lock[sess[s].row] = s
        BY <2>4 DEF ConvertReserve, InHand, QuoteSteps, LocksHeld, Held, Rows
      <4> QED
        BY <2>4, <3>1, <4>1, <4>2, WriteSound DEF ConvertReserve
    <3>2. CASE ~CanReserve
      BY <2>4, <3>2, RejectSound DEF ConvertReserve
    <3> QED
      BY <3>1, <3>2
  <2> QED
    BY <1>1, <2>1, <2>2, <2>3, <2>4 DEF Convert
<1>2. ASSUME NEW s \in Sessions, Confirm(s) PROVE \A t \in Sessions : Sound(t)'
  <2>1. ASSUME NEW o \in Orders, ConfirmOpen(s, o) PROVE \A t \in Sessions : Sound(t)'
    <3> DEFINE at == IF order[o].from = None THEN "confirmCustomer" ELSE "confirmOriginal"
    <3>1. CASE order[o].from # None
      <4>1. InHand(s)'
        BY <2>1, <3>1 DEF ConfirmOpen, Open, Idle, InHand, QuoteSteps, ConfirmSteps, Cleared, Reading
      <4> QED
        BY <2>1, <3>1, <4>1, OpenSound DEF ConfirmOpen, Rows, Cleared
    <3>2. CASE order[o].from = None
      <4>1. sess'[s].at = "confirmCustomer" /\ sess'[s].row = o /\ UNCHANGED tables
        BY <2>1, <3>2 DEF ConfirmOpen, Open, Idle, Reading
      <4>2. InHand(s)'
        BY <2>1, <3>2, <4>1 DEF ConfirmOpen, InHand, QuoteSteps, ConfirmSteps, Cleared
      <4>3. \A y \in Rows : lock'[y] = s <=> y = o
        BY <2>1, LockSpares DEF ConfirmOpen, LocksHeld, Held, Cleared, Rows
      <4>4. Sound(s)'
        BY <3>2, <4>1, <4>2, <4>3 DEF Sound, Held, Cleared, Rows
      <4> QED
        BY <2>1, <4>1, <4>4, TakeSound DEF ConfirmOpen, Open, Rows
    <3> QED
      BY <3>1, <3>2
  <2>2. CASE ConfirmOriginal(s)
    <3> DEFINE original == order[sess[s].row].from
    <3>1. CASE order[original].status = "CANCELLED"
      <4>1. /\ original \in Orders /\ Lock(s, original) /\ UNCHANGED tables
            /\ sess'[s].at = "confirmCustomer" /\ sess'[s].row = sess[s].row
            /\ \A t \in Sessions \ {s} : sess'[t] = sess[t]
        <5>1. /\ sess[s].at = "confirmOriginal" /\ Lock(s, original) /\ UNCHANGED tables
              /\ sess' = [sess EXCEPT ![s].at = "confirmCustomer"]
          BY <2>2, <3>1 DEF ConfirmOriginal, Goto, Reading
        <5>2. original \in Orders
          BY <5>1 DEF InHand, OrderRow, ConfirmSteps
        <5>3. sess'[s].at = "confirmCustomer" /\ sess'[s].row = sess[s].row
          BY <5>1
        <5>4. \A t \in Sessions \ {s} : sess'[t] = sess[t]
          BY <5>1
        <5> QED
          BY <5>1, <5>2, <5>3, <5>4
      <4>2. InHand(s)'
        BY <2>2, <3>1, <4>1 DEF ConfirmOriginal, InHand, QuoteSteps, ConfirmSteps, Cleared
      <4>3. \A y \in Rows : lock'[y] = s <=> (lock[y] = s \/ y = original)
        BY <4>1, LockSpares DEF Rows
      <4>4. \A y \in Rows : y \in Held(s)' <=> (y \in Held(s) \/ y = original)
        BY <2>2, <4>1 DEF ConfirmOriginal, Held, Cleared
      <4>5. Sound(s)'
        BY <4>2, <4>3, <4>4 DEF Sound, LocksHeld
      <4> QED
        BY <4>1, <4>5, TakeSound DEF Rows
    <3>2. CASE order[original].status # "CANCELLED"
      BY <2>2, <3>2, RejectSound DEF ConfirmOriginal
    <3> QED
      BY <3>1, <3>2
  <2>3. CASE CustomerStep(s, "confirmCustomer", "confirmSum")
    BY <2>3, CustomerSound
  <2>4. CASE SumStep(s, "confirmSum", OpenAtConfirm(sess[s].row), "confirmReserve")
    BY <2>4, SumSound
  <2>5. CASE ConfirmReserve(s)
    <3>1. CASE CanReserve
      <4>1. sess[s].row \in Orders /\ lock[sess[s].row] = s
        BY <2>5 DEF ConfirmReserve, InHand, ConfirmSteps, Cleared, LocksHeld, Held, Rows
      <4> QED
        BY <2>5, <3>1, <4>1, WriteSound DEF ConfirmReserve
    <3>2. CASE ~CanReserve
      BY <2>5, <3>2, RejectSound DEF ConfirmReserve
    <3> QED
      BY <3>1, <3>2
  <2> QED
    BY <1>2, <2>1, <2>2, <2>3, <2>4, <2>5 DEF Confirm
<1>3. ASSUME NEW s \in Sessions, Cancel(s) PROVE \A t \in Sessions : Sound(t)'
  <2>1. ASSUME NEW o \in Orders, CancelOpen(s, o) PROVE \A t \in Sessions : Sound(t)'
    <3>1. InHand(s)'
      BY <2>1 DEF CancelOpen, Cancellable, Open, Idle, InHand, QuoteSteps, ConfirmSteps, Cleared, Reading
    <3> QED
      BY <2>1, <3>1, OpenSound DEF CancelOpen, Rows, Cleared
  <2>2. CASE CancelCommit(s)
    <3>1. CASE Reject(s)
      BY <3>1, RejectSound
    <3>2. CASE ~Reject(s)
      <4>1. sess[s].row \in Orders /\ lock[sess[s].row] = s
        BY <2>2 DEF CancelCommit, InHand, LocksHeld, Held, Rows
      <4> QED
        BY <2>2, <3>2, <4>1, WriteSound DEF CancelCommit
    <3> QED
      BY <3>1, <3>2
  <2> QED
    BY <1>3, <2>1, <2>2 DEF Cancel
<1>4. ASSUME NEW s \in Sessions, Invoice(s) PROVE \A t \in Sessions : Sound(t)'
  <2>1. ASSUME NEW n \in Notes, InvoiceOpen(s, n) PROVE \A t \in Sessions : Sound(t)'
    <3>1. note[n].order # None
      BY <2>1 DEF InvoiceOpen, NotesDelivered
    <3>2. InHand(s)'
      BY <2>1, <3>1 DEF InvoiceOpen, Open, Idle, InHand, QuoteSteps, ConfirmSteps, Cleared, Reading
    <3> QED
      BY <2>1, <3>2, OpenSound DEF InvoiceOpen, Rows, Cleared
  <2>2. CASE InvoiceCommit(s)
    <3>1. CASE Reject(s)
      BY <3>1, RejectSound
    <3>2. CASE ~Reject(s)
      <4> DEFINE n == sess[s].row  o == note[n].order
      <4>1. sess[s].at = "invoice" /\ n \in Notes /\ o \in Orders /\ lock[o] = None
        BY <2>2 DEF InvoiceCommit, InHand, NoteRow, Free
      <4>2. lock[n] = s
        BY <4>1 DEF LocksHeld, Held, Rows
      <4>3. /\ End(s) /\ UNCHANGED quote
            /\ order' = [order EXCEPT ![o].invoiced = @ + note[n].qty]
            /\ note' = [note EXCEPT ![n].invoiced = TRUE]
        BY <2>2, <3>2 DEF InvoiceCommit
      <4>4. /\ \A p \in Orders : order'[p] # order[p] => p = o
            /\ \A m \in Notes : note'[m] # note[m] => m = n
        BY <4>1, <4>3
      <4>5. \A t \in Sessions \ {s} : lock[o] # t /\ lock[n] # t
        BY <4>1, <4>2
      <4>6. /\ \A q \in Quotes : quote'[q] # quote[q] => \A t \in Sessions \ {s} : lock[q] # t
            /\ \A p \in Orders : order'[p] # order[p] => \A t \in Sessions \ {s} : lock[p] # t
            /\ \A m \in Notes : note'[m] # note[m] => \A t \in Sessions \ {s} : lock[m] # t
        BY <4>3, <4>4, <4>5
      <4> HIDE DEF SalesInv
      <4> QED
        BY <4>3, <4>6, WriteSound
    <3> QED
      BY <3>1, <3>2
  <2> QED
    BY <1>4, <2>1, <2>2 DEF Invoice
<1>5. ASSUME NEW s \in Sessions, Abort(s) PROVE \A t \in Sessions : Sound(t)'
  BY <1>5, RejectSound DEF Abort
<1>6. ASSUME NEW o \in Orders, Intake(o) PROVE \A t \in Sessions : Sound(t)'
  <2>1. \A t \in Sessions : lock[o] # t
    BY <1>6, Unwritten DEF Intake, NoOrder
  <2> QED
    BY <1>6, <2>1, SparedSound DEF Intake, Spared
<1>7. ASSUME NEW o \in Orders, NEW r \in Orders, Amend(o, r) PROVE \A t \in Sessions : Sound(t)'
  <2>1. \A t \in Sessions : lock[r] # t
    BY <1>7, Unwritten DEF Amend, NoOrder
  <2> QED
    BY <1>7, <2>1, SparedSound DEF Amend, Spared
<1>8. ASSUME NEW o \in Orders, NEW n \in Notes, NEW q \in 1..Quantity, Fulfil(o, n, q)
      PROVE  \A t \in Sessions : Sound(t)'
  <2>1. \A t \in Sessions : lock[o] # t /\ lock[n] # t
    BY <1>8, Unwritten DEF Fulfil, Free, NoNote
  <2> QED
    BY <1>8, <2>1, SparedSound DEF Fulfil, Spared
<1> QED
  BY <1>1, <1>2, <1>3, <1>4, <1>5, <1>6, <1>7, <1>8 DEF SalesNext

-----------------------------------------------------------------------------
(* The orders: how amendments, notes and final orders survive a step.       *)

\* A cancelled order is not revived, a delivered one not reopened.
Finality ==
  \A o \in Orders : order[o].status \in {"CANCELLED", "DELIVERED"} => order'[o].status = order[o].status

\* What a step keeps of the orders among each other.
Agreed == AmendsOlder' /\ NotesDelivered' /\ AmendmentReplaces' /\ Finality

LEMMA UnwrittenAgreed ==
  ASSUME SalesInv, UNCHANGED <<order, note>>
  PROVE  Agreed
BY DEF SalesInv, Agreed, Finality, AmendsOlder, NotesDelivered, AmendmentReplaces

\* A new order is a draft, or no amendment.
LEMMA CreateAgreed ==
  ASSUME SalesInv, NEW o \in Orders, NEW new \in OrderRow, order[o] = NoOrder,
         order' = [order EXCEPT ![o] = new], UNCHANGED note,
         new.status # "NONE",
         new.from = None \/ (/\ new.status = "PENDING_CONFIRMATION"
                            /\ new.from \in Orders \ {o} /\ order[new.from].status # "NONE")
  PROVE  Agreed
<1> USE SalesAssumption DEF SalesInv, SalesShape
<1>1. order'[o] = new /\ \A p \in Orders \ {o} : order'[p] = order[p]
  OBVIOUS
<1>2. order[o].status = "NONE" /\ order[o].from = None
  BY DEF NoOrder
<1>3. \A p \in Orders : order[p].from \in Orders \cup {None} /\ order[p].from # o
  BY <1>2 DEF AmendsOlder, OrderRow
<1>4. AmendsOlder'
  BY <1>1, <1>2, <1>3 DEF AmendsOlder
<1>5. \A n \in Notes : note[n].order \in Orders \cup {None}
  BY DEF NoteRow
<1>6. NotesDelivered'
  BY <1>1, <1>2, <1>5 DEF NotesDelivered
<1>7. AmendmentReplaces'
  BY <1>1, <1>3 DEF AmendmentReplaces
<1>8. Finality
  BY <1>1, <1>2 DEF Finality
<1> QED
  BY <1>4, <1>6, <1>7, <1>8 DEF Agreed

\* An order moves on, and takes its place only when its original is cancelled.
LEMMA MoveAgreed ==
  ASSUME SalesInv, NEW o \in Orders, order' \in [Orders -> OrderRow],
         \A p \in Orders \ {o} : order'[p] = order[p],
         order'[o].from = order[o].from, order'[o].status # "NONE",
         order[o].status \in {"CANCELLED", "DELIVERED"} => order'[o].status = order[o].status,
         order[o].status \in {"PARTIALLY_DELIVERED", "DELIVERED"}
           => order'[o].status \in {"PARTIALLY_DELIVERED", "DELIVERED"},
         order'[o].status \in {"CONFIRMED", "PARTIALLY_DELIVERED", "DELIVERED"} /\ order[o].from # None
           => order[order[o].from].status = "CANCELLED",
         note' \in [Notes -> NoteRow],
         \A n \in Notes : \/ note'[n].order = note[n].order /\ (note[n] = NoNote => note'[n] = NoNote)
                          \/ note'[n].order = o /\ order'[o].status \in {"PARTIALLY_DELIVERED", "DELIVERED"}
  PROVE  Agreed
<1> USE SalesAssumption DEF SalesInv, SalesShape
<1>1. \A p \in Orders : order[p].from \in Orders \cup {None}
  BY DEF OrderRow
<1>2. AmendsOlder'
  <2> SUFFICES ASSUME NEW p \in Orders, order'[p].from # None
               PROVE  /\ order'[order'[p].from].status # "NONE"
                      /\ order'[order'[p].from].from # p
                      /\ order'[p].from # p
    BY DEF AmendsOlder
  <2>1. order'[p].from = order[p].from
    OBVIOUS
  <2> QED
    BY <1>1, <2>1 DEF AmendsOlder
<1>3. NotesDelivered'
  <2> SUFFICES ASSUME NEW n \in Notes, note'[n] # NoNote
               PROVE  /\ note'[n].order # None
                      /\ order'[note'[n].order].status \in {"PARTIALLY_DELIVERED", "DELIVERED"}
    BY DEF NotesDelivered
  <2>1. note[n].order \in Orders \cup {None}
    BY DEF NoteRow
  <2> QED
    BY <2>1 DEF NotesDelivered
<1>4. AmendmentReplaces'
  <2> SUFFICES ASSUME NEW p \in Orders, order'[p].from # None,
                      order'[p].status \in {"CONFIRMED", "PARTIALLY_DELIVERED", "DELIVERED"}
               PROVE  order'[order'[p].from].status = "CANCELLED"
    BY DEF AmendmentReplaces
  <2>1. order'[p].from = order[p].from
    OBVIOUS
  <2>2. order[order[p].from].status = "CANCELLED"
    BY <2>1 DEF AmendmentReplaces
  <2> QED
    BY <1>1, <2>1, <2>2
<1>5. Finality
  BY DEF Finality
<1> QED
  BY <1>2, <1>3, <1>4, <1>5 DEF Agreed

LEMMA AgreedNext == SalesInv /\ SalesNext => Agreed
<1> SUFFICES ASSUME SalesInv, SalesNext PROVE Agreed
  OBVIOUS
<1>0. SalesShape'
  BY ShapeNext
<1> USE SalesAssumption DEF SalesInv, SalesShape, tables, Reading
<1>u. ASSUME UNCHANGED <<order, note>> PROVE Agreed
  BY <1>u, UnwrittenAgreed
<1>1. ASSUME NEW s \in Sessions, Convert(s) PROVE Agreed
  <2>1. ASSUME NEW o \in Orders, ConvertReserve(s, o), CanReserve PROVE Agreed
    <3> DEFINE new == [NoOrder EXCEPT !.status = "CONFIRMED", !.source = sess[s].row]
    <3>1. order[o] = NoOrder /\ order' = [order EXCEPT ![o] = new] /\ UNCHANGED note
      BY <2>1 DEF ConvertReserve
    <3>2. new \in OrderRow
      <4>1. order'[o] \in OrderRow
        BY <1>0
      <4> QED
        BY <3>1, <4>1
    <3>3. new.status = "CONFIRMED" /\ new.from = None
      BY DEF NoOrder
    <3> HIDE DEF new
    <3> QED
      BY <3>1, <3>2, <3>3, CreateAgreed
  <2> QED
    BY <1>1, <1>u, <2>1
       DEF Convert, ConvertOpen, ConvertReserve, CustomerStep, SumStep, Reject
<1>2. ASSUME NEW s \in Sessions, Confirm(s) PROVE Agreed
  <2>1. CASE ConfirmReserve(s) /\ CanReserve
    <3> DEFINE o == sess[s].row
    <3>1. /\ o \in Orders /\ order[o].status = "PENDING_CONFIRMATION"
          /\ order[o].from # None => order[order[o].from].status = "CANCELLED"
      BY <2>1 DEF ConfirmReserve, InHand, ConfirmSteps, Cleared
    <3>2. order' = [order EXCEPT ![o].status = "CONFIRMED"] /\ UNCHANGED note
      BY <2>1 DEF ConfirmReserve
    <3>3. order[o] \in OrderRow
      BY <3>1
    <3>4. order'[o].status = "CONFIRMED" /\ order'[o].from = order[o].from
      BY <3>1, <3>2, <3>3 DEF OrderRow
    <3>5. \A p \in Orders \ {o} : order'[p] = order[p]
      BY <3>1, <3>2
    <3> QED
      BY <1>0, <3>1, <3>2, <3>4, <3>5, MoveAgreed
  <2> QED
    BY <1>2, <1>u, <2>1
       DEF Confirm, ConfirmOpen, ConfirmOriginal, ConfirmReserve, CustomerStep, SumStep, Reject
<1>3. ASSUME NEW s \in Sessions, Cancel(s) PROVE Agreed
  <2>1. CASE CancelCommit(s) /\ ~Reject(s)
    <3> DEFINE o == sess[s].row
    <3>1. o \in Orders /\ order[o].status \in {"PENDING_CONFIRMATION", "CONFIRMED"}
      BY <2>1 DEF CancelCommit, InHand
    <3>2. order' = [order EXCEPT ![o].status = "CANCELLED"] /\ UNCHANGED note
      BY <2>1 DEF CancelCommit
    <3>3. order[o] \in OrderRow
      BY <3>1
    <3>4. order'[o].status = "CANCELLED" /\ order'[o].from = order[o].from
      BY <3>1, <3>2, <3>3 DEF OrderRow
    <3>5. \A p \in Orders \ {o} : order'[p] = order[p]
      BY <3>1, <3>2
    <3> QED
      BY <1>0, <3>1, <3>2, <3>4, <3>5, MoveAgreed
  <2> QED
    BY <1>3, <1>u, <2>1 DEF Cancel, CancelOpen, Reject
<1>4. ASSUME NEW s \in Sessions, Invoice(s) PROVE Agreed
  <2>1. CASE InvoiceCommit(s) /\ ~Reject(s)
    <3> DEFINE n == sess[s].row  o == note[n].order
    <3>1. n \in Notes /\ o \in Orders /\ order[o].status \in {"PARTIALLY_DELIVERED", "DELIVERED"}
      BY <2>1 DEF InvoiceCommit, InHand, NoteRow
    <3>2. /\ order' = [order EXCEPT ![o].invoiced = @ + note[n].qty]
          /\ note' = [note EXCEPT ![n].invoiced = TRUE]
      BY <2>1 DEF InvoiceCommit
    <3>3. order[o] \in OrderRow /\ note[n] \in NoteRow
      BY <3>1
    <3>4. order'[o].status = order[o].status /\ order'[o].from = order[o].from
      BY <3>1, <3>2, <3>3 DEF OrderRow
    <3>5. \A p \in Orders \ {o} : order'[p] = order[p]
      BY <3>1, <3>2
    <3>6. note'[n].order = o /\ \A m \in Notes \ {n} : note'[m] = note[m]
      BY <3>1, <3>2, <3>3 DEF NoteRow
    <3>7. order[o].from # None => order[order[o].from].status = "CANCELLED"
      BY <3>1 DEF AmendmentReplaces
    <3> HIDE DEF o, n
    <3> QED
      BY <1>0, <3>1, <3>4, <3>5, <3>6, <3>7, MoveAgreed
  <2> QED
    BY <1>4, <1>u, <2>1 DEF Invoice, InvoiceOpen, Reject
<1>5. ASSUME NEW s \in Sessions, Abort(s) PROVE Agreed
  BY <1>5, <1>u DEF Abort, Reject
<1>6. ASSUME NEW o \in Orders, Intake(o) PROVE Agreed
  <2> DEFINE new == [NoOrder EXCEPT !.status = "PENDING_CONFIRMATION"]
  <2>1. order[o] = NoOrder /\ order' = [order EXCEPT ![o] = new] /\ UNCHANGED note
    BY <1>6 DEF Intake
  <2>2. new \in OrderRow
    <3>1. order'[o] \in OrderRow
      BY <1>0
    <3> QED
      BY <2>1, <3>1
  <2>3. new.status = "PENDING_CONFIRMATION" /\ new.from = None
    BY DEF NoOrder
  <2> HIDE DEF new
  <2> QED
    BY <2>1, <2>2, <2>3, CreateAgreed
<1>7. ASSUME NEW o \in Orders, NEW r \in Orders, Amend(o, r) PROVE Agreed
  <2> DEFINE new == [NoOrder EXCEPT !.status = "PENDING_CONFIRMATION", !.from = o, !.source = order[o].source]
  <2>1. order[r] = NoOrder /\ order' = [order EXCEPT ![r] = new] /\ UNCHANGED note
    BY <1>7 DEF Amend
  <2>2. new \in OrderRow
    <3>1. order'[r] \in OrderRow
      BY <1>0
    <3> QED
      BY <2>1, <3>1
  <2>3. new.status = "PENDING_CONFIRMATION" /\ new.from = o
    BY DEF NoOrder
  <2>4. o # r /\ order[o].status # "NONE"
    BY <1>7 DEF Amend, NoOrder
  <2> HIDE DEF new
  <2> QED
    BY <2>1, <2>2, <2>3, <2>4, CreateAgreed
<1>8. ASSUME NEW o \in Orders, NEW n \in Notes, NEW q \in 1..Quantity, Fulfil(o, n, q) PROVE Agreed
  <2> DEFINE new == [order[o] EXCEPT
                       !.delivered = @ + q,
                       !.status = IF q = Remaining(o) THEN "DELIVERED" ELSE "PARTIALLY_DELIVERED"]
  <2>1. /\ order' = [order EXCEPT ![o] = new]
        /\ note' = [note EXCEPT ![n] = [order |-> o, qty |-> q, invoiced |-> FALSE]]
    BY <1>8 DEF Fulfil
  <2>2. order[o] \in OrderRow /\ order[o].status \in {"CONFIRMED", "PARTIALLY_DELIVERED"}
    BY <1>8 DEF Fulfil
  <2>3. new.status \in {"PARTIALLY_DELIVERED", "DELIVERED"} /\ new.from = order[o].from
    BY <2>2 DEF OrderRow
  <2> HIDE DEF new
  <2>4. order'[o] = new /\ \A p \in Orders \ {o} : order'[p] = order[p]
    BY <2>1
  <2>5. note'[n].order = o /\ \A m \in Notes \ {n} : note'[m] = note[m]
    BY <2>1
  <2>6. order[o].from # None => order[order[o].from].status = "CANCELLED"
    BY <2>2 DEF AmendmentReplaces
  <2> QED
    BY <1>0, <2>2, <2>3, <2>4, <2>5, <2>6, MoveAgreed
<1> QED
  BY <1>1, <1>2, <1>3, <1>4, <1>5, <1>6, <1>7, <1>8 DEF SalesNext

-----------------------------------------------------------------------------
(* Quotations. *)

LEMMA QuotesNext == SalesInv /\ SalesNext => QuoteOrders'
<1> SUFFICES ASSUME SalesInv, SalesNext PROVE QuoteOrders'
  OBVIOUS
<1> USE SalesAssumption DEF SalesInv, SalesShape, tables, Reading
<1>1. ASSUME UNCHANGED quote, \A o \in Orders, q \in Quotes : From(o, q)' => From(o, q)
      PROVE  QuoteOrders'
  BY <1>1 DEF QuoteOrders
<1>2. ASSUME UNCHANGED <<quote, order>> PROVE QuoteOrders'
  BY <1>1, <1>2 DEF From
<1>3. ASSUME NEW s \in Sessions, NEW o \in Orders, ConvertReserve(s, o), CanReserve PROVE QuoteOrders'
  <2> DEFINE q == sess[s].row
             new == [NoOrder EXCEPT !.status = "CONFIRMED", !.source = q]
  <2>1. /\ order' = [order EXCEPT ![o] = new] /\ quote' = [quote EXCEPT ![q] = "ACCEPTED"]
        /\ q \in Quotes /\ quote[q] = "SENT"
    BY <1>3 DEF ConvertReserve, InHand, QuoteSteps
  <2>2. new.source = q /\ new.from = None
    BY DEF NoOrder
  <2> HIDE DEF q, new
  <2>3. order'[o] = new /\ \A p \in Orders \ {o} : order'[p] = order[p]
    BY <2>1
  <2>4. quote'[q] # "SENT" /\ \A r \in Quotes \ {q} : quote'[r] = quote[r]
    BY <2>1
  <2> QED
    BY <2>1, <2>2, <2>3, <2>4 DEF QuoteOrders, From
<1>4. ASSUME NEW s \in Sessions, Convert(s) PROVE QuoteOrders'
  BY <1>2, <1>3, <1>4 DEF Convert, ConvertOpen, ConvertReserve, CustomerStep, SumStep, Reject
<1>5. ASSUME NEW s \in Sessions, Confirm(s) PROVE QuoteOrders'
  <2>1. CASE ConfirmReserve(s) /\ CanReserve
    <3>1. UNCHANGED quote /\ order' = [order EXCEPT ![sess[s].row].status = "CONFIRMED"]
      BY <2>1 DEF ConfirmReserve
    <3>2. \A o \in Orders : order[o] \in OrderRow
      OBVIOUS
    <3>3. \A o \in Orders : order'[o].source = order[o].source /\ order'[o].from = order[o].from
      BY <3>1, <3>2 DEF OrderRow
    <3> QED
      BY <1>1, <3>1, <3>3 DEF From
  <2> QED
    BY <1>2, <1>5, <2>1
       DEF Confirm, ConfirmOpen, ConfirmOriginal, ConfirmReserve, CustomerStep, SumStep, Reject
<1>6. ASSUME NEW s \in Sessions, Cancel(s) PROVE QuoteOrders'
  <2>1. CASE CancelCommit(s) /\ ~Reject(s)
    <3>1. UNCHANGED quote /\ order' = [order EXCEPT ![sess[s].row].status = "CANCELLED"]
      BY <2>1 DEF CancelCommit
    <3>2. \A o \in Orders : order[o] \in OrderRow
      OBVIOUS
    <3>3. \A o \in Orders : order'[o].source = order[o].source /\ order'[o].from = order[o].from
      BY <3>1, <3>2 DEF OrderRow
    <3> QED
      BY <1>1, <3>1, <3>3 DEF From
  <2> QED
    BY <1>2, <1>6, <2>1 DEF Cancel, CancelOpen, Reject
<1>7. ASSUME NEW s \in Sessions, Invoice(s) PROVE QuoteOrders'
  <2>1. CASE InvoiceCommit(s) /\ ~Reject(s)
    <3> DEFINE n == sess[s].row
    <3>1. UNCHANGED quote /\ order' = [order EXCEPT ![note[n].order].invoiced = @ + note[n].qty]
      BY <2>1 DEF InvoiceCommit
    <3>2. \A o \in Orders : order[o] \in OrderRow
      OBVIOUS
    <3>3. \A o \in Orders : order'[o].source = order[o].source /\ order'[o].from = order[o].from
      BY <3>1, <3>2 DEF OrderRow
    <3> QED
      BY <1>1, <3>1, <3>3 DEF From
  <2> QED
    BY <1>2, <1>7, <2>1 DEF Invoice, InvoiceOpen, Reject
<1>8. ASSUME NEW s \in Sessions, Abort(s) PROVE QuoteOrders'
  BY <1>2, <1>8 DEF Abort, Reject
<1>9. ASSUME NEW o \in Orders, Intake(o) PROVE QuoteOrders'
  <2>1. UNCHANGED quote /\ order' = [order EXCEPT ![o].status = "PENDING_CONFIRMATION"]
    BY <1>9 DEF Intake
  <2>2. \A p \in Orders : order[p] \in OrderRow
    OBVIOUS
  <2>3. \A p \in Orders : order'[p].source = order[p].source /\ order'[p].from = order[p].from
    BY <2>1, <2>2 DEF OrderRow
  <2> QED
    BY <1>1, <2>1, <2>3 DEF From
<1>10. ASSUME NEW o \in Orders, NEW r \in Orders, Amend(o, r) PROVE QuoteOrders'
  <2> DEFINE new == [NoOrder EXCEPT !.status = "PENDING_CONFIRMATION", !.from = o, !.source = order[o].source]
  <2>1. UNCHANGED quote /\ order' = [order EXCEPT ![r] = new]
    BY <1>10 DEF Amend
  <2>2. new.from # None
    BY DEF NoOrder
  <2> HIDE DEF new
  <2>3. \A p \in Orders, q \in Quotes : From(p, q)' => From(p, q)
    BY <2>1, <2>2 DEF From
  <2> QED
    BY <1>1, <2>1, <2>3
<1>11. ASSUME NEW o \in Orders, NEW n \in Notes, NEW q \in 1..Quantity, Fulfil(o, n, q) PROVE QuoteOrders'
  <2> DEFINE new == [order[o] EXCEPT
                       !.delivered = @ + q,
                       !.status = IF q = Remaining(o) THEN "DELIVERED" ELSE "PARTIALLY_DELIVERED"]
  <2>1. UNCHANGED quote /\ order' = [order EXCEPT ![o] = new]
    BY <1>11 DEF Fulfil
  <2>2. order[o] \in OrderRow
    OBVIOUS
  <2>3. new.source = order[o].source /\ new.from = order[o].from
    BY <2>2 DEF OrderRow
  <2> HIDE DEF new
  <2>4. \A p \in Orders, r \in Quotes : From(p, r)' => From(p, r)
    BY <2>1, <2>3 DEF From
  <2> QED
    BY <1>1, <2>1, <2>4
<1> QED
  BY <1>4, <1>5, <1>6, <1>7, <1>8, <1>9, <1>10, <1>11 DEF SalesNext

-----------------------------------------------------------------------------
(* Stock and counters: what is on the rows is the sum of what was written.  *)

TotalsInv ==
  /\ current \in 0..Opening /\ reserved \in 0..current
  /\ ReservedIsOwed
  /\ CountersMatchNotes

\* Order o is the only one that changes, and reserved_qty follows it.
LEMMA OwedChanges ==
  ASSUME SalesShape, SalesShape', ReservedIsOwed, NEW o \in Orders,
         \A p \in Orders \ {o} : order'[p] = order[p],
         reserved' = reserved - Owed(o) + Owed(o)'
  PROVE  ReservedIsOwed'
<1> DEFINE f == [p \in Orders |-> Owed(p)]
           g == [p \in Orders |-> Owed(p)']
<1> USE SalesAssumption
<1>1. f \in [Orders -> Int] /\ g \in [Orders -> Int]
  BY DEF SalesShape, OrderRow, Owed, Remaining
<1>2. \A p \in Orders \ {o} : g[p] = f[p]
  BY DEF Owed, Remaining
<1>3. f[o] = Owed(o) /\ g[o] = Owed(o)'
  OBVIOUS
<1>4. reserved = SumFunction(f)
  BY DEF ReservedIsOwed
<1> HIDE DEF f, g
<1>5. SumFunction(g) = SumFunction(f) - f[o] + g[o]
  BY <1>1, <1>2, SumFunctionChange
<1>6. reserved' = SumFunction(g)
  BY <1>3, <1>4, <1>5
<1> QED
  BY <1>6 DEF ReservedIsOwed, g

\* No order's delivered or invoiced quantity and no note changes.
LEMMA CountersStay ==
  ASSUME CountersMatchNotes, UNCHANGED <<note, current>>,
         \A o \in Orders : order'[o].delivered = order[o].delivered /\ order'[o].invoiced = order[o].invoiced
  PROVE  CountersMatchNotes'
BY DEF CountersMatchNotes, Delivered, Invoiced

\* Note n is the only one that changes, and the counters and the stock follow it.
LEMMA CountersChange ==
  ASSUME SalesShape, SalesShape', CountersMatchNotes, current \in Int, current' \in Int, NEW n \in Notes,
         \A m \in Notes \ {n} : note'[m] = note[m],
         \A o \in Orders : order'[o].delivered = order[o].delivered - Delivered(o, n) + Delivered(o, n)',
         \A o \in Orders : order'[o].invoiced = order[o].invoiced - Invoiced(o, n) + Invoiced(o, n)',
         current' = current + note[n].qty - note'[n].qty
  PROVE  CountersMatchNotes'
<1> USE SalesAssumption DEF SalesShape, NoteRow
<1>1. ASSUME NEW o \in Orders
      PROVE  order'[o].delivered = SumFunction([m \in Notes |-> Delivered(o, m)'])
  <2> DEFINE f == [m \in Notes |-> Delivered(o, m)]
             g == [m \in Notes |-> Delivered(o, m)']
  <2>1. f \in [Notes -> Int] /\ g \in [Notes -> Int]
    BY DEF Delivered
  <2>2. (\A m \in Notes \ {n} : g[m] = f[m]) /\ f[n] = Delivered(o, n) /\ g[n] = Delivered(o, n)'
    BY DEF Delivered
  <2>3. order[o].delivered = SumFunction(f)
    BY DEF CountersMatchNotes
  <2> HIDE DEF f, g
  <2>4. SumFunction(g) = SumFunction(f) - f[n] + g[n]
    BY <2>1, <2>2, SumFunctionChange
  <2>5. order'[o].delivered = SumFunction(g)
    BY <2>2, <2>3, <2>4
  <2> QED
    BY <2>5 DEF g
<1>2. ASSUME NEW o \in Orders
      PROVE  order'[o].invoiced = SumFunction([m \in Notes |-> Invoiced(o, m)'])
  <2> DEFINE f == [m \in Notes |-> Invoiced(o, m)]
             g == [m \in Notes |-> Invoiced(o, m)']
  <2>1. f \in [Notes -> Int] /\ g \in [Notes -> Int]
    BY DEF Invoiced, Delivered
  <2>2. (\A m \in Notes \ {n} : g[m] = f[m]) /\ f[n] = Invoiced(o, n) /\ g[n] = Invoiced(o, n)'
    BY DEF Invoiced, Delivered
  <2>3. order[o].invoiced = SumFunction(f)
    BY DEF CountersMatchNotes
  <2> HIDE DEF f, g
  <2>4. SumFunction(g) = SumFunction(f) - f[n] + g[n]
    BY <2>1, <2>2, SumFunctionChange
  <2>5. order'[o].invoiced = SumFunction(g)
    BY <2>2, <2>3, <2>4
  <2> QED
    BY <2>5 DEF g
<1>3. Opening - current' = SumFunction([m \in Notes |-> note'[m].qty])
  <2> DEFINE f == [m \in Notes |-> note[m].qty]
             g == [m \in Notes |-> note'[m].qty]
  <2>1. f \in [Notes -> Int] /\ g \in [Notes -> Int] /\ f[n] \in Int /\ g[n] \in Int
    OBVIOUS
  <2>2. (\A m \in Notes \ {n} : g[m] = f[m]) /\ f[n] = note[n].qty /\ g[n] = note'[n].qty
    OBVIOUS
  <2>3. Opening - current = SumFunction(f)
    BY DEF CountersMatchNotes
  <2> HIDE DEF f, g
  <2>4. SumFunction(g) = SumFunction(f) - f[n] + g[n]
    BY <2>1, <2>2, SumFunctionChange
  <2>5. Opening - current' = SumFunction(g)
    BY <2>1, <2>2, <2>3, <2>4
  <2> QED
    BY <2>5 DEF g
<1> QED
  BY <1>1, <1>2, <1>3 DEF CountersMatchNotes

LEMMA TotalsInit == SalesInit => TotalsInv
<1> SUFFICES ASSUME SalesInit PROVE TotalsInv
  OBVIOUS
<1> USE SalesAssumption DEF SalesInit
<1>1. SumFunction([o \in Orders |-> Owed(o)]) = 0
  <2> DEFINE f == [o \in Orders |-> Owed(o)]
  <2>1. \A o \in Orders : f[o] = 0
    BY DEF Owed, NoOrder
  <2>2. DOMAIN f = Orders
    OBVIOUS
  <2> HIDE DEF f
  <2>3. SumFunction(f) = 0
    BY <2>1, <2>2, SumFunctionZero
  <2> QED
    BY <2>3 DEF f
<1>2. ASSUME NEW f, DOMAIN f = Notes, \A n \in Notes : f[n] = 0 PROVE SumFunction(f) = 0
  BY <1>2, SumFunctionZero
<1>3. ASSUME NEW o \in Orders
      PROVE  /\ SumFunction([n \in Notes |-> Delivered(o, n)]) = 0
             /\ SumFunction([n \in Notes |-> Invoiced(o, n)]) = 0
  BY <1>2 DEF Delivered, Invoiced, NoNote
<1>4. SumFunction([n \in Notes |-> note[n].qty]) = 0
  BY <1>2 DEF NoNote
<1> QED
  BY <1>1, <1>3, <1>4 DEF TotalsInv, ReservedIsOwed, CountersMatchNotes, NoOrder

LEMMA TotalsNext == SalesInv /\ SalesInv' /\ TotalsInv /\ SalesNext => TotalsInv'
<1> SUFFICES ASSUME SalesInv, SalesInv', TotalsInv, SalesNext PROVE TotalsInv'
  OBVIOUS
<1> USE SalesAssumption DEF SalesInv, TotalsInv, tables, Reading
<1>0. /\ \A o \in Orders : order[o] \in OrderRow /\ order'[o] \in OrderRow
      /\ \A n \in Notes : note[n] \in NoteRow /\ note'[n] \in NoteRow
  BY DEF SalesShape
<1>1. ASSUME UNCHANGED <<order, note, current, reserved>> PROVE TotalsInv'
  BY <1>1 DEF ReservedIsOwed, Owed, Remaining, CountersMatchNotes, Delivered, Invoiced
\* A step of one order that delivers and invoices nothing.
<1>2. ASSUME NEW o \in Orders, \A p \in Orders \ {o} : order'[p] = order[p],
             order'[o].delivered = order[o].delivered, order'[o].invoiced = order[o].invoiced,
             UNCHANGED <<note, current>>, reserved' = reserved - Owed(o) + Owed(o)',
             reserved' \in 0..current
      PROVE  TotalsInv'
  <2>1. ReservedIsOwed'
    BY <1>2, OwedChanges
  <2>2. CountersMatchNotes'
    BY <1>2, CountersStay
  <2> QED
    BY <1>2, <2>1, <2>2
\* A step that only creates or changes an order that is not confirmed.
<1>3. ASSUME NEW s \in Sessions, Convert(s) PROVE TotalsInv'
  <2>1. ASSUME NEW o \in Orders, ConvertReserve(s, o), CanReserve PROVE TotalsInv'
    <3> DEFINE new == [NoOrder EXCEPT !.status = "CONFIRMED", !.source = sess[s].row]
    <3>1. order[o] = NoOrder /\ order' = [order EXCEPT ![o] = new] /\ UNCHANGED <<note, current>>
      BY <2>1 DEF ConvertReserve
    <3>2. new.status = "CONFIRMED" /\ new.delivered = 0 /\ new.invoiced = 0
      BY DEF NoOrder
    <3> HIDE DEF new
    <3>3. order'[o] = new /\ \A p \in Orders \ {o} : order'[p] = order[p]
      BY <3>1 DEF SalesShape
    <3>4. Owed(o) = 0 /\ Owed(o)' = Quantity
      BY <3>1, <3>2, <3>3 DEF Owed, Remaining, NoOrder
    <3>5. reserved' = reserved + Quantity /\ reserved' \in 0..current
      BY <2>1 DEF ConvertReserve, CanReserve
    <3> QED
      BY <1>2, <3>1, <3>2, <3>3, <3>4, <3>5 DEF NoOrder
  <2> QED
    BY <1>1, <1>3, <2>1 DEF Convert, ConvertOpen, ConvertReserve, CustomerStep, SumStep, Reject
<1>4. ASSUME NEW s \in Sessions, Confirm(s) PROVE TotalsInv'
  <2>1. CASE ConfirmReserve(s) /\ CanReserve
    <3>1. PICK o \in Orders : o = sess[s].row /\ order[o].status = "PENDING_CONFIRMATION"
      BY <2>1 DEF ConfirmReserve, InHand, ConfirmSteps, Cleared
    <3>2. order' = [order EXCEPT ![o].status = "CONFIRMED"] /\ UNCHANGED <<note, current>>
      BY <2>1, <3>1 DEF ConfirmReserve
    <3>3. /\ order'[o].status = "CONFIRMED" /\ order'[o].delivered = order[o].delivered
          /\ order'[o].invoiced = order[o].invoiced
          /\ \A p \in Orders \ {o} : order'[p] = order[p]
      BY <1>0, <3>1, <3>2 DEF OrderRow, SalesShape
    <3>4. order[o].delivered = 0
      <4> DEFINE f == [n \in Notes |-> Delivered(o, n)]
      <4>1. \A n \in Notes : f[n] = 0
        BY <3>1 DEF Delivered, NotesDelivered, NoNote
      <4>2. DOMAIN f = Notes /\ order[o].delivered = SumFunction(f)
        BY <3>1 DEF CountersMatchNotes
      <4> HIDE DEF f
      <4> QED
        BY <4>1, <4>2, SumFunctionZero
    <3>5. Owed(o) = 0 /\ Owed(o)' = Quantity
      BY <3>1, <3>3, <3>4 DEF Owed, Remaining
    <3>6. reserved' = reserved + Quantity /\ reserved' \in 0..current
      BY <2>1 DEF ConfirmReserve, CanReserve
    <3> QED
      BY <1>2, <3>1, <3>2, <3>3, <3>5, <3>6
  <2> QED
    BY <1>1, <1>4, <2>1
       DEF Confirm, ConfirmOpen, ConfirmOriginal, ConfirmReserve, CustomerStep, SumStep, Reject
<1>5. ASSUME NEW s \in Sessions, Cancel(s) PROVE TotalsInv'
  <2>1. CASE CancelCommit(s) /\ ~Reject(s)
    <3>1. PICK o \in Orders :
            o = sess[s].row /\ order[o].status \in {"PENDING_CONFIRMATION", "CONFIRMED"}
      BY <2>1 DEF CancelCommit, InHand
    <3>2. /\ order' = [order EXCEPT ![o].status = "CANCELLED"] /\ UNCHANGED <<note, current>>
          /\ reserved >= GiveBack(o) /\ reserved' = reserved - GiveBack(o)
      BY <2>1, <3>1 DEF CancelCommit
    <3>3. /\ order'[o].status = "CANCELLED" /\ order'[o].delivered = order[o].delivered
          /\ order'[o].invoiced = order[o].invoiced
          /\ \A p \in Orders \ {o} : order'[p] = order[p]
      BY <1>0, <3>1, <3>2 DEF OrderRow, SalesShape
    <3>4. Owed(o) = GiveBack(o) /\ Owed(o)' = 0
      BY <3>1, <3>3 DEF Owed, GiveBack
    <3>5. GiveBack(o) \in Nat
      BY <1>0, <3>1 DEF GiveBack, Remaining, OrderRow
    <3>6. reserved' = reserved - Owed(o) + Owed(o)' /\ reserved' \in 0..current
      BY <3>2, <3>4, <3>5
    <3> QED
      BY <1>2, <3>1, <3>2, <3>3, <3>6
  <2>2. CASE UNCHANGED <<order, note, current, reserved>>
    BY <1>1, <2>2
  <2>3. CASE \E o \in Orders : CancelOpen(s, o)
    BY <2>2, <2>3 DEF CancelOpen
  <2>4. CASE Reject(s)
    BY <2>2, <2>4 DEF Reject
  <2> HIDE DEF SalesInv, TotalsInv
  <2> QED
    BY <1>5, <2>1, <2>3, <2>4 DEF Cancel
<1>6. ASSUME NEW s \in Sessions, Invoice(s) PROVE TotalsInv'
  <2>1. CASE InvoiceCommit(s) /\ ~Reject(s)
    <3>1. PICK n \in Notes, o \in Orders : n = sess[s].row /\ o = note[n].order /\ ~note[n].invoiced
      <4>1. sess[s].row \in Notes /\ note[sess[s].row].order # None /\ ~note[sess[s].row].invoiced
        BY <2>1 DEF InvoiceCommit, InHand
      <4>2. note[sess[s].row].order \in Orders
        BY <1>0, <4>1 DEF NoteRow
      <4> QED
        BY <4>1, <4>2
    <3>2. /\ order' = [order EXCEPT ![o].invoiced = @ + note[n].qty]
          /\ note' = [note EXCEPT ![n].invoiced = TRUE]
          /\ UNCHANGED <<current, reserved>>
      BY <2>1, <3>1 DEF InvoiceCommit
    <3>3. /\ order'[o].status = order[o].status /\ order'[o].delivered = order[o].delivered
          /\ order'[o].invoiced = order[o].invoiced + note[n].qty
          /\ \A p \in Orders \ {o} : order'[p] = order[p]
      <4> DEFINE new == [order[o] EXCEPT !.invoiced = @ + note[n].qty]
      <4>1. order' = [order EXCEPT ![o] = new] /\ DOMAIN order = Orders
        BY <3>2 DEF SalesShape
      <4>2. DOMAIN order[o] = {"status", "from", "source", "delivered", "invoiced"}
        BY <1>0, <3>1 DEF OrderRow
      <4>3. new.status = order[o].status /\ new.delivered = order[o].delivered
            /\ new.invoiced = order[o].invoiced + note[n].qty
        BY <4>2
      <4> HIDE DEF new, SalesInv, TotalsInv
      <4>4. order'[o] = new /\ \A p \in Orders \ {o} : order'[p] = order[p]
        BY <3>1, <4>1
      <4> QED
        BY <4>3, <4>4
    <3>4. /\ note'[n].order = o /\ note'[n].qty = note[n].qty /\ note'[n].invoiced
          /\ \A m \in Notes \ {n} : note'[m] = note[m]
      <4>1. note'[n] = [note[n] EXCEPT !.invoiced = TRUE] /\ \A m \in Notes \ {n} : note'[m] = note[m]
        BY <3>2 DEF SalesShape
      <4>2. DOMAIN note[n] = {"order", "qty", "invoiced"}
        BY <1>0 DEF NoteRow
      <4> QED
        BY <3>1, <4>1, <4>2
    <3>5. Owed(o)' = Owed(o) /\ Owed(o) \in Int
      <4>1. order[o].delivered \in Int
        BY <1>0, <3>1 DEF OrderRow
      <4> HIDE DEF SalesInv, TotalsInv
      <4>2. Owed(o)' = Owed(o)
        BY <3>3 DEF Owed, Remaining
      <4>3. Owed(o) \in Int
        BY <4>1 DEF Owed, Remaining
      <4> QED
        BY <4>2, <4>3
    <3>6. reserved' = reserved - Owed(o) + Owed(o)'
      BY <3>2, <3>5
    <3>7. ReservedIsOwed'
      BY <3>1, <3>3, <3>6, OwedChanges
    <3>8. ASSUME NEW p \in Orders
          PROVE  /\ order'[p].delivered = order[p].delivered - Delivered(p, n) + Delivered(p, n)'
                 /\ order'[p].invoiced = order[p].invoiced - Invoiced(p, n) + Invoiced(p, n)'
      <4>1. /\ Delivered(p, n)' = Delivered(p, n) /\ Delivered(p, n) \in Int
            /\ Invoiced(p, n) = 0 /\ Invoiced(p, n)' = IF p = o THEN note[n].qty ELSE 0
        BY <1>0, <3>1, <3>4 DEF Delivered, Invoiced, NoteRow
      <4>2. order[p].delivered \in Int /\ order[p].invoiced \in Int /\ note[n].qty \in Int
        BY <1>0, <3>1 DEF OrderRow, NoteRow
      <4>3. order'[p].delivered = order[p].delivered /\ order'[p].invoiced = order[p].invoiced + (IF p = o THEN note[n].qty ELSE 0)
        BY <3>3, <4>2
      <4>4. order'[p].delivered = order[p].delivered - Delivered(p, n) + Delivered(p, n)'
        BY <4>1, <4>2, <4>3
      <4>5. order'[p].invoiced = order[p].invoiced - Invoiced(p, n) + Invoiced(p, n)'
        BY <4>1, <4>2, <4>3
      <4> QED
        BY <4>4, <4>5
    <3>9. CountersMatchNotes'
      <4>1. current' = current + note[n].qty - note'[n].qty /\ current \in Int /\ current' \in Int
        <5>1. current \in Int
          OBVIOUS
        <5>2. note[n].qty \in Int
          BY <1>0, <3>1 DEF NoteRow
        <5> HIDE DEF SalesInv, TotalsInv
        <5>3. note'[n].qty = note[n].qty /\ current' = current
          BY <3>2, <3>4
        <5> QED
          BY <5>1, <5>2, <5>3
      <4> QED
        BY <3>1, <3>4, <3>8, <4>1, CountersChange
    <3> QED
      BY <3>2, <3>7, <3>9
  <2> QED
    BY <1>1, <1>6, <2>1 DEF Invoice, InvoiceOpen, Reject
<1>7. ASSUME NEW s \in Sessions, Abort(s) PROVE TotalsInv'
  BY <1>1, <1>7 DEF Abort, Reject
<1>8. ASSUME NEW o \in Orders, Intake(o) PROVE TotalsInv'
  <2>1. order[o] = NoOrder /\ order' = [order EXCEPT ![o].status = "PENDING_CONFIRMATION"]
    BY <1>8 DEF Intake
  <2>2. /\ order'[o].status = "PENDING_CONFIRMATION" /\ order'[o].delivered = order[o].delivered
        /\ order'[o].invoiced = order[o].invoiced
        /\ \A p \in Orders \ {o} : order'[p] = order[p]
    BY <1>0, <2>1 DEF OrderRow, SalesShape
  <2>3. Owed(o) = 0 /\ Owed(o)' = 0
    BY <2>1, <2>2 DEF Owed, NoOrder
  <2> QED
    BY <1>2, <1>8, <2>2, <2>3 DEF Intake
<1>9. ASSUME NEW o \in Orders, NEW r \in Orders, Amend(o, r) PROVE TotalsInv'
  <2> DEFINE new == [NoOrder EXCEPT !.status = "PENDING_CONFIRMATION", !.from = o, !.source = order[o].source]
  <2>1. order[r] = NoOrder /\ order' = [order EXCEPT ![r] = new] /\ UNCHANGED <<note, current, reserved>>
    BY <1>9 DEF Amend
  <2>2. new.status = "PENDING_CONFIRMATION" /\ new.delivered = 0 /\ new.invoiced = 0
    BY DEF NoOrder
  <2> HIDE DEF new
  <2>3. order'[r] = new /\ \A p \in Orders \ {r} : order'[p] = order[p]
    BY <2>1 DEF SalesShape
  <2>4. Owed(r) = 0 /\ Owed(r)' = 0
    BY <2>1, <2>2, <2>3 DEF Owed, NoOrder
  <2> QED
    BY <1>2, <2>1, <2>2, <2>3, <2>4 DEF NoOrder
<1>10. ASSUME NEW o \in Orders, NEW n \in Notes, NEW q \in 1..Quantity, Fulfil(o, n, q) PROVE TotalsInv'
  <2> DEFINE status == IF q = Remaining(o) THEN "DELIVERED" ELSE "PARTIALLY_DELIVERED"
  <2>1. /\ order[o].status \in {"CONFIRMED", "PARTIALLY_DELIVERED"} /\ note[n] = NoNote
        /\ q \in 1..Remaining(o) /\ current >= q /\ reserved >= q
        /\ note' = [note EXCEPT ![n] = [order |-> o, qty |-> q, invoiced |-> FALSE]]
        /\ order' = [order EXCEPT ![o].delivered = @ + q, ![o].status = status]
        /\ current' = current - q /\ reserved' = Max({0, reserved - q})
    BY <1>10 DEF Fulfil, StockAfterDelivery
  <2>2. reserved' = reserved - q
    BY <2>1 DEF Max
  <2>3. /\ order'[o].status = status /\ order'[o].delivered = order[o].delivered + q
        /\ order'[o].invoiced = order[o].invoiced
        /\ \A p \in Orders \ {o} : order'[p] = order[p]
    <3> HIDE DEF status
    <3> QED
      BY <1>0, <2>1 DEF OrderRow, SalesShape
  <2>4. Owed(o) = Remaining(o) /\ Owed(o)' = Remaining(o) - q /\ Remaining(o) \in Int
    BY <1>0, <2>1, <2>3 DEF Owed, Remaining, OrderRow
  <2>5. ReservedIsOwed'
    <3>1. reserved' = reserved - Owed(o) + Owed(o)'
      BY <2>2, <2>4
    <3> QED
      BY <2>3, <3>1, OwedChanges
  <2>6. /\ note'[n].order = o /\ note'[n].qty = q /\ ~note'[n].invoiced
        /\ \A m \in Notes \ {n} : note'[m] = note[m]
    BY <2>1 DEF SalesShape
  <2>7. ASSUME NEW p \in Orders
        PROVE  /\ order'[p].delivered = order[p].delivered - Delivered(p, n) + Delivered(p, n)'
               /\ order'[p].invoiced = order[p].invoiced - Invoiced(p, n) + Invoiced(p, n)'
    <3>1. /\ Delivered(p, n) = 0 /\ Delivered(p, n)' = IF p = o THEN q ELSE 0
          /\ Invoiced(p, n) = 0 /\ Invoiced(p, n)' = 0
      BY <2>1, <2>6 DEF Delivered, Invoiced, NoNote
    <3>2. order[p].delivered \in Int /\ order[p].invoiced \in Int
      BY <1>0 DEF OrderRow
    <3> QED
      BY <2>3, <3>1, <3>2
  <2>8. CountersMatchNotes'
    <3>1. current' = current + note[n].qty - note'[n].qty /\ current \in Int /\ current' \in Int
      BY <2>1, <2>6 DEF NoNote
    <3> QED
      BY <2>6, <2>7, <3>1, CountersChange
  <2>9. reserved' \in 0..current' /\ current' \in 0..Opening
    BY <2>1, <2>2
  <2> QED
    BY <2>5, <2>8, <2>9
<1> QED
  BY <1>3, <1>4, <1>5, <1>6, <1>7, <1>8, <1>9, <1>10 DEF SalesNext

-----------------------------------------------------------------------------
(* Credit: a request that is about to confirm holds the customer row, so    *)
(* the sums it checked can only have fallen.                                *)

ReserveSteps == {"convertReserve", "confirmReserve"}
Confirmed == TotalOf({"CONFIRMED"}, {})

CreditInv ==
  /\ \A s \in Sessions : sess[s].invoices \in Nat
  /\ Confirmed <= CreditLimit
  /\ \A s \in Sessions : sess[s].at \in ReserveSteps => Confirmed + Quantity <= CreditLimit

OrdersIn(statuses, besides) == {o \in Orders \ besides : order[o].status \in statuses}

LEMMA Scale == ASSUME NEW a \in Nat, NEW b \in Nat, NEW c \in Nat, a <= b PROVE c * a <= c * b
<1>1. PICK d \in Nat : b = a + d
  <2>1. b - a \in Nat /\ b = a + (b - a)
    OBVIOUS
  <2> QED
    BY <2>1
<1>2. c * b = c * a + c * d /\ c * a \in Nat /\ c * d \in Nat
  BY <1>1
<1> QED
  BY <1>2

\* A larger set of orders has the larger total, by at most one order's amount
\* when it has one order more.
LEMMA TotalGrows ==
  ASSUME NEW S, NEW T, S \subseteq Orders, T \subseteq Orders, NEW o \in Orders
  PROVE  /\ Quantity * Cardinality(S) \in Nat
         /\ S \subseteq T => Quantity * Cardinality(S) <= Quantity * Cardinality(T)
         /\ T \subseteq S \cup {o} => Quantity * Cardinality(T) <= Quantity * Cardinality(S) + Quantity
<1> USE SalesAssumption
<1>1. IsFiniteSet(S) /\ IsFiniteSet(T) /\ IsFiniteSet(S \cup {o})
  BY FS_Subset, FS_AddElement
<1>2. Cardinality(S) \in Nat /\ Cardinality(T) \in Nat /\ Cardinality(S \cup {o}) \in Nat
  BY <1>1, FS_CardinalityType
<1>3. S \subseteq T => Cardinality(S) <= Cardinality(T)
  BY <1>1, FS_Subset
<1>4. T \subseteq S \cup {o} => Cardinality(T) <= Cardinality(S) + 1
  <2>1. Cardinality(S \cup {o}) = IF o \in S THEN Cardinality(S) ELSE Cardinality(S) + 1
    BY <1>1, FS_AddElement
  <2>2. T \subseteq S \cup {o} => Cardinality(T) <= Cardinality(S \cup {o})
    BY <1>1, FS_Subset
  <2> QED
    BY <1>2, <2>1, <2>2
<1> DEFINE a == Cardinality(S)  b == Cardinality(T)
<1> HIDE DEF a, b
<1>5. S \subseteq T => Quantity * a <= Quantity * b
  BY <1>2, <1>3, Scale DEF a, b
<1>6. T \subseteq S \cup {o} => Quantity * b <= Quantity * (a + 1)
  BY <1>2, <1>4, Scale DEF a, b
<1>7. Quantity * (a + 1) = Quantity * a + Quantity /\ Quantity * a \in Nat
  BY <1>2 DEF a
<1> QED
  BY <1>5, <1>6, <1>7 DEF a, b

\* The confirmed orders only become fewer.
LEMMA ConfirmedFalls ==
  ASSUME SalesInv, \A o \in Orders : order'[o].status = "CONFIRMED" => order[o].status = "CONFIRMED"
  PROVE  Confirmed \in Nat /\ Confirmed' \in Nat /\ Confirmed' <= Confirmed
<1> DEFINE S == OrdersIn({"CONFIRMED"}, {})
           T == OrdersIn({"CONFIRMED"}, {})'
<1>1. S \subseteq Orders /\ T \subseteq Orders /\ T \subseteq S
  BY DEF OrdersIn
<1>2. Confirmed = Quantity * Cardinality(S) /\ Confirmed' = Quantity * Cardinality(T)
  BY DEF Confirmed, TotalOf, OrdersIn
<1> HIDE DEF S, T
<1>3. CASE Orders = {}
  <2>1. S = {} /\ T = {}
    BY <1>1, <1>3
  <2> QED
    BY <1>2, <2>1, FS_EmptySet, SalesAssumption
<1>4. CASE Orders # {}
  BY <1>1, <1>2, <1>4, TotalGrows
<1> QED
  BY <1>3, <1>4

\* Order o is confirmed.
LEMMA ConfirmedGrows ==
  ASSUME SalesInv, NEW o \in Orders, \A p \in Orders \ {o} : order'[p] = order[p]
  PROVE  Confirmed \in Nat /\ Confirmed' \in Nat /\ Confirmed' <= Confirmed + Quantity
<1> DEFINE S == OrdersIn({"CONFIRMED"}, {})
           T == OrdersIn({"CONFIRMED"}, {})'
<1>1. S \subseteq Orders /\ T \subseteq Orders /\ T \subseteq S \cup {o}
  BY DEF OrdersIn
<1>2. Confirmed = Quantity * Cardinality(S) /\ Confirmed' = Quantity * Cardinality(T)
  BY DEF Confirmed, TotalOf, OrdersIn
<1> HIDE DEF S, T
<1> QED
  BY <1>1, <1>2, TotalGrows

LEMMA OpenInvoicesNat == SalesShape => OpenInvoices \in Nat
<1> SUFFICES ASSUME SalesShape PROVE OpenInvoices \in Nat
  OBVIOUS
<1> DEFINE f == [n \in Notes |-> IF note[n].invoiced THEN note[n].qty ELSE 0]
<1>1. f \in [Notes -> Nat]
  BY SalesAssumption DEF SalesShape, NoteRow
<1> HIDE DEF f
<1>2. SumFunction(f) \in Nat
  BY <1>1, SalesAssumption, SumFunctionNat
<1> QED
  BY <1>2 DEF f, OpenInvoices

LEMMA CreditNext == SalesInv /\ SalesInv' /\ CreditInv /\ SalesNext => CreditInv'
<1> SUFFICES ASSUME SalesInv, SalesInv', CreditInv, SalesNext PROVE CreditInv'
  OBVIOUS
<1> USE SalesAssumption DEF SalesInv, CreditInv, tables, Reading
<1>0. \A o \in Orders : order[o] \in OrderRow
  BY DEF SalesShape
\* Nothing is confirmed and no request passes the check.
<1>1. ASSUME \A o \in Orders : order'[o].status = "CONFIRMED" => order[o].status = "CONFIRMED",
             \A s \in Sessions : /\ sess'[s].at \in ReserveSteps => sess[s].at \in ReserveSteps
                                 /\ sess'[s].invoices \in Nat
      PROVE  CreditInv'
  BY <1>1, ConfirmedFalls
<1>2. ASSUME NEW s \in Sessions, End(s)
      PROVE  \A t \in Sessions : /\ sess'[t].at \in ReserveSteps => sess[t].at \in ReserveSteps /\ t # s
                                 /\ sess'[t].invoices \in Nat
  BY <1>2 DEF End, Idle, ReserveSteps, SalesShape
<1>3. ASSUME NEW s \in Sessions, Reject(s) PROVE CreditInv'
  BY <1>1, <1>2, <1>3 DEF Reject
<1>4. ASSUME NEW s \in Sessions, NEW at, NEW x, at \notin ReserveSteps, Open(s, at, x), UNCHANGED order
      PROVE  CreditInv'
  BY <1>1, <1>4 DEF Open, Idle, SalesShape
<1>5. ASSUME NEW s \in Sessions, NEW at, NEW next, next \notin ReserveSteps, CustomerStep(s, at, next)
      PROVE  CreditInv'
  <2>1. \A t \in Sessions : /\ sess'[t].at \in ReserveSteps => sess[t].at \in ReserveSteps
                            /\ sess'[t].invoices \in Nat
    BY <1>5, OpenInvoicesNat DEF CustomerStep, SalesShape
  <2> QED
    BY <1>1, <1>5, <2>1 DEF CustomerStep
\* The check counts at least the confirmed orders.
<1>6. ASSUME NEW s \in Sessions, NEW at, NEW statuses, NEW besides, NEW next,
             SumStep(s, at, TotalOf(statuses, besides), next), "CONFIRMED" \in statuses,
             \A o \in Orders : order[o].status = "CONFIRMED" => o \notin besides
      PROVE  CreditInv'
  <2> DEFINE others == TotalOf(statuses, besides)
  <2>1. CASE ~WithinCredit(s, others)
    BY <1>3, <1>6, <2>1 DEF SumStep
  <2>2. CASE WithinCredit(s, others)
    <3>1. Confirmed <= others /\ Confirmed \in Nat /\ others \in Nat
      <4> DEFINE S == OrdersIn({"CONFIRMED"}, {})
                 T == OrdersIn(statuses, besides)
      <4>1. S \subseteq Orders /\ T \subseteq Orders /\ S \subseteq T
        BY <1>6 DEF OrdersIn
      <4>2. Confirmed = Quantity * Cardinality(S) /\ others = Quantity * Cardinality(T)
        BY DEF Confirmed, TotalOf, OrdersIn
      <4> HIDE DEF S, T, others
      <4>3. CASE Orders = {}
        <5>1. S = {} /\ T = {}
          BY <4>1, <4>3
        <5> QED
          BY <4>2, <5>1, FS_EmptySet
      <4>4. CASE Orders # {}
        BY <4>1, <4>2, <4>4, TotalGrows
      <4> QED
        BY <4>3, <4>4
    <3>2. sess[s].invoices + others + Quantity <= CreditLimit /\ sess[s].invoices \in Nat
      BY <2>2 DEF WithinCredit
    <3> HIDE DEF others
    <3>3. Confirmed + Quantity <= CreditLimit
      BY <3>1, <3>2
    <3>4. UNCHANGED order /\ sess' = [sess EXCEPT ![s].at = next]
      BY <1>6, <2>2 DEF SumStep, Goto, others
    <3>5. \A t \in Sessions : sess'[t].invoices \in Nat
      BY <3>4 DEF SalesShape
    <3>6. Confirmed' = Confirmed
      BY <3>4 DEF Confirmed, TotalOf
    <3> QED
      BY <3>3, <3>5, <3>6
  <2> QED
    BY <2>1, <2>2
\* The customer row keeps every other request from the same point.
<1>7. ASSUME NEW s \in Sessions, sess[s].at \in ReserveSteps, End(s), NEW o \in Orders,
             \A p \in Orders \ {o} : order'[p] = order[p]
      PROVE  CreditInv'
  <2>1. \A t \in Sessions : sess[t].at \in ReserveSteps => t = s
    BY <1>7 DEF ReserveSteps, LocksHeld, Held, Rows
  <2>2. \A t \in Sessions : sess'[t].at \notin ReserveSteps /\ sess'[t].invoices \in Nat
    BY <1>2, <1>7, <2>1
  <2>3. Confirmed \in Nat /\ Confirmed' \in Nat /\ Confirmed' <= Confirmed + Quantity
    BY <1>7, ConfirmedGrows
  <2>4. Confirmed + Quantity <= CreditLimit
    BY <1>7
  <2>5. Confirmed' <= CreditLimit
    BY <2>3, <2>4
  <2> QED
    BY <2>2, <2>5
<1>8. ASSUME NEW s \in Sessions, Convert(s) PROVE CreditInv'
  <2>1. ASSUME NEW q \in Quotes, ConvertOpen(s, q) PROVE CreditInv'
    BY <1>4, <2>1 DEF ConvertOpen, ReserveSteps
  <2>2. CASE CustomerStep(s, "convertCustomer", "convertSum")
    BY <1>5, <2>2 DEF ReserveSteps
  <2>3. CASE SumStep(s, "convertSum", OpenAtConvert, "convertReserve")
    BY <1>6, <2>3 DEF OpenAtConvert
  <2>4. ASSUME NEW o \in Orders, ConvertReserve(s, o) PROVE CreditInv'
    <3>1. CASE CanReserve
      BY <1>7, <2>4, <3>1 DEF ConvertReserve, ReserveSteps, SalesShape
    <3>2. CASE ~CanReserve
      BY <1>3, <2>4, <3>2 DEF ConvertReserve
    <3> QED
      BY <3>1, <3>2
  <2> QED
    BY <1>8, <2>1, <2>2, <2>3, <2>4 DEF Convert
<1>9. ASSUME NEW s \in Sessions, Confirm(s) PROVE CreditInv'
  <2>1. ASSUME NEW o \in Orders, ConfirmOpen(s, o) PROVE CreditInv'
    <3>1. (IF order[o].from = None THEN "confirmCustomer" ELSE "confirmOriginal") \notin ReserveSteps
      BY DEF ReserveSteps
    <3> QED
      BY <1>4, <2>1, <3>1 DEF ConfirmOpen
  <2>2. CASE ConfirmOriginal(s)
    <3>1. CASE Reject(s)
      BY <1>3, <3>1
    <3>2. CASE ~Reject(s)
      <4>1. UNCHANGED order /\ sess' = [sess EXCEPT ![s].at = "confirmCustomer"]
        BY <2>2, <3>2 DEF ConfirmOriginal, Goto
      <4> QED
        BY <1>1, <4>1 DEF ReserveSteps, SalesShape
    <3> QED
      BY <3>1, <3>2
  <2>3. CASE CustomerStep(s, "confirmCustomer", "confirmSum")
    BY <1>5, <2>3 DEF ReserveSteps
  <2>4. CASE SumStep(s, "confirmSum", OpenAtConfirm(sess[s].row), "confirmReserve")
    <3>1. order[sess[s].row].status = "PENDING_CONFIRMATION"
      BY <2>4 DEF SumStep, InHand, ConfirmSteps, Cleared
    <3>2. \A o \in Orders : order[o].status = "CONFIRMED" => o \notin {sess[s].row}
      BY <3>1
    <3>3. SumStep(s, "confirmSum", TotalOf({"PENDING_CONFIRMATION", "CONFIRMED"}, {sess[s].row}), "confirmReserve")
      BY <2>4 DEF OpenAtConfirm
    <3> QED
      BY <1>6, <3>2, <3>3
  <2>5. CASE ConfirmReserve(s)
    <3>1. CASE CanReserve
      <4>1. PICK o \in Orders : o = sess[s].row
        BY <2>5 DEF ConfirmReserve, InHand, ConfirmSteps, Cleared
      <4>2. \A p \in Orders \ {o} : order'[p] = order[p]
        BY <2>5, <3>1, <4>1 DEF ConfirmReserve, SalesShape
      <4> QED
        BY <1>7, <2>5, <3>1, <4>2 DEF ConfirmReserve, ReserveSteps
    <3>2. CASE ~CanReserve
      BY <1>3, <2>5, <3>2 DEF ConfirmReserve
    <3> QED
      BY <3>1, <3>2
  <2> QED
    BY <1>9, <2>1, <2>2, <2>3, <2>4, <2>5 DEF Confirm
<1>10. ASSUME NEW s \in Sessions, Cancel(s) PROVE CreditInv'
  <2>1. CASE CancelCommit(s) /\ ~Reject(s)
    <3>1. sess[s].row \in Orders /\ order' = [order EXCEPT ![sess[s].row].status = "CANCELLED"] /\ End(s)
      BY <2>1 DEF CancelCommit, InHand
    <3>2. \A o \in Orders : order'[o].status = "CONFIRMED" => order[o].status = "CONFIRMED"
      BY <1>0, <3>1 DEF OrderRow, SalesShape
    <3> QED
      BY <1>1, <1>2, <3>1, <3>2
  <2>2. CASE Reject(s)
    BY <1>3, <2>2
  <2>3. ASSUME NEW o \in Orders, CancelOpen(s, o)
        PROVE  CreditInv'
    <3>1. Open(s, "cancel", o) /\ UNCHANGED order /\ "cancel" \notin ReserveSteps
      BY <2>3 DEF CancelOpen, ReserveSteps
    <3> QED
      BY <1>4, <3>1
  <2> HIDE DEF SalesInv, CreditInv
  <2> QED
    BY <1>10, <2>1, <2>2, <2>3 DEF Cancel
<1>11. ASSUME NEW s \in Sessions, Invoice(s) PROVE CreditInv'
  <2>1. CASE InvoiceCommit(s) /\ ~Reject(s)
    <3>1. order' = [order EXCEPT ![note[sess[s].row].order].invoiced = @ + note[sess[s].row].qty] /\ End(s)
      BY <2>1 DEF InvoiceCommit
    <3>2. \A o \in Orders : order'[o].status = "CONFIRMED" => order[o].status = "CONFIRMED"
      <4>1. SUFFICES ASSUME NEW o \in Orders
                     PROVE  order'[o].status = order[o].status
        OBVIOUS
      <4>2. DOMAIN order[o] = {"status", "from", "source", "delivered", "invoiced"}
        BY <1>0 DEF OrderRow
      <4>3. o \in DOMAIN order
        BY DEF SalesShape
      <4>4. order'[o] = order[o] \/ order'[o] = [order[o] EXCEPT !.invoiced = @ + note[sess[s].row].qty]
        BY <3>1, <4>3
      <4> QED
        BY <4>2, <4>4
    <3> QED
      BY <1>1, <1>2, <3>1, <3>2
  <2> QED
    BY <1>3, <1>4, <1>11, <2>1 DEF Invoice, InvoiceOpen, ReserveSteps
<1>12. ASSUME NEW s \in Sessions, Abort(s) PROVE CreditInv'
  BY <1>3, <1>12 DEF Abort
<1>13. ASSUME NEW o \in Orders, Intake(o) PROVE CreditInv'
  <2>1. \A p \in Orders : order'[p].status = "CONFIRMED" => order[p].status = "CONFIRMED"
    BY <1>0, <1>13 DEF Intake, OrderRow, SalesShape
  <2> QED
    BY <1>1, <1>13, <2>1 DEF Intake
<1>14. ASSUME NEW o \in Orders, NEW r \in Orders, Amend(o, r) PROVE CreditInv'
  <2>1. \A p \in Orders : order'[p].status = "CONFIRMED" => order[p].status = "CONFIRMED"
    BY <1>14 DEF Amend, NoOrder, SalesShape
  <2> QED
    BY <1>1, <1>14, <2>1 DEF Amend
<1>15. ASSUME NEW o \in Orders, NEW n \in Notes, NEW q \in 1..Quantity, Fulfil(o, n, q) PROVE CreditInv'
  <2>1. \A p \in Orders : order'[p].status = "CONFIRMED" => order[p].status = "CONFIRMED"
    BY <1>0, <1>15 DEF Fulfil, OrderRow, SalesShape
  <2> QED
    BY <1>1, <1>15, <2>1 DEF Fulfil
<1> QED
  BY <1>8, <1>9, <1>10, <1>11, <1>12, <1>13, <1>14, <1>15 DEF SalesNext

LEMMA OrdersOfQuotes ==
  ASSUME QuoteOrders PROVE QuoteConvertedOnce
<1> SUFFICES ASSUME NEW q \in Quotes
             PROVE  Cardinality({o \in Orders : order[o].source = q /\ order[o].from = None}) <= 1
  BY DEF QuoteConvertedOnce
<1> DEFINE S == {o \in Orders : order[o].source = q /\ order[o].from = None}
<1>1. S = {} \/ \E o \in Orders : S = {o}
  BY DEF QuoteOrders, From
<1> HIDE DEF S
<1>2. Cardinality(S) <= 1
  <2>1. CASE S = {}
    BY <2>1, FS_EmptySet
  <2>2. CASE \E o \in Orders : S = {o}
    <3>1. PICK o \in Orders : S = {o}
      BY <2>2
    <3>2. Cardinality({o}) = 1
      BY FS_Singleton
    <3> QED
      BY <3>1, <3>2
  <2> QED
    BY <1>1, <2>1, <2>2
<1> QED
  BY <1>2 DEF S

-----------------------------------------------------------------------------
(* Theorems. *)

\* The types, what each request knows of the rows it holds, the locks it has,
\* and how amendments and delivery notes hang on their orders, in every state.
THEOREM SalesInvariance == SalesSpec => []SalesInv
<1>1. SalesInit => SalesInv
  BY SalesInvInit
<1>2. SalesInv /\ [SalesNext]_salesVars => SalesInv'
  <2> SUFFICES ASSUME SalesInv, [SalesNext]_salesVars PROVE SalesInv'
    OBVIOUS
  <2>1. CASE SalesNext
    BY <2>1, ShapeNext, SoundNext, AgreedNext, QuotesNext DEF SalesInv, Sound, LocksHeld, Agreed
  <2>2. CASE UNCHANGED salesVars
    BY <2>2
       DEF salesVars, tables, SalesInv, SalesShape, InHand, Held, LocksHeld, AmendsOlder, NotesDelivered,
           AmendmentReplaces, QuoteOrders, From
  <2> QED
    BY <2>1, <2>2
<1> QED
  BY <1>1, <1>2, PTL DEF SalesSpec

\* However many requests overlap, no two wait for rows the other holds: the
\* handlers' lock orders (order, note, original, customer) never cross.
THEOREM RequestsNeverCross == SalesSpec => []NoLockCycle
  BY SalesInvariance, InvNoCycle, PTL

\* An amendment is confirmed, delivered or invoiced only over a cancelled
\* original, however confirmation and cancellation of the two interleave.
THEOREM AmendmentsReplace == SalesSpec => []AmendmentReplaces
<1>1. SalesInv => AmendmentReplaces
  BY DEF SalesInv
<1> QED
  BY <1>1, SalesInvariance, PTL

\* "Convert an unexpired quote once": reviewers who convert one quotation at
\* the same time, and amendments of its order, leave it with one order.
THEOREM QuotesConvertOnce == SalesSpec => []QuoteConvertedOnce
<1>1. SalesInv => QuoteConvertedOnce
  BY OrdersOfQuotes DEF SalesInv
<1> QED
  BY <1>1, SalesInvariance, PTL

\* No request that read an order earlier revives it once it is cancelled or
\* reopens it once it is delivered.
THEOREM FinalOrdersStay == SalesSpec => OrderFinality
<1>1. SalesInv /\ [SalesNext]_salesVars
        => [\A o \in Orders : order[o].status \in {"CANCELLED", "DELIVERED"} =>
                             order'[o].status = order[o].status]_salesVars
  BY AgreedNext DEF Agreed, Finality
<1> QED
  BY <1>1, SalesInvariance, PTL DEF SalesSpec, OrderFinality

\* What is on the orders, the notes and the stock row adds up, and the credit
\* a request was granted is still there when it confirms, in every state.
THEOREM TotalsInvariance == SalesSpec => [](TotalsInv /\ CreditInv)
<1>1. SalesInit => TotalsInv /\ CreditInv
  <2> SUFFICES ASSUME SalesInit PROVE CreditInv
    BY TotalsInit
  <2> USE SalesAssumption DEF SalesInit
  <2>1. Confirmed = 0
    <3> DEFINE S == OrdersIn({"CONFIRMED"}, {})
    <3>1. S = {}
      BY DEF NoOrder, OrdersIn
    <3>2. Confirmed = Quantity * Cardinality(S)
      BY DEF Confirmed, TotalOf, OrdersIn
    <3> HIDE DEF S
    <3> QED
      BY <3>1, <3>2, FS_EmptySet
  <2> QED
    BY <2>1 DEF CreditInv, Idle, ReserveSteps
<1>2. SalesInv /\ SalesInv' /\ TotalsInv /\ CreditInv /\ [SalesNext]_salesVars => (TotalsInv /\ CreditInv)'
  <2> SUFFICES ASSUME SalesInv, SalesInv', TotalsInv, CreditInv, [SalesNext]_salesVars
               PROVE  TotalsInv' /\ CreditInv'
    OBVIOUS
  <2>1. CASE SalesNext
    BY <2>1, TotalsNext, CreditNext
  <2>2. CASE UNCHANGED salesVars
    BY <2>2
       DEF salesVars, tables, TotalsInv, ReservedIsOwed, Owed, Remaining, CountersMatchNotes, Delivered, Invoiced,
           CreditInv, Confirmed, TotalOf
  <2> QED
    BY <2>1, <2>2
<1> QED
  BY <1>1, <1>2, SalesInvariance, PTL DEF SalesSpec

\* Whatever requests overlap, reserved_qty is what the confirmed and partly
\* delivered orders still have to deliver, the counters of an order are the
\* sums of its notes and of their invoices, the stock that left is on the
\* notes, and conversions and amendments leave no order twice.
THEOREM OrdersAlwaysAgree == SalesSpec => []OrdersAgree
<1>1. ASSUME SalesInv, TotalsInv, CreditInv PROVE OrdersAgree
  <2>1. SalesTypeOK
    <3>1. \A s \in Sessions : sess[s] \in [at : Steps, row : Rows \cup {None}, invoices : Nat]
      BY <1>1 DEF SalesInv, SalesShape, CreditInv
    <3>2. sess \in [Sessions -> [at : Steps, row : Rows \cup {None}, invoices : Nat]]
      BY <1>1, <3>1 DEF SalesInv, SalesShape
    <3> QED
      BY <1>1, <3>2 DEF SalesTypeOK, SalesInv, SalesShape, TotalsInv
  <2> QED
    BY <1>1, <2>1, OrdersOfQuotes DEF OrdersAgree, SalesInv, TotalsInv
<1> QED
  BY <1>1, SalesInvariance, TotalsInvariance, PTL

\* Requests of one customer that check the credit limit on sums they read
\* earlier never confirm more than the limit together.
THEOREM CreditIsKept == SalesSpec => []ConfirmedWithinCredit
<1>1. CreditInv => ConfirmedWithinCredit
  BY DEF CreditInv, Confirmed, ConfirmedWithinCredit
<1> QED
  BY <1>1, TotalsInvariance, PTL
=============================================================================
