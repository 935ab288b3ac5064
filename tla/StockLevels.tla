----------------------------- MODULE StockLevels -----------------------------
(***************************************************************************)
(* The stock of one item: the level cache per warehouse (StockLevel), the  *)
(* stock ledger, and the three services under workflows/stock that write   *)
(* both: stock entries, reservations and physical counts.                  *)
(*                                                                         *)
(* A request is one database transaction at READ COMMITTED that takes no   *)
(* row locks: it reads the rows and checks its guards (Begin...), and      *)
(* later writes the changed columns as absolute values (Commit).  Prices,  *)
(* general-ledger entries and serial numbers are left out; the level row   *)
(* of every warehouse exists.                                              *)
(***************************************************************************)
EXTENDS Integers, FiniteSets, FiniteSetsExt

CONSTANTS
  Warehouses,
  NoWarehouse,
  Entries,       \* stock entry vouchers
  Forms,         \* [type, src, dst, qty]: what an entry may say
  Reservations,  \* stock reservation entries
  Counts,        \* stock reconciliation vouchers, of one line each
  Quantities,    \* quantities reserved and counted
  Opening,       \* the opening quantity of each warehouse
  Sessions,      \* requests in progress at the same time
  NoDoc          \* no voucher in hand

Types == {"MATERIAL_RECEIPT", "MATERIAL_ISSUE", "MATERIAL_TRANSFER", "MANUFACTURE"}

ASSUME StockAssumption ==
  /\ NoWarehouse \notin Warehouses
  /\ NoDoc \notin Entries \cup Reservations \cup Counts
  /\ Entries \cap Reservations = {} /\ Entries \cap Counts = {} /\ Reservations \cap Counts = {}
  /\ IsFiniteSet(Entries) /\ IsFiniteSet(Reservations) /\ IsFiniteSet(Counts)
  /\ Forms \subseteq [type: Types, src: Warehouses \cup {NoWarehouse},
                      dst: Warehouses \cup {NoWarehouse}, qty: Nat \ {0}]
  /\ Quantities \subseteq Nat
  /\ Opening \in [Warehouses -> Nat]

VARIABLES
  level,   \* level[w]: the columns current, reserved and available
  posted,  \* posted[w]: sum of actual_qty over the stock ledger of w
  doc,     \* doc[d]: the row of voucher d
  req      \* req[s]: what session s is about to write

stockVars == <<level, posted, doc, req>>

Docs == Entries \cup Reservations \cup Counts
NoRow == [status |-> "NONE"]
NoPut == [w \in Warehouses |-> <<>>]
NoPost == [w \in Warehouses |-> 0]
Idle == [doc |-> NoDoc, row |-> NoRow, put |-> NoPut, post |-> NoPost]

LevelRow == [current: Int, reserved: Nat, available: Int]
EntryRow == [status: {"DRAFT", "SUBMITTED", "CANCELLED"}, form: Forms]
ReservationRow == [status: {"ACTIVE", "FULFILLED", "CANCELLED"},
                   wh: Warehouses, qty: Quantities, used: Nat]
CountRow == [status: {"DRAFT", "SUBMITTED"}, wh: Warehouses, counted: Quantities, book: Int]

StockTypeOK ==
  /\ level \in [Warehouses -> LevelRow]
  /\ posted \in [Warehouses -> Int]
  /\ \A e \in Entries : doc[e] \in EntryRow \cup {NoRow}
  /\ \A r \in Reservations :
       doc[r] # NoRow => doc[r] \in ReservationRow /\ doc[r].used <= doc[r].qty
  /\ \A n \in Counts : doc[n] \in CountRow \cup {NoRow}
  /\ \A s \in Sessions : req[s] # Idle => req[s].doc \in Docs

StockInit ==
  /\ level = [w \in Warehouses |->
                [current |-> Opening[w], reserved |-> 0, available |-> Opening[w]]]
  /\ posted = Opening
  /\ doc = [d \in Docs |-> NoRow]
  /\ req = [s \in Sessions |-> Idle]

-----------------------------------------------------------------------------
(* The unit of work of a request. *)

\* The ORM writes the attributes whose value differs from the loaded one.
Changed(old, new) == [c \in {x \in DOMAIN old : new[x] # old[x]} |-> new[c]]

Overwrite(row, columns) ==
  [c \in DOMAIN row |-> IF c \in DOMAIN columns THEN columns[c] ELSE row[c]]

\* Mutant of PutLevel: available_qty is not recomputed.
PutStale(w, current, reserved) ==
  [NoPut EXCEPT ![w] = Changed(level[w], [level[w] EXCEPT !.current = current, !.reserved = reserved])]

\* level.current_qty and reserved_qty set, available_qty recomputed from them.
PutLevel(w, current, reserved) ==
  [NoPut EXCEPT ![w] =
     Changed(level[w], [current |-> current, reserved |-> reserved, available |-> current - reserved])]

\* Session s has voucher d in hand, to become row, with what that changes.
Stage(s, d, row, put, post) ==
  req' = [req EXCEPT ![s] = [doc |-> d, row |-> row, put |-> put, post |-> post]]

\* The flush of the last write and the commit at the end of the request.
Commit(s) ==
  /\ req[s] # Idle
  /\ level' = [w \in Warehouses |-> Overwrite(level[w], req[s].put[w])]
  /\ posted' = [w \in Warehouses |-> posted[w] + req[s].post[w]]
  /\ doc' = [doc EXCEPT ![req[s].doc] = req[s].row]
  /\ req' = [req EXCEPT ![s] = Idle]

\* A voucher that no request has created and none is creating.
Fresh(d) == doc[d] = NoRow /\ \A s \in Sessions : req[s] # Idle => req[s].doc # d

-----------------------------------------------------------------------------
(* Stock entries. *)

CreateEntry(s, e, f) ==
  /\ req[s] = Idle
  /\ Fresh(e)
  /\ Stage(s, e, [status |-> "DRAFT", form |-> f], NoPut, NoPost)
  /\ UNCHANGED <<level, posted, doc>>

\* The warehouse a submitted entry takes from, and the one it adds to.
\* MANUFACTURE and REPACK lines naming both or neither move nothing.
OutOf(f) ==
  IF \/ f.type \in {"MATERIAL_ISSUE", "MATERIAL_TRANSFER"}
     \/ f.type = "MANUFACTURE" /\ f.dst = NoWarehouse
  THEN f.src ELSE NoWarehouse

Into(f) ==
  IF \/ f.type \in {"MATERIAL_RECEIPT", "MATERIAL_TRANSFER"}
     \/ f.type = "MANUFACTURE" /\ f.src = NoWarehouse
  THEN f.dst ELSE NoWarehouse

\* Mutant of Moved: the second ledger entry of a transfer is missing.
MovedOnce(f, w) ==
  IF w = OutOf(f) THEN -f.qty ELSE IF w = Into(f) /\ OutOf(f) = NoWarehouse THEN f.qty ELSE 0

Moved(f, w) ==
  (IF w = Into(f) THEN f.qty ELSE 0) - (IF w = OutOf(f) THEN f.qty ELSE 0)

\* Mutant of Submittable: the status is not looked at.
SubmittableAgain(e) ==
  /\ doc[e] # NoRow
  /\ LET f == doc[e].form IN
     f.type \in {"MATERIAL_ISSUE", "MATERIAL_TRANSFER"} => level[OutOf(f)].current >= f.qty

\* The guards of submit_stock_entry.  Issues and transfers look at the
\* quantity on hand, reserved or not; the legs of MANUFACTURE at nothing.
Submittable(e) ==
  /\ doc[e].status = "DRAFT"
  /\ LET f == doc[e].form IN
     /\ f.type \in {"MATERIAL_RECEIPT", "MATERIAL_TRANSFER"} => f.dst # NoWarehouse
     /\ f.type \in {"MATERIAL_ISSUE", "MATERIAL_TRANSFER"} =>
          f.src # NoWarehouse /\ level[f.src].current >= f.qty

BeginSubmitEntry(s, e) ==
  /\ req[s] = Idle
  /\ Submittable(e)
  /\ LET f == doc[e].form IN
     Stage(s, e, [doc[e] EXCEPT !.status = "SUBMITTED"],
           [w \in Warehouses |-> PutLevel(w, level[w].current + Moved(f, w), level[w].reserved)[w]],
           [w \in Warehouses |-> Moved(f, w)])
  /\ UNCHANGED <<level, posted, doc>>

\* cancel_stock_entry: the status only; stock and ledger stay.
BeginCancelEntry(s, e) ==
  /\ req[s] = Idle
  /\ doc[e].status = "SUBMITTED"
  /\ Stage(s, e, [doc[e] EXCEPT !.status = "CANCELLED"], NoPut, NoPost)
  /\ UNCHANGED <<level, posted, doc>>

-----------------------------------------------------------------------------
(* Reservations. *)

CanReserve(w, q) == level[w].current - level[w].reserved >= q

BeginReserve(s, r, w, q) ==
  /\ req[s] = Idle
  /\ Fresh(r)
  /\ CanReserve(w, q)
  /\ Stage(s, r, [status |-> "ACTIVE", wh |-> w, qty |-> q, used |-> 0],
           PutLevel(w, level[w].current, level[w].reserved + q), NoPost)
  /\ UNCHANGED <<level, posted, doc>>

\* level.reserved_qty = max(0, level.reserved_qty - q)
Unreserve(w, q) == PutLevel(w, level[w].current, Max({0, level[w].reserved - q}))

\* Mutant of Unused: earlier consumption is forgotten.
UnusedAtFirst(r) == doc[r].qty

Unused(r) == doc[r].qty - doc[r].used

\* consume_reservation takes any quantity; its one caller, a test, never passes
\* more than is left.
BeginConsume(s, r, q) ==
  /\ req[s] = Idle
  /\ doc[r].status = "ACTIVE"
  /\ q \in 1..Unused(r)
  /\ Stage(s, r, [doc[r] EXCEPT !.used = @ + q,
                                !.status = IF q >= Unused(r) THEN "FULFILLED" ELSE @],
           Unreserve(doc[r].wh, q), NoPost)
  /\ UNCHANGED <<level, posted, doc>>

\* Mutant of Released: the consumed part is released a second time.
ReleasedAll(r) == doc[r].qty

\* What cancel_reservation gives back.
Released(r) == Unused(r)

BeginCancelReservation(s, r) ==
  /\ req[s] = Idle
  /\ doc[r].status = "ACTIVE"
  /\ Stage(s, r, [doc[r] EXCEPT !.status = "CANCELLED"],
           Unreserve(doc[r].wh, Released(r)), NoPost)
  /\ UNCHANGED <<level, posted, doc>>

-----------------------------------------------------------------------------
(* Physical counts. *)

\* create_reconciliation: the book quantity and difference are stored now.
BeginCount(s, n, w, q) ==
  /\ req[s] = Idle
  /\ Fresh(n)
  /\ Stage(s, n, [status |-> "DRAFT", wh |-> w, counted |-> q, book |-> level[w].current],
           NoPut, NoPost)
  /\ UNCHANGED <<level, posted, doc>>

\* Mutant of Difference: the ledger gets the counted quantity.
CountedQuantity(n) == doc[n].counted

\* line.difference_qty
Difference(n) == doc[n].counted - doc[n].book

\* submit_reconciliation: the level becomes what was counted, the ledger gets
\* the stored difference.
BeginSubmitCount(s, n) ==
  /\ req[s] = Idle
  /\ doc[n].status = "DRAFT"
  /\ LET w == doc[n].wh IN
     Stage(s, n, [doc[n] EXCEPT !.status = "SUBMITTED"],
           PutLevel(w, doc[n].counted, level[w].reserved),
           [NoPost EXCEPT ![w] = Difference(n)])
  /\ UNCHANGED <<level, posted, doc>>

-----------------------------------------------------------------------------
EntryRequest(s) ==
  \E e \in Entries :
    \/ \E f \in Forms : CreateEntry(s, e, f)
    \/ BeginSubmitEntry(s, e)
    \/ BeginCancelEntry(s, e)

ReservationRequest(s) ==
  \E r \in Reservations :
    \/ \E w \in Warehouses, q \in Quantities \ {0} : BeginReserve(s, r, w, q)
    \/ \E q \in Quantities : BeginConsume(s, r, q)
    \/ BeginCancelReservation(s, r)

CountRequest(s) ==
  \E n \in Counts :
    \/ \E w \in Warehouses, q \in Quantities : BeginCount(s, n, w, q)
    \/ BeginSubmitCount(s, n)

StockNext ==
  \E s \in Sessions : EntryRequest(s) \/ ReservationRequest(s) \/ CountRequest(s) \/ Commit(s)

StockSpec == StockInit /\ [][StockNext]_stockVars

-----------------------------------------------------------------------------
(* Properties.  All but the last are of requests that do not overlap.      *)

\* available_qty is what is on hand and not reserved, after any mix of
\* entries, reservations and counts.
AvailableIsNet ==
  \A w \in Warehouses : level[w].available = level[w].current - level[w].reserved

\* What reservation r still holds of warehouse w.
HeldBy(r, w) == IF doc[r].status = "ACTIVE" /\ doc[r].wh = w THEN Unused(r) ELSE 0
Held(w) == SumFunction([r \in Reservations |-> HeldBy(r, w)])

\* reserved_qty is the sum of what active reservations have not consumed.
ReservedIsHeld == \A w \in Warehouses : level[w].reserved = Held(w)

\* What the ledger of warehouse w holds of a stock entry and of a count.
Entered(e, w) == IF doc[e].status \in {"SUBMITTED", "CANCELLED"} THEN Moved(doc[e].form, w) ELSE 0
Adjusted(n, w) ==
  IF doc[n].status = "SUBMITTED" /\ doc[n].wh = w THEN doc[n].counted - doc[n].book ELSE 0

\* The ledger holds each submitted voucher exactly once, a cancelled entry
\* included: no voucher is posted twice, none is posted in part.
LedgerIsVouchers ==
  \A w \in Warehouses :
    posted[w] = Opening[w] + SumFunction([e \in Entries |-> Entered(e, w)])
                           + SumFunction([n \in Counts |-> Adjusted(n, w)])

\* Cache, reservations and ledger agree with the documents.
StockAgrees == StockTypeOK /\ AvailableIsNet /\ ReservedIsHeld /\ LedgerIsVouchers

\* The level cache and the ledger move by the same amount, except when a count
\* is submitted after stock moved since its draft.
LevelMovesWithLedger ==
  [][\A w \in Warehouses :
       \/ level'[w].current - level[w].current = posted'[w] - posted[w]
       \/ \E n \in Counts :
            /\ doc[n].status = "DRAFT" /\ doc'[n].status = "SUBMITTED"
            /\ doc[n].wh = w /\ doc[n].book # level[w].current]_stockVars

\* Stock is never reserved twice: without entries and counts, what active
\* reservations hold is on hand.
NoDoubleAllocation == \A w \in Warehouses : Held(w) <= level[w].current
=============================================================================
