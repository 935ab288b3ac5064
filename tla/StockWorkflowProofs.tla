------------------------ MODULE StockWorkflowProofs ------------------------
(***************************************************************************)
(* Machine-checked safety of two components that share nothing with each   *)
(* other and keep a state of their own.                                    *)
(*                                                                         *)
(* Stock: for any number of warehouses, vouchers and quantities, when      *)
(* requests do not overlap, the level cache, the reservations and the      *)
(* ledger agree with the vouchers.                                         *)
(*                                                                         *)
(* Workflows: for every template (any nodes, dependencies and recovery     *)
(* allowlist), any number of processes, recoveries, crashes and failed     *)
(* executions.                                                             *)
(***************************************************************************)
EXTENDS StockLevels, DagWorkflow, SumTheorems

-----------------------------------------------------------------------------
(* Stock *)

\* No two requests are in progress at the same time.  When they are, the
\* services overwrite each other's columns.
OneAtATime == \A s, t \in Sessions : s = t

-----------------------------------------------------------------------------
(* What the columns of a level row become.                                  *)

NewLevel(current, reserved) ==
  [current |-> current, reserved |-> reserved, available |-> current - reserved]

LEMMA NewLevelType ==
  ASSUME NEW current \in Int, NEW reserved \in Nat
  PROVE  NewLevel(current, reserved) \in LevelRow
BY DEF NewLevel, LevelRow

\* Writing the changed columns over a row makes it the new row.
LEMMA OverwriteChanged ==
  ASSUME NEW old \in LevelRow, NEW new \in LevelRow
  PROVE  Overwrite(old, Changed(old, new)) = new
<1> DEFINE res == Overwrite(old, Changed(old, new))
<1>1. DOMAIN old = {"current", "reserved", "available"} /\ DOMAIN new = DOMAIN old
  BY DEF LevelRow
<1>2. DOMAIN Changed(old, new) = {c \in DOMAIN old : new[c] # old[c]}
  BY DEF Changed
<1>3. \A c \in DOMAIN old : res[c] = new[c]
  BY <1>2 DEF Overwrite, Changed
<1>4. res = [c \in DOMAIN old |-> res[c]]
  BY DEF Overwrite
<1>5. new = [c \in DOMAIN old |-> new[c]]
  BY <1>1 DEF LevelRow
<1> QED
  BY <1>3, <1>4, <1>5

LEMMA OverwriteNothing ==
  ASSUME NEW old \in LevelRow
  PROVE  Overwrite(old, <<>>) = old
<1>1. old = [c \in DOMAIN old |-> old[c]]
  BY DEF LevelRow
<1>2. DOMAIN <<>> = {}
  OBVIOUS
<1> QED
  BY <1>1, <1>2 DEF Overwrite

\* A request that sets the columns of one warehouse leaves the others alone.
LEMMA PutLevelPuts ==
  ASSUME NEW w \in Warehouses, NEW current \in Int, NEW reserved \in Nat,
         \A v \in Warehouses : level[v] \in LevelRow, NEW v \in Warehouses
  PROVE  Overwrite(level[v], PutLevel(w, current, reserved)[v])
           = IF v = w THEN NewLevel(current, reserved) ELSE level[v]
<1>1. PutLevel(w, current, reserved)[v]
        = IF v = w THEN Changed(level[w], NewLevel(current, reserved)) ELSE <<>>
  BY DEF PutLevel, NoPut, NewLevel
<1>2. CASE v = w
  BY <1>1, <1>2, NewLevelType, OverwriteChanged
<1>3. CASE v # w
  BY <1>1, <1>3, OverwriteNothing
<1> QED
  BY <1>2, <1>3

-----------------------------------------------------------------------------
(* The inductive invariant: the rows agree, and they still will once the    *)
(* request in progress has written what it staged.                          *)

HeldRow(row, w) == IF row.status = "ACTIVE" /\ row.wh = w THEN row.qty - row.used ELSE 0
EnteredRow(row, w) == IF row.status \in {"SUBMITTED", "CANCELLED"} THEN Moved(row.form, w) ELSE 0
AdjustedRow(row, w) == IF row.status = "SUBMITTED" /\ row.wh = w THEN row.counted - row.book ELSE 0

DocOK(d, row) ==
  /\ d \in Entries => row \in EntryRow \cup {NoRow}
  /\ d \in Reservations /\ row # NoRow => row \in ReservationRow /\ row.used <= row.qty
  /\ d \in Counts => row \in CountRow \cup {NoRow}

\* What voucher d, to become row, adds to reserved_qty and to the ledger of w.
ReservedBy(d, row, w) == IF d \in Reservations THEN HeldRow(row, w) - HeldRow(doc[d], w) ELSE 0
PostedBy(d, row, w) ==
  IF d \in Entries THEN EnteredRow(row, w) - EnteredRow(doc[d], w)
  ELSE IF d \in Counts THEN AdjustedRow(row, w) - AdjustedRow(doc[d], w) ELSE 0

\* Voucher d is a count of w that is submitted after stock moved.
Drifted(d, row, w) ==
  d \in Counts /\ doc[d].status = "DRAFT" /\ row.status = "SUBMITTED" /\ doc[d].wh = w
  /\ doc[d].book # level[w].current

\* Level row new and ledger movement moved of w are right for voucher d.
Consistent(d, row, w, new, moved) ==
  /\ new \in LevelRow
  /\ new.available = new.current - new.reserved
  /\ new.reserved = level[w].reserved + ReservedBy(d, row, w)
  /\ moved = PostedBy(d, row, w)
  /\ new.current - level[w].current = moved \/ Drifted(d, row, w)

Staged(s) ==
  req[s].doc # NoDoc =>
    /\ req[s].doc \in Docs
    /\ DocOK(req[s].doc, req[s].row)
    /\ \A w \in Warehouses :
         Consistent(req[s].doc, req[s].row, w, Overwrite(level[w], req[s].put[w]), req[s].post[w])

StockShape ==
  /\ level \in [Warehouses -> LevelRow]
  /\ posted \in [Warehouses -> Int]
  /\ doc = [d \in Docs |-> doc[d]]
  /\ \A d \in Docs : DocOK(d, doc[d])
  /\ req = [s \in Sessions |-> req[s]]
  /\ \A s \in Sessions : req[s] = Idle \/ req[s].doc # NoDoc

StockInv ==
  /\ StockShape
  /\ AvailableIsNet
  /\ ReservedIsHeld
  /\ LedgerIsVouchers
  /\ \A s \in Sessions : Staged(s)

LEMMA SumsZero ==
  ASSUME NEW S, IsFiniteSet(S), NEW f, DOMAIN f = S, \A x \in S : f[x] = 0
  PROVE  SumFunction(f) = 0
BY SumFunctionZero

LEMMA StockInvInit == StockInit => StockInv
<1> SUFFICES ASSUME StockInit PROVE StockInv
  OBVIOUS
<1> USE StockAssumption DEF StockInit
<1>1. \A d \in Docs : doc[d] = NoRow
  OBVIOUS
<1>2. StockShape
  BY <1>1 DEF StockShape, DocOK, LevelRow
<1>3. AvailableIsNet
  BY DEF AvailableIsNet
<1>4. ASSUME NEW w \in Warehouses
      PROVE  /\ SumFunction([r \in Reservations |-> HeldBy(r, w)]) = 0
             /\ SumFunction([e \in Entries |-> Entered(e, w)]) = 0
             /\ SumFunction([n \in Counts |-> Adjusted(n, w)]) = 0
  <2>1. /\ \A r \in Reservations : HeldBy(r, w) = 0
        /\ \A e \in Entries : Entered(e, w) = 0
        /\ \A n \in Counts : Adjusted(n, w) = 0
    BY <1>1 DEF Docs, NoRow, HeldBy, Entered, Adjusted
  <2> QED
    BY <2>1, SumsZero
<1>5. ReservedIsHeld
  BY <1>4 DEF ReservedIsHeld, Held
<1>6. LedgerIsVouchers
  <2> SUFFICES ASSUME NEW w \in Warehouses
               PROVE  posted[w] = Opening[w] + SumFunction([e \in Entries |-> Entered(e, w)])
                                             + SumFunction([n \in Counts |-> Adjusted(n, w)])
    BY DEF LedgerIsVouchers
  <2>1. posted[w] = Opening[w] /\ Opening[w] \in Int
    OBVIOUS
  <2>2. posted[w] = Opening[w] + 0 + 0
    BY <2>1
  <2> QED
    BY <1>4, <2>2
<1>7. \A s \in Sessions : Staged(s)
  BY DEF Staged, Idle
<1> QED
  BY <1>2, <1>3, <1>5, <1>6, <1>7 DEF StockInv

-----------------------------------------------------------------------------
(* The sums after one voucher changed.                                      *)

LEMMA RowsInt ==
  ASSUME NEW d \in Docs, NEW row, DocOK(d, row), NEW w \in Warehouses
  PROVE  /\ d \in Reservations => HeldRow(row, w) \in Nat
         /\ d \in Entries => EnteredRow(row, w) \in Int
         /\ d \in Counts => AdjustedRow(row, w) \in Int
<1> USE StockAssumption DEF DocOK
<1>0. \A q \in Quantities : q \in Nat
  OBVIOUS
<1>1. ASSUME d \in Reservations PROVE HeldRow(row, w) \in Nat
  <2>1. CASE row = NoRow
    BY <2>1 DEF HeldRow, NoRow
  <2>2. CASE row # NoRow
    <3>1. row \in ReservationRow /\ row.used <= row.qty
      BY <1>1, <2>2
    <3>2. row.qty \in Nat /\ row.used \in Nat
      BY <1>0, <3>1 DEF ReservationRow
    <3> QED
      BY <3>1, <3>2 DEF HeldRow
  <2> QED
    BY <2>1, <2>2
<1>2. ASSUME d \in Entries PROVE EnteredRow(row, w) \in Int
  BY <1>2 DEF EnteredRow, EntryRow, NoRow, Moved
<1>3. ASSUME d \in Counts PROVE AdjustedRow(row, w) \in Int
  <2>1. CASE row = NoRow
    BY <2>1 DEF AdjustedRow, NoRow
  <2>2. CASE row \in CountRow
    <3>1. row.counted \in Nat /\ row.book \in Int
      BY <1>0, <2>2 DEF CountRow
    <3> QED
      BY <3>1 DEF AdjustedRow
  <2> QED
    BY <1>3, <2>1, <2>2
<1> QED
  BY <1>1, <1>2, <1>3

\* A sum over the vouchers of one kind follows the one that changes.
LEMMA OneVoucher ==
  ASSUME NEW S, IsFiniteSet(S), NEW f, NEW g, f \in [S -> Int], g \in [S -> Int], NEW d,
         \A x \in S : x # d => g[x] = f[x]
  PROVE  SumFunction(g) = SumFunction(f) + (IF d \in S THEN g[d] - f[d] ELSE 0)
<1>0. SumFunction(f) \in Int /\ SumFunction(g) \in Int
  BY SumFunctionInt
<1>1. CASE d \in S
  <2>1. SumFunction(g) = SumFunction(f) - f[d] + g[d]
    BY <1>1, SumFunctionChange
  <2>2. f[d] \in Int /\ g[d] \in Int
    BY <1>1
  <2> QED
    BY <1>0, <1>1, <2>1, <2>2
<1>2. CASE d \notin S
  <2>1. f = g
    BY <1>2
  <2> QED
    BY <1>0, <1>2, <2>1
<1> QED
  BY <1>1, <1>2

LEMMA SumsFollow ==
  ASSUME StockShape, StockShape', NEW d \in Docs, doc' = [doc EXCEPT ![d] = doc'[d]], NEW w \in Warehouses
  PROVE  /\ Held(w)' = Held(w) + (IF d \in Reservations THEN HeldRow(doc'[d], w) - HeldRow(doc[d], w) ELSE 0)
         /\ SumFunction([e \in Entries |-> Entered(e, w)'])
              = SumFunction([e \in Entries |-> Entered(e, w)])
                  + (IF d \in Entries THEN EnteredRow(doc'[d], w) - EnteredRow(doc[d], w) ELSE 0)
         /\ SumFunction([n \in Counts |-> Adjusted(n, w)'])
              = SumFunction([n \in Counts |-> Adjusted(n, w)])
                  + (IF d \in Counts THEN AdjustedRow(doc'[d], w) - AdjustedRow(doc[d], w) ELSE 0)
<1> USE StockAssumption
<1>0. /\ \A x \in Docs : DocOK(x, doc[x]) /\ DocOK(x, doc'[x])
      /\ \A x \in Docs : x # d => doc'[x] = doc[x]
  BY DEF StockShape
<1>1. Held(w)' = Held(w) + (IF d \in Reservations THEN HeldRow(doc'[d], w) - HeldRow(doc[d], w) ELSE 0)
  <2> DEFINE f == [r \in Reservations |-> HeldBy(r, w)]
             g == [r \in Reservations |-> HeldBy(r, w)']
  <2>1. \A r \in Reservations : f[r] = HeldRow(doc[r], w) /\ g[r] = HeldRow(doc'[r], w)
    BY DEF HeldBy, HeldRow, Unused
  <2>2. Reservations \subseteq Docs
    BY DEF Docs
  <2>3. f \in [Reservations -> Int] /\ g \in [Reservations -> Int]
    <3>1. \A r \in Reservations : f[r] \in Int /\ g[r] \in Int
      BY <1>0, <2>1, <2>2, RowsInt
    <3> QED
      BY <3>1
  <2>4. \A x \in Reservations : x # d => g[x] = f[x]
    BY <1>0, <2>1, <2>2
  <2>5. Held(w) = SumFunction(f) /\ Held(w)' = SumFunction(g)
    BY DEF Held
  <2> HIDE DEF f, g
  <2>6. SumFunction(g) = SumFunction(f) + (IF d \in Reservations THEN g[d] - f[d] ELSE 0)
    BY <2>3, <2>4, OneVoucher
  <2> QED
    BY <2>1, <2>5, <2>6
<1>2. SumFunction([e \in Entries |-> Entered(e, w)'])
        = SumFunction([e \in Entries |-> Entered(e, w)])
            + (IF d \in Entries THEN EnteredRow(doc'[d], w) - EnteredRow(doc[d], w) ELSE 0)
  <2> DEFINE f == [e \in Entries |-> Entered(e, w)]
             g == [e \in Entries |-> Entered(e, w)']
  <2>1. \A e \in Entries : f[e] = EnteredRow(doc[e], w) /\ g[e] = EnteredRow(doc'[e], w)
    BY DEF Entered, EnteredRow, Moved, OutOf, Into
  <2>2. Entries \subseteq Docs
    BY DEF Docs
  <2>3. f \in [Entries -> Int] /\ g \in [Entries -> Int]
    <3>1. \A e \in Entries : f[e] \in Int /\ g[e] \in Int
      BY <1>0, <2>1, <2>2, RowsInt
    <3> QED
      BY <3>1
  <2>4. \A x \in Entries : x # d => g[x] = f[x]
    BY <1>0, <2>1, <2>2
  <2> HIDE DEF f, g
  <2>6. SumFunction(g) = SumFunction(f) + (IF d \in Entries THEN g[d] - f[d] ELSE 0)
    BY <2>3, <2>4, OneVoucher
  <2>7. SumFunction(g) = SumFunction(f)
          + (IF d \in Entries THEN EnteredRow(doc'[d], w) - EnteredRow(doc[d], w) ELSE 0)
    BY <2>1, <2>6
  <2> QED
    BY <2>7 DEF f, g
<1>3. SumFunction([n \in Counts |-> Adjusted(n, w)'])
        = SumFunction([n \in Counts |-> Adjusted(n, w)])
            + (IF d \in Counts THEN AdjustedRow(doc'[d], w) - AdjustedRow(doc[d], w) ELSE 0)
  <2> DEFINE f == [n \in Counts |-> Adjusted(n, w)]
             g == [n \in Counts |-> Adjusted(n, w)']
  <2>1. \A n \in Counts : f[n] = AdjustedRow(doc[n], w) /\ g[n] = AdjustedRow(doc'[n], w)
    BY DEF Adjusted, AdjustedRow
  <2>2. Counts \subseteq Docs
    BY DEF Docs
  <2>3. f \in [Counts -> Int] /\ g \in [Counts -> Int]
    <3>1. \A n \in Counts : f[n] \in Int /\ g[n] \in Int
      BY <1>0, <2>1, <2>2, RowsInt
    <3> QED
      BY <3>1
  <2>4. \A x \in Counts : x # d => g[x] = f[x]
    BY <1>0, <2>1, <2>2
  <2> HIDE DEF f, g
  <2>6. SumFunction(g) = SumFunction(f) + (IF d \in Counts THEN g[d] - f[d] ELSE 0)
    BY <2>3, <2>4, OneVoucher
  <2>7. SumFunction(g) = SumFunction(f)
          + (IF d \in Counts THEN AdjustedRow(doc'[d], w) - AdjustedRow(doc[d], w) ELSE 0)
    BY <2>1, <2>6
  <2> QED
    BY <2>7 DEF f, g
<1> QED
  BY <1>1, <1>2, <1>3

-----------------------------------------------------------------------------
(* The commit of a request makes the rows what it staged.                   *)

LEMMA CommitKeeps ==
  ASSUME OneAtATime, StockInv, NEW s \in Sessions, Commit(s)
  PROVE  /\ StockInv'
         /\ \A w \in Warehouses :
              level'[w].current - level[w].current = posted'[w] - posted[w]
                \/ Drifted(req[s].doc, req[s].row, w)
<1> USE StockAssumption DEF StockInv, Commit
<1> DEFINE d == req[s].doc  row == req[s].row
<1>1. d # NoDoc /\ d \in Docs /\ DocOK(d, row)
  BY DEF StockShape, Staged
<1>2. ASSUME NEW w \in Warehouses
      PROVE  Consistent(d, row, w, level'[w], req[s].post[w])
  BY <1>1 DEF Staged
<1>3. doc' = [doc EXCEPT ![d] = row] /\ doc'[d] = row /\ \A x \in Docs : x # d => doc'[x] = doc[x]
  BY <1>1 DEF StockShape
<1>4. ASSUME NEW w \in Warehouses
      PROVE  /\ level'[w] \in LevelRow /\ level'[w].available = level'[w].current - level'[w].reserved
             /\ PostedBy(d, row, w) \in Int /\ ReservedBy(d, row, w) \in Int
             /\ posted[w] \in Int /\ posted'[w] = posted[w] + PostedBy(d, row, w)
  <2>1. level'[w] \in LevelRow /\ level'[w].available = level'[w].current - level'[w].reserved
    BY <1>2 DEF Consistent
  <2>2. DocOK(d, doc[d])
    BY <1>1 DEF StockShape
  <2>3. PostedBy(d, row, w) \in Int
    <3>1. CASE d \in Entries
      <4>1. EnteredRow(row, w) \in Int /\ EnteredRow(doc[d], w) \in Int
        BY <1>1, <2>2, <3>1, RowsInt
      <4> QED
        BY <3>1, <4>1 DEF PostedBy
    <3>2. CASE d \in Counts
      <4>1. AdjustedRow(row, w) \in Int /\ AdjustedRow(doc[d], w) \in Int
        BY <1>1, <2>2, <3>2, RowsInt
      <4> QED
        BY <3>2, <4>1 DEF PostedBy
    <3>3. CASE d \notin Entries /\ d \notin Counts
      BY <3>3 DEF PostedBy
    <3> QED
      BY <3>1, <3>2, <3>3
  <2>4. ReservedBy(d, row, w) \in Int
    <3>1. CASE d \in Reservations
      <4>1. HeldRow(row, w) \in Int /\ HeldRow(doc[d], w) \in Int
        BY <1>1, <2>2, <3>1, RowsInt
      <4> QED
        BY <3>1, <4>1 DEF ReservedBy
    <3>2. CASE d \notin Reservations
      BY <3>2 DEF ReservedBy
    <3> QED
      BY <3>1, <3>2
  <2>5. posted[w] \in Int /\ posted'[w] = posted[w] + PostedBy(d, row, w)
    BY <1>2 DEF StockShape, Consistent
  <2> QED
    BY <2>1, <2>3, <2>4, <2>5
<1>5. \A t \in Sessions : req'[t] = Idle
  BY DEF OneAtATime, StockShape
<1>6. StockShape'
  <2>1. level' \in [Warehouses -> LevelRow]
    BY <1>4
  <2>2. posted' \in [Warehouses -> Int]
    <3>1. \A w \in Warehouses : posted'[w] \in Int
      BY <1>4
    <3>2. posted' = [w \in Warehouses |-> posted'[w]]
      OBVIOUS
    <3> QED
      BY <3>1, <3>2
  <2>3. doc' = [x \in Docs |-> doc'[x]] /\ \A x \in Docs : DocOK(x, doc'[x])
    BY <1>1, <1>3 DEF StockShape
  <2>4. req' = [t \in Sessions |-> req'[t]]
    BY DEF StockShape
  <2> QED
    BY <1>5, <2>1, <2>2, <2>3, <2>4 DEF StockShape
<1>7. \A t \in Sessions : Staged(t)'
  BY <1>5 DEF Staged, Idle
<1>8. ASSUME NEW w \in Warehouses
      PROVE  level'[w].reserved = Held(w)'
  <2>1. level'[w].reserved = Held(w) + ReservedBy(d, row, w)
    BY <1>2 DEF Consistent, ReservedIsHeld
  <2>2. doc' = [doc EXCEPT ![d] = doc'[d]]
    BY <1>3
  <2>3. Held(w)' = Held(w) + (IF d \in Reservations THEN HeldRow(doc'[d], w) - HeldRow(doc[d], w) ELSE 0)
    <3> HIDE DEF d, StockInv, Commit
    <3>1. StockShape
      BY DEF StockInv
    <3> QED
      BY <1>1, <1>6, <2>2, <3>1, SumsFollow
  <2> HIDE DEF d, row
  <2> QED
    BY <1>3, <2>1, <2>3 DEF ReservedBy
<1>9. ASSUME NEW w \in Warehouses
      PROVE  posted'[w] = Opening[w] + SumFunction([e \in Entries |-> Entered(e, w)'])
                                     + SumFunction([n \in Counts |-> Adjusted(n, w)'])
  <2> DEFINE A == SumFunction([e \in Entries |-> Entered(e, w)])
             B == SumFunction([n \in Counts |-> Adjusted(n, w)])
             a == IF d \in Entries THEN EnteredRow(row, w) - EnteredRow(doc[d], w) ELSE 0
             b == IF d \in Counts THEN AdjustedRow(row, w) - AdjustedRow(doc[d], w) ELSE 0
  <2>1. doc' = [doc EXCEPT ![d] = doc'[d]]
    BY <1>3
  <2>2. /\ SumFunction([e \in Entries |-> Entered(e, w)'])
             = A + (IF d \in Entries THEN EnteredRow(doc'[d], w) - EnteredRow(doc[d], w) ELSE 0)
        /\ SumFunction([n \in Counts |-> Adjusted(n, w)'])
             = B + (IF d \in Counts THEN AdjustedRow(doc'[d], w) - AdjustedRow(doc[d], w) ELSE 0)
    <3> HIDE DEF d
    <3> QED
      BY <1>1, <1>6, <2>1, SumsFollow
  <2>3. posted[w] = Opening[w] + A + B
    BY DEF LedgerIsVouchers
  <2>4. a \in Int /\ b \in Int
    <3>1. DocOK(d, doc[d])
      BY <1>1 DEF StockShape
    <3> HIDE DEF d, row
    <3> QED
      BY <1>1, <3>1, RowsInt
  <2>5. PostedBy(d, row, w) = a + b
    BY <2>4 DEF PostedBy
  <2>6. A \in Int /\ B \in Int
    <3>1. /\ \A e \in Entries : Entered(e, w) = EnteredRow(doc[e], w) /\ EnteredRow(doc[e], w) \in Int
          /\ \A n \in Counts : Adjusted(n, w) = AdjustedRow(doc[n], w) /\ AdjustedRow(doc[n], w) \in Int
      BY RowsInt DEF StockShape, Docs, Entered, EnteredRow, Adjusted, AdjustedRow
    <3>2. /\ [e \in Entries |-> Entered(e, w)] \in [Entries -> Int]
          /\ [n \in Counts |-> Adjusted(n, w)] \in [Counts -> Int]
      BY <3>1
    <3> QED
      BY <3>2, SumFunctionInt
  <2>7. Opening[w] \in Int
    OBVIOUS
  <2>8. posted'[w] = Opening[w] + (A + a) + (B + b)
    <3> HIDE DEF A, B, a, b, d, row
    <3> QED
      BY <1>4, <2>3, <2>4, <2>5, <2>6, <2>7
  <2> HIDE DEF A, B
  <2> QED
    BY <1>3, <2>2, <2>8
<1>10. AvailableIsNet' /\ ReservedIsHeld' /\ LedgerIsVouchers'
  BY <1>4, <1>8, <1>9 DEF AvailableIsNet, ReservedIsHeld, LedgerIsVouchers
<1>11. \A w \in Warehouses :
         level'[w].current - level[w].current = posted'[w] - posted[w] \/ Drifted(d, row, w)
  <2> SUFFICES ASSUME NEW w \in Warehouses, ~Drifted(d, row, w)
               PROVE  level'[w].current - level[w].current = posted'[w] - posted[w]
    OBVIOUS
  <2>1. level'[w].current - level[w].current = PostedBy(d, row, w)
    BY <1>2 DEF Consistent
  <2> QED
    BY <1>4, <2>1
<1> QED
  BY <1>6, <1>7, <1>10, <1>11

-----------------------------------------------------------------------------
(* What a request stages is right for the voucher it has in hand.           *)

LEMMA StageKeeps ==
  ASSUME OneAtATime, StockInv, NEW s \in Sessions, NEW d \in Docs, NEW row, NEW put, NEW post,
         Stage(s, d, row, put, post), UNCHANGED <<level, posted, doc>>, DocOK(d, row),
         \A w \in Warehouses : Consistent(d, row, w, Overwrite(level[w], put[w]), post[w])
  PROVE  StockInv'
<1> USE StockAssumption DEF StockInv
<1>1. /\ req'[s].doc = d /\ req'[s].row = row /\ req'[s].put = put /\ req'[s].post = post
      /\ d # NoDoc /\ req' = [t \in Sessions |-> req'[t]]
  BY DEF Stage, StockShape, Docs
<1>2. \A t \in Sessions : t = s
  BY DEF OneAtATime
<1>3. StockShape'
  BY <1>1, <1>2 DEF StockShape, DocOK, LevelRow
<1>4. AvailableIsNet' /\ ReservedIsHeld' /\ LedgerIsVouchers'
  BY DEF AvailableIsNet, ReservedIsHeld, LedgerIsVouchers, Held, HeldBy, Unused, Entered, Moved, Into, OutOf, Adjusted
<1>5. Staged(s)'
  <2>1. ASSUME NEW w \in Warehouses PROVE Consistent(d, row, w, Overwrite(level[w], put[w]), post[w])'
    BY DEF Consistent, ReservedBy, PostedBy, HeldRow, EnteredRow, AdjustedRow, Drifted, Moved, Into, OutOf,
           LevelRow, Overwrite
  <2>2. DocOK(d, row)'
    BY DEF DocOK, EntryRow, ReservationRow, CountRow
  <2> QED
    BY <1>1, <2>1, <2>2 DEF Staged
<1> QED
  BY <1>2, <1>3, <1>4, <1>5 DEF StockInv

LEMMA NothingStaged ==
  ASSUME StockInv, NEW d \in Docs, NEW row,
         \A w \in Warehouses : ReservedBy(d, row, w) = 0 /\ PostedBy(d, row, w) = 0
  PROVE  \A w \in Warehouses : Consistent(d, row, w, Overwrite(level[w], NoPut[w]), NoPost[w])
<1> SUFFICES ASSUME NEW w \in Warehouses
             PROVE  Consistent(d, row, w, Overwrite(level[w], NoPut[w]), NoPost[w])
  OBVIOUS
<1>1. level[w] \in LevelRow
  BY DEF StockInv, StockShape
<1>2. Overwrite(level[w], NoPut[w]) = level[w] /\ NoPost[w] = 0
  BY <1>1, OverwriteNothing DEF NoPut, NoPost
<1>3. level[w].available = level[w].current - level[w].reserved
  BY DEF StockInv, AvailableIsNet
<1>4. level[w].reserved = level[w].reserved + 0 /\ level[w].current - level[w].current = 0
  BY <1>1 DEF LevelRow
<1> QED
  BY <1>1, <1>2, <1>3, <1>4 DEF Consistent

LEMMA EntriesKeep ==
  ASSUME OneAtATime, StockInv, NEW s \in Sessions, EntryRequest(s)
  PROVE  StockInv'
<1> USE StockAssumption
<1>1. PICK e \in Entries :
        \/ \E f \in Forms : CreateEntry(s, e, f)
        \/ BeginSubmitEntry(s, e)
        \/ BeginCancelEntry(s, e)
  BY DEF EntryRequest
<1>2. e \in Docs /\ e \notin Reservations /\ e \notin Counts /\ doc[e] \in EntryRow \cup {NoRow}
  BY DEF StockInv, StockShape, DocOK, Docs
<1>3. ASSUME NEW row, row \in EntryRow, \A w \in Warehouses : EnteredRow(row, w) = EnteredRow(doc[e], w),
             Stage(s, e, row, NoPut, NoPost), UNCHANGED <<level, posted, doc>>
      PROVE  StockInv'
  <2>1. DocOK(e, row)
    BY <1>2, <1>3 DEF DocOK
  <2>2. \A w \in Warehouses : EnteredRow(row, w) \in Int
    BY <1>2, <2>1, RowsInt
  <2>3. \A w \in Warehouses : ReservedBy(e, row, w) = 0 /\ PostedBy(e, row, w) = 0
    BY <1>2, <1>3, <2>2 DEF ReservedBy, PostedBy
  <2> QED
    BY <1>2, <1>3, <2>1, <2>3, NothingStaged, StageKeeps
<1>4. ASSUME NEW f \in Forms, CreateEntry(s, e, f) PROVE StockInv'
  <2> DEFINE row == [status |-> "DRAFT", form |-> f]
  <2>1. row \in EntryRow /\ \A w \in Warehouses : EnteredRow(row, w) = EnteredRow(doc[e], w)
    BY <1>4 DEF EntryRow, EnteredRow, CreateEntry, Fresh, NoRow
  <2> QED
    BY <1>3, <1>4, <2>1 DEF CreateEntry
<1>5. CASE BeginCancelEntry(s, e)
  <2> DEFINE row == [doc[e] EXCEPT !.status = "CANCELLED"]
  <2>1. doc[e] \in EntryRow /\ doc[e].status = "SUBMITTED"
    BY <1>2, <1>5 DEF BeginCancelEntry, NoRow
  <2>2. row \in EntryRow /\ row.form = doc[e].form /\ row.status = "CANCELLED"
    BY <2>1 DEF EntryRow
  <2>3. \A w \in Warehouses : EnteredRow(row, w) = EnteredRow(doc[e], w)
    <3> HIDE DEF row
    <3> QED
      BY <2>1, <2>2 DEF EnteredRow
  <2> QED
    BY <1>3, <1>5, <2>2, <2>3 DEF BeginCancelEntry
<1>6. CASE BeginSubmitEntry(s, e)
  <2> DEFINE row == [doc[e] EXCEPT !.status = "SUBMITTED"]
             f == doc[e].form
             put == [w \in Warehouses |-> PutLevel(w, level[w].current + Moved(f, w), level[w].reserved)[w]]
             post == [w \in Warehouses |-> Moved(f, w)]
  <2>1. doc[e] \in EntryRow /\ doc[e].status = "DRAFT"
    BY <1>2, <1>6 DEF BeginSubmitEntry, Submittable, NoRow
  <2>2. row \in EntryRow /\ row.form = f /\ row.status = "SUBMITTED" /\ f \in Forms
    BY <2>1 DEF EntryRow
  <2>3. ASSUME NEW w \in Warehouses
        PROVE  /\ Moved(f, w) \in Int /\ EnteredRow(row, w) = Moved(f, w) /\ EnteredRow(doc[e], w) = 0
               /\ ReservedBy(e, row, w) = 0 /\ PostedBy(e, row, w) = Moved(f, w)
    <3>1. Moved(f, w) \in Int
      BY <2>2 DEF Moved
    <3>2. EnteredRow(row, w) = Moved(f, w) /\ EnteredRow(doc[e], w) = 0
      <4> HIDE DEF row
      <4> QED
        BY <2>1, <2>2 DEF EnteredRow
    <3> HIDE DEF row, f
    <3> QED
      BY <1>2, <3>1, <3>2 DEF ReservedBy, PostedBy
  <2>4. ASSUME NEW w \in Warehouses
        PROVE  Consistent(e, row, w, Overwrite(level[w], put[w]), post[w])
    <3>1. level[w] \in LevelRow /\ \A v \in Warehouses : level[v] \in LevelRow
      BY DEF StockInv, StockShape
    <3>2. level[w].current \in Int /\ level[w].reserved \in Nat
      BY <3>1 DEF LevelRow
    <3> DEFINE current == level[w].current + Moved(f, w)
    <3>3. current \in Int
      BY <2>3, <3>2
    <3>4. Overwrite(level[w], put[w]) = NewLevel(current, level[w].reserved)
      <4>1. put[w] = PutLevel(w, current, level[w].reserved)[w]
        OBVIOUS
      <4> HIDE DEF current
      <4> QED
        BY <3>1, <3>2, <3>3, <4>1, PutLevelPuts
    <3>5. NewLevel(current, level[w].reserved) \in LevelRow
      BY <3>2, <3>3, NewLevelType
    <3>6. level[w].reserved = level[w].reserved + 0 /\ current - level[w].current = Moved(f, w)
      BY <2>3, <3>2
    <3> HIDE DEF row, put
    <3> QED
      BY <2>3, <3>4, <3>5, <3>6 DEF Consistent, NewLevel
  <2>5. DocOK(e, row)
    BY <1>2, <2>2 DEF DocOK
  <2>6. Stage(s, e, row, put, post) /\ UNCHANGED <<level, posted, doc>>
    BY <1>6 DEF BeginSubmitEntry
  <2> PICK r, puts, posts : r = row /\ puts = put /\ posts = post
    OBVIOUS
  <2> HIDE DEF row, put, post
  <2>7. Stage(s, e, r, puts, posts) /\ DocOK(e, r) /\ e \in Docs
    BY <1>2, <2>5, <2>6
  <2>8. \A w \in Warehouses : Consistent(e, r, w, Overwrite(level[w], puts[w]), posts[w])
    BY <2>4
  <2> QED
    BY <2>6, <2>7, <2>8, StageKeeps
<1> QED
  BY <1>1, <1>4, <1>5, <1>6

\* A request of one warehouse.
LEMMA OnePut ==
  ASSUME StockInv, NEW d \in Docs, NEW row, NEW w \in Warehouses, NEW current \in Int, NEW reserved \in Nat,
         NEW post,
         \A v \in Warehouses \ {w} : ReservedBy(d, row, v) = 0 /\ PostedBy(d, row, v) = 0 /\ post[v] = 0,
         reserved = level[w].reserved + ReservedBy(d, row, w), post[w] = PostedBy(d, row, w),
         current - level[w].current = post[w] \/ Drifted(d, row, w)
  PROVE  \A v \in Warehouses :
           Consistent(d, row, v, Overwrite(level[v], PutLevel(w, current, reserved)[v]), post[v])
<1> SUFFICES ASSUME NEW v \in Warehouses
             PROVE  Consistent(d, row, v, Overwrite(level[v], PutLevel(w, current, reserved)[v]), post[v])
  OBVIOUS
<1>1. \A x \in Warehouses : level[x] \in LevelRow /\ level[x].available = level[x].current - level[x].reserved
  BY DEF StockInv, StockShape, AvailableIsNet
<1>2. Overwrite(level[v], PutLevel(w, current, reserved)[v])
        = IF v = w THEN NewLevel(current, reserved) ELSE level[v]
  <2> PICK put : put = PutLevel(w, current, reserved)[v]
    OBVIOUS
  <2>1. Overwrite(level[v], put) = IF v = w THEN NewLevel(current, reserved) ELSE level[v]
    BY <1>1, PutLevelPuts
  <2> QED
    BY <2>1
<1>3. CASE v = w
  <2>1. NewLevel(current, reserved) \in LevelRow
    BY NewLevelType
  <2> QED
    BY <1>2, <1>3, <2>1 DEF Consistent, NewLevel
<1>4. CASE v # w
  <2>1. level[v].reserved = level[v].reserved + 0 /\ level[v].current - level[v].current = 0
    BY <1>1 DEF LevelRow
  <2> QED
    BY <1>1, <1>2, <1>4, <2>1 DEF Consistent
<1> QED
  BY <1>3, <1>4

LEMMA ReservationsKeep ==
  ASSUME OneAtATime, StockInv, NEW s \in Sessions, ReservationRequest(s)
  PROVE  StockInv'
<1> USE StockAssumption
<1>1. PICK r \in Reservations :
        \/ \E w \in Warehouses, q \in Quantities \ {0} : BeginReserve(s, r, w, q)
        \/ \E q \in Quantities : BeginConsume(s, r, q)
        \/ BeginCancelReservation(s, r)
  BY DEF ReservationRequest
<1>2. r \in Docs /\ r \notin Entries /\ r \notin Counts /\ DocOK(r, doc[r])
  BY DEF StockInv, StockShape, Docs
<1>3. \A q \in Quantities : q \in Nat
  OBVIOUS
<1>4. \A w \in Warehouses : level[w] \in LevelRow /\ level[w].current \in Int /\ level[w].reserved \in Nat
  BY DEF StockInv, StockShape, LevelRow
\* Only the reserved quantity of one warehouse changes.
<1>5. ASSUME NEW row, NEW w \in Warehouses, NEW reserved \in Nat,
             row \in ReservationRow, row.used <= row.qty,
             \A v \in Warehouses \ {w} : HeldRow(row, v) = 0 /\ HeldRow(doc[r], v) = 0,
             reserved = level[w].reserved + (HeldRow(row, w) - HeldRow(doc[r], w)),
             Stage(s, r, row, PutLevel(w, level[w].current, reserved), NoPost), UNCHANGED <<level, posted, doc>>
      PROVE  StockInv'
  <2>1. \A v \in Warehouses : ReservedBy(r, row, v) = HeldRow(row, v) - HeldRow(doc[r], v) /\ PostedBy(r, row, v) = 0
    BY <1>2 DEF ReservedBy, PostedBy
  <2>2. \A v \in Warehouses : NoPost[v] = 0
    BY DEF NoPost
  <2>3. \A v \in Warehouses \ {w} : ReservedBy(r, row, v) = 0 /\ PostedBy(r, row, v) = 0 /\ NoPost[v] = 0
    BY <1>5, <2>1, <2>2
  <2>4. level[w].current - level[w].current = NoPost[w] /\ NoPost[w] = PostedBy(r, row, w)
    BY <1>4, <2>1, <2>2
  <2>5. reserved = level[w].reserved + ReservedBy(r, row, w)
    BY <1>5, <2>1
  <2>6. \A v \in Warehouses :
          Consistent(r, row, v, Overwrite(level[v], PutLevel(w, level[w].current, reserved)[v]), NoPost[v])
    BY <1>2, <1>4, <2>3, <2>4, <2>5, OnePut
  <2>7. DocOK(r, row)
    BY <1>2, <1>5 DEF DocOK
  <2> QED
    BY <1>2, <1>5, <2>6, <2>7, StageKeeps
<1>6. ASSUME NEW w \in Warehouses, NEW q \in Quantities \ {0}, BeginReserve(s, r, w, q) PROVE StockInv'
  <2> DEFINE row == [status |-> "ACTIVE", wh |-> w, qty |-> q, used |-> 0]
             reserved == level[w].reserved + q
  <2>1. row \in ReservationRow /\ row.used <= row.qty /\ reserved \in Nat
    <3>1. q \in Quantities /\ q \in Nat
      BY <1>3
    <3>2. row \in ReservationRow
      BY <3>1 DEF ReservationRow
    <3> QED
      BY <1>4, <3>1, <3>2
  <2>2. /\ \A v \in Warehouses : HeldRow(row, v) = IF v = w THEN q ELSE 0
        /\ \A v \in Warehouses : HeldRow(doc[r], v) = 0
    <3>1. doc[r] = NoRow
      BY <1>6 DEF BeginReserve, Fresh
    <3>2. q - 0 = q
      BY <1>3
    <3> QED
      BY <3>1, <3>2 DEF HeldRow, NoRow
  <2>3. reserved = level[w].reserved + (HeldRow(row, w) - HeldRow(doc[r], w))
    <3>1. HeldRow(row, w) = q /\ HeldRow(doc[r], w) = 0
      BY <2>2
    <3> HIDE DEF row
    <3> QED
      BY <1>3, <1>4, <3>1
  <2>4. Stage(s, r, row, PutLevel(w, level[w].current, reserved), NoPost) /\ UNCHANGED <<level, posted, doc>>
    BY <1>6 DEF BeginReserve
  <2> HIDE DEF row, reserved
  <2> QED
    BY <1>5, <2>1, <2>2, <2>3, <2>4
\* An active reservation holds no more than the warehouse has reserved.
<1>7. ASSUME doc[r].status = "ACTIVE"
      PROVE  /\ doc[r] \in ReservationRow /\ doc[r].wh \in Warehouses /\ doc[r].used \in Nat /\ doc[r].qty \in Nat
             /\ Unused(r) \in Nat
             /\ Unused(r) <= level[doc[r].wh].reserved
             /\ \A v \in Warehouses : HeldRow(doc[r], v) = IF v = doc[r].wh THEN Unused(r) ELSE 0
  <2>1. doc[r] # NoRow
    BY <1>7 DEF NoRow
  <2>2. doc[r] \in ReservationRow /\ doc[r].used <= doc[r].qty
    BY <1>2, <2>1 DEF DocOK
  <2>3. doc[r].wh \in Warehouses /\ doc[r].qty \in Nat /\ doc[r].used \in Nat
    BY <1>3, <2>2 DEF ReservationRow
  <2>4. Unused(r) \in Nat
    BY <2>2, <2>3 DEF Unused
  <2>5. \A v \in Warehouses : HeldRow(doc[r], v) = IF v = doc[r].wh THEN Unused(r) ELSE 0
    BY <1>7 DEF HeldRow, Unused
  <2>6. Unused(r) <= level[doc[r].wh].reserved
    <3> DEFINE w == doc[r].wh
               f == [x \in Reservations |-> HeldBy(x, w)]
    <3>1. \A x \in Reservations : HeldBy(x, w) = HeldRow(doc[x], w) /\ HeldRow(doc[x], w) \in Nat
      BY <2>3, RowsInt DEF StockInv, StockShape, Docs, HeldBy, HeldRow, Unused
    <3>2. f \in [Reservations -> Nat] /\ f[r] = Unused(r)
      BY <1>7, <3>1 DEF HeldBy
    <3>3. level[w].reserved = SumFunction(f)
      BY <2>3 DEF StockInv, ReservedIsHeld, Held
    <3> HIDE DEF f, w
    <3>4. f[r] <= SumFunction(f)
      BY <3>2, SumFunctionPart
    <3> QED
      BY <3>2, <3>3, <3>4 DEF w
  <2> QED
    BY <2>2, <2>3, <2>4, <2>5, <2>6
\* What is consumed or released is taken off the reserved quantity in full.
<1>8. ASSUME NEW row, NEW q \in Nat, doc[r].status = "ACTIVE", q <= Unused(r),
             row \in ReservationRow, row.used <= row.qty,
             \A v \in Warehouses : HeldRow(row, v) = IF v = doc[r].wh THEN Unused(r) - q ELSE 0,
             Stage(s, r, row, Unreserve(doc[r].wh, q), NoPost), UNCHANGED <<level, posted, doc>>
      PROVE  StockInv'
  <2> DEFINE w == doc[r].wh
             reserved == level[w].reserved - q
  <2>1. w \in Warehouses /\ Unused(r) \in Nat /\ Unused(r) <= level[w].reserved /\ level[w].reserved \in Nat
    BY <1>4, <1>7, <1>8
  <2>2. reserved \in Nat /\ Max({0, reserved}) = reserved
    <3>1. reserved \in Nat
      BY <1>8, <2>1
    <3> HIDE DEF reserved
    <3> QED
      BY <3>1 DEF Max
  <2>3. Unreserve(w, q) = PutLevel(w, level[w].current, reserved)
    BY <2>2 DEF Unreserve
  <2>4. HeldRow(row, w) = Unused(r) - q /\ HeldRow(doc[r], w) = Unused(r)
    BY <1>7, <1>8, <2>1
  <2>5. reserved = level[w].reserved + (HeldRow(row, w) - HeldRow(doc[r], w))
    <3> HIDE DEF w
    <3> QED
      BY <2>1, <2>4, <1>8
  <2>6. \A v \in Warehouses \ {w} : HeldRow(row, v) = 0 /\ HeldRow(doc[r], v) = 0
    BY <1>7, <1>8
  <2>7. Stage(s, r, row, PutLevel(w, level[w].current, reserved), NoPost)
    BY <1>8, <2>3
  <2> HIDE DEF w, reserved
  <2> QED
    BY <1>5, <1>8, <2>1, <2>2, <2>5, <2>6, <2>7
<1>9. ASSUME NEW q \in Quantities, BeginConsume(s, r, q) PROVE StockInv'
  <2> DEFINE status == IF q >= Unused(r) THEN "FULFILLED" ELSE doc[r].status
             row == [doc[r] EXCEPT !.used = doc[r].used + q, !.status = status]
  <2>1. doc[r].status = "ACTIVE" /\ q \in 1..Unused(r) /\ q \in Nat
    BY <1>3, <1>9 DEF BeginConsume
  <2>2. /\ doc[r] \in ReservationRow /\ doc[r].used \in Nat /\ doc[r].qty \in Nat /\ Unused(r) \in Nat
    BY <1>7, <2>1
  <2>3. /\ row.used = doc[r].used + q /\ row.status = status /\ row.wh = doc[r].wh /\ row.qty = doc[r].qty
        /\ row \in ReservationRow
    <3>1. status \in {"ACTIVE", "FULFILLED"} /\ doc[r].used + q \in Nat
      BY <2>1, <2>2
    <3> HIDE DEF status
    <3> QED
      BY <2>2, <3>1 DEF ReservationRow
  <2>4. Unused(r) = doc[r].qty - doc[r].used
    BY DEF Unused
  <2> HIDE DEF row
  <2>5. row.used <= row.qty /\ q <= Unused(r)
    BY <2>1, <2>2, <2>3, <2>4
  <2>6. ASSUME NEW v \in Warehouses
        PROVE  HeldRow(row, v) = IF v = doc[r].wh THEN Unused(r) - q ELSE 0
    <3>1. CASE q >= Unused(r)
      <4>1. Unused(r) - q = 0 /\ row.status = "FULFILLED"
        BY <2>1, <2>2, <2>3, <3>1
      <4> QED
        BY <4>1 DEF HeldRow
    <3>2. CASE ~(q >= Unused(r))
      <4>1. row.status = "ACTIVE" /\ row.qty - row.used = Unused(r) - q
        BY <2>1, <2>2, <2>3, <2>4, <3>2
      <4> QED
        BY <2>3, <4>1 DEF HeldRow
    <3> QED
      BY <3>1, <3>2
  <2>7. Stage(s, r, row, Unreserve(doc[r].wh, q), NoPost) /\ UNCHANGED <<level, posted, doc>>
    BY <1>9 DEF BeginConsume, row
  <2> QED
    BY <1>8, <2>1, <2>3, <2>5, <2>6, <2>7
<1>10. CASE BeginCancelReservation(s, r)
  <2> DEFINE row == [doc[r] EXCEPT !.status = "CANCELLED"]
  <2>1. doc[r].status = "ACTIVE"
    BY <1>10 DEF BeginCancelReservation
  <2>2. doc[r] \in ReservationRow /\ doc[r].used <= doc[r].qty /\ Unused(r) \in Nat
    BY <1>2, <1>7, <2>1 DEF DocOK, NoRow
  <2>3. /\ row.used = doc[r].used /\ row.status = "CANCELLED" /\ row.qty = doc[r].qty
        /\ row \in ReservationRow
    BY <2>2 DEF ReservationRow
  <2>4. Stage(s, r, row, Unreserve(doc[r].wh, Unused(r)), NoPost) /\ UNCHANGED <<level, posted, doc>>
    BY <1>10 DEF BeginCancelReservation, Released
  <2> HIDE DEF row
  <2>5. Unused(r) <= Unused(r) /\ Unused(r) - Unused(r) = 0 /\ row.used <= row.qty
    BY <2>2, <2>3
  <2>6. \A v \in Warehouses : HeldRow(row, v) = IF v = doc[r].wh THEN Unused(r) - Unused(r) ELSE 0
    BY <2>3, <2>5 DEF HeldRow
  <2> QED
    BY <1>8, <2>1, <2>2, <2>3, <2>4, <2>5, <2>6
<1> QED
  BY <1>1, <1>6, <1>9, <1>10

LEMMA CountsKeep ==
  ASSUME OneAtATime, StockInv, NEW s \in Sessions, CountRequest(s)
  PROVE  StockInv'
<1> USE StockAssumption
<1>1. PICK n \in Counts :
        \/ \E w \in Warehouses, q \in Quantities : BeginCount(s, n, w, q)
        \/ BeginSubmitCount(s, n)
  BY DEF CountRequest
<1>2. n \in Docs /\ n \notin Entries /\ n \notin Reservations /\ doc[n] \in CountRow \cup {NoRow}
  BY DEF StockInv, StockShape, DocOK, Docs
<1>3. \A w \in Warehouses : level[w].current \in Int /\ level[w].reserved \in Nat
  BY DEF StockInv, StockShape, LevelRow
<1>4. \A q \in Quantities : q \in Nat
  OBVIOUS
<1>5. ASSUME NEW w \in Warehouses, NEW q \in Quantities, BeginCount(s, n, w, q) PROVE StockInv'
  <2> DEFINE row == [status |-> "DRAFT", wh |-> w, counted |-> q, book |-> level[w].current]
  <2>1. row \in CountRow
    BY <1>3 DEF CountRow
  <2>2. doc[n] = NoRow
    BY <1>5 DEF BeginCount, Fresh
  <2>3. \A v \in Warehouses : ReservedBy(n, row, v) = 0 /\ PostedBy(n, row, v) = 0
    <3>1. \A v \in Warehouses : AdjustedRow(row, v) = 0 /\ AdjustedRow(doc[n], v) = 0
      BY <2>2 DEF AdjustedRow, NoRow
    <3> HIDE DEF row
    <3> QED
      BY <1>2, <3>1 DEF ReservedBy, PostedBy
  <2>4. DocOK(n, row)
    BY <1>2, <2>1 DEF DocOK
  <2>5. Stage(s, n, row, NoPut, NoPost) /\ UNCHANGED <<level, posted, doc>>
    BY <1>5 DEF BeginCount
  <2> HIDE DEF row
  <2> QED
    BY <1>2, <2>3, <2>4, <2>5, NothingStaged, StageKeeps
<1>6. CASE BeginSubmitCount(s, n)
  <2> DEFINE row == [doc[n] EXCEPT !.status = "SUBMITTED"]
             w == doc[n].wh
             post == [NoPost EXCEPT ![w] = Difference(n)]
             put == PutLevel(w, doc[n].counted, level[w].reserved)
  <2>1. doc[n] \in CountRow /\ doc[n].status = "DRAFT"
    BY <1>2, <1>6 DEF BeginSubmitCount, NoRow
  <2>2. w \in Warehouses /\ doc[n].counted \in Nat /\ doc[n].book \in Int
    BY <1>4, <2>1 DEF CountRow
  <2>3. /\ row \in CountRow /\ row.status = "SUBMITTED" /\ row.wh = w
        /\ row.counted = doc[n].counted /\ row.book = doc[n].book
    BY <2>1 DEF CountRow
  <2>4. \A v \in Warehouses : post[v] = IF v = w THEN doc[n].counted - doc[n].book ELSE 0
    BY <2>2 DEF NoPost, Difference
  <2>5. Stage(s, n, row, put, post) /\ UNCHANGED <<level, posted, doc>>
    BY <1>6 DEF BeginSubmitCount
  <2> HIDE DEF row, post
  <2>6. \A v \in Warehouses : ReservedBy(n, row, v) = 0 /\ PostedBy(n, row, v) = post[v]
    <3>1. \A v \in Warehouses : AdjustedRow(row, v) = post[v] /\ AdjustedRow(doc[n], v) = 0
      BY <2>1, <2>3, <2>4 DEF AdjustedRow
    <3>2. \A v \in Warehouses : post[v] \in Int
      BY <2>2, <2>4
    <3> QED
      BY <1>2, <3>1, <3>2 DEF ReservedBy, PostedBy
  <2>7. doc[n].counted - level[w].current = post[w] \/ Drifted(n, row, w)
    BY <1>3, <2>1, <2>2, <2>3, <2>4 DEF Drifted
  <2>8. level[w].reserved = level[w].reserved + ReservedBy(n, row, w)
    BY <1>3, <2>2, <2>6
  <2>9. \A v \in Warehouses \ {w} : ReservedBy(n, row, v) = 0 /\ PostedBy(n, row, v) = 0 /\ post[v] = 0
    BY <2>4, <2>6
  <2>10. DocOK(n, row)
    BY <1>2, <2>3 DEF DocOK
  <2>11. post[w] = PostedBy(n, row, w) /\ level[w].reserved \in Nat /\ doc[n].counted \in Int
    BY <1>3, <2>2, <2>6
  <2>12. \A v \in Warehouses : Consistent(n, row, v, Overwrite(level[v], put[v]), post[v])
    <3> HIDE DEF w
    <3> QED
      BY <1>2, <2>2, <2>7, <2>8, <2>9, <2>11, OnePut
  <2> HIDE DEF put
  <2> QED
    BY <1>2, <2>5, <2>10, <2>12, StageKeeps
<1> QED
  BY <1>1, <1>5, <1>6

-----------------------------------------------------------------------------
(* Theorems, of requests that do not overlap.                               *)

\* What a request stages agrees with the rows it read, and so do the rows.
THEOREM StockInvariance ==
  ASSUME OneAtATime
  PROVE  StockSpec => []StockInv
<1>1. StockInv /\ [StockNext]_stockVars => StockInv'
  <2> SUFFICES ASSUME StockInv, [StockNext]_stockVars PROVE StockInv'
    OBVIOUS
  <2>1. CASE StockNext
    BY <2>1, OneAtATime, EntriesKeep, ReservationsKeep, CountsKeep, CommitKeeps DEF StockNext
  <2>2. CASE UNCHANGED stockVars
    <3>1. UNCHANGED <<level, posted, doc, req>>
      BY <2>2 DEF stockVars
    <3>2. StockShape'
      BY <3>1 DEF StockInv, StockShape
    <3>3. AvailableIsNet' /\ ReservedIsHeld' /\ LedgerIsVouchers'
      BY <3>1
         DEF StockInv, AvailableIsNet, ReservedIsHeld, LedgerIsVouchers, Held, HeldBy, Unused, Entered, Adjusted
    <3>4. \A s \in Sessions : Staged(s)'
      BY <3>1 DEF StockInv, Staged, Consistent, ReservedBy, PostedBy, Drifted
    <3> QED
      BY <3>2, <3>3, <3>4 DEF StockInv
  <2> QED
    BY <2>1, <2>2
<1> QED
  BY <1>1, StockInvInit, PTL DEF StockSpec

\* After any sequence of entries, reservations and counts the available
\* quantity is what is on hand and not reserved, reserved_qty is the sum of
\* what active reservations have left, and the ledger has every submitted
\* voucher once.
THEOREM StockAlwaysAgrees ==
  ASSUME OneAtATime
  PROVE  StockSpec => []StockAgrees
<1>1. StockInv => StockAgrees
  <2> SUFFICES ASSUME StockInv PROVE StockTypeOK
    BY DEF StockAgrees, StockInv
  <2> QED
    BY DEF StockInv, StockShape, StockTypeOK, DocOK, Docs, Staged, Idle
<1> QED
  BY <1>1, StockInvariance, PTL

\* A movement of the level cache is a movement of the ledger by the same
\* amount, but for a count submitted after stock moved since its draft.
THEOREM LevelsMoveWithLedger ==
  ASSUME OneAtATime
  PROVE  StockSpec => LevelMovesWithLedger
<1> DEFINE Moves ==
      \A w \in Warehouses :
        \/ level'[w].current - level[w].current = posted'[w] - posted[w]
        \/ \E n \in Counts :
             /\ doc[n].status = "DRAFT" /\ doc'[n].status = "SUBMITTED"
             /\ doc[n].wh = w /\ doc[n].book # level[w].current
<1>1. StockInv /\ [StockNext]_stockVars => [Moves]_stockVars
  <2> SUFFICES ASSUME StockInv, StockNext PROVE Moves
    OBVIOUS
  <2>1. PICK s \in Sessions : EntryRequest(s) \/ ReservationRequest(s) \/ CountRequest(s) \/ Commit(s)
    BY DEF StockNext
  <2>2. CASE UNCHANGED <<level, posted>>
    <3>1. \A w \in Warehouses : level[w].current \in Int /\ posted[w] \in Int
      BY DEF StockInv, StockShape, LevelRow
    <3> QED
      BY <2>2, <3>1
  <2>3. CASE Commit(s)
    <3>1. \A w \in Warehouses :
            level'[w].current - level[w].current = posted'[w] - posted[w] \/ Drifted(req[s].doc, req[s].row, w)
      BY <2>3, OneAtATime, CommitKeeps
    <3>2. doc'[req[s].doc] = req[s].row
      BY <2>3 DEF Commit, StockInv, StockShape, Staged
    <3> QED
      BY <3>1, <3>2 DEF Drifted
  <2>4. CASE EntryRequest(s) \/ ReservationRequest(s) \/ CountRequest(s)
    BY <2>2, <2>4
       DEF EntryRequest, ReservationRequest, CountRequest, CreateEntry, BeginSubmitEntry, BeginCancelEntry,
           BeginReserve, BeginConsume, BeginCancelReservation, BeginCount, BeginSubmitCount
  <2> QED
    BY <2>1, <2>3, <2>4
<1> QED
  BY <1>1, StockInvariance, PTL DEF StockSpec, LevelMovesWithLedger

-----------------------------------------------------------------------------
(* What an activation knows of the nodes.                                   *)

\* What it or the stored snapshot calls COMPLETED has returned a result, and
\* the nodes it is about to run depend on such nodes only.
ResultsAreReal ==
  /\ \A n \in Nodes : saved[n] = "COMPLETED" => n \in succeeded
  /\ \A x \in Executors :
       /\ \A n \in Nodes : mem[x][n] = "COMPLETED" => n \in succeeded
       /\ \A n \in batch[x] : Deps[n] \subseteq succeeded
       /\ good[x] \subseteq succeeded

\* A recovery never has an unsafe node to run; the first activation has each
\* of them to run until it starts it, and then never again.
UnsafeHeld ==
  \A n \in Nodes \ Safe :
    /\ \A x \in Executors \ {First} :
         /\ n \notin batch[x]
         /\ pc[x] # "off" => mem[x][n] # "PENDING"
    /\ n \in batch[First] => started[n] = 0 /\ mem[First][n] # "PENDING"
    /\ mem[First][n] = "PENDING" => started[n] = 0
    /\ started[n] <= 1

DagInv ==
  /\ DagTypeOK
  /\ ResultsAreReal
  /\ UnsafeHeld
  /\ StartedAfterDependencies

LEMMA DagInvInit == DagInit => DagInv
BY DagAssumption DEF DagInit, DagInv, DagTypeOK, RecordStatus, Final, TaskStatus, ExecutorPC, AllPending,
   ResultsAreReal, UnsafeHeld, StartedAfterDependencies

-----------------------------------------------------------------------------
(* Types. *)

LEMMA StatusIsRecorded ==
  ASSUME NEW nodes
  PROVE  WorkflowStatus(nodes) \in RecordStatus \ {"NONE"}
BY DEF WorkflowStatus, RecordStatus, Final

LEMMA DagTypeNext == DagTypeOK /\ [DagNext]_dagVars => DagTypeOK'
<1> SUFFICES ASSUME DagTypeOK, [DagNext]_dagVars PROVE DagTypeOK'
  OBVIOUS
<1> USE DagAssumption DEF DagTypeOK, ExecutorPC, recordVars, historyVars, faultVars
<1>1. ASSUME NEW p \in Processes, Submit(p) PROVE DagTypeOK'
  BY <1>1, StatusIsRecorded DEF Submit, Persist, AllPending, TaskStatus
<1>2. ASSUME NEW p \in Processes, CrashProcess(p) PROVE DagTypeOK'
  BY <1>2 DEF CrashProcess
<1>3. ASSUME NEW p \in Processes, Startup(p) PROVE DagTypeOK'
  <2>1. UNCHANGED <<host, pc, mem, batch, good, historyVars, faultVars>> /\ up' = up \cup {p}
    BY <1>3 DEF Startup
  <2>2. record' \in RecordStatus /\ saved' \in [Nodes -> TaskStatus]
    <3>1. CASE /\ record' = "RECOVERY_REQUIRED"
               /\ saved' = [n \in Nodes |-> IF saved[n] = "RUNNING" THEN "PREEMPTED" ELSE saved[n]]
      BY <3>1 DEF RecordStatus, TaskStatus
    <3>2. CASE UNCHANGED recordVars
      BY <3>2
    <3> QED
      BY <1>3, <3>1, <3>2 DEF Startup
  <2> QED
    BY <2>1, <2>2
<1>4. ASSUME NEW p \in Processes, NEW x \in Executors, Recover(p, x) PROVE DagTypeOK'
  <2>1. RecoverySnapshot \in [Nodes -> TaskStatus]
    BY DEF RecoverySnapshot, TaskStatus
  <2> QED
    BY <1>4, <2>1 DEF Recover, RecordStatus
<1>5. ASSUME NEW x \in Executors, Begin(x) \/ Claim(x) \/ Collect(x) \/ Finish(x) PROVE DagTypeOK'
  <2>1. PICK next \in {"scan", "execute", "done"} : PersistAnd(x, next)
    BY <1>5 DEF Begin, Claim, Collect, Finish
  <2>2. record' = WorkflowStatus(mem[x]) /\ saved' = mem[x] /\ pc' = [pc EXCEPT ![x] = next]
        /\ UNCHANGED <<up, host, mem, batch, good, historyVars, faultVars>>
    BY <2>1 DEF PersistAnd, Persist
  <2>3. record' \in RecordStatus
    BY <2>2, StatusIsRecorded
  <2>4. saved' \in [Nodes -> TaskStatus]
    BY <2>2
  <2>5. pc' \in [Executors -> ExecutorPC]
    BY <2>2
  <2> QED
    BY <2>2, <2>3, <2>4, <2>5
<1>6. ASSUME NEW x \in Executors, Scan(x) PROVE DagTypeOK'
  <2>1. CASE IsFinished(mem[x])
    BY <1>6, <2>1 DEF Scan
  <2>2. CASE ~IsFinished(mem[x])
    <3> DEFINE next == [n \in Nodes |->
                 IF n \in Doomed(mem[x]) THEN "PREEMPTED"
                 ELSE IF n \in Ready(mem[x]) THEN "RUNNING" ELSE mem[x][n]]
    <3>1. next \in [Nodes -> TaskStatus] /\ Ready(mem[x]) \subseteq Nodes
      BY DEF TaskStatus, Ready
    <3>2. /\ mem' = [mem EXCEPT ![x] = next]
          /\ batch' = [batch EXCEPT ![x] = Ready(mem[x])]
          /\ \E s \in {"claim", "scan", "last"} : pc' = [pc EXCEPT ![x] = s]
          /\ UNCHANGED <<record, saved, up, host, good, started, succeeded, crashes, failures>>
      BY <1>6, <2>2 DEF Scan
    <3> HIDE DEF next
    <3> QED
      BY <3>1, <3>2
  <2> QED
    BY <2>1, <2>2
<1>7. ASSUME NEW x \in Executors, NEW n \in Nodes, NEW ok \in BOOLEAN, ExecuteNode(x, n, ok)
      PROVE  DagTypeOK'
  BY <1>7 DEF ExecuteNode
<1>8. ASSUME NEW x \in Executors, MarkResults(x) PROVE DagTypeOK'
  BY <1>8 DEF MarkResults, TaskStatus
<1>9. ASSUME NEW x \in Executors, ExecutionFails(x) PROVE DagTypeOK'
  BY <1>9 DEF ExecutionFails
<1>10. CASE UNCHANGED dagVars
  BY <1>10 DEF dagVars
<1> QED
  BY <1>1, <1>2, <1>3, <1>4, <1>5, <1>6, <1>7, <1>8, <1>9, <1>10 DEF DagNext, ExecutorStep

-----------------------------------------------------------------------------
(* A turn of the loop: nothing becomes COMPLETED or PENDING again, and what  *)
(* is taken into the batch was PENDING with all its dependencies COMPLETED.  *)
LEMMA ScanShape ==
  ASSUME DagTypeOK, NEW x \in Executors, Scan(x)
  PROVE  /\ \E s \in {"claim", "scan", "last"} : pc' = [pc EXCEPT ![x] = s]
         /\ pc[x] = "scan"
         /\ UNCHANGED <<record, saved, up, host, good, started, succeeded, crashes, failures>>
         /\ \A y \in Executors \ {x} : mem'[y] = mem[y] /\ batch'[y] = batch[y]
         /\ \A n \in Nodes, s \in {"COMPLETED", "PENDING"} : mem'[x][n] = s => mem[x][n] = s
         /\ \A n \in batch'[x] :
              \/ n \in batch[x] /\ mem'[x][n] = mem[x][n]
              \/ /\ n \in Nodes /\ mem[x][n] = "PENDING" /\ mem'[x][n] # "PENDING"
                 /\ \A m \in Deps[n] : mem[x][m] = "COMPLETED"
<1> USE DagAssumption DEF DagTypeOK, recordVars, historyVars, faultVars
<1>1. CASE IsFinished(mem[x])
  BY <1>1 DEF Scan
<1>2. CASE ~IsFinished(mem[x])
  <2> DEFINE next == [n \in Nodes |->
               IF n \in Doomed(mem[x]) THEN "PREEMPTED"
               ELSE IF n \in Ready(mem[x]) THEN "RUNNING" ELSE mem[x][n]]
  <2>1. /\ mem' = [mem EXCEPT ![x] = next]
        /\ batch' = [batch EXCEPT ![x] = Ready(mem[x])]
        /\ \E s \in {"claim", "scan", "last"} : pc' = [pc EXCEPT ![x] = s]
        /\ pc[x] = "scan"
        /\ UNCHANGED <<record, saved, up, host, good, started, succeeded, crashes, failures>>
    BY <1>2 DEF Scan
  <2>2. /\ \A n \in Nodes, s \in {"COMPLETED", "PENDING"} : next[n] = s => mem[x][n] = s
        /\ \A n \in Ready(mem[x]) : /\ n \in Nodes /\ mem[x][n] = "PENDING" /\ next[n] # "PENDING"
                                    /\ \A m \in Deps[n] : mem[x][m] = "COMPLETED"
    BY DEF Ready
  <2> HIDE DEF next
  <2>3. mem'[x] = next /\ batch'[x] = Ready(mem[x])
    BY <2>1
  <2>4. \A y \in Executors \ {x} : mem'[y] = mem[y] /\ batch'[y] = batch[y]
    BY <2>1
  <2>5. \A n \in Nodes, s \in {"COMPLETED", "PENDING"} : mem'[x][n] = s => mem[x][n] = s
    BY <2>2, <2>3
  <2>6. \A n \in batch'[x] :
          /\ n \in Nodes /\ mem[x][n] = "PENDING" /\ mem'[x][n] # "PENDING"
          /\ \A m \in Deps[n] : mem[x][m] = "COMPLETED"
    BY <2>2, <2>3
  <2>7. \A n \in batch'[x] :
          \/ n \in batch[x] /\ mem'[x][n] = mem[x][n]
          \/ /\ n \in Nodes /\ mem[x][n] = "PENDING" /\ mem'[x][n] # "PENDING"
             /\ \A m \in Deps[n] : mem[x][m] = "COMPLETED"
    BY <2>6
  <2> QED
    BY <2>1, <2>4, <2>5, <2>7
<1> QED
  BY <1>1, <1>2

-----------------------------------------------------------------------------
(* Results: what is called COMPLETED, and the order of the nodes. *)

LEMMA ResultsNext ==
  ASSUME DagInv, [DagNext]_dagVars
  PROVE  ResultsAreReal' /\ StartedAfterDependencies'
<1> USE DagAssumption DEF DagInv, DagTypeOK, ResultsAreReal, StartedAfterDependencies,
        recordVars, historyVars, faultVars
<1>1. ASSUME NEW p \in Processes, Submit(p) PROVE ResultsAreReal' /\ StartedAfterDependencies'
  BY <1>1 DEF Submit, Persist, AllPending
<1>2. ASSUME NEW p \in Processes, CrashProcess(p) \/ Startup(p)
      PROVE  ResultsAreReal' /\ StartedAfterDependencies'
  BY <1>2 DEF CrashProcess, Startup
<1>3. ASSUME NEW p \in Processes, NEW x \in Executors, Recover(p, x)
      PROVE  ResultsAreReal' /\ StartedAfterDependencies'
  <2>1. \A n \in Nodes : RecoverySnapshot[n] = "COMPLETED" => saved[n] = "COMPLETED"
    BY DEF RecoverySnapshot
  <2>2. mem' = [mem EXCEPT ![x] = RecoverySnapshot] /\ saved' = RecoverySnapshot
        /\ UNCHANGED <<batch, good, started, succeeded>>
    BY <1>3 DEF Recover
  <2> QED
    BY <2>1, <2>2
<1>4. ASSUME NEW x \in Executors, Begin(x) \/ Claim(x) \/ Collect(x) \/ Finish(x)
      PROVE  ResultsAreReal' /\ StartedAfterDependencies'
  BY <1>4 DEF Begin, Claim, Collect, Finish, PersistAnd, Persist
<1>5. ASSUME NEW x \in Executors, Scan(x) PROVE ResultsAreReal' /\ StartedAfterDependencies'
  <2>1. ASSUME NEW n \in batch'[x] PROVE Deps[n] \subseteq succeeded
    BY <1>5, <2>1, ScanShape
  <2>2. \A n \in Nodes : mem'[x][n] = "COMPLETED" => n \in succeeded
    BY <1>5, ScanShape
  <2>3. /\ \A y \in Executors \ {x} : mem'[y] = mem[y] /\ batch'[y] = batch[y]
        /\ UNCHANGED <<saved, good, started, succeeded>>
    BY <1>5, ScanShape
  <2>4. ASSUME NEW y \in Executors
        PROVE  /\ \A n \in Nodes : mem'[y][n] = "COMPLETED" => n \in succeeded
               /\ \A n \in batch'[y] : Deps[n] \subseteq succeeded
    <3>1. CASE y = x
      BY <2>1, <2>2, <3>1
    <3>2. CASE y # x
      BY <2>3, <3>2
    <3> QED
      BY <3>1, <3>2
  <2> QED
    BY <2>3, <2>4
<1>6. ASSUME NEW x \in Executors, NEW n \in Nodes, NEW ok \in BOOLEAN, ExecuteNode(x, n, ok)
      PROVE  ResultsAreReal' /\ StartedAfterDependencies'
  <2>1. /\ n \in batch[x]
        /\ succeeded \subseteq succeeded'
        /\ good' = [good EXCEPT ![x] = IF ok THEN @ \cup {n} ELSE @]
        /\ batch' = [batch EXCEPT ![x] = @ \ {n}]
        /\ started' = [started EXCEPT ![n] = @ + 1]
        /\ ok => n \in succeeded'
        /\ UNCHANGED <<mem, saved>>
    BY <1>6 DEF ExecuteNode
  <2>2. ResultsAreReal'
    <3>1. \A y \in Executors : good'[y] \subseteq succeeded' /\ batch'[y] \subseteq batch[y]
      BY <2>1
    <3> QED
      BY <2>1, <3>1
  <2>3. StartedAfterDependencies'
    <3>1. ASSUME NEW m \in Nodes, started'[m] > 0 PROVE Deps[m] \subseteq succeeded
      <4>1. CASE m = n
        BY <2>1, <4>1
      <4>2. CASE m # n
        BY <2>1, <3>1, <4>2
      <4> QED
        BY <4>1, <4>2
    <3> QED
      BY <2>1, <3>1
  <2> QED
    BY <2>2, <2>3
<1>7. ASSUME NEW x \in Executors, MarkResults(x) PROVE ResultsAreReal' /\ StartedAfterDependencies'
  BY <1>7 DEF MarkResults
<1>8. ASSUME NEW x \in Executors, ExecutionFails(x) PROVE ResultsAreReal' /\ StartedAfterDependencies'
  BY <1>8 DEF ExecutionFails
<1>9. CASE UNCHANGED dagVars
  BY <1>9 DEF dagVars
<1> QED
  BY <1>1, <1>2, <1>3, <1>4, <1>5, <1>6, <1>7, <1>8, <1>9 DEF DagNext, ExecutorStep

-----------------------------------------------------------------------------
(* Unsafe nodes: held by every recovery, started once by the first.         *)

LEMMA UnsafeNext ==
  ASSUME DagInv, [DagNext]_dagVars
  PROVE  UnsafeHeld'
<1> SUFFICES ASSUME NEW n \in Nodes \ Safe
             PROVE  /\ \A x \in Executors \ {First} :
                         /\ n \notin batch'[x]
                         /\ pc'[x] # "off" => mem'[x][n] # "PENDING"
                    /\ n \in batch'[First] => started'[n] = 0 /\ mem'[First][n] # "PENDING"
                    /\ mem'[First][n] = "PENDING" => started'[n] = 0
                    /\ started'[n] <= 1
  BY DEF UnsafeHeld
<1> DEFINE Kept == /\ \A x \in Executors \ {First} :
                        /\ n \notin batch'[x]
                        /\ pc'[x] # "off" => mem'[x][n] # "PENDING"
                   /\ n \in batch'[First] => started'[n] = 0 /\ mem'[First][n] # "PENDING"
                   /\ mem'[First][n] = "PENDING" => started'[n] = 0
                   /\ started'[n] <= 1
<1>0. /\ \A x \in Executors \ {First} :
           /\ n \notin batch[x]
           /\ pc[x] # "off" => mem[x][n] # "PENDING"
      /\ n \in batch[First] => started[n] = 0 /\ mem[First][n] # "PENDING"
      /\ mem[First][n] = "PENDING" => started[n] = 0
      /\ started[n] <= 1
  BY DEF DagInv, UnsafeHeld
<1> USE <1>0, DagAssumption DEF DagInv, DagTypeOK, recordVars, historyVars, faultVars
<1>1. ASSUME NEW p \in Processes, Submit(p) PROVE Kept
  BY <1>1 DEF Submit
<1>2. ASSUME NEW p \in Processes, CrashProcess(p) \/ Startup(p) PROVE Kept
  BY <1>2 DEF CrashProcess, Startup, Active
<1>3. ASSUME NEW p \in Processes, NEW x \in Executors, Recover(p, x) PROVE Kept
  <2>1. RecoverySnapshot[n] # "PENDING"
    BY DEF RecoverySnapshot, Retryable
  <2>2. /\ x # First
        /\ mem' = [mem EXCEPT ![x] = RecoverySnapshot]
        /\ pc' = [pc EXCEPT ![x] = "begin"]
        /\ UNCHANGED <<batch, started>>
    BY <1>3 DEF Recover
  <2> QED
    BY <2>1, <2>2
<1>4. ASSUME NEW x \in Executors, Begin(x) \/ Claim(x) \/ Collect(x) \/ Finish(x) PROVE Kept
  BY <1>4 DEF Begin, Claim, Collect, Finish, PersistAnd
<1>5. ASSUME NEW x \in Executors, Scan(x) PROVE Kept
  <2>1. \A y \in Executors \ {x} : mem'[y] = mem[y] /\ batch'[y] = batch[y] /\ pc'[y] = pc[y]
    BY <1>5, ScanShape
  <2>2. /\ mem'[x][n] = "PENDING" => mem[x][n] = "PENDING"
        /\ n \in batch'[x] => \/ n \in batch[x] /\ mem'[x][n] = mem[x][n]
                              \/ mem[x][n] = "PENDING" /\ mem'[x][n] # "PENDING"
        /\ pc[x] = "scan" /\ started' = started
    BY <1>5, ScanShape
  <2>3. CASE x = First
    BY <2>1, <2>2, <2>3
  <2>4. CASE x # First
    BY <2>1, <2>2, <2>4
  <2> QED
    BY <2>3, <2>4
<1>6. ASSUME NEW x \in Executors, NEW m \in Nodes, NEW ok \in BOOLEAN, ExecuteNode(x, m, ok) PROVE Kept
  <2>1. /\ m \in batch[x]
        /\ batch' = [batch EXCEPT ![x] = @ \ {m}]
        /\ started' = [started EXCEPT ![m] = @ + 1]
        /\ UNCHANGED <<mem, pc>>
    BY <1>6 DEF ExecuteNode
  <2>2. CASE m = n
    BY <2>1, <2>2
  <2>3. CASE m # n
    BY <2>1, <2>3
  <2> QED
    BY <2>2, <2>3
<1>7. ASSUME NEW x \in Executors, MarkResults(x) PROVE Kept
  <2>1. /\ mem'[x][n] = "PENDING" => mem[x][n] = "PENDING"
        /\ \A y \in Executors \ {x} : mem'[y] = mem[y] /\ pc'[y] = pc[y]
        /\ pc[x] = "execute" /\ batch[x] = {}
        /\ UNCHANGED <<batch, started>>
    BY <1>7 DEF MarkResults
  <2> QED
    BY <2>1
<1>8. ASSUME NEW x \in Executors, ExecutionFails(x) PROVE Kept
  BY <1>8 DEF ExecutionFails
<1>9. CASE UNCHANGED dagVars
  BY <1>9 DEF dagVars
<1> QED
  BY <1>1, <1>2, <1>3, <1>4, <1>5, <1>6, <1>7, <1>8, <1>9 DEF DagNext, ExecutorStep

-----------------------------------------------------------------------------
(* The results. *)

LEMMA DagInvNext == DagInv /\ [DagNext]_dagVars => DagInv'
BY DagTypeNext, ResultsNext, UnsafeNext DEF DagInv

\* The inductive invariant holds for every workflow, however often its process
\* dies and its record is quarantined, recovered and overwritten.
THEOREM DagInvariance == DagSpec => []DagInv
BY DagInvInit, DagInvNext, PTL DEF DagSpec

\* A node outside SAFE_RECOVERY_NODES is executed at most once, through
\* crashes, quarantine and recovery by any number of processes.
THEOREM UnsafeNodesRunOnce == DagSpec => []UnsafeNotRepeated
<1>1. DagInv => UnsafeNotRepeated
  BY DEF DagInv, UnsafeHeld, UnsafeNotRepeated
<1> QED
  BY <1>1, DagInvariance, PTL

\* The records keep their types, and no node runs before all it depends on
\* returned a result, whatever snapshot an execution is rebuilt from.
THEOREM NodesRunInOrder == DagSpec => []RecordsInOrder
<1>1. DagInv => RecordsInOrder
  BY DEF DagInv, RecordsInOrder
<1> QED
  BY <1>1, DagInvariance, PTL

-----------------------------------------------------------------------------
(* One API process.  The quarantine at startup then finds no activation      *)
(* alive, which is what every claim on the record rests on.                  *)

Lone == \A p, q \in Processes : p = q

\* Where activation x is, and what the nodes it executes are called.
Claimed(x) ==
  /\ record = "NONE" => pc[x] = "off"
  /\ pc[x] \in Active => host[x] \in up /\ record \notin {"NONE", "RECOVERY_REQUIRED"}
  /\ pc[x] \notin {"execute", "done"} => good[x] = {}
  /\ pc[x] \in {"claim", "execute"} => \A n \in batch[x] \cup good[x] : mem[x][n] # "PENDING"
  /\ pc[x] = "execute" => saved = mem[x]

LoneInv == DagTypeOK /\ OneExecution /\ \A x \in Executors : Claimed(x)

LEMMA LoneInit == DagInit => LoneInv
<1> SUFFICES ASSUME DagInit PROVE LoneInv
  OBVIOUS
<1>1. DagTypeOK
  BY DagInvInit DEF DagInv
<1> QED
  BY <1>1 DEF DagInit, LoneInv, OneExecution, Claimed, Active, ExecutorPC

\* A step of activation x that stays active, or ends, and of no other.
LEMMA AloneKept ==
  ASSUME LoneInv, NEW x \in Executors, pc[x] \in Active, DagTypeOK', Claimed(x)', record' # "NONE",
         \A y \in Executors \ {x} :
           pc'[y] = pc[y] /\ good'[y] = good[y] /\ mem'[y] = mem[y] /\ batch'[y] = batch[y]
  PROVE  LoneInv'
<1>1. \A y \in Executors \ {x} : pc[y] \notin Active
  BY DEF LoneInv, OneExecution
<1>2. OneExecution'
  BY <1>1 DEF OneExecution
<1>3. ASSUME NEW y \in Executors \ {x} PROVE Claimed(y)'
  BY <1>1, <1>3 DEF LoneInv, Claimed, Active, ExecutorPC
<1> QED
  BY <1>2, <1>3 DEF LoneInv

LEMMA LoneNext == Lone /\ LoneInv /\ [DagNext]_dagVars => LoneInv'
<1> SUFFICES ASSUME Lone, LoneInv, [DagNext]_dagVars PROVE LoneInv'
  OBVIOUS
<1>0. DagTypeOK'
  BY DagTypeNext DEF LoneInv
<1>i. \A x \in Executors : Claimed(x)
  BY DEF LoneInv
<1> USE DagAssumption DEF recordVars, historyVars, faultVars
<1>1. ASSUME NEW p \in Processes, Submit(p) PROVE LoneInv'
  <2>1. \A x \in Executors : pc[x] \notin Active /\ pc[x] = "off"
    BY <1>1, <1>i DEF Submit, Claimed, Active
  <2>2. /\ record' \notin {"NONE", "RECOVERY_REQUIRED"}
        /\ pc' = [pc EXCEPT ![First] = "begin"] /\ host' = [host EXCEPT ![First] = p]
        /\ p \in up' /\ UNCHANGED <<mem, batch, good>>
    BY <1>1 DEF Submit, Persist, WorkflowStatus
  <2>3. good[First] = {}
    BY <1>i, <2>1 DEF Claimed
  <2> QED
    BY <1>0, <1>1, <1>i, <2>1, <2>2, <2>3 DEF LoneInv, OneExecution, Claimed, Active, ExecutorPC, DagTypeOK
<1>2. ASSUME NEW p \in Processes, CrashProcess(p) PROVE LoneInv'
  <2>1. \A x \in Executors : pc[x] \in Active => host[x] = p
    BY <1>2, <1>i DEF CrashProcess, Claimed, Lone, LoneInv, DagTypeOK
  <2>2. \A x \in Executors : pc'[x] \notin Active /\ (pc'[x] = pc[x] \/ pc'[x] = "done")
    BY <1>2, <2>1 DEF CrashProcess, Active
  <2> QED
    BY <1>0, <1>2, <1>i, <2>2 DEF CrashProcess, LoneInv, OneExecution, Claimed, Active, ExecutorPC
<1>3. ASSUME NEW p \in Processes, Startup(p) PROVE LoneInv'
  <2>1. up = {}
    BY <1>3 DEF Startup, Lone, LoneInv, DagTypeOK
  <2>2. \A x \in Executors : pc[x] \notin Active
    BY <1>i, <2>1 DEF Claimed
  <2> QED
    BY <1>0, <1>3, <1>i, <2>2 DEF Startup, LoneInv, OneExecution, Claimed, Active, ExecutorPC
<1>4. ASSUME NEW p \in Processes, NEW x \in Executors, Recover(p, x) PROVE LoneInv'
  <2>1. \A y \in Executors : pc[y] \notin Active
    BY <1>4, <1>i DEF Recover, Claimed
  <2>2. /\ record' = "RECOVERING" /\ p \in up' /\ UNCHANGED <<batch, good>>
        /\ pc' = [pc EXCEPT ![x] = "begin"] /\ host' = [host EXCEPT ![x] = p]
        /\ \A y \in Executors \ {x} : mem'[y] = mem[y]
        /\ pc[x] = "off"
    BY <1>4 DEF Recover, LoneInv, DagTypeOK
  <2> QED
    BY <1>0, <1>i, <2>1, <2>2 DEF LoneInv, OneExecution, Claimed, Active, ExecutorPC, DagTypeOK
<1>5. ASSUME NEW x \in Executors, Begin(x) \/ Claim(x) \/ Collect(x) \/ Finish(x) PROVE LoneInv'
  <2>1. /\ pc[x] \in {"begin", "claim", "collect", "last"}
        /\ \E next \in {"scan", "execute", "done"} :
             /\ pc' = [pc EXCEPT ![x] = next]
             /\ next = "execute" <=> pc[x] = "claim"
        /\ record' \notin {"NONE", "RECOVERY_REQUIRED"} /\ saved' = mem[x]
        /\ UNCHANGED <<up, host, mem, batch, good>>
    BY <1>5 DEF Begin, Claim, Collect, Finish, PersistAnd, Persist, WorkflowStatus
  <2>2. Claimed(x)'
    BY <1>i, <2>1 DEF Claimed, Active, ExecutorPC, LoneInv, DagTypeOK
  <2>3. pc[x] \in Active
    BY <2>1 DEF Active, ExecutorPC
  <2>4. \A y \in Executors \ {x} : pc'[y] = pc[y]
    BY <2>1
  <2> QED
    BY <1>0, <1>i, <2>1, <2>2, <2>3, <2>4, AloneKept DEF Claimed
<1>6. ASSUME NEW x \in Executors, Scan(x) PROVE LoneInv'
  <2>1. /\ \E s \in {"claim", "scan", "last"} : pc' = [pc EXCEPT ![x] = s]
        /\ pc[x] = "scan"
        /\ UNCHANGED <<record, saved, up, host, good>>
        /\ \A y \in Executors \ {x} : mem'[y] = mem[y] /\ batch'[y] = batch[y]
    BY <1>6, ScanShape DEF LoneInv
  <2>2. pc'[x] = "claim" => \A n \in batch'[x] : mem'[x][n] # "PENDING"
    <3>1. CASE IsFinished(mem[x])
      BY <1>6, <3>1 DEF Scan, LoneInv, DagTypeOK
    <3>2. CASE ~IsFinished(mem[x])
      <4> DEFINE next == [n \in Nodes |->
                   IF n \in Doomed(mem[x]) THEN "PREEMPTED"
                   ELSE IF n \in Ready(mem[x]) THEN "RUNNING" ELSE mem[x][n]]
      <4>1. mem' = [mem EXCEPT ![x] = next] /\ batch' = [batch EXCEPT ![x] = Ready(mem[x])]
        BY <1>6, <3>2 DEF Scan
      <4>2. \A n \in Ready(mem[x]) : next[n] # "PENDING"
        BY DEF Ready
      <4> HIDE DEF next
      <4> QED
        BY <4>1, <4>2 DEF LoneInv, DagTypeOK
    <3> QED
      BY <3>1, <3>2
  <2>3. Claimed(x)'
    BY <1>i, <2>1, <2>2 DEF Claimed, Active, ExecutorPC, LoneInv, DagTypeOK
  <2>4. pc[x] \in Active /\ \A y \in Executors \ {x} : pc'[y] = pc[y]
    BY <2>1 DEF Active, ExecutorPC
  <2> QED
    BY <1>0, <1>i, <2>1, <2>3, <2>4, AloneKept DEF Claimed
<1>7. ASSUME NEW x \in Executors, NEW n \in Nodes, NEW ok \in BOOLEAN, ExecuteNode(x, n, ok) PROVE LoneInv'
  <2>1. /\ pc[x] = "execute" /\ n \in batch[x]
        /\ batch' = [batch EXCEPT ![x] = @ \ {n}]
        /\ good' = [good EXCEPT ![x] = IF ok THEN @ \cup {n} ELSE @]
        /\ UNCHANGED <<record, saved, up, host, pc, mem>>
    BY <1>7 DEF ExecuteNode
  <2>2. batch'[x] \cup good'[x] \subseteq batch[x] \cup good[x]
    BY <2>1 DEF LoneInv, DagTypeOK
  <2>3. Claimed(x)'
    BY <1>i, <2>1, <2>2 DEF Claimed
  <2>4. pc[x] \in Active
    BY <2>1 DEF Active, ExecutorPC
  <2> QED
    BY <1>0, <1>i, <2>1, <2>3, <2>4, AloneKept DEF Claimed
<1>8. ASSUME NEW x \in Executors, MarkResults(x) PROVE LoneInv'
  <2>1. /\ pc[x] = "execute" /\ pc' = [pc EXCEPT ![x] = "collect"] /\ good' = [good EXCEPT ![x] = {}]
        /\ \A y \in Executors \ {x} : mem'[y] = mem[y]
        /\ UNCHANGED <<record, saved, up, host, batch>>
    BY <1>8 DEF MarkResults, LoneInv, DagTypeOK
  <2>2. Claimed(x)'
    BY <1>i, <2>1 DEF Claimed, Active, ExecutorPC, LoneInv, DagTypeOK
  <2>3. pc[x] \in Active
    BY <2>1 DEF Active, ExecutorPC
  <2> QED
    BY <1>0, <1>i, <2>1, <2>2, <2>3, AloneKept DEF Claimed
<1>9. ASSUME NEW x \in Executors, ExecutionFails(x) PROVE LoneInv'
  <2>1. /\ pc[x] \in Active /\ pc' = [pc EXCEPT ![x] = "done"]
        /\ UNCHANGED <<record, saved, up, host, mem, batch, good>>
    BY <1>9 DEF ExecutionFails, Active, ExecutorPC
  <2>2. Claimed(x)'
    BY <2>1 DEF Claimed, Active, ExecutorPC, LoneInv, DagTypeOK
  <2> QED
    BY <1>0, <1>i, <2>1, <2>2, AloneKept DEF Claimed
<1>10. CASE UNCHANGED dagVars
  BY <1>0, <1>10, <1>i DEF dagVars, LoneInv, OneExecution, Claimed
<1> QED
  BY <1>1, <1>2, <1>3, <1>4, <1>5, <1>6, <1>7, <1>8, <1>9, <1>10 DEF DagNext, ExecutorStep

LEMMA LoneInvariance == ASSUME Lone PROVE DagSpec => []LoneInv
<1>1. LoneInv /\ [DagNext]_dagVars => LoneInv'
  BY LoneNext
<1> QED
  BY <1>1, LoneInit, PTL DEF DagSpec

-----------------------------------------------------------------------------
(* What is finished is what the one activation has in memory.               *)

\* The nodes of a batch are RUNNING in memory until its results are marked.
BatchRuns(x) ==
  pc[x] \in {"claim", "execute"} => \A n \in batch[x] \cup good[x] : mem[x][n] = "RUNNING"

\* A record that is final while an activation lives is that activation's own.
FinalIsOwn(x) ==
  pc[x] \in Active /\ record \in Final => record = WorkflowStatus(mem[x]) /\ saved = mem[x]

FinalInv ==
  \A x \in Executors : (pc[x] = "off" => mem[x] = AllPending) /\ BatchRuns(x) /\ FinalIsOwn(x)

LEMMA FinalIsFinished ==
  ASSUME NEW nodes, WorkflowStatus(nodes) \in Final
  PROVE  \A n \in Nodes : nodes[n] \in Ended
BY DEF WorkflowStatus, Final, IsFinished, Ended

\* No failure spreads to a node whose dependencies are all COMPLETED.
LEMMA ReadyNotDoomed ==
  ASSUME NEW nodes
  PROVE  Ready(nodes) \cap Doomed(nodes) = {}
<1> DEFINE C == {n \in Nodes : nodes[n] = "PENDING"} \ Ready(nodes)
<1>1. Stopped(nodes, C) \subseteq C
  <2>1. \A m \in C : nodes[m] # "COMPLETED"
    OBVIOUS
  <2>2. ASSUME NEW n \in Nodes, nodes[n] = "PENDING", NEW m \in Deps[n],
               m \in C \/ nodes[m] \in {"FAILED", "PREEMPTED"}
        PROVE  n \in C
    BY <2>1, <2>2 DEF Ready
  <2> HIDE DEF C
  <2> QED
    BY <2>2 DEF Stopped
<1>2. C \in SUBSET {n \in Nodes : nodes[n] = "PENDING"} /\ \A n \in Ready(nodes) : n \notin C
  OBVIOUS
<1> HIDE DEF C
<1> QED
  BY <1>1, <1>2 DEF Doomed

LEMMA FinalInit == DagInit => FinalInv
BY DEF DagInit, FinalInv, BatchRuns, FinalIsOwn, Active

\* A step of activation x leaves the others as they are, and them inactive.
LEMMA OthersKept ==
  ASSUME LoneInv, FinalInv, NEW x \in Executors, pc[x] \in Active,
         \A y \in Executors \ {x} :
           pc'[y] = pc[y] /\ good'[y] = good[y] /\ mem'[y] = mem[y] /\ batch'[y] = batch[y],
         pc'[x] # "off", BatchRuns(x)', FinalIsOwn(x)'
  PROVE  FinalInv'
<1>1. \A y \in Executors \ {x} : pc[y] \notin Active
  BY DEF LoneInv, OneExecution
<1>2. ASSUME NEW y \in Executors \ {x}
      PROVE  (pc'[y] = "off" => mem'[y] = AllPending) /\ BatchRuns(y)' /\ FinalIsOwn(y)'
  BY <1>1, <1>2 DEF FinalInv, BatchRuns, FinalIsOwn, Active, ExecutorPC
<1> QED
  BY <1>2 DEF FinalInv

LEMMA FinalNext == Lone /\ LoneInv /\ FinalInv /\ [DagNext]_dagVars => FinalInv'
<1> SUFFICES ASSUME Lone, LoneInv, FinalInv, [DagNext]_dagVars PROVE FinalInv'
  OBVIOUS
<1>t. DagTypeOK /\ \A x \in Executors : Claimed(x) /\ BatchRuns(x) /\ FinalIsOwn(x)
  BY DEF LoneInv, FinalInv
<1> USE DagAssumption DEF recordVars, historyVars, faultVars
<1>1. ASSUME NEW p \in Processes, Submit(p) PROVE FinalInv'
  <2>1. \A x \in Executors : pc[x] = "off" /\ mem[x] = AllPending
    BY <1>1, <1>t DEF Submit, Claimed, FinalInv
  <2>2. /\ record' = WorkflowStatus(AllPending) /\ saved' = AllPending
        /\ pc' = [pc EXCEPT ![First] = "begin"] /\ UNCHANGED <<mem, batch, good>>
    BY <1>1 DEF Submit, Persist
  <2> QED
    BY <1>t, <2>1, <2>2 DEF FinalInv, BatchRuns, FinalIsOwn, Active, DagTypeOK
<1>2. ASSUME NEW p \in Processes, CrashProcess(p) PROVE FinalInv'
  BY <1>2, <1>t DEF CrashProcess, FinalInv, BatchRuns, FinalIsOwn, Active, ExecutorPC, DagTypeOK
<1>3. ASSUME NEW p \in Processes, Startup(p) PROVE FinalInv'
  <2>1. \A x \in Executors : pc[x] \notin Active
    BY <1>3, <1>t DEF Startup, Lone, DagTypeOK, Claimed
  <2> QED
    BY <1>3, <2>1 DEF Startup, FinalInv, BatchRuns, FinalIsOwn
<1>4. ASSUME NEW p \in Processes, NEW x \in Executors, Recover(p, x) PROVE FinalInv'
  <2>1. /\ record' = "RECOVERING" /\ UNCHANGED <<batch, good>>
        /\ pc' = [pc EXCEPT ![x] = "begin"]
        /\ \A y \in Executors \ {x} : mem'[y] = mem[y]
    BY <1>4, <1>t DEF Recover, DagTypeOK
  <2> QED
    BY <1>t, <2>1 DEF FinalInv, BatchRuns, FinalIsOwn, Final, DagTypeOK
<1>5. ASSUME NEW x \in Executors, Begin(x) \/ Claim(x) \/ Collect(x) \/ Finish(x) PROVE FinalInv'
  <2>1. /\ pc[x] \in {"begin", "claim", "collect", "last"}
        /\ \E next \in {"scan", "execute", "done"} :
             /\ pc' = [pc EXCEPT ![x] = next]
             /\ next = "execute" <=> pc[x] = "claim"
        /\ record' = WorkflowStatus(mem[x]) /\ saved' = mem[x]
        /\ UNCHANGED <<mem, batch, good>>
    BY <1>5 DEF Begin, Claim, Collect, Finish, PersistAnd, Persist
  <2>2. /\ pc[x] \in Active /\ pc'[x] # "off"
        /\ \A y \in Executors \ {x} : pc'[y] = pc[y]
        /\ pc'[x] = "execute" <=> pc[x] = "claim"
        /\ pc'[x] # "claim"
    BY <1>t, <2>1 DEF Active, ExecutorPC, DagTypeOK
  <2>3. BatchRuns(x)' /\ FinalIsOwn(x)'
    BY <1>t, <2>1, <2>2 DEF BatchRuns, FinalIsOwn
  <2> QED
    BY <2>1, <2>2, <2>3, OthersKept
<1>6. ASSUME NEW x \in Executors, Scan(x) PROVE FinalInv'
  <2>1. /\ \E s \in {"claim", "scan", "last"} : pc' = [pc EXCEPT ![x] = s]
        /\ pc[x] = "scan"
        /\ UNCHANGED <<record, saved, good>>
        /\ \A y \in Executors \ {x} : mem'[y] = mem[y] /\ batch'[y] = batch[y]
    BY <1>6, <1>t, ScanShape
  <2>2. /\ pc[x] \in Active /\ pc'[x] \notin {"off", "execute"} /\ good[x] = {}
        /\ \A y \in Executors \ {x} : pc'[y] = pc[y]
    BY <1>t, <2>1 DEF Active, ExecutorPC, DagTypeOK, Claimed
  <2>3. CASE IsFinished(mem[x])
    <3>1. UNCHANGED <<mem, batch>> /\ pc'[x] = "last"
      BY <1>6, <1>t, <2>3 DEF Scan, DagTypeOK
    <3> QED
      BY <1>t, <2>1, <2>2, <3>1, OthersKept DEF BatchRuns, FinalIsOwn
  <2>4. CASE ~IsFinished(mem[x])
    <3> DEFINE next == [n \in Nodes |->
                 IF n \in Doomed(mem[x]) THEN "PREEMPTED"
                 ELSE IF n \in Ready(mem[x]) THEN "RUNNING" ELSE mem[x][n]]
    <3>1. mem' = [mem EXCEPT ![x] = next] /\ batch' = [batch EXCEPT ![x] = Ready(mem[x])]
      BY <1>6, <2>4 DEF Scan
    <3>2. \A n \in Ready(mem[x]) : next[n] = "RUNNING"
      BY ReadyNotDoomed DEF Ready
    <3> HIDE DEF next
    <3>3. BatchRuns(x)'
      BY <1>t, <2>1, <2>2, <3>1, <3>2 DEF BatchRuns, DagTypeOK
    <3>4. record \notin Final
      BY <1>t, <2>2, <2>4, FinalIsFinished DEF FinalIsOwn, IsFinished
    <3>5. FinalIsOwn(x)'
      BY <2>1, <3>4 DEF FinalIsOwn
    <3> QED
      BY <2>1, <2>2, <3>3, <3>5, OthersKept
  <2> QED
    BY <2>3, <2>4
<1>7. ASSUME NEW x \in Executors, NEW n \in Nodes, NEW ok \in BOOLEAN, ExecuteNode(x, n, ok) PROVE FinalInv'
  <2>1. /\ pc[x] = "execute" /\ n \in batch[x]
        /\ batch' = [batch EXCEPT ![x] = @ \ {n}]
        /\ good' = [good EXCEPT ![x] = IF ok THEN @ \cup {n} ELSE @]
        /\ UNCHANGED <<record, saved, pc, mem>>
    BY <1>7 DEF ExecuteNode
  <2>2. /\ batch'[x] \cup good'[x] \subseteq batch[x] \cup good[x]
        /\ \A y \in Executors \ {x} : batch'[y] = batch[y] /\ good'[y] = good[y]
    BY <1>t, <2>1 DEF DagTypeOK
  <2>3. BatchRuns(x)' /\ FinalIsOwn(x)' /\ pc[x] \in Active
    BY <1>t, <2>1, <2>2 DEF BatchRuns, FinalIsOwn, Active, ExecutorPC
  <2> QED
    BY <2>1, <2>2, <2>3, OthersKept
<1>8. ASSUME NEW x \in Executors, MarkResults(x) PROVE FinalInv'
  <2>1. /\ pc[x] = "execute" /\ pc' = [pc EXCEPT ![x] = "collect"]
        /\ \A y \in Executors \ {x} : mem'[y] = mem[y] /\ pc'[y] = pc[y] /\ good'[y] = good[y]
        /\ UNCHANGED <<record, saved, batch>>
    BY <1>8, <1>t DEF MarkResults, DagTypeOK
  <2>2. pc[x] \in Active /\ pc'[x] = "collect"
    BY <1>t, <2>1 DEF Active, ExecutorPC, DagTypeOK
  <2>3. BatchRuns(x)'
    BY <2>2 DEF BatchRuns
  <2>4. FinalIsOwn(x)'
    <3>1. CASE record \notin Final
      BY <2>1, <3>1 DEF FinalIsOwn
    <3>2. CASE record \in Final
      <4>1. record = WorkflowStatus(mem[x]) /\ saved = mem[x]
        BY <1>t, <2>2, <3>2 DEF FinalIsOwn
      <4>2. \A n \in Nodes : mem[x][n] \in Ended
        BY <3>2, <4>1, FinalIsFinished
      <4>3. \A n \in Nodes : mem[x][n] # "RUNNING" /\ n \notin good[x]
        BY <1>t, <2>1, <4>2 DEF BatchRuns, Ended
      <4> DEFINE marked == [n \in Nodes |-> IF n \in good[x] THEN "COMPLETED"
                              ELSE IF mem[x][n] = "RUNNING" THEN "FAILED" ELSE mem[x][n]]
      <4>4. marked = mem[x]
        BY <1>t, <4>3 DEF DagTypeOK
      <4>5. mem' = [mem EXCEPT ![x] = marked]
        BY <1>8 DEF MarkResults
      <4>6. mem'[x] = mem[x]
        BY <1>t, <4>4, <4>5 DEF DagTypeOK
      <4> QED
        BY <2>1, <4>1, <4>6 DEF FinalIsOwn
    <3> QED
      BY <3>1, <3>2
  <2> QED
    BY <2>1, <2>2, <2>3, <2>4, OthersKept
<1>9. ASSUME NEW x \in Executors, ExecutionFails(x) PROVE FinalInv'
  <2>1. /\ pc[x] \in Active /\ pc' = [pc EXCEPT ![x] = "done"]
        /\ UNCHANGED <<record, saved, mem, batch, good>>
    BY <1>9 DEF ExecutionFails, Active, ExecutorPC
  <2>2. pc'[x] = "done"
    BY <1>t, <2>1 DEF DagTypeOK
  <2> QED
    BY <2>1, <2>2, OthersKept DEF BatchRuns, FinalIsOwn, Active
<1>10. CASE UNCHANGED dagVars
  BY <1>10, <1>t DEF dagVars, FinalInv, BatchRuns, FinalIsOwn
<1> QED
  BY <1>1, <1>2, <1>3, <1>4, <1>5, <1>6, <1>7, <1>8, <1>9, <1>10 DEF DagNext, ExecutorStep

\* What a step does to a finished record: nothing.
LEMMA FinalStays ==
  ASSUME LoneInv, FinalInv, [DagNext]_dagVars, record \in Final
  PROVE  recordVars' = recordVars
<1> USE DEF recordVars
<1>1. ASSUME NEW x \in Executors, Begin(x) \/ Claim(x) \/ Collect(x) \/ Finish(x)
      PROVE  UNCHANGED <<record, saved>>
  <2>1. /\ pc[x] \in {"begin", "claim", "collect", "last"}
        /\ record' = WorkflowStatus(mem[x]) /\ saved' = mem[x]
    BY <1>1 DEF Begin, Claim, Collect, Finish, PersistAnd, Persist
  <2>2. pc[x] \in Active
    BY <2>1 DEF Active, ExecutorPC
  <2> QED
    BY <2>1, <2>2 DEF FinalInv, FinalIsOwn
<1>2. ASSUME NEW x \in Executors, Scan(x) \/ MarkResults(x) \/ ExecutionFails(x)
      PROVE  UNCHANGED <<record, saved>>
  BY <1>2 DEF Scan, MarkResults, ExecutionFails
<1>3. ASSUME NEW x \in Executors, NEW n \in Nodes, NEW ok \in BOOLEAN, ExecuteNode(x, n, ok)
      PROVE  UNCHANGED <<record, saved>>
  BY <1>3 DEF ExecuteNode
<1>4. ASSUME NEW p \in Processes, Submit(p) \/ CrashProcess(p) \/ Startup(p)
      PROVE  UNCHANGED <<record, saved>>
  BY <1>4 DEF Submit, CrashProcess, Startup, Final
<1>5. ASSUME NEW p \in Processes, NEW x \in Executors, Recover(p, x) PROVE FALSE
  BY <1>5 DEF Recover, Final
<1> QED
  BY <1>1, <1>2, <1>3, <1>4, <1>5 DEF DagNext, ExecutorStep, dagVars

-----------------------------------------------------------------------------
(* The results for one API process. *)

\* With one API process a workflow is never executed by two activations at
\* once, through any number of crashes, recoveries and failed executions.
THEOREM OneExecutionAtATime == ASSUME Lone PROVE DagSpec => []OneExecution
<1>1. LoneInv => OneExecution
  BY DEF LoneInv
<1> QED
  BY <1>1, LoneInvariance, PTL

\* With one API process the stored snapshot never calls a node PENDING while
\* it executes: a crash leaves it to the quarantine, not to a silent retry.
THEOREM ClaimsAreDurable == ASSUME Lone PROVE DagSpec => []ClaimIsDurable
<1>1. LoneInv => ClaimIsDurable
  BY DEF LoneInv, Claimed, ClaimIsDurable
<1> QED
  BY <1>1, LoneInvariance, PTL

\* With one API process only interrupted workflows are quarantined, as the
\* documentation has it; with two, a run shows that live ones are.
THEOREM OnlyInterruptedQuarantined == ASSUME Lone PROVE DagSpec => []QuarantineOnlyInterrupted
<1>1. LoneInv => QuarantineOnlyInterrupted
  BY DEF LoneInv, Claimed, QuarantineOnlyInterrupted
<1> QED
  BY <1>1, LoneInvariance, PTL

\* With one API process a finished workflow stays finished and keeps its
\* snapshot: no activation that outlives it, and no recovery, overwrites it.
THEOREM FinishedStaysFinal == ASSUME Lone PROVE DagSpec => FinishedIsFinal
<1>1. LoneInv /\ FinalInv /\ [DagNext]_dagVars => FinalInv'
  BY FinalNext
<1>2. LoneInv /\ FinalInv /\ [DagNext]_dagVars
        => [(record \in Final) => (recordVars' = recordVars)]_dagVars
  BY FinalStays
<1> QED
  BY <1>1, <1>2, FinalInit, LoneInvariance, PTL DEF DagSpec, FinishedIsFinal
=============================================================================
