------------------------------ MODULE OfficeProofs ------------------------------
(***************************************************************************)
(* What the handlers over Database keep up, for any number of overlapping  *)
(* requests and rows: lemmas about Stage and Commit that hold for every    *)
(* handler, then six components, and what a seventh, Payables, keeps up    *)
(* whatever overlaps (TradeProofs has the rest). Four keep their promises  *)
(* by row and advisory locks: Personnel (promotions, settlements of        *)
(* leavers), Messaging (answers on WhatsApp), MailIntake (order mails) and *)
(* MasterData (loyalty points, under the lock of their customer).          *)
(* Workspace takes hardly any lock and Payroll none: what they promise     *)
(* holds when requests do not overlap, while the events of the payment     *)
(* provider and the calendar come at any time. Each part has the same      *)
(* shape: an inductive invariant that says of every request in progress    *)
(* what it has staged and which locks cover it; lemmas that a commit of    *)
(* one request keeps what is said of the others; lemmas that each handler  *)
(* stages only what the invariant allows; and the theorems.                *)
(***************************************************************************)
EXTENDS Personnel, Messaging, MailIntake, Workspace, SumTheorems, MasterData, Payroll, Payables

\* What a request has staged, once it has been staged.
Staged(put) == [d \in DOMAIN put |-> Changed(db[d], put[d])]

\* No two requests hold a common lock.
LocksApart ==
  \A s, t \in Sessions :
    s # t /\ req[s] # Idle /\ req[t] # Idle => req[s].locks \cap req[t].locks = {}

LEMMA NothingIsEmpty == DOMAIN Nothing = {}
  BY DEF Nothing

LEMMA StagedColumns ==
  ASSUME NEW put, NEW d \in DOMAIN put
  PROVE  /\ DOMAIN Staged(put) = DOMAIN put
         /\ DOMAIN Staged(put)[d] \subseteq DOMAIN put[d]
         /\ \A c \in DOMAIN put[d] : (c \in DOMAIN db[d] /\ put[d][c] = db[d][c]) \/ c \in DOMAIN Staged(put)[d]
         /\ \A c \in DOMAIN Staged(put)[d] : Staged(put)[d][c] = put[d][c] /\ (c \notin DOMAIN db[d] \/ put[d][c] # db[d][c])
  BY DEF Staged, Changed

LEMMA StageIsOne ==
  ASSUME NEW s \in Sessions, NEW put, NEW add, NEW locks, Stage(s, put, add, locks)
  PROVE  /\ Sessions' = Sessions
         /\ req'[s].put = Staged(put) /\ req'[s].locks = locks
         /\ \A t \in Sessions \ {s} : req'[t] = req[t]
         /\ \A t \in Sessions \ {s} : req[t] # Idle => req[t].locks \cap locks = {}
         /\ db' = db
  BY DEF Stage, Lockable, Sessions, Request, Staged

LEMMA StageKeepsApart ==
  ASSUME NEW s \in Sessions, NEW put, NEW add, NEW locks, Stage(s, put, add, locks), LocksApart
  PROVE  LocksApart'
<1> HIDE DEF Sessions
<1>1. SUFFICES ASSUME NEW t \in Sessions, NEW u \in Sessions, t # u, req'[t] # Idle, req'[u] # Idle
              PROVE  req'[t].locks \cap req'[u].locks = {}
  BY StageIsOne DEF LocksApart
<1>2. CASE t = s
  BY <1>1, <1>2, StageIsOne
<1>3. CASE u = s
  BY <1>1, <1>3, StageIsOne
<1>4. CASE t # s /\ u # s
  BY <1>1, <1>4, StageIsOne DEF LocksApart
<1> QED
  BY <1>2, <1>3, <1>4

-----------------------------------------------------------------------------
(* Rows after a commit *)

\* A row as it is once a request that writes put has committed.
After(put, d) == IF d \in DOMAIN put THEN put[d] @@ db[d] ELSE db[d]

\* The rows as they are once a request that writes put has committed.
Result(put) == [d \in DOMAIN db |-> After(put, d)]

LEMMA OneRow ==
  ASSUME NEW d, NEW r
  PROVE  DOMAIN (d :> r) = {d} /\ (d :> r)[d] = r
  BY DEF :>

LEMMA CommitAndIsOne ==
  ASSUME NEW s \in Sessions, NEW next, req[s] # Idle, Lockable(s, DOMAIN req[s].put), CommitAnd(s, next)
  PROVE  /\ Sessions' = Sessions /\ DOMAIN db' = DOMAIN db
         /\ req'[s] = next
         /\ \A t \in Sessions \ {s} : req'[t] = req[t]
         /\ \A t \in Sessions \ {s} : req[t] # Idle => req[t].locks \cap DOMAIN req[s].put = {}
         /\ \A d \in DOMAIN db \ DOMAIN req[s].put : db'[d] = db[d]
         /\ \A d \in DOMAIN db \cap DOMAIN req[s].put :
              /\ DOMAIN db'[d] = DOMAIN req[s].put[d] \cup DOMAIN db[d]
              /\ \A c \in DOMAIN req[s].put[d] : db'[d][c] = req[s].put[d][c]
              /\ \A c \in DOMAIN db[d] \ DOMAIN req[s].put[d] : db'[d][c] = db[d][c]
  BY DEF CommitAnd, Lockable, Sessions, @@

LEMMA CommitIsOne ==
  ASSUME NEW s \in Sessions, Commit(s)
  PROVE  /\ Sessions' = Sessions /\ DOMAIN db' = DOMAIN db
         /\ req[s] # Idle /\ req'[s] = Idle
         /\ \A t \in Sessions \ {s} : req'[t] = req[t]
         /\ \A t \in Sessions \ {s} : req[t] # Idle => req[t].locks \cap DOMAIN req[s].put = {}
         /\ \A d \in DOMAIN db \ DOMAIN req[s].put : db'[d] = db[d]
         /\ \A d \in DOMAIN db \cap DOMAIN req[s].put :
              /\ DOMAIN db'[d] = DOMAIN req[s].put[d] \cup DOMAIN db[d]
              /\ \A c \in DOMAIN req[s].put[d] : db'[d][c] = req[s].put[d][c]
              /\ \A c \in DOMAIN db[d] \ DOMAIN req[s].put[d] : db'[d][c] = db[d][c]
<1> HIDE DEF Sessions
<1>1. req[s] # Idle /\ Lockable(s, DOMAIN req[s].put) /\ CommitAnd(s, Idle)
  BY DEF Commit, At, Free
<1> QED
  BY <1>1, CommitAndIsOne

LEMMA NoRowColumns == DOMAIN NoRow = {"status"} /\ NoRow.status = "NONE"
  BY DEF NoRow

LEMMA AfterColumns ==
  ASSUME NEW put, NEW d \in DOMAIN put
  PROVE  /\ DOMAIN After(put, d) = DOMAIN put[d] \cup DOMAIN db[d]
         /\ \A c \in DOMAIN put[d] : After(put, d)[c] = put[d][c]
         /\ \A c \in DOMAIN db[d] \ DOMAIN put[d] : After(put, d)[c] = db[d][c]
  BY DEF After, @@

\* Row is old with the columns of new written over it.
Overlaid(row, new, old) ==
  /\ DOMAIN row = DOMAIN new \cup DOMAIN old
  /\ \A c \in DOMAIN new : row[c] = new[c]
  /\ \A c \in DOMAIN old \ DOMAIN new : row[c] = old[c]

LEMMA AfterOverlaid ==
  \A put, d : d \in DOMAIN put => Overlaid(After(put, d), put[d], db[d])
  BY DEF After, @@, Overlaid

LEMMA AfterElsewhere ==
  \A put, d : d \notin DOMAIN put => After(put, d) = db[d]
  BY DEF After

\* Dropping what does not change leaves the same row.
LEMMA StagedAfter ==
  ASSUME NEW put, NEW d
  PROVE  After(Staged(put), d) = After(put, d)
<1>1. CASE d \notin DOMAIN put
  BY <1>1 DEF After, Staged
<1>2. CASE d \in DOMAIN put
  <2>1. PICK new, old, kept : new = put[d] /\ old = db[d] /\ kept = Staged(put)[d]
    OBVIOUS
  <2>2. /\ DOMAIN kept \subseteq DOMAIN new
        /\ \A c \in DOMAIN new : (c \in DOMAIN old /\ new[c] = old[c]) \/ c \in DOMAIN kept
        /\ \A c \in DOMAIN kept : kept[c] = new[c]
    BY <1>2, <2>1, StagedColumns
  <2>3. kept @@ old = new @@ old
    <3>1. DOMAIN kept \cup DOMAIN old = DOMAIN new \cup DOMAIN old
      BY <2>2
    <3>2. \A c \in DOMAIN new \cup DOMAIN old :
            (IF c \in DOMAIN kept THEN kept[c] ELSE old[c]) = (IF c \in DOMAIN new THEN new[c] ELSE old[c])
      BY <2>2
    <3> QED
      BY <3>1, <3>2 DEF @@
  <2>4. After(Staged(put), d) = kept @@ old /\ After(put, d) = new @@ old
    BY <1>2, <2>1 DEF After, Staged
  <2> QED
    BY <2>3, <2>4
<1> QED
  BY <1>1, <1>2

LEMMA CommitIsAfter ==
  ASSUME NEW s \in Sessions, Commit(s)
  PROVE  \A d \in DOMAIN db : db'[d] = After(req[s].put, d)
  BY DEF Commit, CommitAnd, After

\* What a handler leaves alone.
LEMMA ResultElsewhere ==
  ASSUME NEW put, NEW d \in DOMAIN db \ DOMAIN put
  PROVE  Result(put)[d] = db[d]
  BY DEF Result, After

LEMMA ResultColumns ==
  ASSUME NEW put, NEW d \in DOMAIN db \cap DOMAIN put
  PROVE  /\ DOMAIN Result(put)[d] = DOMAIN put[d] \cup DOMAIN db[d]
         /\ \A c \in DOMAIN put[d] : Result(put)[d][c] = put[d][c]
         /\ \A c \in DOMAIN db[d] \ DOMAIN put[d] : Result(put)[d][c] = db[d][c]
<1>1. Result(put)[d] = After(put, d)
  BY DEF Result
<1>2. d \in DOMAIN put
  OBVIOUS
<1>3. /\ DOMAIN After(put, d) = DOMAIN put[d] \cup DOMAIN db[d]
      /\ \A c \in DOMAIN put[d] : After(put, d)[c] = put[d][c]
      /\ \A c \in DOMAIN db[d] \ DOMAIN put[d] : After(put, d)[c] = db[d][c]
  BY <1>2, AfterColumns
<1> QED
  BY <1>1, <1>3

-----------------------------------------------------------------------------
(* Personnel: the inductive invariant *)

\* A request writes columns of the tables, and all of a row that it inserts.
WritesColumns(put) ==
  \A d \in DOMAIN put :
    d[1] \in DOMAIN Columns =>
      /\ DOMAIN put[d] \subseteq Columns[d[1]]
      /\ db[d] = NoRow => DOMAIN put[d] = Columns[d[1]]

\* A foreign key that it writes names a row that is committed with it or before.
WritesKeys(put) ==
  \A d \in DOMAIN put :
    d[1] \in DOMAIN KeyOf /\ KeyOf[d[1]] \in DOMAIN put[d] =>
      put[d][KeyOf[d[1]]] \in Live(KindOf[d[1]]) \cup {k \in DOMAIN put : k[1] = KindOf[d[1]]}

\* A new grade for employee e comes with the approval of promotion p, and
\* both rows are locked.
ByPromotion(put, locks, e, p) ==
  /\ {p, e} \subseteq locks
  /\ Status(p) = "PENDING" /\ db[p].emp = e /\ db[p].from = db[e].grade
  /\ put[e].grade = db[p].to
  /\ p \in DOMAIN put /\ "status" \in DOMAIN put[p] /\ put[p].status = "APPROVED"

WritesGrades(put, locks) ==
  \A e \in DOMAIN put :
    e[1] = "STAFF" /\ db[e] # NoRow /\ "grade" \in DOMAIN put[e] =>
      \E p \in Live("PROMO") : ByPromotion(put, locks, e, p)

\* What is written to a settlement leaves an approved one as it is, unless it
\* is a deletion or the settlement is locked and not yet approved.
LeavesApproved(columns) ==
  /\ "net" \notin DOMAIN columns
  /\ "status" \in DOMAIN columns => columns.status \in {"APPROVED", "PAID"}

Deletes(columns) == "status" \in DOMAIN columns /\ columns.status = "DELETED"

WritesSettlements(put, locks) ==
  \A f \in DOMAIN put :
    f[1] = "FNF" /\ db[f] # NoRow =>
      \/ LeavesApproved(put[f]) \/ Deletes(put[f])
      \/ f \in locks /\ Status(f) \in {"DRAFT", "PENDING_APPROVAL"}

Good(put, locks) ==
  /\ DOMAIN put \subseteq DOMAIN db
  /\ WritesColumns(put)
  /\ WritesKeys(put)
  /\ WritesGrades(put, locks)
  /\ WritesSettlements(put, locks)

RequestsGood == \A s \in Sessions : req[s] # Idle => Good(req[s].put, req[s].locks)

\* Two requests that write the same employee or settlement did not insert it.
InsertedByOne ==
  \A s, t \in Sessions :
    s # t /\ req[s] # Idle /\ req[t] # Idle =>
      \A d \in DOMAIN req[s].put \cap DOMAIN req[t].put : d[1] \in {"STAFF", "FNF"} => db[d] # NoRow

PersonnelInv == RowsComplete /\ KeysResolve /\ LocksApart /\ RequestsGood /\ InsertedByOne

-----------------------------------------------------------------------------
(* Commit *)

\* A committed row is not taken back.
LEMMA CommitKeepsRows ==
  ASSUME NEW s \in Sessions, Commit(s), RowsComplete, RequestsGood
  PROVE  /\ RowsComplete'
         /\ \A d \in DOMAIN db : d[1] \in DOMAIN Columns /\ db[d] # NoRow => db'[d] # NoRow
         /\ \A d \in DOMAIN req[s].put : d[1] \in DOMAIN Columns => db'[d] # NoRow
<1> HIDE DEF Sessions
<1>1. Good(req[s].put, req[s].locks)
  BY CommitIsOne DEF RequestsGood
<1>2. \A k \in DOMAIN Columns : Columns[k] # {"status"} /\ "status" \in Columns[k]
  BY DEF Columns
<1>3. ASSUME NEW d \in DOMAIN db, d[1] \in DOMAIN Columns, d \in DOMAIN req[s].put
      PROVE  DOMAIN db'[d] = Columns[d[1]]
  <2>1. DOMAIN req[s].put[d] \subseteq Columns[d[1]] /\ (db[d] = NoRow => DOMAIN req[s].put[d] = Columns[d[1]])
    BY <1>1, <1>3 DEF Good, WritesColumns
  <2>2. DOMAIN db'[d] = DOMAIN req[s].put[d] \cup DOMAIN db[d]
    BY <1>3, CommitIsOne
  <2>3. db[d] # NoRow => DOMAIN db[d] = Columns[d[1]]
    BY <1>3 DEF RowsComplete
  <2>4. db[d] = NoRow => DOMAIN db[d] \subseteq Columns[d[1]]
    BY <1>2, <1>3, NoRowColumns
  <2> QED
    BY <2>1, <2>2, <2>3, <2>4
<1>4. ASSUME NEW d \in DOMAIN db, d[1] \in DOMAIN Columns, d \notin DOMAIN req[s].put
      PROVE  db'[d] = db[d]
  BY <1>4, CommitIsOne
<1>5. DOMAIN req[s].put \subseteq DOMAIN db
  BY <1>1 DEF Good
<1>6. RowsComplete'
  BY <1>3, <1>4, CommitIsOne DEF RowsComplete
<1> QED
  BY <1>2, <1>3, <1>4, <1>5, <1>6, NoRowColumns DEF RowsComplete

LEMMA CommitKeepsKeys ==
  ASSUME NEW s \in Sessions, Commit(s), RowsComplete, KeysResolve, RequestsGood
  PROVE  /\ KeysResolve'
         /\ \A kind \in DOMAIN Columns : Live(kind) \subseteq Live(kind)'
<1> HIDE DEF Sessions
<1>1. Good(req[s].put, req[s].locks)
  BY CommitIsOne DEF RequestsGood
<1>2. \A k \in DOMAIN KeyOf : k \in DOMAIN Columns /\ KindOf[k] \in DOMAIN Columns /\ KeyOf[k] \in Columns[k]
  BY DEF Columns, KeyOf, KindOf
<1>3. ASSUME NEW kind \in DOMAIN Columns
      PROVE  Live(kind) \subseteq Live(kind)'
  BY CommitIsOne, CommitKeepsRows DEF Live, Rows
<1>4. ASSUME NEW d \in DOMAIN db, d[1] \in DOMAIN KeyOf, db'[d] # NoRow
      PROVE  db'[d][KeyOf[d[1]]] \in Live(KindOf[d[1]])'
  <2> DEFINE key == KeyOf[d[1]]
             kind == KindOf[d[1]]
  <2>1. CASE d \in DOMAIN req[s].put /\ key \in DOMAIN req[s].put[d]
    <3>1. db'[d][key] = req[s].put[d][key]
      BY <1>4, <2>1, CommitIsOne
    <3>2. req[s].put[d][key] \in Live(kind) \cup {k \in DOMAIN req[s].put : k[1] = kind}
      BY <1>1, <1>4, <2>1 DEF Good, WritesKeys
    <3>3. {k \in DOMAIN req[s].put : k[1] = kind} \subseteq Live(kind)'
      BY <1>1, <1>2, <1>4, CommitIsOne, CommitKeepsRows DEF Good, Live, Rows
    <3> QED
      BY <1>2, <1>3, <1>4, <3>1, <3>2, <3>3
  <2>2. CASE d \notin DOMAIN req[s].put
    BY <1>2, <1>3, <1>4, <2>2, CommitIsOne DEF KeysResolve
  <2>3. CASE d \in DOMAIN req[s].put /\ key \notin DOMAIN req[s].put[d]
    <3>1. db[d] # NoRow
      BY <1>1, <1>2, <1>4, <2>3 DEF Good, WritesColumns
    <3>2. key \in DOMAIN db[d] /\ db[d][key] \in Live(kind)
      BY <1>2, <1>4, <3>1 DEF RowsComplete, KeysResolve
    <3>3. db'[d][key] = db[d][key]
      BY <1>4, <2>3, <3>2, CommitIsOne
    <3> QED
      BY <1>2, <1>3, <1>4, <3>2, <3>3
  <2> QED
    BY <2>1, <2>2, <2>3
<1>5. KeysResolve'
  BY <1>4, CommitIsOne DEF KeysResolve
<1> QED
  BY <1>3, <1>5

\* A row that one request has locked, no commit of another one changes.
LEMMA LockedRowStays ==
  ASSUME NEW s \in Sessions, Commit(s), NEW t \in Sessions \ {s}, req[t] # Idle, NEW d \in req[t].locks, d \in DOMAIN db
  PROVE  db'[d] = db[d]
<1> HIDE DEF Sessions
<1> QED
  BY CommitIsOne

LEMMA CommitKeepsOthers ==
  ASSUME NEW s \in Sessions, Commit(s), PersonnelInv, NEW t \in Sessions \ {s}, req[t] # Idle
  PROVE  Good(req[t].put, req[t].locks)'
<1> HIDE DEF Sessions
<1> DEFINE put == req[t].put
           locks == req[t].locks
<1>1. Good(put, locks) /\ req'[t] = req[t]
  BY CommitIsOne DEF RequestsGood, PersonnelInv
<1>2. DOMAIN db' = DOMAIN db
  BY CommitIsOne
<1>3. \A d \in DOMAIN db : d[1] \in DOMAIN Columns /\ db[d] # NoRow => db'[d] # NoRow
  BY CommitKeepsRows DEF PersonnelInv
<1>4. \A d \in locks \cap DOMAIN db : db'[d] = db[d]
  BY LockedRowStays
<1>5. \A d \in DOMAIN put : d[1] \in {"STAFF", "FNF"} /\ db'[d] # NoRow => db[d] # NoRow
  BY <1>1, CommitIsOne DEF PersonnelInv, InsertedByOne, Good
<1>6. DOMAIN put \subseteq DOMAIN db'
  BY <1>1, <1>2 DEF Good
<1>7. WritesColumns(put)'
  BY <1>1, <1>3 DEF Good, WritesColumns
<1>8. WritesKeys(put)'
  <2>1. \A kind \in DOMAIN Columns : Live(kind) \subseteq Live(kind)'
    BY CommitKeepsKeys DEF PersonnelInv
  <2>2. \A k \in DOMAIN KeyOf : KindOf[k] \in DOMAIN Columns
    BY DEF Columns, KeyOf, KindOf
  <2> QED
    BY <1>1, <2>1, <2>2 DEF Good, WritesKeys
<1>9. WritesGrades(put, locks)'
  <2>1. SUFFICES ASSUME NEW e \in DOMAIN put, e[1] = "STAFF", db'[e] # NoRow, "grade" \in DOMAIN put[e]
                 PROVE  \E p \in Live("PROMO")' : ByPromotion(put, locks, e, p)'
    BY <1>1 DEF WritesGrades
  <2>2. PICK p \in Live("PROMO") : ByPromotion(put, locks, e, p)
    BY <1>1, <1>5, <2>1 DEF Good, WritesGrades
  <2>3. db'[p] = db[p] /\ db'[e] = db[e]
    BY <1>1, <1>4, <2>1, <2>2 DEF ByPromotion, Live, Rows, Good
  <2> QED
    BY <1>1, <1>2, <2>2, <2>3 DEF ByPromotion, Live, Rows, Status
<1>10. WritesSettlements(put, locks)'
  <2>1. SUFFICES ASSUME NEW f \in DOMAIN put, f[1] = "FNF", db'[f] # NoRow
                 PROVE  \/ LeavesApproved(put[f]) \/ Deletes(put[f])
                        \/ f \in locks /\ Status(f)' \in {"DRAFT", "PENDING_APPROVAL"}
    BY <1>1 DEF WritesSettlements
  <2> QED
    BY <1>1, <1>4, <1>5, <2>1 DEF Good, WritesSettlements, Status
<1> QED
  BY <1>1, <1>6, <1>7, <1>8, <1>9, <1>10 DEF Good

LEMMA CommitKeeps ==
  ASSUME NEW s \in Sessions, Commit(s), PersonnelInv
  PROVE  PersonnelInv'
<1> HIDE DEF Sessions
<1>1. RowsComplete' /\ KeysResolve'
  BY CommitKeepsRows, CommitKeepsKeys DEF PersonnelInv
<1>2. LocksApart'
  BY CommitIsOne DEF PersonnelInv, LocksApart
<1>3. RequestsGood'
  BY CommitIsOne, CommitKeepsOthers DEF RequestsGood
<1>4. InsertedByOne'
  <2>1. \A d \in DOMAIN db : d[1] \in {"STAFF", "FNF"} /\ db[d] # NoRow => db'[d] # NoRow
    BY CommitKeepsRows DEF PersonnelInv, Columns
  <2>2. \A t \in Sessions : req[t] # Idle => DOMAIN req[t].put \subseteq DOMAIN db
    BY DEF PersonnelInv, RequestsGood, Good
  <2> QED
    BY <2>1, <2>2, CommitIsOne DEF PersonnelInv, InsertedByOne
<1> QED
  BY <1>1, <1>2, <1>3, <1>4 DEF PersonnelInv

-----------------------------------------------------------------------------
(* Staging: what a handler hands over, before unchanged columns are dropped *)

InsertsWhole(put) ==
  \A d \in DOMAIN put :
    /\ d[1] \in DOMAIN Columns =>
         /\ DOMAIN put[d] \subseteq Columns[d[1]]
         /\ db[d] = NoRow => DOMAIN put[d] = Columns[d[1]] /\ put[d].status # "NONE"
    /\ d[1] \in {"STAFF", "FNF"} => db[d] # NoRow \/ Fresh(d)

ChangesGrades(put, locks) ==
  \A e \in DOMAIN put :
    e[1] = "STAFF" /\ db[e] # NoRow /\ "grade" \in DOMAIN put[e] =>
      \E p \in Live("PROMO") : ByPromotion(put, locks, e, p)

ChangesSettlements(put, locks) ==
  \A f \in DOMAIN put :
    f[1] = "FNF" /\ db[f] # NoRow =>
      \/ LeavesApproved(put[f])
      \/ Deletes(put[f]) /\ Status(f) # "DELETED"
      \/ f \in locks /\ Status(f) \in {"DRAFT", "PENDING_APPROVAL"}

Sound(put, locks) ==
  /\ DOMAIN put \subseteq DOMAIN db
  /\ InsertsWhole(put)
  /\ WritesKeys(put)
  /\ ChangesGrades(put, locks)
  /\ ChangesSettlements(put, locks)

LEMMA SoundIsGood ==
  ASSUME NEW put, NEW locks, Sound(put, locks)
  PROVE  Good(Staged(put), locks)
<1> DEFINE new == Staged(put)
<1>1. DOMAIN new = DOMAIN put
  BY DEF Staged
<1>2. \A d \in DOMAIN put :
        /\ DOMAIN new[d] \subseteq DOMAIN put[d]
        /\ \A c \in DOMAIN put[d] : (c \in DOMAIN db[d] /\ put[d][c] = db[d][c]) \/ c \in DOMAIN new[d]
        /\ \A c \in DOMAIN new[d] : new[d][c] = put[d][c]
  BY StagedColumns
<1> HIDE DEF new
<1>3. DOMAIN new \subseteq DOMAIN db
  BY <1>1 DEF Sound
<1>4. WritesColumns(new)
  <2>1. SUFFICES ASSUME NEW d \in DOMAIN put, d[1] \in DOMAIN Columns
                 PROVE  /\ DOMAIN new[d] \subseteq Columns[d[1]]
                        /\ db[d] = NoRow => DOMAIN new[d] = Columns[d[1]]
    BY <1>1 DEF WritesColumns
  <2>2. DOMAIN put[d] \subseteq Columns[d[1]]
    BY <2>1 DEF Sound, InsertsWhole
  <2>3. ASSUME db[d] = NoRow
        PROVE  DOMAIN put[d] \subseteq DOMAIN new[d] /\ DOMAIN put[d] = Columns[d[1]]
    BY <1>2, <2>1, <2>3, NoRowColumns DEF Sound, InsertsWhole
  <2> QED
    BY <1>2, <2>1, <2>2, <2>3
<1>5. WritesKeys(new)
  BY <1>1, <1>2 DEF Sound, WritesKeys
<1>6. WritesGrades(new, locks)
  <2>1. SUFFICES ASSUME NEW e \in DOMAIN put, e[1] = "STAFF", db[e] # NoRow, "grade" \in DOMAIN new[e]
                 PROVE  \E p \in Live("PROMO") : ByPromotion(new, locks, e, p)
    BY <1>1 DEF WritesGrades
  <2>2. "grade" \in DOMAIN put[e] /\ new[e].grade = put[e].grade
    BY <1>2, <2>1
  <2>3. PICK p \in Live("PROMO") : ByPromotion(put, locks, e, p)
    BY <2>1, <2>2 DEF Sound, ChangesGrades
  <2>4. "status" \in DOMAIN new[p] /\ new[p].status = "APPROVED"
    BY <1>2, <2>3 DEF ByPromotion, Status
  <2> QED
    BY <1>1, <2>2, <2>3, <2>4 DEF ByPromotion
<1>7. WritesSettlements(new, locks)
  <2>1. SUFFICES ASSUME NEW f \in DOMAIN put, f[1] = "FNF", db[f] # NoRow
                 PROVE  \/ LeavesApproved(new[f]) \/ Deletes(new[f])
                        \/ f \in locks /\ Status(f) \in {"DRAFT", "PENDING_APPROVAL"}
    BY <1>1 DEF WritesSettlements
  <2>2. CASE LeavesApproved(put[f])
    BY <1>2, <2>2 DEF LeavesApproved
  <2>3. CASE Deletes(put[f]) /\ Status(f) # "DELETED"
    BY <1>2, <2>3 DEF Deletes, Status
  <2>4. CASE f \in locks /\ Status(f) \in {"DRAFT", "PENDING_APPROVAL"}
    BY <2>4
  <2> QED
    BY <2>1, <2>2, <2>3, <2>4 DEF Sound, ChangesSettlements
<1> QED
  BY <1>3, <1>4, <1>5, <1>6, <1>7 DEF Good, new

LEMMA StageKeeps ==
  ASSUME NEW s \in Sessions, NEW put, NEW add, NEW locks, Stage(s, put, add, locks), Sound(put, locks), PersonnelInv
  PROVE  PersonnelInv'
<1> HIDE DEF Sessions
<1>1. RowsComplete' /\ KeysResolve'
  BY StageIsOne DEF PersonnelInv, RowsComplete, KeysResolve, Live, Rows
<1>2. LocksApart'
  BY StageKeepsApart DEF PersonnelInv
<1>3. RequestsGood'
  <2>1. \A t \in Sessions \ {s} : req[t] # Idle => Good(req[t].put, req[t].locks)'
    BY StageIsOne DEF PersonnelInv, RequestsGood, Good, WritesColumns, WritesKeys, WritesGrades, ByPromotion,
       WritesSettlements, Live, Rows, Status
  <2>2. Good(req[s].put, req[s].locks)'
    BY SoundIsGood, StageIsOne DEF Good, WritesColumns, WritesKeys, WritesGrades, ByPromotion,
       WritesSettlements, Live, Rows, Status
  <2> QED
    BY <2>1, <2>2, StageIsOne DEF RequestsGood
<1>4. InsertedByOne'
  <2>1. ASSUME NEW t \in Sessions \ {s}, req[t] # Idle, NEW d \in DOMAIN req[t].put \cap DOMAIN put, d[1] \in {"STAFF", "FNF"}
        PROVE  db[d] # NoRow
    BY <2>1 DEF Sound, InsertsWhole, Fresh, Used
  <2>2. DOMAIN req'[s].put = DOMAIN put
    BY StageIsOne DEF Staged
  <2> QED
    BY <2>1, <2>2, StageIsOne DEF PersonnelInv, InsertedByOne
<1> QED
  BY <1>1, <1>2, <1>3, <1>4 DEF PersonnelInv

LEMMA RollbackKeeps ==
  ASSUME NEW s \in Sessions, Rollback(s), PersonnelInv
  PROVE  PersonnelInv'
<1>1. Sessions' = Sessions /\ db' = db /\ req'[s] = Idle /\ \A t \in Sessions \ {s} : req'[t] = req[t]
  BY DEF Rollback, Sessions
<1> HIDE DEF Sessions
<1>2. RowsComplete' /\ KeysResolve'
  BY <1>1 DEF PersonnelInv, RowsComplete, KeysResolve, Live, Rows
<1>3. LocksApart' /\ InsertedByOne'
  BY <1>1 DEF PersonnelInv, LocksApart, InsertedByOne
<1>4. RequestsGood'
  BY <1>1 DEF PersonnelInv, RequestsGood, Good, WritesColumns, WritesKeys, WritesGrades, ByPromotion,
     WritesSettlements, Live, Rows, Status
<1> QED
  BY <1>2, <1>3, <1>4 DEF PersonnelInv

-----------------------------------------------------------------------------
(* The handlers stage what is sound *)

LEMMA FreshIsNew == \A d \in DOMAIN db : Fresh(d) => db[d] = NoRow
  BY DEF Fresh, Used

\* A handler that writes one row.
LEMMA OneRowSound ==
  ASSUME NEW d \in DOMAIN db, NEW r, NEW locks,
         d[1] \in DOMAIN Columns =>
           /\ DOMAIN r \subseteq Columns[d[1]]
           /\ db[d] = NoRow => DOMAIN r = Columns[d[1]] /\ r.status # "NONE",
         d[1] \in {"STAFF", "FNF"} => db[d] # NoRow \/ Fresh(d),
         d[1] \in DOMAIN KeyOf /\ KeyOf[d[1]] \in DOMAIN r => r[KeyOf[d[1]]] \in Live(KindOf[d[1]]),
         d[1] = "STAFF" /\ db[d] # NoRow => "grade" \notin DOMAIN r,
         d[1] = "FNF" /\ db[d] # NoRow =>
           \/ LeavesApproved(r)
           \/ Deletes(r) /\ Status(d) # "DELETED"
           \/ d \in locks /\ Status(d) \in {"DRAFT", "PENDING_APPROVAL"}
  PROVE  Sound(d :> r, locks)
<1> DEFINE put == d :> r
<1>1. DOMAIN put = {d} /\ put[d] = r
  BY OneRow
<1> HIDE DEF put
<1>2. InsertsWhole(put)
  BY <1>1 DEF InsertsWhole
<1>3. WritesKeys(put)
  BY <1>1 DEF WritesKeys
<1>4. ChangesGrades(put, locks) /\ ChangesSettlements(put, locks)
  BY <1>1 DEF ChangesGrades, ChangesSettlements
<1>5. Sound(put, locks)
  BY <1>1, <1>2, <1>3, <1>4 DEF Sound
<1> QED
  BY <1>5 DEF put

LEMMA StaffStep ==
  ASSUME NEW s \in Sessions, NEW e \in Rows("STAFF"), PersonnelInv,
         \/ Fresh(e) /\ CreateEmployee(s, e)
         \/ db[e] # NoRow /\ \E status \in {"ACTIVE", "ON_LEAVE"} : UpdateEmployee(s, e, status)
         \/ \E y \in Rows("POLICY") : db[e] # NoRow /\ db[y] = NoRow /\ ApplyLeavePolicy(s, y, e)
  PROVE  PersonnelInv'
<1> HIDE DEF Sessions
<1>1. e \in DOMAIN db /\ e[1] = "STAFF"
  BY DEF Rows
<1>2. CASE Fresh(e) /\ CreateEmployee(s, e)
  <2>1. Sound(e :> [status |-> "ACTIVE", active |-> TRUE, grade |-> 1], {})
    BY <1>1, <1>2, OneRowSound, FreshIsNew DEF Columns, KeyOf
  <2> QED
    BY <1>2, <2>1, StageKeeps DEF CreateEmployee
<1>3. CASE db[e] # NoRow /\ \E status \in {"ACTIVE", "ON_LEAVE"} : UpdateEmployee(s, e, status)
  <2>1. PICK status \in {"ACTIVE", "ON_LEAVE"} : UpdateEmployee(s, e, status)
    BY <1>3
  <2>2. Sound(e :> [status |-> status], {})
    BY <1>1, <1>3, OneRowSound DEF Columns, KeyOf
  <2> QED
    BY <2>1, <2>2, StageKeeps DEF UpdateEmployee
<1>4. CASE \E y \in Rows("POLICY") : db[e] # NoRow /\ db[y] = NoRow /\ ApplyLeavePolicy(s, y, e)
  <2>1. PICK y \in Rows("POLICY") : ApplyLeavePolicy(s, y, e)
    BY <1>4
  <2>2. Sound(y :> [status |-> "ACTIVE"], {})
    BY OneRowSound DEF Columns, KeyOf, Rows
  <2> QED
    BY <2>1, <2>2, StageKeeps DEF ApplyLeavePolicy
<1> QED
  BY <1>2, <1>3, <1>4

\* A handler that writes several rows.
LEMMA MergeSound ==
  ASSUME NEW f, NEW g, NEW locks, Sound(f, locks), Sound(g, locks), DOMAIN f \cap DOMAIN g = {}
  PROVE  Sound(f @@ g, locks)
<1> DEFINE put == f @@ g
<1>1. /\ DOMAIN put = DOMAIN f \cup DOMAIN g
      /\ \A x \in DOMAIN f : put[x] = f[x]
      /\ \A x \in DOMAIN g : put[x] = g[x]
  <2>1. \A x \in DOMAIN g : x \in DOMAIN g \ DOMAIN f
    OBVIOUS
  <2> QED
    BY <2>1 DEF @@
<1> HIDE DEF put
<1>2. InsertsWhole(put)
  BY <1>1 DEF Sound, InsertsWhole
<1>3. WritesKeys(put)
  BY <1>1 DEF Sound, WritesKeys
<1>4. ChangesGrades(put, locks)
  BY <1>1 DEF Sound, ChangesGrades, ByPromotion
<1>5. ChangesSettlements(put, locks)
  BY <1>1 DEF Sound, ChangesSettlements
<1>6. Sound(put, locks)
  BY <1>1, <1>2, <1>3, <1>4, <1>5 DEF Sound
<1> QED
  BY <1>6 DEF put

LEMMA NothingSound ==
  ASSUME NEW locks
  PROVE  Sound(Nothing, locks)
  BY NothingIsEmpty DEF Sound, InsertsWhole, WritesKeys, ChangesGrades, ChangesSettlements

LEMMA LeaveSound ==
  ASSUME NEW e \in Live("STAFF"), NEW locks
  PROVE  Sound(Leave(e), locks) /\ DOMAIN Leave(e) = {e}
<1>1. e \in DOMAIN db /\ e[1] = "STAFF" /\ db[e] # NoRow
  BY DEF Live, Rows
<1>2. Sound(e :> [status |-> "LEFT", active |-> FALSE], locks)
  BY <1>1, OneRowSound DEF Columns, KeyOf
<1> QED
  BY <1>2, OneRow DEF Leave

LEMMA ChecklistStep ==
  ASSUME NEW s \in Sessions, NEW e \in Rows("STAFF"), NEW list \in Rows("LIST"), NEW leaving \in BOOLEAN,
         NEW tasks \in SUBSET Rows("TASK"), PersonnelInv, db[e] # NoRow, Fresh(list),
         CreateChecklist(s, list, tasks, e, leaving)
  PROVE  PersonnelInv'
<1> HIDE DEF Sessions
<1> DEFINE row == [status |-> "PENDING", emp |-> e, leaving |-> leaving]
           task == [status |-> "OPEN", list |-> list]
           rows == [t \in tasks |-> task]
           put == list :> row @@ rows
<1>1. list \in DOMAIN db /\ list[1] = "LIST" /\ db[list] = NoRow
  BY FreshIsNew DEF Rows
<1>2. \A t \in tasks : t \in DOMAIN db /\ t[1] = "TASK"
  BY DEF Rows
<1>3. DOMAIN row = Columns["LIST"] /\ row.status # "NONE" /\ row.emp = e
  BY DEF Columns
<1>4. DOMAIN task = Columns["TASK"] /\ task.status # "NONE" /\ task.list = list
  BY DEF Columns
<1>5. DOMAIN put = {list} \cup tasks /\ put[list] = row /\ \A t \in tasks : put[t] = task
  <2>1. DOMAIN rows = tasks /\ \A t \in tasks : rows[t] = task /\ t # list
    BY <1>1, <1>2
  <2>2. DOMAIN (list :> row) = {list} /\ (list :> row)[list] = row
    BY OneRow
  <2> HIDE DEF rows, row, task
  <2> QED
    BY <2>1, <2>2 DEF @@
<1>6. Stage(s, put, Nothing, {})
  BY DEF CreateChecklist
<1> HIDE DEF put, row, task
<1>7. InsertsWhole(put)
  BY <1>1, <1>2, <1>3, <1>4, <1>5 DEF InsertsWhole
<1>8. WritesKeys(put)
  <2>1. e \in Live("STAFF")
    BY DEF Live
  <2> QED
    BY <1>1, <1>2, <1>3, <1>4, <1>5, <2>1 DEF WritesKeys, KeyOf, KindOf
<1>9. ChangesGrades(put, {}) /\ ChangesSettlements(put, {})
  BY <1>1, <1>2, <1>5 DEF ChangesGrades, ChangesSettlements
<1>10. Sound(put, {})
  BY <1>1, <1>2, <1>5, <1>7, <1>8, <1>9 DEF Sound
<1> QED
  BY <1>6, <1>10, StageKeeps

LEMMA TaskStep ==
  ASSUME NEW s \in Sessions, NEW task \in Live("TASK"), PersonnelInv, CompleteTask(s, task)
  PROVE  PersonnelInv'
<1> HIDE DEF Sessions
<1> DEFINE list == db[task].list
           emp == db[list].emp
           done == task :> [status |-> "DONE"]
           progress == list :> [status |-> IF AllDone(task) THEN "COMPLETED" ELSE "IN_PROGRESS"]
           exit == IF AllDone(task) /\ db[list].leaving THEN Leave(emp) ELSE Nothing
<1>1. task \in DOMAIN db /\ task[1] = "TASK" /\ db[task] # NoRow
  BY DEF Live, Rows
<1>2. list \in Live("LIST")
  BY <1>1 DEF PersonnelInv, KeysResolve, KeyOf, KindOf
<1>3. list \in DOMAIN db /\ list[1] = "LIST" /\ db[list] # NoRow
  BY <1>2 DEF Live, Rows
<1>4. emp \in Live("STAFF") /\ emp[1] = "STAFF"
  <2>1. emp \in Live("STAFF")
    BY <1>3 DEF PersonnelInv, KeysResolve, KeyOf, KindOf
  <2> QED
    BY <2>1 DEF Live, Rows
<1> HIDE DEF list, emp
<1>5. Sound(done, {}) /\ DOMAIN done = {task}
  <2>1. Sound(done, {})
    BY <1>1, OneRowSound DEF Columns, KeyOf
  <2> QED
    BY <2>1, OneRow
<1>6. Sound(progress, {}) /\ DOMAIN progress = {list}
  <2>1. Sound(progress, {})
    BY <1>3, OneRowSound DEF Columns, KeyOf
  <2> QED
    BY <2>1, OneRow
<1>7. Sound(exit, {}) /\ DOMAIN exit \subseteq {emp}
  BY <1>4, LeaveSound, NothingSound, NothingIsEmpty
<1> HIDE DEF done, progress, exit
<1>8. Sound(done @@ progress, {}) /\ DOMAIN (done @@ progress) = {task, list}
  <2>1. DOMAIN done \cap DOMAIN progress = {}
    BY <1>1, <1>3, <1>5, <1>6
  <2>2. Sound(done @@ progress, {})
    BY <1>5, <1>6, <2>1, MergeSound
  <2> QED
    BY <1>5, <1>6, <2>2 DEF @@
<1>9. Sound(done @@ progress @@ exit, {})
  BY <1>1, <1>3, <1>4, <1>7, <1>8, MergeSound
<1>10. Stage(s, done @@ progress @@ exit, Nothing, {})
  BY DEF CompleteTask, done, progress, exit, list, emp
<1> QED
  BY <1>9, <1>10, StageKeeps

LEMMA PromotionStep ==
  ASSUME NEW s \in Sessions, NEW p \in Rows("PROMO"), PersonnelInv,
         \/ \E e \in Live("STAFF"), effective \in BOOLEAN : Fresh(p) /\ CreatePromotion(s, p, e, 1, 2, effective)
         \/ db[p] # NoRow /\ UpdatePromotion(s, p, 3)
         \/ \E a \in Live("STAFF") : db[p] # NoRow /\ ApprovePromotion(s, p, a)
  PROVE  PersonnelInv'
<1> HIDE DEF Sessions
<1>1. p \in DOMAIN db /\ p[1] = "PROMO"
  BY DEF Rows
<1>2. ASSUME NEW e \in Live("STAFF"), NEW effective \in BOOLEAN, Fresh(p), CreatePromotion(s, p, e, 1, 2, effective)
      PROVE  PersonnelInv'
  <2> DEFINE row == [status |-> "PENDING", emp |-> e, from |-> 1, to |-> 2, effective |-> effective]
  <2>1. DOMAIN row = Columns["PROMO"] /\ row.status # "NONE" /\ row.emp = e
    BY DEF Columns
  <2> HIDE DEF row
  <2>2. Sound(p :> row, {})
    BY <1>1, <2>1, OneRowSound DEF KeyOf, KindOf
  <2> QED
    BY <1>2, <2>2, StageKeeps DEF CreatePromotion, row
<1>3. CASE db[p] # NoRow /\ UpdatePromotion(s, p, 3)
  <2>1. Sound(p :> [to |-> 3], {})
    BY <1>1, <1>3, OneRowSound DEF Columns, KeyOf
  <2> QED
    BY <1>3, <2>1, StageKeeps DEF UpdatePromotion
<1>4. ASSUME NEW a \in Live("STAFF"), db[p] # NoRow, ApprovePromotion(s, p, a)
      PROVE  PersonnelInv'
  <2> DEFINE e == db[p].emp
             approved == p :> [status |-> "APPROVED"]
             raised == e :> [grade |-> db[p].to]
             applied == IF db[p].effective THEN raised ELSE Nothing
             put == approved @@ applied
  <2>1. p \in Live("PROMO") /\ e \in Live("STAFF")
    BY <1>1, <1>4 DEF Live, Rows, PersonnelInv, KeysResolve, KeyOf, KindOf
  <2>2. e \in DOMAIN db /\ e[1] = "STAFF" /\ db[e] # NoRow /\ e # p
    BY <1>1, <2>1 DEF Live, Rows
  <2>3. Status(p) = "PENDING" /\ db[p].from = db[e].grade /\ Stage(s, put, Nothing, {p, e})
    BY <1>4 DEF ApprovePromotion, PromotionLocks, Status
  <2>4. Sound(approved, {p, e})
    BY <1>1, <1>4, OneRowSound DEF Columns, KeyOf
  <2>5. /\ {p} \subseteq DOMAIN put /\ DOMAIN put \subseteq {p, e} /\ put[p] = [status |-> "APPROVED"]
        /\ e \in DOMAIN put => put[e] = [grade |-> db[p].to]
    <3>1. DOMAIN approved = {p} /\ approved[p] = [status |-> "APPROVED"]
      BY OneRow
    <3>2. DOMAIN raised = {e} /\ raised[e] = [grade |-> db[p].to]
      BY OneRow
    <3> HIDE DEF approved, raised
    <3>3. applied = raised \/ DOMAIN applied = {}
      BY NothingIsEmpty
    <3> HIDE DEF applied
    <3> QED
      BY <2>2, <3>1, <3>2, <3>3 DEF @@
  <2> HIDE DEF put, e
  <2>6. InsertsWhole(put)
    BY <1>1, <1>4, <2>2, <2>5 DEF InsertsWhole, Columns
  <2>7. WritesKeys(put)
    BY <1>1, <2>2, <2>5 DEF WritesKeys, KeyOf
  <2>8. ByPromotion(put, {p, e}, e, p) \/ e \notin DOMAIN put
    BY <2>3, <2>5 DEF ByPromotion, e
  <2>9. ChangesGrades(put, {p, e})
    BY <1>1, <2>1, <2>5, <2>8 DEF ChangesGrades
  <2>10. ChangesSettlements(put, {p, e})
    BY <1>1, <2>2, <2>5 DEF ChangesSettlements
  <2>11. Sound(put, {p, e})
    BY <1>1, <2>2, <2>5, <2>6, <2>7, <2>9, <2>10 DEF Sound
  <2> QED
    BY <2>3, <2>11, StageKeeps
<1> QED
  BY <1>2, <1>3, <1>4

LEMMA SettlementStep ==
  ASSUME NEW s \in Sessions, NEW f \in Rows("FNF"), PersonnelInv,
         \/ \E l \in Live("LIST") : Fresh(f) /\ db[l].leaving /\ CreateSettlement(s, f, l)
         \/ \E i \in Rows("ITEM"), amount \in {2, -1} : Status(f) \notin {"NONE", "DELETED"} /\ PutItem(s, i, f, amount)
         \/ DeleteSettlement(s, f) \/ RecalculateSettlement(s, f) \/ SubmitSettlement(s, f)
         \/ MarkSettlementPaid(s, f)
         \/ \E a \in Live("STAFF") : ApproveSettlement(s, f, a)
  PROVE  PersonnelInv'
<1> HIDE DEF Sessions
<1>1. f \in DOMAIN db /\ f[1] = "FNF" /\ (Status(f) # "NONE" => db[f] # NoRow)
  BY NoRowColumns DEF Rows, Status
<1>2. ASSUME NEW l \in Live("LIST"), Fresh(f), CreateSettlement(s, f, l)
      PROVE  PersonnelInv'
  <2> DEFINE row == [status |-> "DRAFT", list |-> l, net |-> 0]
  <2>1. DOMAIN row = Columns["FNF"] /\ row.status # "NONE" /\ row.list = l
    BY DEF Columns
  <2> HIDE DEF row
  <2>2. Sound(f :> row, {})
    BY <1>1, <1>2, <2>1, OneRowSound, FreshIsNew DEF KeyOf, KindOf
  <2> QED
    BY <1>2, <2>2, StageKeeps DEF CreateSettlement, row
<1>3. ASSUME NEW i \in Rows("ITEM"), NEW amount, PutItem(s, i, f, amount)
      PROVE  PersonnelInv'
  <2>1. Sound(i :> [status |-> "LIVE", fnf |-> f, amount |-> amount], {})
    BY OneRowSound DEF Columns, KeyOf, Rows
  <2> QED
    BY <1>3, <2>1, StageKeeps DEF PutItem
<1>4. CASE DeleteSettlement(s, f)
  <2>1. Sound(f :> [status |-> "DELETED"], {})
    BY <1>1, <1>4, OneRowSound DEF DeleteSettlement, Columns, KeyOf, Deletes
  <2> QED
    BY <1>4, <2>1, StageKeeps DEF DeleteSettlement
<1>5. CASE RecalculateSettlement(s, f)
  <2>1. Sound(f :> [net |-> Net(f)], {f})
    BY <1>1, <1>5, OneRowSound DEF RecalculateSettlement, Columns, KeyOf
  <2> QED
    BY <1>5, <2>1, StageKeeps DEF RecalculateSettlement, RecalculationLocks
<1>6. CASE SubmitSettlement(s, f)
  <2>1. Sound(f :> [net |-> Net(f), status |-> "PENDING_APPROVAL"], {f})
    BY <1>1, <1>6, OneRowSound DEF SubmitSettlement, Columns, KeyOf
  <2> QED
    BY <1>6, <2>1, StageKeeps DEF SubmitSettlement
<1>7. CASE MarkSettlementPaid(s, f)
  <2> DEFINE l == db[f].list
             e == db[l].emp
             paid == f :> [status |-> "PAID"]
             over == l :> [status |-> "COMPLETED"]
             locks == {f, e}
  <2>1. db[f] # NoRow /\ Stage(s, paid @@ over @@ Leave(e), Nothing, locks)
    BY <1>1, <1>7 DEF MarkSettlementPaid
  <2>2. l \in Live("LIST")
    BY <1>1, <2>1 DEF PersonnelInv, KeysResolve, KeyOf, KindOf
  <2>3. l \in DOMAIN db /\ l[1] = "LIST" /\ db[l] # NoRow
    BY <2>2 DEF Live, Rows
  <2>4. e \in Live("STAFF")
    BY <2>3 DEF PersonnelInv, KeysResolve, KeyOf, KindOf
  <2>5. e[1] = "STAFF"
    BY <2>4 DEF Live, Rows
  <2> HIDE DEF l, e, locks
  <2>6. Sound(paid, locks)
    BY <1>1, <2>1, OneRowSound DEF Columns, KeyOf, LeavesApproved
  <2>7. Sound(over, locks)
    BY <2>3, OneRowSound DEF Columns, KeyOf
  <2>8. DOMAIN paid = {f} /\ DOMAIN over = {l}
    BY OneRow
  <2>9. Sound(Leave(e), locks) /\ DOMAIN Leave(e) = {e}
    BY <2>4, LeaveSound
  <2> HIDE DEF paid, over
  <2>10. Sound(paid @@ over, locks)
    BY <1>1, <2>3, <2>6, <2>7, <2>8, MergeSound
  <2>11. DOMAIN (paid @@ over) = {f, l}
    BY <2>8 DEF @@
  <2>12. Sound(paid @@ over @@ Leave(e), locks)
    BY <1>1, <2>3, <2>5, <2>9, <2>10, <2>11, MergeSound
  <2> QED
    BY <2>1, <2>12, StageKeeps
<1>8. ASSUME NEW a \in Live("STAFF"), ApproveSettlement(s, f, a)
      PROVE  PersonnelInv'
  <2>1. Sound(f :> [status |-> "APPROVED"], {f})
    BY <1>1, <1>8, OneRowSound DEF ApproveSettlement, Columns, KeyOf
  <2> QED
    BY <1>8, <2>1, StageKeeps DEF ApproveSettlement
<1> QED
  BY <1>2, <1>3, <1>4, <1>5, <1>6, <1>7, <1>8

-----------------------------------------------------------------------------
(* Theorems *)

LEMMA PersonnelStep ==
  ASSUME NEW s \in Sessions, EndOfRequest(s) \/ PersonnelNext(s), PersonnelInv
  PROVE  PersonnelInv'
<1> HIDE DEF Sessions
<1>1. CASE EndOfRequest(s)
  BY <1>1, CommitKeeps, RollbackKeeps DEF EndOfRequest
<1>2. CASE PersonnelNext(s)
  <2>1. ASSUME NEW e \in Rows("STAFF"), NEW l \in Rows("LIST"), NEW leaving \in BOOLEAN,
               db[e] # NoRow, Fresh(l),
               CreateChecklist(s, l, {t \in Rows("TASK") : t[2] \in {2 * l[2] - 1, 2 * l[2]}}, e, leaving)
        PROVE  PersonnelInv'
    BY <2>1, ChecklistStep
  <2> QED
    BY <1>2, <2>1, StaffStep, TaskStep, PromotionStep, SettlementStep DEF PersonnelNext
<1> QED
  BY <1>1, <1>2

\* The inductive invariant of overlapping requests about the people of a
\* company: rows are complete and refer to committed rows, no two requests
\* hold a common lock, and every request writes what its locks cover.
THEOREM PersonnelInvariance == PersonnelSpec => []PersonnelInv
<1>1. PersonnelInit => PersonnelInv
  BY DEF PersonnelInit, PersonnelInv, LocksApart, RequestsGood, InsertedByOne, Free
<1>2. PersonnelInv /\ [\E s \in Sessions : EndOfRequest(s) \/ PersonnelNext(s)]_vars => PersonnelInv'
  <2>1. ASSUME PersonnelInv, UNCHANGED vars
        PROVE  PersonnelInv'
    <3>1. db' = db /\ req' = req /\ Sessions' = Sessions
      BY <2>1 DEF vars, Sessions
    <3>2. RowsComplete' /\ KeysResolve'
      BY <2>1, <3>1 DEF PersonnelInv, RowsComplete, KeysResolve, Live, Rows
    <3>3. LocksApart' /\ InsertedByOne'
      BY <2>1, <3>1 DEF PersonnelInv, LocksApart, InsertedByOne
    <3>4. RequestsGood'
      BY <2>1, <3>1 DEF PersonnelInv, RequestsGood, Good, WritesColumns, WritesKeys, WritesGrades, ByPromotion,
         WritesSettlements, Live, Rows, Status
    <3> QED
      BY <3>2, <3>3, <3>4 DEF PersonnelInv
  <2> QED
    BY <2>1, PersonnelStep
<1> QED
  BY <1>1, <1>2, PTL DEF PersonnelSpec

LEMMA CommitsOnly ==
  ASSUME NEW s \in Sessions, EndOfRequest(s) \/ PersonnelNext(s)
  PROVE  Commit(s) \/ db' = db
  BY DEF EndOfRequest, Rollback, PersonnelNext, Stage, CreateEmployee, UpdateEmployee, ApplyLeavePolicy, CreateChecklist,
     CompleteTask, CreatePromotion, UpdatePromotion, ApprovePromotion, CreateSettlement, PutItem, DeleteSettlement,
     RecalculateSettlement, SubmitSettlement, MarkSettlementPaid, ApproveSettlement

\* The grade of an employee changes only by the approval of a promotion from
\* the grade the employee has at that moment, whatever else is requested
\* meanwhile and however many promotions are pending: ApprovePromotion locks
\* the promotion and the employee, in api/routes/hr.
THEOREM GradesByApproval == PersonnelSpec => GradeStepsOnce
<1> DEFINE Step ==
      \A e \in Live("STAFF") :
        db'[e].grade # db[e].grade =>
          \E p \in Live("PROMO") :
            /\ Status(p) = "PENDING" /\ db'[p].status = "APPROVED"
            /\ db[p].emp = e /\ db[p].from = db[e].grade /\ db'[e].grade = db[p].to
<1>1. ASSUME PersonnelInv, [\E s \in Sessions : EndOfRequest(s) \/ PersonnelNext(s)]_vars
      PROVE  Step
  <2>1. CASE db' = db
    BY <2>1
  <2>2. ASSUME NEW s \in Sessions, Commit(s)
        PROVE  Step
    <3> HIDE DEF Sessions
    <3> DEFINE put == req[s].put
               locks == req[s].locks
    <3>1. SUFFICES ASSUME NEW e \in Live("STAFF"), db'[e].grade # db[e].grade
                   PROVE  \E p \in Live("PROMO") :
                            /\ Status(p) = "PENDING" /\ db'[p].status = "APPROVED"
                            /\ db[p].emp = e /\ db[p].from = db[e].grade /\ db'[e].grade = db[p].to
      OBVIOUS
    <3>2. e \in DOMAIN db /\ e[1] = "STAFF" /\ db[e] # NoRow
      BY DEF Live, Rows
    <3>3. "grade" \in DOMAIN db[e]
      BY <1>1, <3>2 DEF PersonnelInv, RowsComplete, Columns
    <3>4. e \in DOMAIN put /\ "grade" \in DOMAIN put[e] /\ db'[e].grade = put[e].grade
      BY <2>2, <3>1, <3>2, <3>3, CommitIsOne
    <3>5. Good(put, locks)
      BY <1>1, <2>2, CommitIsOne DEF PersonnelInv, RequestsGood
    <3>6. PICK p \in Live("PROMO") : ByPromotion(put, locks, e, p)
      BY <3>2, <3>4, <3>5 DEF Good, WritesGrades
    <3>7. db'[p].status = "APPROVED"
      BY <2>2, <3>6, CommitIsOne DEF ByPromotion, Live, Rows
    <3> QED
      BY <3>4, <3>6, <3>7 DEF ByPromotion
  <2> HIDE DEF Step
  <2> QED
    BY <1>1, <2>1, <2>2, CommitsOnly DEF vars
<1>2. PersonnelInv /\ [\E s \in Sessions : EndOfRequest(s) \/ PersonnelNext(s)]_vars => [Step]_vars
  BY <1>1
<1> QED
  BY <1>2, PersonnelInvariance, PTL DEF PersonnelSpec, GradeStepsOnce

\* The net amount of an approved settlement and its approval stand, whatever
\* items are edited and whatever requests overlap: the handlers that change
\* either lock the settlement and look at its status under the lock.
THEOREM SettlementsStand == PersonnelSpec => ApprovedNetStands
<1> DEFINE Step ==
      \A f \in Live("FNF") :
        Status(f) \in {"APPROVED", "PAID"} /\ db'[f].status # "DELETED" =>
          db'[f].net = db[f].net /\ db'[f].status \in {"APPROVED", "PAID"}
<1>1. ASSUME PersonnelInv, [\E s \in Sessions : EndOfRequest(s) \/ PersonnelNext(s)]_vars
      PROVE  Step
  <2>1. CASE db' = db
    BY <2>1 DEF Status
  <2>2. ASSUME NEW s \in Sessions, Commit(s)
        PROVE  Step
    <3> HIDE DEF Sessions
    <3> DEFINE put == req[s].put
               locks == req[s].locks
    <3>1. SUFFICES ASSUME NEW f \in Live("FNF"), Status(f) \in {"APPROVED", "PAID"}, db'[f].status # "DELETED"
                   PROVE  db'[f].net = db[f].net /\ db'[f].status \in {"APPROVED", "PAID"}
      OBVIOUS
    <3>2. f \in DOMAIN db /\ f[1] = "FNF" /\ db[f] # NoRow
      BY DEF Live, Rows
    <3>3. "net" \in DOMAIN db[f] /\ "status" \in DOMAIN db[f]
      BY <1>1, <3>2 DEF PersonnelInv, RowsComplete, Columns
    <3>4. CASE f \notin DOMAIN put
      BY <2>2, <3>1, <3>2, <3>4, CommitIsOne DEF Status
    <3>5. CASE f \in DOMAIN put
      <4>1. /\ \A c \in DOMAIN put[f] : db'[f][c] = put[f][c]
            /\ \A c \in DOMAIN db[f] \ DOMAIN put[f] : db'[f][c] = db[f][c]
        BY <2>2, <3>2, <3>5, CommitIsOne
      <4>2. Good(put, locks)
        BY <1>1, <2>2, CommitIsOne DEF PersonnelInv, RequestsGood
      <4>3. LeavesApproved(put[f]) \/ Deletes(put[f])
        BY <3>1, <3>2, <3>5, <4>2 DEF Good, WritesSettlements
      <4>4. ~Deletes(put[f])
        BY <3>1, <4>1 DEF Deletes
      <4> HIDE DEF put
      <4> QED
        BY <3>1, <3>3, <4>1, <4>3, <4>4 DEF LeavesApproved, Status
    <3> QED
      BY <3>4, <3>5
  <2> HIDE DEF Step
  <2> QED
    BY <1>1, <2>1, <2>2, CommitsOnly DEF vars
<1>2. PersonnelInv /\ [\E s \in Sessions : EndOfRequest(s) \/ PersonnelNext(s)]_vars => [Step]_vars
  BY <1>1
<1> QED
  BY <1>2, PersonnelInvariance, PTL DEF PersonnelSpec, ApprovedNetStands

-----------------------------------------------------------------------------
(* Messaging: the inductive invariant *)

\* An answer to a message is in order while the conversation is locked, the
\* agent's and without one, or once a turn for the message has committed.
Answerable(in, locks) ==
  /\ in \in Rows("MSG")
  /\ \/ Chat \in locks /\ ChatNow.status = "ACTIVE" /\ Replies(in) = {}
     \/ in \in Live("MSG") /\ db[in].early

\* Who writes an inbound message has the conversation locked and does not
\* take back that a turn for it has committed.
WritesInbound(put, locks) ==
  \A in \in Rows("MSG") :
    in \in DOMAIN put =>
      /\ Chat \in locks
      /\ db[in] = NoRow => "early" \in DOMAIN put[in]
      /\ db[in] # NoRow /\ db[in].early /\ "early" \in DOMAIN put[in] => put[in].early

NewAnswer(row, locks) ==
  /\ {"reply", "of", "auto"} \subseteq DOMAIN row /\ row.reply \in {row.of, NoRef}
  /\ row.auto \/ row.reply # NoRef => Answerable(row.of, locks)

\* The reports about an answer leave it a reply to the same message or to none.
ReportedAnswer(row) ==
  DOMAIN row \subseteq {"status", "reply"} /\ ("reply" \in DOMAIN row => row.reply = NoRef)

WritesAnswers(put, locks) ==
  \A out \in Rows("ANS") :
    out \in DOMAIN put =>
      /\ IF db[out] = NoRow THEN NewAnswer(put[out], locks) ELSE ReportedAnswer(put[out])
      /\ \A other \in Rows("ANS") : other \in DOMAIN put => other = out

\* The issue of the conversation is an issue.
IsIssue(row) == "issue" \in DOMAIN row /\ row.issue \in Rows("HELP") \cup {NoRef}

WritesChat(put) ==
  Chat \in DOMAIN put =>
    /\ db[Chat] = NoRow => IsIssue(put[Chat])
    /\ "issue" \in DOMAIN put[Chat] => IsIssue(put[Chat])

\* A turn that is about to give up its lock records its message as early.
Remains(rest) == \A d \in DOMAIN rest : d[1] \notin {"MSG", "ANS"} /\ (d = Chat => IsIssue(rest[d]))

TurnRecorded(r) ==
  r.memo.op = "early" =>
    LET in == r.memo.in IN
    /\ in \in DOMAIN db /\ in[1] = "MSG" /\ Chat \in r.locks /\ in \in DOMAIN r.put
    /\ IF "early" \in DOMAIN r.put[in] THEN r.put[in].early ELSE in \in Live("MSG") /\ db[in].early
    /\ Remains(r.memo.rest)

IsRequest(r) == DOMAIN r = {"put", "add", "locks", "memo"}

Courteous(r) ==
  /\ IsRequest(r)
  /\ WritesInbound(r.put, r.locks)
  /\ WritesAnswers(r.put, r.locks)
  /\ WritesChat(r.put)
  /\ TurnRecorded(r)

\* No other request inserts an answer that put inserts.
InsertsAlone(s, put) ==
  \A t \in Sessions \ {s} :
    req[t] # Idle => \A out \in Rows("ANS") : out \in DOMAIN put /\ out \in DOMAIN req[t].put => db[out] # NoRow

MessagingInv ==
  /\ MessagesComplete
  /\ LocksApart
  /\ \A s \in Sessions : req[s] # Idle => Courteous(req[s]) /\ InsertsAlone(s, req[s].put)

-----------------------------------------------------------------------------
(* A commit, at the end of a request or in the middle of a turn *)

\* What a commit makes of one answer.
LEMMA CommitOneAnswer ==
  ASSUME NEW s \in Sessions, NEW next, req[s] # Idle, Lockable(s, DOMAIN req[s].put), CommitAnd(s, next), MessagingInv,
         NEW d \in DOMAIN db, d[1] = "ANS", db'[d] # db[d]
  PROVE  /\ {"reply", "of", "auto"} \subseteq DOMAIN db'[d] /\ db'[d].reply \in {db'[d].of, NoRef}
         /\ db'[d].reply # NoRef =>
              \/ db[d] # NoRow /\ db'[d].reply = db[d].reply
              \/ d \in DOMAIN req[s].put /\ Answerable(db'[d].reply, req[s].locks)
<1> HIDE DEF Sessions
<1>1. d \in DOMAIN req[s].put /\ d \in Rows("ANS")
  BY CommitAndIsOne DEF Rows
<1>2. IF db[d] = NoRow THEN NewAnswer(req[s].put[d], req[s].locks) ELSE ReportedAnswer(req[s].put[d])
  BY <1>1 DEF MessagingInv, Courteous, WritesAnswers
<1>3. db[d] # NoRow => {"reply", "of", "auto"} \subseteq DOMAIN db[d] /\ db[d].reply \in {db[d].of, NoRef}
  BY <1>1 DEF MessagingInv, MessagesComplete, Live
<1>4. /\ DOMAIN db'[d] = DOMAIN req[s].put[d] \cup DOMAIN db[d]
      /\ \A c \in DOMAIN req[s].put[d] : db'[d][c] = req[s].put[d][c]
      /\ \A c \in DOMAIN db[d] \ DOMAIN req[s].put[d] : db'[d][c] = db[d][c]
  BY <1>1, CommitAndIsOne
<1>5. CASE db[d] = NoRow
  BY <1>1, <1>2, <1>4, <1>5 DEF NewAnswer, Answerable
<1>6. CASE db[d] # NoRow
  BY <1>2, <1>3, <1>4, <1>6 DEF ReportedAnswer
<1> QED
  BY <1>5, <1>6

LEMMA CommitKeepsMessages ==
  ASSUME NEW s \in Sessions, NEW next, req[s] # Idle, Lockable(s, DOMAIN req[s].put), CommitAnd(s, next), MessagingInv
  PROVE  /\ MessagesComplete'
         /\ \A d \in DOMAIN db : d[1] \in {"MSG", "ANS"} /\ db[d] # NoRow => db'[d] # NoRow
         /\ \A in \in Live("MSG") : in \in Live("MSG")' /\ (db[in].early => db'[in].early)
<1> HIDE DEF Sessions
<1>1. Courteous(req[s])
  BY DEF MessagingInv
<1>2. /\ Chat \in DOMAIN db
      /\ \A d \in DOMAIN db : d[1] = "MSG" /\ db[d] # NoRow => "early" \in DOMAIN db[d]
      /\ \A d \in DOMAIN db : d[1] = "ANS" /\ db[d] # NoRow =>
           {"reply", "of", "auto"} \subseteq DOMAIN db[d] /\ db[d].reply \in {db[d].of, NoRef}
  BY DEF MessagingInv, MessagesComplete, Live, Rows
<1>3. ASSUME NEW d \in DOMAIN db, d[1] = "MSG", db'[d] # db[d]
      PROVE  "early" \in DOMAIN db'[d]
  BY <1>1, <1>2, <1>3, CommitAndIsOne DEF Courteous, WritesInbound, Rows
<1>4. ASSUME NEW d \in DOMAIN db, d[1] = "ANS", db'[d] # db[d]
      PROVE  /\ {"reply", "of", "auto"} \subseteq DOMAIN db'[d] /\ db'[d].reply \in {db'[d].of, NoRef}
             /\ db'[d].reply # NoRef =>
                  \/ db[d] # NoRow /\ db'[d].reply = db[d].reply
                  \/ d \in DOMAIN req[s].put /\ Answerable(db'[d].reply, req[s].locks)
  BY <1>4, CommitOneAnswer
<1>5. \A d \in DOMAIN db : d[1] \in {"MSG", "ANS"} /\ db[d] # NoRow => db'[d] # NoRow
  BY <1>2, <1>3, <1>4, NoRowColumns
<1>6. ASSUME NEW in \in Live("MSG")
      PROVE  in \in Live("MSG")' /\ (db[in].early => db'[in].early)
  <2>1. in \in DOMAIN db /\ in[1] = "MSG" /\ db[in] # NoRow /\ "early" \in DOMAIN db[in]
    BY <1>2 DEF Live, Rows
  <2>2. in \in Live("MSG")'
    BY <1>5, <2>1, CommitAndIsOne DEF Live, Rows
  <2>3. CASE in \in DOMAIN req[s].put /\ "early" \in DOMAIN req[s].put[in]
    BY <1>1, <2>1, <2>2, <2>3, CommitAndIsOne DEF Courteous, WritesInbound, Rows
  <2>4. CASE ~(in \in DOMAIN req[s].put /\ "early" \in DOMAIN req[s].put[in])
    BY <2>1, <2>2, <2>4, CommitAndIsOne
  <2> QED
    BY <2>3, <2>4
<1>7. MessagesComplete'
  <2>1. db'[Chat] # NoRow => "issue" \in DOMAIN db'[Chat] /\ db'[Chat].issue \in Rows("HELP")' \cup {NoRef}
    BY <1>1, <1>2, CommitAndIsOne DEF Courteous, WritesChat, IsIssue, MessagingInv, MessagesComplete, Rows
  <2>2. ASSUME NEW d \in DOMAIN db, d[1] = "ANS", db'[d] # NoRow
        PROVE  {"reply", "of", "auto"} \subseteq DOMAIN db'[d] /\ db'[d].reply \in {db'[d].of, NoRef}
    BY <1>2, <1>4, <2>2
  <2>3. ASSUME NEW in \in Rows("MSG"), NEW out \in Replies(in)', NEW other \in Replies(in)', out # other
        PROVE  in \in Live("MSG")' /\ db'[in].early
    <3>1. /\ out \in Rows("ANS") /\ other \in Rows("ANS") /\ in # NoRef
          /\ db'[out] # NoRow /\ db'[other] # NoRow /\ db'[out].reply = in /\ db'[other].reply = in
      BY <2>3, CommitAndIsOne DEF Replies, Of, Live, Rows, NoRef
    <3>2. ASSUME NEW a \in Rows("ANS"), db'[a] # NoRow, db'[a].reply = in
          PROVE  \/ a \in Replies(in)
                 \/ a \in DOMAIN req[s].put /\ Answerable(in, req[s].locks)
      BY <1>4, <3>1, <3>2 DEF Replies, Of, Live, Rows
    <3>3. CASE out \in Replies(in) /\ other \in Replies(in)
      <4>1. in \in Live("MSG") /\ db[in].early
        BY <2>3, <3>3 DEF MessagingInv, MessagesComplete
      <4> QED
        BY <1>6, <4>1
    <3>4. CASE ~(out \in Replies(in) /\ other \in Replies(in))
      <4>1. Answerable(in, req[s].locks)
        BY <3>1, <3>2, <3>4
      <4>2. Replies(in) # {}
        <5>1. ~(out \in DOMAIN req[s].put /\ other \in DOMAIN req[s].put)
          BY <1>1, <2>3, <3>1 DEF Courteous, WritesAnswers
        <5> QED
          BY <3>1, <3>2, <5>1
      <4>3. in \in Live("MSG") /\ db[in].early
        BY <4>1, <4>2 DEF Answerable
      <4> QED
        BY <1>6, <4>3
    <3> QED
      BY <3>3, <3>4
  <2>4. /\ Rows("MSG")' = Rows("MSG")
        /\ \A out \in Live("ANS")' : {"reply", "of", "auto"} \subseteq DOMAIN db'[out] /\ db'[out].reply \in {db'[out].of, NoRef}
        /\ \A in \in Live("MSG")' : "early" \in DOMAIN db'[in]
        /\ Chat \in DOMAIN db'
    BY <1>2, <1>3, <2>2, CommitAndIsOne DEF Live, Rows
  <2> QED
    BY <2>1, <2>3, <2>4 DEF MessagesComplete
<1> QED
  BY <1>5, <1>6, <1>7

LEMMA CommitKeepsChat ==
  ASSUME NEW s \in Sessions, NEW next, req[s] # Idle, Lockable(s, DOMAIN req[s].put), CommitAnd(s, next), MessagingInv
  PROVE  db[Chat] # NoRow => db'[Chat] # NoRow
<1> HIDE DEF Sessions
<1>1. Chat \in DOMAIN db /\ (db[Chat] # NoRow => "issue" \in DOMAIN db[Chat])
  BY DEF MessagingInv, MessagesComplete
<1> QED
  BY <1>1, CommitAndIsOne, NoRowColumns

LEMMA CommitKeepsCourtesy ==
  ASSUME NEW s \in Sessions, NEW next, req[s] # Idle, Lockable(s, DOMAIN req[s].put), CommitAnd(s, next), MessagingInv,
         NEW t \in Sessions \ {s}, req[t] # Idle
  PROVE  Courteous(req[t])' /\ req'[t] = req[t]
<1> HIDE DEF Sessions
<1> DEFINE put == req[t].put
           locks == req[t].locks
<1>1. Courteous(req[t]) /\ Courteous(req[s]) /\ req'[t] = req[t] /\ DOMAIN db' = DOMAIN db
  BY CommitAndIsOne DEF MessagingInv
<1>2. Chat \in locks => db'[Chat] = db[Chat] /\ ChatNow' = ChatNow
  BY CommitAndIsOne DEF MessagingInv, MessagesComplete, ChatNow, Chat
<1>3. ASSUME NEW in \in DOMAIN db, in[1] = "MSG", Chat \in locks
      PROVE  db'[in] = db[in]
  <2>1. Chat \notin req[s].locks
    BY <1>3 DEF MessagingInv, LocksApart
  <2>2. in \notin DOMAIN req[s].put
    BY <1>1, <1>3, <2>1 DEF Courteous, WritesInbound, Rows
  <2> QED
    BY <2>2, CommitAndIsOne
<1>4. ASSUME NEW in, Answerable(in, locks)
      PROVE  Answerable(in, locks)'
  <2>1. in \in Rows("MSG") /\ in \in Rows("MSG")' /\ in # NoRef
    BY <1>1, <1>4 DEF Answerable, Rows, NoRef
  <2>2. CASE in \in Live("MSG") /\ db[in].early
    BY <2>1, <2>2, CommitKeepsMessages DEF Answerable
  <2>3. CASE Chat \in locks /\ ChatNow.status = "ACTIVE" /\ Replies(in) = {} /\ ~(in \in Live("MSG") /\ db[in].early)
    <3>1. ASSUME NEW out \in Replies(in)'
          PROVE  FALSE
      <4>1. out \in DOMAIN db /\ out[1] = "ANS" /\ db'[out] # NoRow /\ db'[out].reply = in
        BY <1>1, <3>1 DEF Replies, Of, Live, Rows
      <4>2. db'[out] # db[out]
        BY <2>3, <4>1 DEF Replies, Of, Live, Rows
      <4>3. ~(db[out] # NoRow /\ db[out].reply = in)
        BY <2>3, <4>1 DEF Replies, Of, Live, Rows
      <4>4. Answerable(in, req[s].locks)
        BY <2>1, <4>1, <4>2, <4>3, CommitOneAnswer
      <4>5. Chat \notin req[s].locks
        BY <2>3 DEF MessagingInv, LocksApart
      <4> QED
        BY <2>3, <4>4, <4>5 DEF Answerable
    <3>2. Replies(in)' = {}
      BY <3>1
    <3>3. ChatNow' = ChatNow
      BY <1>2, <2>3
    <3> QED
      BY <1>1, <2>1, <2>3, <3>2, <3>3 DEF Answerable
  <2> QED
    BY <1>4, <2>2, <2>3 DEF Answerable
<1>5. WritesInbound(put, locks)'
  BY <1>1, <1>3 DEF Courteous, WritesInbound, Rows
<1>6. WritesAnswers(put, locks)'
  <2>1. ASSUME NEW row, NewAnswer(row, locks)
        PROVE  NewAnswer(row, locks)'
    BY <1>1, <1>4, <2>1 DEF NewAnswer
  <2>2. ASSUME NEW out \in Rows("ANS"), out \in DOMAIN put
        PROVE  db'[out] = NoRow <=> db[out] = NoRow
    <3>1. CASE db[out] = NoRow
      <4>1. out \notin DOMAIN req[s].put
        BY <2>2, <3>1 DEF MessagingInv, InsertsAlone
      <4> QED
        BY <3>1, <4>1, CommitAndIsOne DEF Rows
    <3>2. CASE db[out] # NoRow
      BY <3>2, CommitKeepsMessages DEF Rows
    <3> QED
      BY <3>1, <3>2
  <2>3. \A out \in Rows("ANS") :
          out \in DOMAIN put =>
            /\ IF db[out] = NoRow THEN NewAnswer(put[out], locks)' ELSE ReportedAnswer(put[out])
            /\ \A other \in Rows("ANS") : other \in DOMAIN put => other = out
    <3>1. WritesAnswers(put, locks)
      BY <1>1 DEF Courteous
    <3>2. \A out \in Rows("ANS") : NewAnswer(put[out], locks) => NewAnswer(put[out], locks)'
      BY <1>1, <1>4 DEF NewAnswer
    <3> QED
      BY <3>1, <3>2 DEF WritesAnswers
  <2>4. Rows("ANS")' = Rows("ANS")
    BY <1>1 DEF Rows
  <2> QED
    BY <1>1, <2>2, <2>3, <2>4 DEF WritesAnswers, ReportedAnswer
<1>7. TurnRecorded(req[t])'
  BY <1>1, <1>3, CommitKeepsMessages DEF Courteous, TurnRecorded, Remains, IsIssue, Rows
<1>8. WritesChat(put)'
  BY <1>1, CommitKeepsChat DEF Courteous, WritesChat, IsIssue, Rows
<1> QED
  BY <1>1, <1>5, <1>6, <1>7, <1>8 DEF Courteous

LEMMA CommitInsertsAlone ==
  ASSUME NEW s \in Sessions, NEW next, req[s] # Idle, Lockable(s, DOMAIN req[s].put), CommitAnd(s, next), MessagingInv,
         next # Idle => InsertsAlone(s, next.put), NEW t \in Sessions, req'[t] # Idle
  PROVE  InsertsAlone(t, req[t].put)'
<1> HIDE DEF Sessions
<1>1. /\ Sessions' = Sessions /\ req'[s] = next /\ \A u \in Sessions \ {s} : req'[u] = req[u]
      /\ \A out \in Rows("ANS") : db[out] # NoRow => db'[out] # NoRow
      /\ Rows("ANS")' = Rows("ANS")
  BY CommitAndIsOne, CommitKeepsMessages DEF Rows
<1>2. ASSUME NEW u \in Sessions \ {t}, req'[u] # Idle, NEW out \in Rows("ANS"),
             out \in DOMAIN req'[t].put, out \in DOMAIN req'[u].put
      PROVE  db[out] # NoRow
  <2>1. CASE t = s
    BY <1>1, <1>2, <2>1 DEF InsertsAlone
  <2>2. CASE u = s
    BY <1>1, <1>2, <2>2 DEF InsertsAlone
  <2>3. CASE t # s /\ u # s
    BY <1>1, <1>2, <2>3 DEF MessagingInv, InsertsAlone
  <2> QED
    BY <2>1, <2>2, <2>3
<1> QED
  BY <1>1, <1>2 DEF InsertsAlone

-----------------------------------------------------------------------------
(* Staging *)

Polite(put, locks) ==
  /\ \A in \in Rows("MSG") :
       in \in DOMAIN put =>
         /\ Chat \in locks
         /\ "early" \in DOMAIN put[in]
         /\ db[in] # NoRow /\ db[in].early => put[in].early
  /\ \A out \in Rows("ANS") :
       out \in DOMAIN put =>
         /\ IF db[out] = NoRow THEN NewAnswer(put[out], locks) /\ Fresh(out) ELSE ReportedAnswer(put[out])
         /\ \A other \in Rows("ANS") : other \in DOMAIN put => other = out
  /\ WritesChat(put)

LEMMA PoliteIsCourteous ==
  ASSUME NEW put, NEW add, NEW locks, NEW memo, Polite(put, locks)
  PROVE  LET r == Request(put, add, locks, memo) IN
         /\ IsRequest(r) /\ r.put = Staged(put) /\ r.locks = locks /\ r.memo = memo
         /\ WritesInbound(r.put, r.locks) /\ WritesAnswers(r.put, r.locks) /\ WritesChat(r.put)
<1> DEFINE new == Staged(put)
<1>1. DOMAIN new = DOMAIN put
  BY DEF Staged
<1>2. \A d \in DOMAIN put :
        /\ DOMAIN new[d] \subseteq DOMAIN put[d]
        /\ \A c \in DOMAIN put[d] : (c \in DOMAIN db[d] /\ put[d][c] = db[d][c]) \/ c \in DOMAIN new[d]
        /\ \A c \in DOMAIN new[d] : new[d][c] = put[d][c]
  BY StagedColumns
<1> HIDE DEF new
<1>3. WritesInbound(new, locks)
  BY <1>1, <1>2, NoRowColumns DEF Polite, WritesInbound
<1>4. WritesAnswers(new, locks)
  <2>1. SUFFICES ASSUME NEW out \in Rows("ANS"), out \in DOMAIN put
                 PROVE  IF db[out] = NoRow THEN NewAnswer(new[out], locks) ELSE ReportedAnswer(new[out])
    BY <1>1 DEF WritesAnswers, Polite
  <2>2. CASE db[out] = NoRow
    <3>1. NewAnswer(put[out], locks)
      BY <2>1, <2>2 DEF Polite
    <3>2. {"reply", "of", "auto"} \subseteq DOMAIN new[out]
      BY <1>2, <2>1, <2>2, <3>1, NoRowColumns DEF NewAnswer
    <3> QED
      BY <1>2, <2>1, <2>2, <3>1, <3>2 DEF NewAnswer
  <2>3. CASE db[out] # NoRow
    <3>1. ReportedAnswer(put[out])
      BY <2>1, <2>3 DEF Polite
    <3> QED
      BY <1>2, <2>1, <2>3, <3>1 DEF ReportedAnswer
  <2> QED
    BY <2>2, <2>3
<1>5. WritesChat(new)
  BY <1>1, <1>2, NoRowColumns DEF Polite, WritesChat, IsIssue
<1> QED
  BY <1>3, <1>4, <1>5 DEF new, Request, Staged, IsRequest

\* What a request keeps to depends on the tables only.
LEMMA SameCourtesy ==
  ASSUME NEW r, Courteous(r), db' = db
  PROVE  Courteous(r)'
<1>1. ASSUME NEW in, NEW locks
      PROVE  Answerable(in, locks)' <=> Answerable(in, locks)
  <2>1. (Replies(in) = {})' <=> Replies(in) = {}
    BY DEF Replies, Of, Live, Rows
  <2>2. (ChatNow.status = "ACTIVE")' <=> ChatNow.status = "ACTIVE"
    BY DEF ChatNow
  <2> QED
    BY <2>1, <2>2 DEF Answerable, Live, Rows
<1>2. ASSUME NEW row, NEW locks
      PROVE  NewAnswer(row, locks)' <=> NewAnswer(row, locks)
  BY <1>1 DEF NewAnswer
<1>3. WritesInbound(r.put, r.locks)'
  BY DEF Courteous, WritesInbound, Rows
<1>4. WritesAnswers(r.put, r.locks)'
  BY <1>2 DEF Courteous, WritesAnswers, Rows
<1>5. WritesChat(r.put)'
  BY DEF Courteous, WritesChat, IsIssue, Rows
<1>6. TurnRecorded(r)'
  BY DEF Courteous, TurnRecorded, Remains, IsIssue, Live, Rows
<1> QED
  BY <1>3, <1>4, <1>5, <1>6 DEF Courteous

LEMMA NewRequest ==
  ASSUME NEW s \in Sessions, MessagingInv, db' = db, Sessions' = Sessions,
         \A t \in Sessions \ {s} : req'[t] = req[t],
         req'[s] # Idle =>
           /\ Courteous(req'[s])
           /\ \A t \in Sessions \ {s} : req[t] # Idle => req[t].locks \cap req'[s].locks = {}
           /\ InsertsAlone(s, req'[s].put)
  PROVE  MessagingInv'
<1> HIDE DEF Sessions
<1>1. MessagesComplete'
  BY DEF MessagingInv, MessagesComplete, Replies, Of, Live, Rows
<1>2. LocksApart'
  <2>1. SUFFICES ASSUME NEW t \in Sessions, NEW u \in Sessions, t # u, req'[t] # Idle, req'[u] # Idle
                 PROVE  req'[t].locks \cap req'[u].locks = {}
    BY DEF LocksApart
  <2>2. CASE t = s
    BY <2>1, <2>2
  <2>3. CASE u = s
    BY <2>1, <2>3
  <2>4. CASE t # s /\ u # s
    BY <2>1, <2>4 DEF MessagingInv, LocksApart
  <2> QED
    BY <2>2, <2>3, <2>4
<1>3. ASSUME NEW t \in Sessions, req'[t] # Idle
      PROVE  Courteous(req[t])'
  <2>1. PICK r : r = req'[t]
    OBVIOUS
  <2>2. Courteous(r)
    BY <1>3, <2>1 DEF MessagingInv
  <2>3. Courteous(r)'
    BY <2>2, SameCourtesy
  <2> QED
    BY <2>1, <2>3
<1>4. ASSUME NEW t \in Sessions, req'[t] # Idle
      PROVE  InsertsAlone(t, req[t].put)'
  <2>1. ASSUME NEW u \in Sessions \ {t}, req'[u] # Idle, NEW out \in Rows("ANS"),
               out \in DOMAIN req'[t].put, out \in DOMAIN req'[u].put
        PROVE  db[out] # NoRow
    <3>1. CASE t = s
      BY <1>4, <2>1, <3>1 DEF InsertsAlone
    <3>2. CASE u = s
      BY <1>4, <2>1, <3>2 DEF InsertsAlone
    <3>3. CASE t # s /\ u # s
      BY <1>4, <2>1, <3>3 DEF MessagingInv, InsertsAlone
    <3> QED
      BY <3>1, <3>2, <3>3
  <2> QED
    BY <2>1 DEF InsertsAlone, Rows
<1> QED
  BY <1>1, <1>2, <1>3, <1>4 DEF MessagingInv

LEMMA PoliteInsertsAlone ==
  ASSUME NEW s, NEW put, NEW new, NEW locks, Polite(put, locks), DOMAIN new = DOMAIN put
  PROVE  InsertsAlone(s, new)
  BY DEF Polite, InsertsAlone, Fresh, Used

LEMMA StagePolite ==
  ASSUME NEW s \in Sessions, NEW put, NEW add, NEW locks, Stage(s, put, add, locks), Polite(put, locks), MessagingInv
  PROVE  MessagingInv'
<1>1. req'[s] = Request(put, add, locks, [op |-> "commit"])
  BY DEF Stage, Sessions
<1> HIDE DEF Sessions
<1>2. Courteous(req'[s])
  BY <1>1, PoliteIsCourteous DEF Courteous, TurnRecorded
<1>3. InsertsAlone(s, req'[s].put)
  <2>1. DOMAIN req'[s].put = DOMAIN put
    BY StageIsOne DEF Staged
  <2> QED
    BY <2>1, PoliteInsertsAlone
<1> QED
  BY <1>1, <1>2, <1>3, StageIsOne, NewRequest

NoAnswers(put) == \A out \in Rows("ANS") : out \notin DOMAIN put

LEMMA MergePolite ==
  ASSUME NEW f, NEW g, NEW locks, Polite(f, locks), Polite(g, locks), NoAnswers(f) \/ NoAnswers(g)
  PROVE  Polite(f @@ g, locks)
<1> DEFINE put == f @@ g
<1>1. /\ DOMAIN put = DOMAIN f \cup DOMAIN g
      /\ \A x \in DOMAIN f : put[x] = f[x]
      /\ \A x \in DOMAIN g \ DOMAIN f : put[x] = g[x]
  BY DEF @@
<1> HIDE DEF put
<1>2. Polite(put, locks)
  BY <1>1 DEF Polite, WritesChat, IsIssue, NoAnswers
<1> QED
  BY <1>2 DEF put

\* What no answer depends on.
Elsewhere(put) == \A d \in DOMAIN put : d[1] \notin {"MSG", "ANS", "CHAT"}

LEMMA ChatKind == Chat[1] = "CHAT"
  BY DEF Chat

LEMMA ElsewherePolite ==
  ASSUME NEW put, NEW locks, Elsewhere(put)
  PROVE  Polite(put, locks) /\ NoAnswers(put)
  BY ChatKind DEF Elsewhere, Polite, WritesChat, NoAnswers, Rows

LEMMA InboundPolite ==
  ASSUME NEW in \in Rows("MSG")
  PROVE  Polite(Inbound(in), {Chat}) /\ NoAnswers(Inbound(in))
<1> DEFINE row == [status |-> "RECEIVED", early |-> db[in] # NoRow /\ db[in].early]
           put == Inbound(in)
<1>1. DOMAIN put = {in} /\ put[in] = row
  BY OneRow DEF Inbound
<1>2. "early" \in DOMAIN row /\ (db[in] # NoRow /\ db[in].early => row.early)
  OBVIOUS
<1>3. in[1] = "MSG"
  BY DEF Rows
<1> HIDE DEF row, put
<1>4. Polite(put, {Chat})
  BY <1>1, <1>2, <1>3, ChatKind DEF Polite, WritesChat, Rows
<1>5. NoAnswers(put)
  BY <1>1, <1>3 DEF NoAnswers, Rows
<1> QED
  BY <1>4, <1>5 DEF put

LEMMA AnswerPolite ==
  ASSUME NEW in, NEW out \in Rows("ANS"), NEW locks, Answerable(in, locks), Fresh(out)
  PROVE  Polite(Answer(out, in), locks) /\ DOMAIN Answer(out, in) = {out}
<1> DEFINE row == [status |-> "PENDING", reply |-> in, of |-> in, auto |-> TRUE]
           put == Answer(out, in)
<1>1. DOMAIN put = {out} /\ put[out] = row
  BY OneRow DEF Answer
<1>2. {"reply", "of", "auto"} \subseteq DOMAIN row /\ row.of = in /\ row.reply = in
  OBVIOUS
<1>3. out[1] = "ANS" /\ db[out] = NoRow
  BY DEF Rows, Fresh, Used
<1> HIDE DEF row, put
<1>4. NewAnswer(row, locks)
  BY <1>2 DEF NewAnswer
<1>5. Polite(put, locks)
  BY <1>1, <1>3, <1>4, ChatKind DEF Polite, WritesChat, Rows
<1> QED
  BY <1>1, <1>5 DEF put

-----------------------------------------------------------------------------
(* The handlers and the bridge *)

LEMMA ChatPolite ==
  ASSUME MessagingInv, NEW row, DOMAIN row = DOMAIN ChatNow, row.issue = ChatNow.issue
  PROVE  Polite(Chat :> row, {Chat}) /\ NoAnswers(Chat :> row)
<1> DEFINE put == Chat :> row
<1>1. DOMAIN put = {Chat} /\ put[Chat] = row
  BY OneRow
<1>2. IsIssue(ChatNow)
  BY DEF MessagingInv, MessagesComplete, IsIssue, ChatNow, NewChat
<1> HIDE DEF put
<1>3. Polite(put, {Chat}) /\ NoAnswers(put)
  BY <1>1, <1>2, ChatKind DEF Polite, WritesChat, IsIssue, NoAnswers, Rows
<1> QED
  BY <1>3 DEF put

LEMMA PlainTurnPolite ==
  ASSUME NEW s \in Sessions, NEW in \in Rows("MSG"), NEW out \in Rows("ANS"), NEW extra, Polite(extra, {Chat}), NoAnswers(extra),
         MessagingInv, Fresh(out), PlainTurn(s, in, out, extra)
  PROVE  MessagingInv'
<1> HIDE DEF Sessions
<1> DEFINE chat == Chat :> ChatNow
           put == Inbound(in) @@ Answer(out, in) @@ extra @@ chat
<1>1. Stage(s, put, Hands(out) :> 1, {Chat}) /\ ChatNow.status = "ACTIVE" /\ Replies(in) = {}
  BY DEF PlainTurn, ChatLocks
<1>2. Answerable(in, {Chat})
  BY <1>1 DEF Answerable
<1>3. Polite(chat, {Chat}) /\ NoAnswers(chat)
  BY ChatPolite
<1> HIDE DEF chat
<1>4. Polite(Inbound(in) @@ Answer(out, in), {Chat})
  BY <1>2, InboundPolite, AnswerPolite, MergePolite
<1>5. Polite(Inbound(in) @@ Answer(out, in) @@ extra, {Chat})
  BY <1>4, MergePolite
<1>6. Polite(put, {Chat})
  BY <1>3, <1>5, MergePolite
<1> QED
  BY <1>1, <1>6, StagePolite

LEMMA EarlyTurnPolite ==
  ASSUME NEW s \in Sessions, NEW in \in Rows("MSG"), NEW made, Elsewhere(made), NEW rest, Remains(rest),
         MessagingInv, EarlyTurn(s, in, made, rest)
  PROVE  MessagingInv'
<1> DEFINE memo == [op |-> "early", in |-> in, rest |-> rest]
           row == [status |-> "RECEIVED", early |-> TRUE]
           chat == Chat :> ChatNow
           put == chat @@ in :> row @@ made
           r == Request(put, Nothing, {Chat}, memo)
<1>1. /\ Free(s) /\ Lockable(s, {Chat})
      /\ req' = [req EXCEPT ![s] = r] /\ db' = db
  BY DEF EarlyTurn, ChatLocks
<1>2. /\ req'[s] = r /\ Sessions' = Sessions
      /\ \A t \in Sessions \ {s} : req'[t] = req[t]
      /\ \A t \in Sessions \ {s} : req[t] # Idle => req[t].locks \cap {Chat} = {}
  BY <1>1 DEF Lockable, Sessions
<1>3. in \in DOMAIN db /\ in[1] = "MSG"
  BY DEF Rows
<1> HIDE DEF Sessions
<1>4. DOMAIN (in :> row) = {in} /\ (in :> row)[in] = row
  BY OneRow
<1>5. Polite(in :> row, {Chat}) /\ NoAnswers(in :> row)
  BY <1>3, <1>4, ChatKind DEF Polite, WritesChat, NoAnswers, Rows
<1>6. Polite(chat, {Chat}) /\ DOMAIN chat = {Chat} /\ in # Chat
  BY <1>3, OneRow, ChatPolite, ChatKind
<1> HIDE DEF chat
<1>7. Polite(chat @@ in :> row, {Chat})
  BY <1>5, <1>6, MergePolite
<1>8. Polite(put, {Chat})
  BY <1>7, ElsewherePolite, MergePolite
<1>9. in \in DOMAIN put /\ put[in] = row
  BY <1>4, <1>6 DEF @@
<1> HIDE DEF put
<1>10. DOMAIN Staged(put) = DOMAIN put
  BY DEF Staged
<1>11. InsertsAlone(s, Staged(put))
  BY <1>8, <1>10, PoliteInsertsAlone
<1>12. /\ IsRequest(r) /\ r.put = Staged(put) /\ r.locks = {Chat} /\ r.memo = memo
       /\ WritesInbound(r.put, r.locks) /\ WritesAnswers(r.put, r.locks) /\ WritesChat(r.put)
  BY <1>8, PoliteIsCourteous
<1>13. IF "early" \in DOMAIN Staged(put)[in] THEN Staged(put)[in].early ELSE in \in Live("MSG") /\ db[in].early
  <2>1. "early" \in DOMAIN put[in] /\ put[in].early = TRUE
    BY <1>9
  <2>2. CASE "early" \in DOMAIN Staged(put)[in]
    BY <1>9, <2>1, <2>2, StagedColumns
  <2>3. CASE "early" \notin DOMAIN Staged(put)[in]
    <3>1. "early" \in DOMAIN db[in] /\ put[in]["early"] = db[in]["early"]
      BY <1>9, <2>1, <2>3, StagedColumns
    <3> QED
      BY <1>3, <2>1, <2>3, <3>1, NoRowColumns DEF Live, Rows
  <2> QED
    BY <2>2, <2>3
<1>14. TurnRecorded(r)
  <2>1. in \in DOMAIN Staged(put)
    BY <1>9 DEF Staged
  <2>2. r.memo.op = "early" /\ r.memo.in = in /\ r.memo.rest = rest
    BY <1>12
  <2> HIDE DEF r
  <2> QED
    BY <1>3, <1>12, <1>13, <2>1, <2>2 DEF TurnRecorded
<1> HIDE DEF r
<1>15. Courteous(r)
  BY <1>12, <1>14 DEF Courteous
<1> QED
  BY <1>1, <1>2, <1>11, <1>12, <1>15, NewRequest

LEMMA CommitEarlyCourteous ==
  ASSUME NEW s \in Sessions, NEW out \in Rows("ANS"), MessagingInv, Fresh(out), CommitEarly(s, out)
  PROVE  MessagingInv'
<1> PICK in, rest, put :
      in = req[s].memo.in /\ rest = req[s].memo.rest /\ put = Answer(out, in) @@ rest
  OBVIOUS
<1> DEFINE next == [put |-> put, add |-> Hands(out) :> 1, locks |-> {}, memo |-> [op |-> "commit"]]
<1>1. /\ req[s] # Idle /\ req[s].memo.op = "early" /\ Lockable(s, DOMAIN req[s].put) /\ CommitAnd(s, next)
  BY DEF CommitEarly, At, Free
<1> HIDE DEF Sessions
<1>2. Courteous(req[s])
  BY <1>1 DEF MessagingInv
<1>3. /\ in \in DOMAIN db /\ in[1] = "MSG" /\ in \in DOMAIN req[s].put
      /\ IF "early" \in DOMAIN req[s].put[in] THEN req[s].put[in].early ELSE in \in Live("MSG") /\ db[in].early
      /\ Remains(rest)
  BY <1>1, <1>2 DEF Courteous, TurnRecorded
<1> HIDE DEF next
<1>4. req'[s] = next /\ Sessions' = Sessions /\ DOMAIN db' = DOMAIN db
  BY <1>1, CommitAndIsOne
<1>5. MessagesComplete'
  BY <1>1, CommitKeepsMessages
<1>6. in \in Live("MSG")' /\ db'[in].early
  <2>1. CASE "early" \in DOMAIN req[s].put[in]
    <3>1. db'[in].early = req[s].put[in].early /\ "early" \in DOMAIN db'[in]
      BY <1>1, <1>3, <2>1, CommitAndIsOne
    <3> QED
      BY <1>3, <1>4, <2>1, <3>1, NoRowColumns DEF Live, Rows
  <2>2. CASE "early" \notin DOMAIN req[s].put[in]
    BY <1>1, <1>3, <2>2, CommitKeepsMessages
  <2> QED
    BY <2>1, <2>2
<1>7. Answerable(in, {})'
  BY <1>6 DEF Answerable, Live
<1>8. /\ DOMAIN put = {out} \cup DOMAIN rest
      /\ {"reply", "of", "auto"} \subseteq DOMAIN put[out] /\ put[out].of = in /\ put[out].reply = in
      /\ \A d \in DOMAIN rest : d # out => put[d] = rest[d]
  <2> DEFINE row == [status |-> "PENDING", reply |-> in, of |-> in, auto |-> TRUE]
  <2>1. DOMAIN Answer(out, in) = {out} /\ Answer(out, in)[out] = row
    BY OneRow DEF Answer
  <2>2. {"reply", "of", "auto"} \subseteq DOMAIN row /\ row.of = in /\ row.reply = in
    OBVIOUS
  <2> HIDE DEF row
  <2> QED
    BY <2>1, <2>2 DEF @@
<1>9. next.put = put /\ next.locks = {} /\ next.memo.op = "commit" /\ IsRequest(next)
  BY DEF next, IsRequest
<1>10. WritesInbound(put, {})'
  BY <1>3, <1>4, <1>8 DEF WritesInbound, Remains, Rows
<1>11. out \in DOMAIN db /\ out[1] = "ANS" /\ db[out] = NoRow
  BY DEF Fresh, Used, Rows
<1>12. \A other \in Rows("ANS") : other \in DOMAIN put => other = out
  BY <1>3, <1>8 DEF Remains, Rows
<1>13. InsertsAlone(s, put)
  BY <1>12 DEF InsertsAlone, Fresh, Used
<1>14. db'[out] = NoRow
  <2>1. out \notin DOMAIN req[s].put
    BY <1>1 DEF Fresh, Used
  <2> QED
    BY <1>1, <1>11, <2>1, CommitAndIsOne
<1>15. WritesAnswers(put, {})'
  <2>1. NewAnswer(put[out], {})'
    BY <1>7, <1>8 DEF NewAnswer
  <2> QED
    BY <1>4, <1>11, <1>12, <1>14, <2>1 DEF WritesAnswers, Rows
<1>16. WritesChat(put)'
  BY <1>3, <1>4, <1>8, ChatKind DEF WritesChat, Remains, IsIssue, Rows
<1>17. Courteous(req[s])'
  BY <1>4, <1>9, <1>10, <1>15, <1>16 DEF Courteous, TurnRecorded
<1>18. \A t \in Sessions \ {s} : req[t] # Idle => Courteous(req[t])' /\ req'[t] = req[t]
  BY <1>1, CommitKeepsCourtesy
<1>19. LocksApart'
  BY <1>1, <1>4, <1>9, CommitAndIsOne DEF MessagingInv, LocksApart
<1>20. \A t \in Sessions \ {s} : req'[t] = req[t]
  BY <1>1, CommitAndIsOne
<1>21. \A t \in Sessions : req'[t] # Idle => InsertsAlone(t, req[t].put)'
  BY <1>1, <1>9, <1>13, CommitInsertsAlone
<1> QED
  BY <1>4, <1>5, <1>17, <1>18, <1>19, <1>20, <1>21 DEF MessagingInv

LEMMA TurnStep ==
  ASSUME NEW s \in Sessions, NEW in \in Rows("MSG"), MessagingInv,
         LongTurn(s, in) \/ \E out \in Rows("ANS") : Fresh(out) /\ Turn(s, in, out)
  PROVE  MessagingInv'
<1> HIDE DEF Sessions
<1>1. ASSUME NEW help \in Rows("HELP"), NEW escalate \in BOOLEAN, OpenIssue(s, in, help, escalate)
      PROVE  MessagingInv'
  <2> DEFINE made == help :> [status |-> "OPEN"]
             row == [issue |-> help] @@ IF escalate THEN [status |-> "HUMAN_HANDOFF"] ELSE Nothing
             rest == Chat :> row
  <2>1. EarlyTurn(s, in, made, rest)
    BY <1>1 DEF OpenIssue
  <2>2. Elsewhere(made)
    <3>1. DOMAIN made = {help} /\ help[1] = "HELP"
      BY OneRow DEF Rows
    <3> HIDE DEF made
    <3> QED
      BY <3>1 DEF Elsewhere
  <2>3. "issue" \in DOMAIN row /\ row.issue = help
    BY DEF @@
  <2> HIDE DEF row, made
  <2>4. Remains(rest)
    <3>1. DOMAIN rest = {Chat} /\ rest[Chat] = row
      BY OneRow
    <3> HIDE DEF rest
    <3> QED
      BY <2>3, <3>1, ChatKind DEF Remains, IsIssue
  <2> QED
    BY <2>1, <2>2, <2>4, EarlyTurnPolite
<1>2. ASSUME NEW code \in Rows("CODE"), NEW delivered \in BOOLEAN, SendCode(s, in, code, delivered)
      PROVE  MessagingInv'
  <2> DEFINE one == code :> [status |-> "OPEN", tries |-> 0]
             others == [c \in {d \in Live("CODE") : Status(d) = "OPEN"} |-> [status |-> "USED"]]
             rest == IF delivered THEN Nothing ELSE code :> [status |-> "USED"]
  <2>1. EarlyTurn(s, in, one @@ others, rest)
    BY <1>2 DEF SendCode
  <2>2. DOMAIN one = {code} /\ DOMAIN others \subseteq Rows("CODE") /\ DOMAIN rest \subseteq {code}
    BY OneRow, NothingIsEmpty DEF Live
  <2> HIDE DEF one, others, rest
  <2>3. DOMAIN (one @@ others) \subseteq Rows("CODE")
    BY <2>2 DEF @@
  <2>4. Elsewhere(one @@ others)
    BY <2>3 DEF Elsewhere, Rows
  <2>5. Remains(rest)
    BY <2>2, ChatKind DEF Remains, Rows
  <2> QED
    BY <2>1, <2>4, <2>5, EarlyTurnPolite
<1>3. ASSUME NEW out \in Rows("ANS"), Fresh(out), PlainTurn(s, in, out, Nothing)
      PROVE  MessagingInv'
  BY <1>3, PlainTurnPolite, ElsewherePolite, NothingIsEmpty DEF Elsewhere
<1>4. ASSUME NEW out \in Rows("ANS"), NEW code \in Rows("CODE"), NEW right \in BOOLEAN, Fresh(out),
             VerifyCode(s, in, out, code, right)
      PROVE  MessagingInv'
  <2> DEFINE row == [tries |-> db[code].tries + 1,
                     status |-> IF right \/ db[code].tries = 4 THEN "USED" ELSE "OPEN"]
             tried == code :> row
             verified == [ChatNow EXCEPT !.verified = TRUE]
             rest == IF right THEN Chat :> verified ELSE Nothing
  <2>1. PlainTurn(s, in, out, tried @@ rest)
    BY <1>4 DEF VerifyCode
  <2>2. Elsewhere(tried)
    <3>1. DOMAIN tried = {code} /\ code[1] = "CODE"
      BY OneRow DEF Rows
    <3> HIDE DEF tried
    <3> QED
      BY <3>1 DEF Elsewhere
  <2>3. DOMAIN verified = DOMAIN ChatNow /\ verified.issue = ChatNow.issue
    OBVIOUS
  <2> HIDE DEF tried, verified
  <2>4. Polite(rest, {Chat}) /\ NoAnswers(rest)
    BY <2>3, ChatPolite, ElsewherePolite, NothingIsEmpty DEF Elsewhere
  <2>5. Polite(tried, {Chat}) /\ NoAnswers(tried)
    BY <2>2, ElsewherePolite
  <2> HIDE DEF rest
  <2>6. NoAnswers(tried @@ rest)
    BY <2>4, <2>5 DEF NoAnswers, @@
  <2>7. Polite(tried @@ rest, {Chat})
    BY <2>4, <2>5, MergePolite
  <2> QED
    BY <1>4, <2>1, <2>6, <2>7, PlainTurnPolite
<1>5. ASSUME NEW out \in Rows("ANS"), NEW b \in Rows("BOOKED"), NEW status, Fresh(out),
             PlainTurn(s, in, out, b :> [status |-> status])
      PROVE  MessagingInv'
  <2> DEFINE booking == b :> [status |-> status]
  <2>1. DOMAIN booking = {b} /\ b[1] = "BOOKED"
    BY OneRow DEF Rows
  <2> HIDE DEF booking
  <2>2. Polite(booking, {Chat}) /\ NoAnswers(booking)
    BY <2>1, ElsewherePolite DEF Elsewhere
  <2> QED
    BY <1>5, <2>2, PlainTurnPolite DEF booking
<1> QED
  BY <1>1, <1>2, <1>3, <1>4, <1>5 DEF LongTurn, Turn, BookAppointment, UpdateAppointment, Live

LEMMA DeliveryStep ==
  ASSUME NEW s \in Sessions, NEW in \in Rows("MSG"), MessagingInv, InboundAnswered(s, in) \/ InboundToHuman(s, in)
  PROVE  MessagingInv'
<1> HIDE DEF Sessions
<1>1. Polite(Nothing, {Chat})
  BY ElsewherePolite, NothingIsEmpty DEF Elsewhere
<1> QED
  BY <1>1, InboundPolite, StagePolite DEF InboundAnswered, InboundToHuman, ChatLocks

LEMMA ReportPolite ==
  ASSUME NEW s \in Sessions, NEW out \in Live("ANS"), NEW columns, ReportedAnswer(columns), MessagingInv, Report(s, out, columns)
  PROVE  MessagingInv'
<1> DEFINE put == out :> columns
           r == Request(put, Nothing, {}, [op |-> "commit"])
<1>1. /\ req'[s] = r /\ db' = db /\ Sessions' = Sessions
      /\ \A t \in Sessions \ {s} : req'[t] = req[t]
  BY DEF Report, Sessions
<1> HIDE DEF Sessions
<1>2. DOMAIN put = {out} /\ put[out] = columns /\ out[1] = "ANS" /\ db[out] # NoRow
  BY OneRow DEF Live, Rows
<1> HIDE DEF put
<1>3. Polite(put, {})
  BY <1>2, ChatKind DEF Polite, WritesChat, Rows
<1>4. Courteous(r) /\ r.locks = {} /\ r.put = Staged(put)
  BY <1>3, PoliteIsCourteous DEF Courteous, TurnRecorded
<1>5. DOMAIN Staged(put) = DOMAIN put
  BY DEF Staged
<1> HIDE DEF r
<1>6. InsertsAlone(s, r.put)
  BY <1>3, <1>4, <1>5, PoliteInsertsAlone
<1> QED
  BY <1>1, <1>4, <1>6, NewRequest

LEMMA ReportFailsPolite ==
  ASSUME NEW s \in Sessions, MessagingInv, ReportFails(s)
  PROVE  MessagingInv'
<1>1. PICK out \in Live("ANS") :
        /\ req[s] # Idle /\ req[s].memo.op = "commit"
        /\ req' = [req EXCEPT ![s].put = Request(out :> Failed, Nothing, {}, 0).put]
        /\ db' = db
  BY DEF ReportFails, At, Free
<1> DEFINE put == out :> Failed
           r == [req[s] EXCEPT !.put = Staged(put)]
<1>2. Courteous(req[s])
  BY <1>1 DEF MessagingInv
<1>3. req'[s] = r /\ Sessions' = Sessions /\ \A t \in Sessions \ {s} : req'[t] = req[t]
  <2>1. Request(put, Nothing, {}, 0).put = Staged(put)
    BY DEF Request, Staged
  <2> HIDE DEF put
  <2> QED
    BY <1>1, <2>1 DEF Sessions, put
<1> HIDE DEF Sessions
<1>4. IsRequest(r) /\ r.put = Staged(put) /\ r.locks = req[s].locks /\ r.memo = req[s].memo
  BY <1>2 DEF Courteous, IsRequest
<1>5. DOMAIN put = {out} /\ put[out] = Failed /\ out[1] = "ANS" /\ db[out] # NoRow
  BY OneRow DEF Live, Rows
<1> HIDE DEF put, r
<1>6. Polite(put, req[s].locks)
  BY <1>5, ChatKind DEF Polite, WritesChat, ReportedAnswer, Failed, Rows
<1>7. WritesInbound(Staged(put), req[s].locks) /\ WritesAnswers(Staged(put), req[s].locks) /\ WritesChat(Staged(put))
  <2>1. LET x == Request(put, Nothing, req[s].locks, 0) IN
          /\ x.put = Staged(put) /\ x.locks = req[s].locks
          /\ WritesInbound(x.put, x.locks) /\ WritesAnswers(x.put, x.locks) /\ WritesChat(x.put)
    BY <1>6, PoliteIsCourteous
  <2> QED
    BY <2>1
<1>8. Courteous(r)
  BY <1>1, <1>4, <1>7 DEF Courteous, TurnRecorded
<1>9. \A t \in Sessions \ {s} : req[t] # Idle => req[t].locks \cap r.locks = {}
  BY <1>1, <1>4 DEF MessagingInv, LocksApart
<1>10. InsertsAlone(s, r.put)
  <2>1. DOMAIN Staged(put) = DOMAIN put
    BY DEF Staged
  <2> QED
    BY <1>4, <1>6, <2>1, PoliteInsertsAlone
<1> QED
  BY <1>1, <1>3, <1>8, <1>9, <1>10, NewRequest

LEMMA ReplyPolite ==
  ASSUME NEW s \in Sessions, NEW out \in Rows("ANS"), MessagingInv, Fresh(out), ReplyByHand(s, out)
  PROVE  MessagingInv'
<1> HIDE DEF Sessions
<1> DEFINE row == [status |-> "SENT", reply |-> NoRef, of |-> NoRef, auto |-> FALSE]
           answer == out :> row
           chat == Chat :> [status |-> "ACTIVE"]
           note == IF ChatNow.issue = NoRef THEN Nothing ELSE ChatNow.issue :> [status |-> "REPLIED"]
<1>1. db[Chat] # NoRow /\ Stage(s, answer @@ chat @@ note, Nothing, {})
  BY DEF ReplyByHand
<1>2. out[1] = "ANS" /\ db[out] = NoRow
  BY DEF Rows, Fresh, Used
<1>3. Polite(answer, {})
  <2>1. DOMAIN answer = {out} /\ answer[out] = row
    BY OneRow
  <2>2. {"reply", "of", "auto"} \subseteq DOMAIN row /\ ~row.auto /\ row.reply = NoRef
    OBVIOUS
  <2> HIDE DEF answer, row
  <2>3. NewAnswer(row, {})
    BY <2>2 DEF NewAnswer
  <2> QED
    BY <1>2, <2>1, <2>3, ChatKind DEF Polite, WritesChat, Rows
<1>4. Polite(chat, {}) /\ NoAnswers(chat)
  <2>1. DOMAIN chat = {Chat} /\ chat[Chat] = [status |-> "ACTIVE"]
    BY OneRow
  <2> HIDE DEF chat
  <2> QED
    BY <1>1, <2>1, ChatKind DEF Polite, WritesChat, NoAnswers, Rows
<1>5. Polite(note, {}) /\ NoAnswers(note)
  <2>1. DOMAIN note \subseteq Rows("HELP")
    <3>1. ChatNow.issue \in Rows("HELP") \cup {NoRef}
      BY <1>1 DEF MessagingInv, MessagesComplete, ChatNow
    <3>2. DOMAIN (ChatNow.issue :> [status |-> "REPLIED"]) = {ChatNow.issue}
      BY OneRow
    <3> QED
      BY <3>1, <3>2, NothingIsEmpty
  <2> HIDE DEF note
  <2> QED
    BY <2>1, ElsewherePolite DEF Elsewhere, Rows
<1> HIDE DEF answer, chat, note
<1>6. Polite(answer @@ chat @@ note, {})
  BY <1>3, <1>4, <1>5, MergePolite
<1> QED
  BY <1>1, <1>6, StagePolite

LEMMA KnowledgeStep ==
  ASSUME NEW s \in Sessions, MessagingInv, NEW source \in Rows("SOURCE"), NEW rows \in SUBSET Rows("CHUNK"),
         ImportKnowledge(s, source, rows) \/ SyncKnowledge(s, source, rows) \/ DeleteKnowledge(s, source)
  PROVE  MessagingInv'
<1> HIDE DEF Sessions
<1> DEFINE mine == {source} \cup Rows("CHUNK")
           ready == source :> [status |-> "READY", chunks |-> Cardinality(rows)]
           counted == source :> [chunks |-> Cardinality(rows)]
           deleted == source :> [status |-> "DELETED"]
           chunks == Chunks(rows, source)
           dropped == Dropped(source)
<1>1. /\ DOMAIN ready \subseteq mine /\ DOMAIN counted \subseteq mine /\ DOMAIN deleted \subseteq mine
      /\ DOMAIN chunks \subseteq mine /\ DOMAIN dropped \subseteq mine
  BY OneRow DEF Chunks, Dropped, Of, Live
<1>2. \A d \in mine : d[1] \notin {"MSG", "ANS", "CHAT"}
  BY DEF Rows
<1> HIDE DEF ready, counted, deleted, chunks, dropped, mine
<1>3. /\ Elsewhere(ready @@ chunks)
      /\ Elsewhere(counted @@ chunks @@ dropped)
      /\ Elsewhere(deleted @@ dropped)
  BY <1>1, <1>2 DEF Elsewhere, @@
<1>4. \/ Stage(s, ready @@ chunks, Nothing, {})
      \/ Stage(s, counted @@ chunks @@ dropped, Nothing, {})
      \/ Stage(s, deleted @@ dropped, Nothing, {})
  BY DEF ImportKnowledge, SyncKnowledge, DeleteKnowledge, ready, counted, deleted, chunks, dropped
<1> QED
  BY <1>3, <1>4, ElsewherePolite, StagePolite

LEMMA CommitPolite ==
  ASSUME NEW s \in Sessions, MessagingInv, EndOfRequest(s)
  PROVE  MessagingInv'
<1>1. CASE Rollback(s)
  <2>1. req'[s] = Idle /\ db' = db /\ Sessions' = Sessions /\ \A t \in Sessions \ {s} : req'[t] = req[t]
    BY <1>1 DEF Rollback, Sessions
  <2> HIDE DEF Sessions
  <2> QED
    BY <2>1, NewRequest
<1>2. CASE Commit(s)
  <2> HIDE DEF Sessions
  <2>1. req[s] # Idle /\ Lockable(s, DOMAIN req[s].put) /\ CommitAnd(s, Idle)
    BY <1>2 DEF Commit, At, Free
  <2>2. MessagesComplete'
    BY <2>1, CommitKeepsMessages
  <2>3. \A t \in Sessions \ {s} : req[t] # Idle => Courteous(req[t])' /\ req'[t] = req[t]
    BY <2>1, CommitKeepsCourtesy
  <2>4. Sessions' = Sessions /\ req'[s] = Idle /\ \A t \in Sessions \ {s} : req'[t] = req[t]
    BY <2>1, CommitAndIsOne
  <2>5. LocksApart'
    BY <2>4 DEF MessagingInv, LocksApart
  <2>6. \A t \in Sessions : req'[t] # Idle => InsertsAlone(t, req[t].put)'
    BY <2>1, CommitInsertsAlone
  <2> QED
    BY <2>2, <2>3, <2>4, <2>5, <2>6 DEF MessagingInv
<1> QED
  BY <1>1, <1>2 DEF EndOfRequest

-----------------------------------------------------------------------------
(* Theorems *)

LEMMA MessagingStep ==
  ASSUME NEW s \in Sessions, MessagingInv, EndOfRequest(s) \/ MessagingNext(s)
  PROVE  MessagingInv'
<1> HIDE DEF Sessions
<1>1. CASE EndOfRequest(s)
  BY <1>1, CommitPolite
<1>2. ASSUME NEW in \in Rows("MSG"),
             \/ InboundAnswered(s, in) \/ InboundToHuman(s, in) \/ LongTurn(s, in)
             \/ \E out \in Rows("ANS") : Fresh(out) /\ Turn(s, in, out)
      PROVE  MessagingInv'
  BY <1>2, TurnStep, DeliveryStep
<1>3. ASSUME NEW out \in Live("ANS"), SendAnswer(s, out) \/ SendFails(s, out)
      PROVE  MessagingInv'
  BY <1>3, ReportPolite DEF SendAnswer, SendFails, ReportedAnswer, Failed
<1>4. CASE ReportFails(s)
  BY <1>4, ReportFailsPolite
<1>5. ASSUME NEW out \in Rows("ANS"), Fresh(out), ReplyByHand(s, out) \/ CommitEarly(s, out)
      PROVE  MessagingInv'
  BY <1>5, ReplyPolite, CommitEarlyCourteous
<1>6. ASSUME NEW source \in Rows("SOURCE"), NEW rows \in SUBSET Rows("CHUNK"),
             ImportKnowledge(s, source, rows) \/ SyncKnowledge(s, source, rows)
      PROVE  MessagingInv'
  BY <1>6, KnowledgeStep
<1>7. ASSUME NEW source \in Rows("SOURCE"), DeleteKnowledge(s, source)
      PROVE  MessagingInv'
  BY <1>7, KnowledgeStep
<1>8. ASSUME NEW source \in Rows("SOURCE"), NEW last \in {1, 2},
             LET free == {c \in Rows("CHUNK") : db[c] = NoRow}
                 rows == {c \in free : Cardinality({d \in free : d[2] <= c[2]}) <= last} IN
             /\ Cardinality(rows) = last
             /\ (Fresh(source) /\ ImportKnowledge(s, source, rows)) \/ SyncKnowledge(s, source, rows)
      PROVE  MessagingInv'
  <2> DEFINE free == {c \in Rows("CHUNK") : db[c] = NoRow}
             rows == {c \in free : Cardinality({d \in free : d[2] <= c[2]}) <= last}
  <2>1. rows \in SUBSET Rows("CHUNK") /\ (ImportKnowledge(s, source, rows) \/ SyncKnowledge(s, source, rows))
    BY <1>8
  <2> HIDE DEF rows
  <2> QED
    BY <1>6, <2>1
<1> QED
  BY <1>1, <1>2, <1>3, <1>4, <1>5, <1>7, <1>8 DEF MessagingNext

\* The inductive invariant of overlapping deliveries, turns, reports and
\* replies: who writes a message holds its conversation, and every answer in
\* the making is to a conversation that is the agent's and locked, or to a
\* message for which a turn has committed.
THEOREM MessagingInvariance == MessagingSpec => []MessagingInv
<1>1. MessagesComplete /\ (\A s \in Sessions : Free(s)) => MessagingInv
  BY DEF MessagingInv, LocksApart, Free
<1>2. MessagingInv /\ [\E s \in Sessions : EndOfRequest(s) \/ MessagingNext(s)]_vars => MessagingInv'
  <2>1. ASSUME MessagingInv, UNCHANGED vars
        PROVE  MessagingInv'
    <3>1. db' = db /\ req' = req /\ Sessions' = Sessions
      BY <2>1 DEF vars, Sessions
    <3>2. MessagesComplete' /\ LocksApart'
      BY <2>1, <3>1 DEF MessagingInv, MessagesComplete, LocksApart, Replies, Of, Live, Rows
    <3>3. \A s \in Sessions : req[s] # Idle => Courteous(req[s])'
      <4> HIDE DEF Sessions
      <4>1. SUFFICES ASSUME NEW s \in Sessions, req[s] # Idle
                     PROVE  Courteous(req[s])'
        OBVIOUS
      <4>2. PICK r : r = req[s]
        OBVIOUS
      <4>3. Courteous(r)
        BY <2>1, <4>1, <4>2 DEF MessagingInv
      <4>4. Courteous(r)'
        BY <3>1, <4>3, SameCourtesy
      <4>5. r = req'[s]
        BY <3>1, <4>2
      <4> QED
        BY <4>4, <4>5
    <3>4. \A s \in Sessions : req[s] # Idle => InsertsAlone(s, req[s].put)'
      BY <2>1, <3>1 DEF MessagingInv, InsertsAlone, Rows
    <3> QED
      BY <3>1, <3>2, <3>3, <3>4 DEF MessagingInv
  <2> QED
    BY <2>1, MessagingStep
<1> QED
  BY <1>1, <1>2, PTL DEF MessagingSpec

\* While a person has the conversation the agent records no answer, however
\* deliveries, turns and replies overlap, except at the end of a turn whose
\* tool committed and gave up the lock (process_whatsapp_inbound locks the
\* conversation, create_issue and send_customer_otp commit).
THEOREM AgentIsQuiet == MessagingSpec => HandoffIsQuiet
<1> DEFINE Step ==
      \A out \in Rows("ANS") :
        (db[out] = NoRow /\ db'[out] # NoRow /\ db'[out].auto) =>
          \/ ChatNow.status = "ACTIVE"
          \/ db[db'[out].of] # NoRow /\ db[db'[out].of].early
<1>1. ASSUME MessagingInv, NEW s \in Sessions, NEW next, req[s] # Idle, Lockable(s, DOMAIN req[s].put), CommitAnd(s, next)
      PROVE  Step
  <2> HIDE DEF Sessions
  <2>1. SUFFICES ASSUME NEW out \in Rows("ANS"), db[out] = NoRow, db'[out] # NoRow, db'[out].auto
                 PROVE  ChatNow.status = "ACTIVE" \/ (db[db'[out].of] # NoRow /\ db[db'[out].of].early)
    OBVIOUS
  <2>2. out \in DOMAIN req[s].put /\ out \in DOMAIN db
    BY <1>1, <2>1, CommitAndIsOne DEF Rows
  <2>3. WritesAnswers(req[s].put, req[s].locks)
    BY <1>1 DEF MessagingInv, Courteous
  <2>4. db'[out].of = req[s].put[out].of /\ db'[out].auto = req[s].put[out].auto
    <3>1. {"reply", "of", "auto"} \subseteq DOMAIN req[s].put[out]
      BY <2>1, <2>2, <2>3 DEF WritesAnswers, NewAnswer
    <3>2. \A c \in DOMAIN req[s].put[out] : db'[out][c] = req[s].put[out][c]
      BY <1>1, <2>2, CommitAndIsOne
    <3> QED
      BY <3>1, <3>2
  <2>5. Answerable(req[s].put[out].of, req[s].locks)
    BY <2>1, <2>2, <2>3, <2>4 DEF WritesAnswers, NewAnswer
  <2> QED
    BY <2>4, <2>5 DEF Answerable, Live, Rows
<1>2. ASSUME db' = db
      PROVE  Step
  BY <1>2
<1>3. ASSUME NEW s \in Sessions, EndOfRequest(s) \/ MessagingNext(s)
      PROVE  \/ db' = db
             \/ \E next : req[s] # Idle /\ Lockable(s, DOMAIN req[s].put) /\ CommitAnd(s, next)
  <2>1. CASE EndOfRequest(s)
    BY <2>1 DEF EndOfRequest, Commit, Rollback, At, Free
  <2>2. ASSUME NEW in, InboundAnswered(s, in) \/ InboundToHuman(s, in)
        PROVE  db' = db
    BY <2>2 DEF InboundAnswered, InboundToHuman, Stage
  <2>3. ASSUME NEW in, LongTurn(s, in)
        PROVE  db' = db
    BY <2>3 DEF LongTurn, OpenIssue, SendCode, EarlyTurn
  <2>4. ASSUME NEW in, NEW out, Turn(s, in, out)
        PROVE  db' = db
    BY <2>4 DEF Turn, VerifyCode, BookAppointment, UpdateAppointment, PlainTurn, Stage
  <2>5. ASSUME NEW out, SendAnswer(s, out) \/ SendFails(s, out) \/ ReplyByHand(s, out) \/ ReportFails(s)
        PROVE  db' = db
    BY <2>5 DEF SendAnswer, SendFails, Report, ReplyByHand, ReportFails, Stage
  <2>6. ASSUME NEW out, CommitEarly(s, out)
        PROVE  \E next : req[s] # Idle /\ Lockable(s, DOMAIN req[s].put) /\ CommitAnd(s, next)
    BY <2>6 DEF CommitEarly, At, Free
  <2>7. ASSUME NEW source, NEW rows, ImportKnowledge(s, source, rows) \/ SyncKnowledge(s, source, rows) \/ DeleteKnowledge(s, source)
        PROVE  db' = db
    BY <2>7 DEF ImportKnowledge, SyncKnowledge, DeleteKnowledge, Stage
  <2> QED
    BY <1>3, <2>1, <2>2, <2>3, <2>4, <2>5, <2>6, <2>7 DEF MessagingNext
<1> HIDE DEF Step
<1>4. MessagingInv /\ [\E s \in Sessions : EndOfRequest(s) \/ MessagingNext(s)]_vars => [Step]_vars
  BY <1>1, <1>2, <1>3 DEF vars
<1> HIDE DEF MessagingInv
<1>5. [][Step]_vars => HandoffIsQuiet
  BY DEF HandoffIsQuiet, Step
<1> QED
  BY <1>4, <1>5, MessagingInvariance, PTL DEF MessagingSpec

\* A customer's message has at most one answer, however often it is delivered
\* and whatever is worked on meanwhile, unless a tool committed in a turn for
\* it or the report of a failed delivery took the answer's reply away: the
\* recorded reply is looked up under the lock of the conversation.
THEOREM RepliesOnce == MessagingSpec => []AnsweredOnce
<1>1. ASSUME MessagingInv
      PROVE  AnsweredOnce
  <2>1. SUFFICES ASSUME NEW in \in Live("MSG"), Cardinality(Of("ANS", "of", in)) > 1,
                        \A out \in Of("ANS", "of", in) : db[out].reply # NoRef
                 PROVE  db[in].early
    BY DEF AnsweredOnce
  <2>2. \A out \in Of("ANS", "of", in) : out \in Replies(in)
    <3>1. \A out \in Live("ANS") : db[out].reply \in {db[out].of, NoRef}
      BY <1>1 DEF MessagingInv, MessagesComplete
    <3> QED
      BY <2>1, <3>1 DEF Replies, Of
  <2>3. PICK out \in Of("ANS", "of", in), other \in Of("ANS", "of", in) : out # other
    <3> DEFINE answers == Of("ANS", "of", in)
    <3> HIDE DEF answers
    <3>1. SUFFICES ASSUME \A x \in answers, y \in answers : x = y
                   PROVE  ~(Cardinality(answers) > 1)
      BY <2>1 DEF answers
    <3>2. CASE answers = {}
      BY <3>2, FS_EmptySet
    <3>3. ASSUME NEW x \in answers
          PROVE  ~(Cardinality(answers) > 1)
      <4>1. answers = {x}
        BY <3>1
      <4> QED
        BY <4>1, FS_Singleton
    <3> QED
      BY <3>2, <3>3
  <2>4. in \in Rows("MSG")
    BY DEF Live
  <2> QED
    BY <1>1, <2>2, <2>3, <2>4 DEF MessagingInv, MessagesComplete
<1> QED
  BY <1>1, MessagingInvariance, PTL

-----------------------------------------------------------------------------
(* Mail: the inductive invariant *)

\* A recorded message is changed by a decision, while it waits for one, or by
\* a draft, once it is accepted.
Decides(put, mail) ==
  /\ DOMAIN put[mail] \subseteq {"status", "order", "draft"}
  /\ {"status", "draft"} \cap DOMAIN put[mail] # {} =>
       \/ /\ Status(mail) = "HUMAN_REVIEW_REQUIRED"
          /\ "status" \in DOMAIN put[mail] /\ put[mail].status \in Decisions
          /\ "draft" \notin DOMAIN put[mail]
       \/ /\ Status(mail) = "ACCEPTED_FOR_MANUAL_PROCESSING"
          /\ {"status", "draft"} \subseteq DOMAIN put[mail]
          /\ put[mail].status = "SALES_ORDER_DRAFT_CREATED" /\ put[mail].draft \in Rows("DRAFTED")

\* The row of a new message.
Records(row) ==
  /\ DOMAIN row = MailColumns
  /\ row.status # "SALES_ORDER_DRAFT_CREATED" /\ row.draft = NoRef
  /\ row.status = "DURABLY_ACCEPTED" => row.flow \in Live("FLOW")

\* A synchronisation records letters and looks again before it inserts; every
\* other request records what came by the webhook or has its message locked.
WritesMail(r) ==
  \A mail \in Rows("MAIL") :
    mail \in DOMAIN r.put =>
      IF db[mail] = NoRow
      THEN Records(r.put[mail]) /\ (r.memo.op = "insert" <=> mail \notin Webhook)
      ELSE r.memo.op = "insert" \/ (mail \in r.locks /\ Decides(r.put, mail))

WritesDrafts(r) ==
  \A drafted \in Rows("DRAFTED") :
    drafted \in DOMAIN r.put =>
      /\ db[drafted] = NoRow /\ r.memo.op # "insert"
      /\ "mail" \in DOMAIN r.put[drafted]
      /\ LET mail == r.put[drafted].mail IN
         /\ mail \in Live("MAIL") /\ mail \in DOMAIN r.put
         /\ "draft" \in DOMAIN r.put[mail] /\ r.put[mail].draft = drafted

WritesFlows(r) ==
  \A flow \in Rows("FLOW") :
    flow \in DOMAIN r.put => "status" \in DOMAIN r.put[flow] /\ r.put[flow].status # "NONE"

\* The workflow that a request has accepted exists when its message does.
AcceptsFlow(r) ==
  r.memo.op \in {"snapshot", "mail"} =>
    /\ {"op", "flow"} \subseteq DOMAIN r.memo /\ r.memo.flow \in Rows("FLOW")
    /\ r.memo.op = "snapshot" => r.memo.flow \in DOMAIN r.put

Orderly(r) == IsRequest(r) /\ WritesMail(r) /\ WritesDrafts(r) /\ WritesFlows(r) /\ AcceptsFlow(r)

\* Two requests insert the same message only as synchronisations, and never
\* the same draft.
InsertApart(r, other) ==
  /\ \A mail \in Rows("MAIL") :
       mail \in DOMAIN r.put /\ mail \in DOMAIN other.put /\ db[mail] = NoRow =>
         r.memo.op = "insert" /\ other.memo.op = "insert"
  /\ \A drafted \in Rows("DRAFTED") : drafted \notin DOMAIN r.put \/ drafted \notin DOMAIN other.put

MailInv ==
  /\ MailboxComplete
  /\ MailHandledOnce
  /\ LocksApart
  /\ \A s \in Sessions : req[s] # Idle => Orderly(req[s])
  /\ \A s, t \in Sessions : s # t /\ req[s] # Idle /\ req[t] # Idle => InsertApart(req[s], req[t])

-----------------------------------------------------------------------------
(* A commit, which for a synchronisation follows the second look *)

LooksAgain(r) ==
  r.memo.op = "insert" => \A mail \in Rows("MAIL") : mail \in DOMAIN r.put => db[mail] = NoRow

LEMMA CommitWrites ==
  ASSUME NEW s \in Sessions, NEW next, CommitAnd(s, next)
  PROVE  /\ Sessions' = Sessions /\ DOMAIN db' = DOMAIN db
         /\ req'[s] = next
         /\ \A t \in Sessions \ {s} : req'[t] = req[t]
         /\ \A d \in DOMAIN db \ DOMAIN req[s].put : db'[d] = db[d]
         /\ \A d \in DOMAIN db \cap DOMAIN req[s].put :
              /\ DOMAIN db'[d] = DOMAIN req[s].put[d] \cup DOMAIN db[d]
              /\ \A c \in DOMAIN req[s].put[d] : db'[d][c] = req[s].put[d][c]
              /\ \A c \in DOMAIN db[d] \ DOMAIN req[s].put[d] : db'[d][c] = db[d][c]
  BY DEF CommitAnd, Sessions, @@

LEMMA CommitKeepsFlows ==
  ASSUME NEW s \in Sessions, NEW next, req[s] # Idle, CommitAnd(s, next), MailInv
  PROVE  /\ \A flow \in Rows("FLOW") : flow \in DOMAIN req[s].put => flow \in Live("FLOW")'
         /\ Live("FLOW") \subseteq Live("FLOW")'
<1> HIDE DEF Sessions
<1>1. ASSUME NEW flow \in Rows("FLOW"), flow \in DOMAIN req[s].put
      PROVE  flow \in Live("FLOW")'
  <2>1. "status" \in DOMAIN req[s].put[flow] /\ req[s].put[flow].status # "NONE"
    BY <1>1 DEF MailInv, Orderly, WritesFlows
  <2>2. db'[flow].status # "NONE" /\ DOMAIN db' = DOMAIN db
    BY <1>1, <2>1, CommitWrites DEF Rows
  <2> QED
    BY <2>2, NoRowColumns DEF Live, Rows
<1>2. ASSUME NEW flow \in Live("FLOW"), flow \notin DOMAIN req[s].put
      PROVE  flow \in Live("FLOW")'
  BY <1>2, CommitWrites DEF Live, Rows
<1> QED
  BY <1>1, <1>2 DEF Live

\* What a commit makes of one message.
LEMMA CommitOneMail ==
  ASSUME NEW s \in Sessions, NEW next, req[s] # Idle, CommitAnd(s, next), LooksAgain(req[s]), MailInv,
         NEW mail \in Rows("MAIL"), db[mail] # NoRow \/ db'[mail] # NoRow
  PROVE  /\ DOMAIN db'[mail] = MailColumns
         /\ db'[mail].status = "DURABLY_ACCEPTED" => db'[mail].flow \in Live("FLOW")'
         /\ (db'[mail].status = "SALES_ORDER_DRAFT_CREATED") = (db'[mail].draft # NoRef)
<1> HIDE DEF Sessions
<1> DEFINE put == req[s].put
<1>1. Orderly(req[s]) /\ mail \in DOMAIN db
  BY DEF MailInv, Rows
<1>2. db[mail] # NoRow =>
        /\ DOMAIN db[mail] = MailColumns
        /\ db[mail].status = "DURABLY_ACCEPTED" => db[mail].flow \in Live("FLOW")
        /\ (db[mail].status = "SALES_ORDER_DRAFT_CREATED") = (db[mail].draft # NoRef)
  BY DEF MailInv, MailboxComplete, MailHandledOnce, Live, Status
<1>3. CASE mail \notin DOMAIN put
  <2>1. db'[mail] = db[mail]
    BY <1>1, <1>3, CommitWrites
  <2> QED
    BY <1>2, <2>1, CommitKeepsFlows
<1>4. CASE mail \in DOMAIN put /\ db[mail] = NoRow
  <2>1. Records(put[mail])
    BY <1>1, <1>4 DEF Orderly, WritesMail
  <2>2. DOMAIN db'[mail] = MailColumns /\ \A c \in MailColumns : db'[mail][c] = put[mail][c]
    BY <1>1, <1>4, <2>1, CommitWrites, NoRowColumns DEF Records, MailColumns
  <2>3. /\ db'[mail].status = put[mail].status /\ db'[mail].flow = put[mail].flow
        /\ db'[mail].draft = put[mail].draft
    BY <2>2 DEF MailColumns
  <2> HIDE DEF put
  <2> QED
    BY <2>1, <2>2, <2>3, CommitKeepsFlows DEF Records
<1>5. CASE mail \in DOMAIN put /\ db[mail] # NoRow
  <2>1. Decides(put, mail)
    BY <1>1, <1>5 DEF Orderly, WritesMail, LooksAgain
  <2>2. /\ DOMAIN db'[mail] = DOMAIN put[mail] \cup MailColumns
        /\ \A c \in DOMAIN put[mail] : db'[mail][c] = put[mail][c]
        /\ \A c \in MailColumns \ DOMAIN put[mail] : db'[mail][c] = db[mail][c]
    BY <1>1, <1>2, <1>5, CommitWrites
  <2>3. DOMAIN db'[mail] = MailColumns /\ db'[mail].flow = db[mail].flow
    BY <2>1, <2>2 DEF Decides, MailColumns
  <2> HIDE DEF put
  <2>4. CASE {"status", "draft"} \cap DOMAIN put[mail] = {}
    <3>1. db'[mail].status = db[mail].status /\ db'[mail].draft = db[mail].draft
      BY <2>2, <2>4 DEF MailColumns
    <3> QED
      BY <1>2, <1>5, <2>3, <3>1, CommitKeepsFlows
  <2>5. CASE Status(mail) = "HUMAN_REVIEW_REQUIRED" /\ "status" \in DOMAIN put[mail]
             /\ put[mail].status \in Decisions /\ "draft" \notin DOMAIN put[mail]
    <3>1. db'[mail].status \in Decisions /\ db'[mail].draft = db[mail].draft
      BY <2>2, <2>5 DEF MailColumns
    <3> QED
      BY <1>2, <1>5, <2>3, <2>5, <3>1 DEF Decisions, Status
  <2>6. CASE {"status", "draft"} \subseteq DOMAIN put[mail]
             /\ put[mail].status = "SALES_ORDER_DRAFT_CREATED" /\ put[mail].draft \in Rows("DRAFTED")
    <3>1. db'[mail].status = "SALES_ORDER_DRAFT_CREATED" /\ db'[mail].draft \in Rows("DRAFTED")
      BY <2>2, <2>6
    <3>2. NoRef \notin Rows("DRAFTED")
      BY DEF NoRef, Rows
    <3> QED
      BY <2>3, <3>1, <3>2
  <2> QED
    BY <2>1, <2>4, <2>5, <2>6 DEF Decides
<1> QED
  BY <1>3, <1>4, <1>5

LEMMA CommitKeepsMailbox ==
  ASSUME NEW s \in Sessions, NEW next, req[s] # Idle, CommitAnd(s, next), LooksAgain(req[s]), MailInv
  PROVE  MailboxComplete' /\ MailHandledOnce' /\ Live("MAIL") \subseteq Live("MAIL")'
<1> HIDE DEF Sessions
<1> DEFINE put == req[s].put
<1>1. Orderly(req[s]) /\ DOMAIN db' = DOMAIN db
  BY CommitWrites DEF MailInv
<1>2. \A mail \in Live("MAIL") : DOMAIN db'[mail] = MailColumns /\ mail \in Live("MAIL")'
  BY <1>1, CommitOneMail, NoRowColumns DEF Live, Rows, MailColumns
<1>3. \A mail \in Live("MAIL")' :
        /\ DOMAIN db'[mail] = MailColumns
        /\ db'[mail].status = "DURABLY_ACCEPTED" => db'[mail].flow \in Live("FLOW")'
        /\ (db'[mail].status = "SALES_ORDER_DRAFT_CREATED") = (db'[mail].draft # NoRef)
  BY <1>1, CommitOneMail DEF Live, Rows
<1>4. ASSUME NEW drafted \in Rows("DRAFTED"), db'[drafted] # NoRow
      PROVE  /\ "mail" \in DOMAIN db'[drafted] /\ db'[drafted].mail \in Live("MAIL")'
             /\ db'[db'[drafted].mail].draft = drafted
  <2>1. CASE drafted \in DOMAIN put
    <3> DEFINE mail == put[drafted].mail
    <3>1. /\ "mail" \in DOMAIN put[drafted] /\ mail \in Live("MAIL") /\ mail \in DOMAIN put
          /\ "draft" \in DOMAIN put[mail] /\ put[mail].draft = drafted
      BY <1>1, <2>1 DEF Orderly, WritesDrafts
    <3>2. "mail" \in DOMAIN db'[drafted] /\ db'[drafted].mail = mail
      BY <2>1, <3>1, CommitWrites DEF Rows
    <3>3. db'[mail].draft = drafted
      BY <3>1, CommitWrites DEF Live, Rows
    <3> HIDE DEF mail
    <3> QED
      BY <1>2, <3>1, <3>2, <3>3
  <2>2. CASE drafted \notin DOMAIN put
    <3> DEFINE mail == db[drafted].mail
    <3>1. db'[drafted] = db[drafted] /\ drafted \in Live("DRAFTED")
      BY <1>4, <2>2, CommitWrites DEF Live, Rows
    <3>2. "mail" \in DOMAIN db[drafted] /\ mail \in Live("MAIL") /\ db[mail].draft = drafted
      BY <3>1 DEF MailInv, MailboxComplete, MailHandledOnce
    <3>3. "draft" \in DOMAIN db[mail] /\ Status(mail) = "SALES_ORDER_DRAFT_CREATED"
      <4>1. drafted # NoRef
        BY DEF NoRef, Rows
      <4> QED
        BY <3>2, <4>1 DEF MailInv, MailboxComplete, MailHandledOnce, MailColumns
    <3>4. mail \in DOMAIN put => "draft" \notin DOMAIN put[mail]
      <4>1. SUFFICES ASSUME mail \in DOMAIN put
                     PROVE  "draft" \notin DOMAIN put[mail]
        OBVIOUS
      <4>2. Decides(put, mail)
        BY <1>1, <3>2, <4>1 DEF Orderly, WritesMail, LooksAgain, Live
      <4> QED
        BY <3>3, <4>2 DEF Decides
    <3>5. db'[mail].draft = drafted
      BY <3>2, <3>3, <3>4, CommitWrites DEF Live, Rows
    <3> HIDE DEF mail
    <3> QED
      BY <1>2, <3>1, <3>2, <3>5 DEF mail
  <2> QED
    BY <2>1, <2>2
<1>5. MailboxComplete'
  <2>1. \A letter \in Rows("LETTER")' : letter = <<"LETTER", letter[2]>> /\ MailOf(letter) \in DOMAIN db'
    BY <1>1 DEF MailInv, MailboxComplete, Rows
  <2>2. \A drafted \in Live("DRAFTED")' : "mail" \in DOMAIN db'[drafted] /\ db'[drafted].mail \in Live("MAIL")'
    BY <1>1, <1>4 DEF Live, Rows
  <2> QED
    BY <1>3, <2>1, <2>2 DEF MailboxComplete, Status
<1>6. MailHandledOnce'
  <2>1. \A drafted \in Live("DRAFTED")' : db'[db'[drafted].mail].draft = drafted
    BY <1>1, <1>4 DEF Live, Rows
  <2>2. \A mail \in Live("MAIL")' : db'[mail].status = "DURABLY_ACCEPTED" => db'[db'[mail].flow] # NoRow
    BY <1>3 DEF Live
  <2> QED
    BY <1>3, <2>1, <2>2 DEF MailHandledOnce, Status
<1> QED
  BY <1>2, <1>5, <1>6

LEMMA CommitKeepsOrder ==
  ASSUME NEW s \in Sessions, NEW next, req[s] # Idle, CommitAnd(s, next), LooksAgain(req[s]), MailInv,
         NEW t \in Sessions \ {s}, req[t] # Idle
  PROVE  Orderly(req[t])' /\ req'[t] = req[t]
<1> HIDE DEF Sessions
<1>0. PICK r : r = req[t]
  OBVIOUS
<1>1. Orderly(r) /\ Orderly(req[s]) /\ req'[t] = r /\ DOMAIN db' = DOMAIN db /\ InsertApart(req[s], r)
  BY <1>0, CommitWrites DEF MailInv
<1>2. r.locks \cap req[s].locks = {}
  BY <1>0 DEF MailInv, LocksApart
<1>3. ASSUME NEW row, Records(row)
      PROVE  Records(row)'
  BY <1>3, CommitKeepsFlows DEF Records
<1>4. ASSUME NEW mail \in Rows("MAIL"), mail \in DOMAIN r.put, mail \notin DOMAIN req[s].put
      PROVE  db'[mail] = db[mail]
  BY <1>4, CommitWrites DEF Rows
<1>5. ASSUME NEW mail \in Rows("MAIL"), mail \in DOMAIN r.put, mail \in DOMAIN req[s].put
      PROVE  r.memo.op = "insert" /\ db'[mail] # NoRow
  <2>1. CASE db[mail] = NoRow
    <3>1. r.memo.op = "insert"
      BY <1>1, <1>5, <2>1 DEF InsertApart
    <3>2. Records(req[s].put[mail])
      BY <1>1, <1>5, <2>1 DEF Orderly, WritesMail
    <3>3. "draft" \in DOMAIN db'[mail]
      BY <1>5, <3>2, CommitWrites DEF Records, MailColumns, Rows
    <3> QED
      BY <3>1, <3>3, NoRowColumns
  <2>2. CASE db[mail] # NoRow
    <3>1. mail \in req[s].locks
      BY <1>1, <1>5, <2>2 DEF Orderly, WritesMail, LooksAgain
    <3>2. r.memo.op = "insert"
      BY <1>1, <1>2, <1>5, <2>2, <3>1 DEF Orderly, WritesMail
    <3>3. mail \in Live("MAIL")'
      BY <2>2, CommitKeepsMailbox DEF Live
    <3> QED
      BY <3>2, <3>3 DEF Live
  <2> QED
    BY <2>1, <2>2
<1>6. ASSUME NEW mail \in Rows("MAIL"), Decides(r.put, mail), db'[mail] = db[mail]
      PROVE  Decides(r.put, mail)'
  BY <1>1, <1>6 DEF Decides, Status, Rows
<1>7. WritesMail(r)'
  <2>1. Rows("MAIL")' = Rows("MAIL") /\ Webhook' = Webhook
    BY <1>1 DEF Rows, Webhook
  <2>2. ASSUME NEW mail \in Rows("MAIL"), mail \in DOMAIN r.put
        PROVE  IF db'[mail] = NoRow
               THEN Records(r.put[mail])' /\ (r.memo.op = "insert" <=> mail \notin Webhook)
               ELSE r.memo.op = "insert" \/ (mail \in r.locks /\ Decides(r.put, mail)')
    <3>1. WritesMail(r)
      BY <1>1 DEF Orderly
    <3> QED
      BY <1>3, <1>4, <1>5, <1>6, <2>2, <3>1 DEF WritesMail
  <2> QED
    BY <1>1, <2>1, <2>2 DEF WritesMail
<1>8. WritesDrafts(r)'
  <2>1. SUFFICES ASSUME NEW drafted \in Rows("DRAFTED"), drafted \in DOMAIN r.put
                 PROVE  /\ db'[drafted] = NoRow /\ r.memo.op # "insert"
                        /\ "mail" \in DOMAIN r.put[drafted]
                        /\ LET mail == r.put[drafted].mail IN
                           /\ mail \in Live("MAIL")' /\ mail \in DOMAIN r.put
                           /\ "draft" \in DOMAIN r.put[mail] /\ r.put[mail].draft = drafted
    BY <1>1 DEF WritesDrafts, Rows
  <2>2. drafted \notin DOMAIN req[s].put
    BY <1>1, <2>1 DEF InsertApart
  <2>3. db'[drafted] = db[drafted]
    BY <2>2, CommitWrites DEF Rows
  <2> QED
    BY <1>1, <2>1, <2>3, CommitKeepsMailbox DEF Orderly, WritesDrafts
<1>9. WritesFlows(r)' /\ AcceptsFlow(r)' /\ IsRequest(r)'
  BY <1>1 DEF Orderly, WritesFlows, AcceptsFlow, IsRequest, Rows
<1>10. Orderly(r)'
  BY <1>7, <1>8, <1>9 DEF Orderly
<1> QED
  BY <1>0, <1>1, <1>10

LEMMA CommitKeepsMail ==
  ASSUME NEW s \in Sessions, NEW next, req[s] # Idle, CommitAnd(s, next), LooksAgain(req[s]), MailInv,
         next # Idle => Orderly(next)',
         next # Idle => \A t \in Sessions \ {s} : req[t] # Idle => req[t].locks \cap next.locks = {},
         next # Idle => \A t \in Sessions \ {s} : req[t] # Idle => InsertApart(next, req[t])
  PROVE  MailInv'
<1> HIDE DEF Sessions
<1>1. Sessions' = Sessions /\ DOMAIN db' = DOMAIN db /\ req'[s] = next
      /\ \A t \in Sessions \ {s} : req'[t] = req[t]
  BY CommitWrites
<1>2. LocksApart'
  <2>1. SUFFICES ASSUME NEW t \in Sessions, NEW u \in Sessions, t # u, req'[t] # Idle, req'[u] # Idle
                PROVE  req'[t].locks \cap req'[u].locks = {}
    BY <1>1 DEF LocksApart
  <2> QED
    BY <1>1, <2>1 DEF MailInv, LocksApart
<1>3. \A t \in Sessions : req'[t] # Idle => Orderly(req[t])'
  BY <1>1, CommitKeepsOrder
<1>4. \A mail \in Rows("MAIL") : db'[mail] = NoRow => db[mail] = NoRow
  BY CommitKeepsMailbox DEF Live
<1>5. ASSUME NEW a, NEW b, InsertApart(a, b)
      PROVE  InsertApart(a, b)' /\ InsertApart(b, a)'
  BY <1>1, <1>4, <1>5 DEF InsertApart, Rows
<1>6. ASSUME NEW t \in Sessions, NEW u \in Sessions, t # u, req'[t] # Idle, req'[u] # Idle
      PROVE  InsertApart(req[t], req[u])'
  <2>1. PICK a, b : a = req'[t] /\ b = req'[u]
    OBVIOUS
  <2>2. InsertApart(a, b) \/ InsertApart(b, a)
    BY <1>1, <1>6, <2>1 DEF MailInv
  <2>3. InsertApart(a, b)'
    BY <1>5, <2>2
  <2> QED
    BY <2>1, <2>3 DEF InsertApart, Rows
<1> QED
  BY <1>1, <1>2, <1>3, <1>6, CommitKeepsMailbox DEF MailInv

-----------------------------------------------------------------------------
(* Requests *)

LEMMA MailUnchanged ==
  ASSUME MailInv, DOMAIN db' = DOMAIN db,
         \A d \in DOMAIN db : d[1] \in {"MAIL", "FLOW", "DRAFTED"} => db'[d] = db[d]
  PROVE  /\ MailboxComplete' /\ MailHandledOnce'
         /\ \A r : Orderly(r) => Orderly(r)'
         /\ \A a, b : InsertApart(a, b) => InsertApart(a, b)'
<1>1. /\ \A kind : Rows(kind)' = Rows(kind)
      /\ Live("MAIL")' = Live("MAIL") /\ Live("FLOW")' = Live("FLOW") /\ Live("DRAFTED")' = Live("DRAFTED")
      /\ Webhook' = Webhook
  BY DEF Live, Rows, Webhook
<1>2. \A d \in Rows("MAIL") \cup Rows("FLOW") \cup Rows("DRAFTED") : db'[d] = db[d]
  BY DEF Rows
<1>3. MailboxComplete'
  BY <1>1, <1>2 DEF MailInv, MailboxComplete, Live, Status
<1>4. MailHandledOnce'
  <2>1. \A mail \in Live("MAIL") : Status(mail) = "DURABLY_ACCEPTED" => db[mail].flow \in Live("FLOW")
    BY DEF MailInv, MailboxComplete
  <2>2. \A drafted \in Live("DRAFTED") : db[drafted].mail \in Live("MAIL")
    BY DEF MailInv, MailboxComplete
  <2> QED
    BY <1>1, <1>2, <2>1, <2>2 DEF MailInv, MailHandledOnce, Live, Status
<1>5. ASSUME NEW r, Orderly(r)
      PROVE  Orderly(r)'
  <2>1. WritesMail(r)'
    BY <1>1, <1>2, <1>5 DEF Orderly, WritesMail, Records, Decides, Status
  <2>2. WritesDrafts(r)'
    BY <1>1, <1>2, <1>5 DEF Orderly, WritesDrafts
  <2>3. WritesFlows(r)' /\ AcceptsFlow(r)' /\ IsRequest(r)'
    BY <1>1, <1>5 DEF Orderly, WritesFlows, AcceptsFlow, IsRequest
  <2> QED
    BY <2>1, <2>2, <2>3 DEF Orderly
<1>6. ASSUME NEW a, NEW b, InsertApart(a, b)
      PROVE  InsertApart(a, b)'
  BY <1>1, <1>2, <1>6 DEF InsertApart
<1> QED
  BY <1>3, <1>4, <1>5, <1>6

LEMMA NewMailRequest ==
  ASSUME NEW s \in Sessions, NEW r, MailInv, db' = db, Sessions' = Sessions,
         req'[s] = r, \A t \in Sessions \ {s} : req'[t] = req[t],
         r # Idle =>
           /\ Orderly(r)
           /\ \A t \in Sessions \ {s} : req[t] # Idle => req[t].locks \cap r.locks = {}
           /\ \A t \in Sessions \ {s} : req[t] # Idle => InsertApart(r, req[t])
  PROVE  MailInv'
<1> HIDE DEF Sessions
<1>1. /\ MailboxComplete' /\ MailHandledOnce'
      /\ \A x : Orderly(x) => Orderly(x)'
      /\ \A a, b : InsertApart(a, b) => InsertApart(a, b)'
  BY MailUnchanged
<1>2. LocksApart'
  <2>1. SUFFICES ASSUME NEW t \in Sessions, NEW u \in Sessions, t # u, req'[t] # Idle, req'[u] # Idle
                 PROVE  req'[t].locks \cap req'[u].locks = {}
    BY DEF LocksApart
  <2> QED
    BY <2>1 DEF MailInv, LocksApart
<1>3. ASSUME NEW t \in Sessions, req'[t] # Idle
      PROVE  Orderly(req[t])'
  <2>1. PICK x : x = req'[t]
    OBVIOUS
  <2>2. Orderly(x)
    BY <1>3, <2>1 DEF MailInv
  <2> QED
    BY <1>1, <2>1, <2>2
<1>4. ASSUME NEW t \in Sessions, NEW u \in Sessions, t # u, req'[t] # Idle, req'[u] # Idle
      PROVE  InsertApart(req[t], req[u])'
  <2>1. PICK a, b : a = req'[t] /\ b = req'[u]
    OBVIOUS
  <2>2. InsertApart(a, b) \/ InsertApart(b, a)
    BY <1>4, <2>1 DEF MailInv
  <2>3. InsertApart(a, b)
    BY <2>2 DEF InsertApart
  <2>4. InsertApart(a, b)'
    BY <1>1, <2>3
  <2> QED
    BY <2>1, <2>4
<1> QED
  BY <1>1, <1>2, <1>3, <1>4 DEF MailInv

\* What the handlers that end with one commit hand over.
Tidy(put, locks) ==
  /\ \A mail \in Rows("MAIL") :
       mail \in DOMAIN put =>
         IF db[mail] = NoRow
         THEN Records(put[mail]) /\ put[mail].status # "NONE" /\ mail \in Webhook /\ Fresh(mail)
         ELSE mail \in locks /\ Decides(put, mail)
  /\ \A drafted \in Rows("DRAFTED") :
       drafted \in DOMAIN put =>
         /\ Fresh(drafted)
         /\ "mail" \in DOMAIN put[drafted]
         /\ LET mail == put[drafted].mail IN
            mail \in Live("MAIL") /\ mail \in DOMAIN put /\ "draft" \in DOMAIN put[mail] /\ put[mail].draft = drafted
  /\ \A flow \in Rows("FLOW") : flow \notin DOMAIN put

LEMMA TidyIsOrderly ==
  ASSUME NEW put, NEW add, NEW locks, Tidy(put, locks), MailInv
  PROVE  LET r == Request(put, add, locks, [op |-> "commit"]) IN
         Orderly(r) /\ DOMAIN r.put = DOMAIN put /\ r.locks = locks
<1> DEFINE new == Staged(put)
           r == Request(put, add, locks, [op |-> "commit"])
<1>1. DOMAIN new = DOMAIN put
  BY DEF Staged
<1>2. \A d \in DOMAIN put :
        /\ DOMAIN new[d] \subseteq DOMAIN put[d]
        /\ \A c \in DOMAIN put[d] : (c \in DOMAIN db[d] /\ put[d][c] = db[d][c]) \/ c \in DOMAIN new[d]
        /\ \A c \in DOMAIN new[d] : new[d][c] = put[d][c]
  BY StagedColumns
<1>3. r.put = new /\ r.locks = locks /\ r.memo.op = "commit" /\ IsRequest(r)
  BY DEF Request, Staged, IsRequest
<1> HIDE DEF new, r
<1>4. ASSUME NEW mail \in Rows("MAIL"), mail \in DOMAIN put, db[mail] = NoRow
      PROVE  Records(new[mail])
  <2>1. Records(put[mail]) /\ put[mail].status # "NONE"
    BY <1>4 DEF Tidy
  <2>2. DOMAIN new[mail] = MailColumns
    BY <1>2, <1>4, <2>1, NoRowColumns DEF Records
  <2> QED
    BY <1>2, <1>4, <2>1, <2>2 DEF Records, MailColumns
<1>5. ASSUME NEW mail \in Rows("MAIL"), mail \in DOMAIN put, db[mail] # NoRow
      PROVE  Decides(new, mail)
  <2>1. Decides(put, mail)
    BY <1>5 DEF Tidy
  <2>2. CASE {"status", "draft"} \cap DOMAIN new[mail] = {}
    BY <1>2, <1>5, <2>1, <2>2 DEF Decides
  <2>3. CASE {"status", "draft"} \cap DOMAIN new[mail] # {}
    <3>1. {"status", "draft"} \cap DOMAIN put[mail] # {}
      BY <1>2, <1>5, <2>3
    <3>2. CASE Status(mail) = "HUMAN_REVIEW_REQUIRED" /\ "status" \in DOMAIN put[mail]
               /\ put[mail].status \in Decisions /\ "draft" \notin DOMAIN put[mail]
      BY <1>2, <1>5, <2>1, <3>2 DEF Decides, Decisions, Status
    <3>3. CASE Status(mail) = "ACCEPTED_FOR_MANUAL_PROCESSING" /\ {"status", "draft"} \subseteq DOMAIN put[mail]
               /\ put[mail].status = "SALES_ORDER_DRAFT_CREATED" /\ put[mail].draft \in Rows("DRAFTED")
      <4>1. db[mail].draft = NoRef
        BY <1>5, <3>3 DEF MailInv, MailHandledOnce, Live
      <4>2. NoRef \notin Rows("DRAFTED")
        BY DEF NoRef, Rows
      <4> QED
        BY <1>2, <1>5, <2>1, <3>3, <4>1, <4>2 DEF Decides, Status
    <3> QED
      BY <2>1, <3>1, <3>2, <3>3 DEF Decides
  <2> QED
    BY <2>2, <2>3
<1>6. WritesMail(r)
  BY <1>1, <1>3, <1>4, <1>5 DEF WritesMail, Tidy
<1>7. WritesDrafts(r)
  <2>1. SUFFICES ASSUME NEW drafted \in Rows("DRAFTED"), drafted \in DOMAIN put
                 PROVE  /\ db[drafted] = NoRow
                        /\ "mail" \in DOMAIN new[drafted]
                        /\ LET mail == new[drafted].mail IN
                           /\ mail \in Live("MAIL") /\ mail \in DOMAIN new
                           /\ "draft" \in DOMAIN new[mail] /\ new[mail].draft = drafted
    BY <1>1, <1>3 DEF WritesDrafts
  <2>2. /\ Fresh(drafted) /\ "mail" \in DOMAIN put[drafted]
        /\ put[drafted].mail \in Live("MAIL") /\ put[drafted].mail \in DOMAIN put
        /\ "draft" \in DOMAIN put[put[drafted].mail] /\ put[put[drafted].mail].draft = drafted
    BY <2>1 DEF Tidy
  <2>3. db[drafted] = NoRow
    BY <2>2, FreshIsNew DEF Rows
  <2>4. "mail" \in DOMAIN new[drafted] /\ new[drafted].mail = put[drafted].mail
    BY <1>2, <2>1, <2>2, <2>3, NoRowColumns
  <2> DEFINE mail == put[drafted].mail
  <2>5. Decides(put, mail)
    BY <2>2 DEF Tidy, Live
  <2>6. Status(mail) = "ACCEPTED_FOR_MANUAL_PROCESSING"
    BY <2>2, <2>5 DEF Decides
  <2>7. db[mail].draft = NoRef
    BY <2>2, <2>6 DEF MailInv, MailHandledOnce
  <2>8. drafted # NoRef
    BY DEF NoRef, Rows
  <2>9. "draft" \in DOMAIN new[mail] /\ new[mail].draft = drafted
    BY <1>2, <2>2, <2>7, <2>8
  <2> HIDE DEF mail
  <2> QED
    BY <1>1, <2>2, <2>3, <2>4, <2>9 DEF mail
<1>8. WritesFlows(r) /\ AcceptsFlow(r)
  BY <1>1, <1>3 DEF WritesFlows, AcceptsFlow, Tidy
<1>9. Orderly(r) /\ DOMAIN r.put = DOMAIN put /\ r.locks = locks
  BY <1>1, <1>3, <1>6, <1>7, <1>8 DEF Orderly
<1> QED
  BY <1>9 DEF r

LEMMA StageMail ==
  ASSUME NEW s \in Sessions, NEW put, NEW add, NEW locks, MailInv, Tidy(put, locks), Stage(s, put, add, locks)
  PROVE  MailInv'
<1>1. PICK r : r = Request(put, add, locks, [op |-> "commit"])
  OBVIOUS
<1>2. /\ req'[s] = r /\ db' = db /\ Sessions' = Sessions
      /\ \A t \in Sessions \ {s} : req'[t] = req[t]
      /\ \A t \in Sessions \ {s} : req[t] # Idle => req[t].locks \cap locks = {}
  BY <1>1 DEF Stage, Lockable, Sessions
<1> HIDE DEF Sessions
<1>3. Orderly(r) /\ DOMAIN r.put = DOMAIN put /\ r.locks = locks
  BY <1>1, TidyIsOrderly
<1>4. ASSUME NEW t \in Sessions, req[t] # Idle
      PROVE  InsertApart(r, req[t])
  BY <1>3, <1>4 DEF InsertApart, Tidy, Fresh, Used
<1> QED
  BY <1>2, <1>3, <1>4, NewMailRequest

LEMMA ReviewStep ==
  ASSUME NEW s \in Sessions, NEW mail \in Rows("MAIL"), MailInv,
         \/ \E intent \in Intents : mail \in Webhook /\ Fresh(mail) /\ RecordMail(s, mail, intent)
         \/ db[mail] # NoRow /\ ClassifyAsOrder(s, mail)
         \/ db[mail] # NoRow /\ \E decision \in Decisions : ReviewMail(s, mail, decision)
  PROVE  MailInv'
<1> HIDE DEF Sessions
<1>1. ASSUME NEW row, NEW locks, Stage(s, mail :> row, Nothing, locks),
             IF db[mail] = NoRow
             THEN Records(row) /\ row.status # "NONE" /\ mail \in Webhook /\ Fresh(mail)
             ELSE mail \in locks /\ \A put : put[mail] = row => Decides(put, mail)
      PROVE  MailInv'
  <2>1. DOMAIN (mail :> row) = {mail} /\ (mail :> row)[mail] = row
    BY OneRow
  <2>2. PICK put : put = mail :> row
    OBVIOUS
  <2>3. Tidy(put, locks)
    BY <1>1, <2>1, <2>2 DEF Tidy, Rows
  <2> QED
    BY <1>1, <2>2, <2>3, StageMail
<1>2. ASSUME NEW intent \in Intents, mail \in Webhook, Fresh(mail), RecordMail(s, mail, intent)
      PROVE  MailInv'
  <2> DEFINE status == IF Held(intent) THEN "HUMAN_REVIEW_REQUIRED" ELSE "FILTERED_NOTIFICATION"
             row == Mail(status, intent, NoRef)
  <2>1. Records(row) /\ row.status # "NONE"
    BY DEF Mail, Records, MailColumns
  <2>2. db[mail] = NoRow /\ Stage(s, mail :> row, Nothing, {})
    BY <1>2, FreshIsNew DEF RecordMail, Rows
  <2> HIDE DEF row
  <2> QED
    BY <1>1, <1>2, <2>1, <2>2
<1>3. ASSUME db[mail] # NoRow, ClassifyAsOrder(s, mail)
      PROVE  MailInv'
  <2> DEFINE row == [order |-> TRUE]
  <2>1. \A put : put[mail] = row => Decides(put, mail)
    BY DEF Decides
  <2>2. Stage(s, mail :> row, Nothing, {mail})
    BY <1>3 DEF ClassifyAsOrder, MailLocks
  <2> HIDE DEF row
  <2> QED
    BY <1>1, <1>3, <2>1, <2>2
<1>4. ASSUME db[mail] # NoRow, NEW decision \in Decisions, ReviewMail(s, mail, decision)
      PROVE  MailInv'
  <2> DEFINE row == [status |-> decision]
  <2>1. \A put : put[mail] = row => Decides(put, mail)
    BY <1>4 DEF Decides, ReviewMail
  <2>2. Stage(s, mail :> row, Nothing, {mail})
    BY <1>4 DEF ReviewMail, MailLocks
  <2> HIDE DEF row
  <2> QED
    BY <1>1, <1>4, <2>1, <2>2
<1> QED
  BY <1>2, <1>3, <1>4

LEMMA DraftStep ==
  ASSUME NEW s \in Sessions, NEW mail \in Live("MAIL"), NEW drafted \in Rows("DRAFTED"), Fresh(drafted), MailInv,
         CreateOrderFromMail(s, mail, drafted)
  PROVE  MailInv'
<1> HIDE DEF Sessions
<1> DEFINE changed == [status |-> "SALES_ORDER_DRAFT_CREATED", draft |-> drafted]
           order == [status |-> "PENDING_CONFIRMATION", mail |-> mail]
<1>1. PICK put : put = mail :> changed @@ drafted :> order
  OBVIOUS
<1>2. Stage(s, put, Nothing, {mail}) /\ Status(mail) = "ACCEPTED_FOR_MANUAL_PROCESSING"
  BY <1>1 DEF CreateOrderFromMail, MailLocks
<1>3. mail[1] = "MAIL" /\ drafted[1] = "DRAFTED" /\ mail # drafted
  BY DEF Live, Rows
<1>4. DOMAIN put = {mail, drafted} /\ put[mail] = changed /\ put[drafted] = order
  <2>1. /\ DOMAIN (mail :> changed) = {mail} /\ (mail :> changed)[mail] = changed
        /\ DOMAIN (drafted :> order) = {drafted} /\ (drafted :> order)[drafted] = order
    BY OneRow
  <2> HIDE DEF changed, order
  <2>2. PICK a, b : a = mail :> changed /\ b = drafted :> order
    OBVIOUS
  <2>3. DOMAIN a = {mail} /\ a[mail] = changed /\ DOMAIN b = {drafted} /\ b[drafted] = order /\ put = a @@ b
    BY <1>1, <2>1, <2>2
  <2> QED
    BY <1>3, <2>3 DEF @@
<1>5. Decides(put, mail)
  BY <1>2, <1>4 DEF Decides
<1>6. Tidy(put, {mail})
  BY <1>3, <1>4, <1>5 DEF Tidy, Live, Rows
<1> QED
  BY <1>2, <1>6, StageMail

LEMMA ConnectionStep ==
  ASSUME NEW s \in Sessions, MailInv,
         ConnectGmail(s) \/ DisconnectGmail(s) \/ SyncGmail(s) \/ EndSync(s)
  PROVE  MailInv'
<1>1. ASSUME NEW status, Stage(s, Gmail :> [status |-> status], Nothing, {})
      PROVE  MailInv'
  <2>1. PICK put : put = Gmail :> [status |-> status]
    OBVIOUS
  <2>2. DOMAIN put = {Gmail} /\ Gmail[1] = "GMAIL"
    BY <2>1, OneRow DEF Gmail
  <2>3. Tidy(put, {})
    BY <2>2 DEF Tidy, Rows
  <2> HIDE DEF Sessions
  <2> QED
    BY <1>1, <2>1, <2>3, StageMail
<1>2. CASE SyncGmail(s)
  <2>1. PICK r : r = Request(Nothing, Nothing, {}, [op |-> "sync"])
    OBVIOUS
  <2>2. req'[s] = r /\ db' = db /\ Sessions' = Sessions /\ \A t \in Sessions \ {s} : req'[t] = req[t]
    BY <1>2, <2>1 DEF SyncGmail, Hold, Sessions
  <2>3. DOMAIN r.put = {} /\ r.locks = {} /\ r.memo.op = "sync" /\ IsRequest(r)
    BY <2>1, NothingIsEmpty DEF Request, IsRequest
  <2>4. Orderly(r) /\ \A t \in Sessions : InsertApart(r, req[t])
    BY <2>3 DEF Orderly, WritesMail, WritesDrafts, WritesFlows, AcceptsFlow, InsertApart
  <2> HIDE DEF Sessions
  <2> QED
    BY <2>2, <2>3, <2>4, NewMailRequest
<1>3. CASE EndSync(s)
  <2>1. PICK put : put = Gmail :> [status |-> "CONNECTED"]
    OBVIOUS
  <2>2. PICK r : r = Request(put, Nothing, req[s].locks, [op |-> "commit"])
    OBVIOUS
  <2>3. req[s] # Idle /\ req'[s] = r /\ db' = db /\ Sessions' = Sessions /\ \A t \in Sessions \ {s} : req'[t] = req[t]
    BY <1>3, <2>1, <2>2 DEF EndSync, Finish, At, Free, Sessions
  <2>4. DOMAIN put = {Gmail} /\ Gmail[1] = "GMAIL"
    BY <2>1, OneRow DEF Gmail
  <2>5. Tidy(put, req[s].locks)
    BY <2>4 DEF Tidy, Rows
  <2>6. Orderly(r) /\ DOMAIN r.put = {Gmail} /\ r.locks = req[s].locks
    BY <2>2, <2>4, <2>5, TidyIsOrderly
  <2>7. \A t \in Sessions : InsertApart(r, req[t])
    BY <2>4, <2>6 DEF InsertApart, Rows
  <2>8. \A t \in Sessions \ {s} : req[t] # Idle => req[t].locks \cap r.locks = {}
    BY <2>3, <2>6 DEF MailInv, LocksApart
  <2> HIDE DEF Sessions
  <2> QED
    BY <2>3, <2>6, <2>7, <2>8, NewMailRequest
<1> QED
  BY <1>1, <1>2, <1>3 DEF ConnectGmail, DisconnectGmail

LEMMA FlowStep ==
  ASSUME NEW s \in Sessions, NEW flow \in Rows("FLOW"), Fresh(flow), MailInv, BeginRfq(s, flow)
  PROVE  MailInv'
<1>1. PICK put : put = flow :> [status |-> "DISPATCHED"]
  OBVIOUS
<1>2. PICK r : r = Request(put, Nothing, {}, [op |-> "snapshot", flow |-> flow])
  OBVIOUS
<1>3. req'[s] = r /\ db' = db /\ Sessions' = Sessions /\ \A t \in Sessions \ {s} : req'[t] = req[t]
  BY <1>1, <1>2 DEF BeginRfq, Sessions
<1>4. DOMAIN put = {flow} /\ put[flow] = [status |-> "DISPATCHED"]
  BY <1>1, OneRow
<1>5. /\ r.put = Staged(put) /\ r.locks = {} /\ IsRequest(r)
      /\ r.memo = [op |-> "snapshot", flow |-> flow]
  BY <1>2 DEF Request, Staged, IsRequest
<1>6. DOMAIN r.put = {flow} /\ "status" \in DOMAIN r.put[flow] /\ r.put[flow].status = "DISPATCHED"
  <2>1. db[flow] = NoRow
    BY FreshIsNew DEF Rows
  <2>2. "status" \in DOMAIN put[flow] /\ put[flow].status = "DISPATCHED"
    BY <1>4
  <2>3. DOMAIN Staged(put) = DOMAIN put
    BY DEF Staged
  <2>4. \A c \in DOMAIN put[flow] : (c \in DOMAIN db[flow] /\ put[flow][c] = db[flow][c]) \/ c \in DOMAIN Staged(put)[flow]
    BY <1>4, StagedColumns
  <2>5. \A c \in DOMAIN Staged(put)[flow] : Staged(put)[flow][c] = put[flow][c]
    BY <1>4, StagedColumns
  <2> QED
    BY <1>4, <1>5, <2>1, <2>2, <2>3, <2>4, <2>5, NoRowColumns
<1>7. Orderly(r)
  BY <1>5, <1>6 DEF Orderly, WritesMail, WritesDrafts, WritesFlows, AcceptsFlow, Rows
<1>8. \A t \in Sessions : InsertApart(r, req[t])
  BY <1>6 DEF InsertApart, Rows
<1> HIDE DEF Sessions
<1> QED
  BY <1>3, <1>5, <1>7, <1>8, NewMailRequest

\* The three commits of an accepted request for quotation.
LEMMA AcceptanceStep ==
  ASSUME NEW s \in Sessions, MailInv,
         \/ \E mail \in Webhook : Fresh(mail) /\ PersistSnapshot(s, mail)
         \/ PersistMail(s) \/ StartFlow(s)
  PROVE  MailInv'
<1> HIDE DEF Sessions
<1> DEFINE Next(op, put) == [req[s] EXCEPT !.put = put, !.memo = [@ EXCEPT !.op = op]]
<1>1. ASSUME req[s] # Idle
      PROVE  /\ Orderly(req[s])
             /\ \A t \in Sessions \ {s} : req[t] # Idle => req[t].locks \cap req[s].locks = {}
  BY <1>1 DEF MailInv, LocksApart
<1>2. ASSUME NEW op, NEW put, NEW next, next = Next(op, put), req[s] # Idle, req[s].memo.op \in {"snapshot", "mail"}
      PROVE  /\ IsRequest(next) /\ next.put = put /\ next.locks = req[s].locks
             /\ {"op", "flow"} \subseteq DOMAIN next.memo /\ next.memo.op = op
             /\ next.memo.flow = req[s].memo.flow
             /\ req[s].memo.flow \in Rows("FLOW")
             /\ req[s].memo.op = "snapshot" => req[s].memo.flow \in DOMAIN req[s].put
  <2>1. /\ DOMAIN req[s] = {"put", "add", "locks", "memo"} /\ {"op", "flow"} \subseteq DOMAIN req[s].memo
        /\ req[s].memo.flow \in Rows("FLOW")
        /\ req[s].memo.op = "snapshot" => req[s].memo.flow \in DOMAIN req[s].put
    BY <1>1, <1>2 DEF Orderly, AcceptsFlow, IsRequest
  <2>2. PICK memo : memo = [req[s].memo EXCEPT !.op = op]
    OBVIOUS
  <2>3. {"op", "flow"} \subseteq DOMAIN memo /\ memo.op = op /\ memo.flow = req[s].memo.flow
    BY <2>1, <2>2
  <2>4. next = [[req[s] EXCEPT !.put = put] EXCEPT !.memo = memo]
    BY <1>2, <2>2
  <2>5. DOMAIN next = DOMAIN req[s] /\ next.put = put /\ next.locks = req[s].locks /\ next.memo = memo
    BY <2>1, <2>4
  <2> QED
    BY <2>1, <2>3, <2>5 DEF IsRequest
<1> HIDE DEF Next
<1>3. ASSUME NEW mail \in Webhook, Fresh(mail), PersistSnapshot(s, mail)
      PROVE  MailInv'
  <2> DEFINE flow == req[s].memo.flow
  <2>1. PICK row : row = Mail("DURABLY_ACCEPTED", "rfq", flow)
    OBVIOUS
  <2>2. PICK put : put = mail :> row
    OBVIOUS
  <2>3. PICK next : next = Next("mail", put)
    OBVIOUS
  <2>4. req[s] # Idle /\ req[s].memo.op = "snapshot" /\ CommitAnd(s, next)
    BY <1>3, <2>1, <2>2, <2>3 DEF PersistSnapshot, Then, Accepted, At, Free, Next
  <2>5. /\ IsRequest(next) /\ next.put = put /\ next.locks = req[s].locks
        /\ {"op", "flow"} \subseteq DOMAIN next.memo /\ next.memo.op = "mail" /\ next.memo.flow = flow
        /\ flow \in Rows("FLOW") /\ flow \in DOMAIN req[s].put
    BY <1>2, <2>3, <2>4
  <2>6. DOMAIN put = {mail} /\ put[mail] = row
    BY <2>2, OneRow
  <2>7. mail \in Rows("MAIL") /\ mail[1] = "MAIL" /\ db[mail] = NoRow /\ mail \notin DOMAIN req[s].put
    BY <1>3, <2>4 DEF Webhook, Rows, Fresh, Used
  <2>8. DOMAIN db' = DOMAIN db /\ db'[mail] = NoRow
    BY <2>4, <2>7, CommitWrites DEF Rows
  <2>9. Rows("MAIL")' = Rows("MAIL") /\ Rows("FLOW")' = Rows("FLOW") /\ Rows("DRAFTED")' = Rows("DRAFTED") /\ Webhook' = Webhook
    BY <2>8 DEF Rows, Webhook
  <2>10. Records(row)'
    <3>1. flow \in Live("FLOW")'
      BY <2>4, <2>5, CommitKeepsFlows
    <3>2. DOMAIN row = MailColumns /\ row.status = "DURABLY_ACCEPTED" /\ row.draft = NoRef /\ row.flow = flow
      BY <2>1 DEF Mail, MailColumns
    <3> HIDE DEF flow
    <3> QED
      BY <3>1, <3>2 DEF Records
  <2>11. Orderly(next)'
    <3>1. WritesMail(next)'
      BY <1>3, <2>5, <2>6, <2>8, <2>9, <2>10 DEF WritesMail
    <3>2. WritesDrafts(next)' /\ WritesFlows(next)'
      BY <2>5, <2>6, <2>7, <2>9 DEF WritesDrafts, WritesFlows, Rows
    <3>3. AcceptsFlow(next)'
      BY <2>5, <2>9 DEF AcceptsFlow
    <3> QED
      BY <2>5, <3>1, <3>2, <3>3 DEF Orderly, IsRequest
  <2>12. ASSUME NEW t \in Sessions, req[t] # Idle
         PROVE  InsertApart(next, req[t])
    BY <1>3, <2>5, <2>6, <2>7, <2>12 DEF InsertApart, Fresh, Used, Rows
  <2>13. LooksAgain(req[s])
    BY <2>4 DEF LooksAgain
  <2> QED
    BY <1>1, <2>4, <2>5, <2>11, <2>12, <2>13, CommitKeepsMail
<1>4. CASE PersistMail(s)
  <2> DEFINE flow == req[s].memo.flow
  <2>1. PICK put : put = flow :> [status |-> "RUNNING"]
    OBVIOUS
  <2>2. PICK next : next = Next("start", put)
    OBVIOUS
  <2>3. req[s] # Idle /\ req[s].memo.op = "mail" /\ CommitAnd(s, next)
    BY <1>4, <2>1, <2>2 DEF PersistMail, Then, At, Free, Next
  <2>4. /\ IsRequest(next) /\ next.put = put /\ next.locks = req[s].locks
        /\ next.memo.op = "start" /\ flow \in Rows("FLOW")
    BY <1>2, <2>2, <2>3
  <2>5. DOMAIN put = {flow} /\ "status" \in DOMAIN put[flow] /\ put[flow].status = "RUNNING" /\ flow[1] = "FLOW"
    <3> PICK row : row = [status |-> "RUNNING"]
      OBVIOUS
    <3>1. DOMAIN put = {flow} /\ put[flow] = row
      BY <2>1, OneRow
    <3>2. DOMAIN row = {"status"} /\ row.status = "RUNNING"
      OBVIOUS
    <3>3. flow[1] = "FLOW"
      BY <2>4 DEF Rows
    <3> QED
      BY <3>1, <3>2, <3>3
  <2>6. Orderly(next)'
    BY <2>4, <2>5 DEF Orderly, WritesMail, WritesDrafts, WritesFlows, AcceptsFlow, Rows, IsRequest
  <2>7. \A t \in Sessions : InsertApart(next, req[t])
    BY <2>4, <2>5 DEF InsertApart, Rows
  <2>8. LooksAgain(req[s])
    BY <2>3 DEF LooksAgain
  <2> QED
    BY <1>1, <2>3, <2>4, <2>6, <2>7, <2>8, CommitKeepsMail
<1>5. CASE StartFlow(s)
  <2>1. req[s] # Idle /\ CommitAnd(s, Idle) /\ LooksAgain(req[s])
    BY <1>5 DEF StartFlow, At, Free, LooksAgain
  <2> QED
    BY <2>1, CommitKeepsMail
<1> QED
  BY <1>3, <1>4, <1>5

LEMMA SyncingIsOrderly ==
  /\ Syncing.put = Nothing /\ Syncing.locks = {} /\ Orderly(Syncing)
  /\ \A r : InsertApart(Syncing, r)
<1>1. Syncing.put = Nothing /\ Syncing.locks = {} /\ IsRequest(Syncing) /\ Syncing.memo = [op |-> "sync"]
  BY NothingIsEmpty DEF Syncing, Request, IsRequest, Nothing
<1> QED
  BY <1>1, NothingIsEmpty DEF Orderly, WritesMail, WritesDrafts, WritesFlows, AcceptsFlow, InsertApart

LEMMA LetterStep ==
  ASSUME NEW s \in Sessions, NEW letter \in Rows("LETTER"), MailInv,
         (\E intent \in Intents : FetchLetter(s, letter, intent)) \/ MarkRead(s, letter)
  PROVE  MailInv'
<1>1. letter \in DOMAIN db /\ letter[1] = "LETTER" /\ letter = <<"LETTER", letter[2]>> /\ MailOf(letter) \in DOMAIN db
  BY DEF MailInv, MailboxComplete, Rows
<1>2. ASSUME NEW intent \in Intents, FetchLetter(s, letter, intent)
      PROVE  MailInv'
  <2> DEFINE mail == MailOf(letter)
             status == IF intent = "notice" THEN "FILTERED_NOTIFICATION" ELSE "HUMAN_REVIEW_REQUIRED"
  <2>1. PICK row : row = Mail(status, intent, NoRef)
    OBVIOUS
  <2>2. PICK put : put = mail :> row
    OBVIOUS
  <2>3. PICK r : r = [Syncing EXCEPT !.memo = [op |-> "insert"], !.put = put]
    OBVIOUS
  <2>4. /\ req[s] # Idle /\ db[mail] = NoRow
        /\ req'[s] = r /\ db' = db /\ Sessions' = Sessions /\ \A t \in Sessions \ {s} : req'[t] = req[t]
    BY <1>2, <2>1, <2>2, <2>3 DEF FetchLetter, At, Free, Sessions
  <2>5. r.put = put /\ r.locks = {} /\ r.memo.op = "insert" /\ IsRequest(r)
    BY <2>3 DEF Syncing, Request, IsRequest
  <2>6. DOMAIN put = {mail} /\ put[mail] = row
    BY <2>2, OneRow
  <2>7. mail \in Rows("MAIL") /\ mail[1] = "MAIL" /\ mail \notin Webhook
    BY <1>1 DEF MailOf, Rows, Webhook
  <2>8. Records(row)
    BY <2>1 DEF Mail, Records, MailColumns
  <2> HIDE DEF Sessions, mail
  <2>9. Orderly(r)
    <3>1. WritesMail(r)
      BY <2>4, <2>5, <2>6, <2>7, <2>8 DEF WritesMail
    <3>2. WritesDrafts(r) /\ WritesFlows(r) /\ AcceptsFlow(r)
      BY <2>5, <2>6, <2>7 DEF WritesDrafts, WritesFlows, AcceptsFlow, Rows
    <3> QED
      BY <2>5, <3>1, <3>2 DEF Orderly
  <2>10. ASSUME NEW t \in Sessions \ {s}, req[t] # Idle
         PROVE  InsertApart(r, req[t])
    <3>1. WritesMail(req[t])
      BY <2>10 DEF MailInv, Orderly
    <3>2. mail \in DOMAIN req[t].put => req[t].memo.op = "insert"
      BY <2>4, <2>7, <3>1 DEF WritesMail
    <3> QED
      BY <2>5, <2>6, <2>7, <3>2 DEF InsertApart, Rows
  <2> QED
    BY <2>4, <2>5, <2>9, <2>10, NewMailRequest
<1>3. CASE MarkRead(s, letter)
  <2>1. db' = [db EXCEPT ![letter].status = "READ"] /\ req' = req /\ Sessions' = Sessions
    BY <1>3 DEF MarkRead, Sessions
  <2> HIDE DEF Sessions
  <2>2. DOMAIN db' = DOMAIN db /\ \A d \in DOMAIN db : d[1] \in {"MAIL", "FLOW", "DRAFTED"} => db'[d] = db[d]
    BY <1>1, <2>1
  <2>3. /\ MailboxComplete' /\ MailHandledOnce'
        /\ \A r : Orderly(r) => Orderly(r)'
        /\ \A a, b : InsertApart(a, b) => InsertApart(a, b)'
    BY <2>2, MailUnchanged
  <2>4. ASSUME NEW t \in Sessions, req[t] # Idle
        PROVE  Orderly(req[t])'
    <3>1. PICK r : r = req[t]
      OBVIOUS
    <3>2. Orderly(r)'
      BY <2>3, <2>4, <3>1 DEF MailInv
    <3> QED
      BY <2>1, <3>1, <3>2
  <2>5. ASSUME NEW t \in Sessions, NEW u \in Sessions, t # u, req[t] # Idle, req[u] # Idle
        PROVE  InsertApart(req[t], req[u])'
    <3>1. PICK a, b : a = req[t] /\ b = req[u]
      OBVIOUS
    <3>2. InsertApart(a, b)'
      BY <2>3, <2>5, <3>1 DEF MailInv
    <3> QED
      BY <2>1, <3>1, <3>2
  <2>6. LocksApart'
    BY <2>1 DEF MailInv, LocksApart
  <2> QED
    BY <2>1, <2>3, <2>4, <2>5, <2>6 DEF MailInv
<1> QED
  BY <1>2, <1>3

LEMMA EndStep ==
  ASSUME NEW s \in Sessions, MailInv, EndOfRequest(s) \/ InsertMail(s)
  PROVE  MailInv'
<1>1. CASE Rollback(s)
  <2>1. req'[s] = Idle /\ db' = db /\ Sessions' = Sessions /\ \A t \in Sessions \ {s} : req'[t] = req[t]
    BY <1>1 DEF Rollback, Sessions
  <2> HIDE DEF Sessions
  <2> QED
    BY <2>1, NewMailRequest
<1>2. CASE Commit(s)
  <2>1. req[s] # Idle /\ CommitAnd(s, Idle) /\ LooksAgain(req[s])
    BY <1>2 DEF Commit, At, Free, LooksAgain
  <2> HIDE DEF Sessions
  <2> QED
    BY <2>1, CommitKeepsMail
<1>3. CASE InsertMail(s)
  <2>1. PICK r : r = Syncing
    OBVIOUS
  <2>2. r.put = Nothing /\ r.locks = {} /\ \A t : InsertApart(r, t)
    BY <2>1, SyncingIsOrderly
  <2>3. CASE \E mail \in DOMAIN req[s].put : db[mail] # NoRow
    <3>1. req[s] # Idle /\ req'[s] = r /\ db' = db /\ Sessions' = Sessions /\ \A t \in Sessions \ {s} : req'[t] = req[t]
      BY <1>3, <2>1, <2>3 DEF InsertMail, At, Free, Sessions
    <3> HIDE DEF Sessions
    <3>2. Orderly(r)
      BY <2>1, SyncingIsOrderly
    <3> QED
      BY <2>2, <3>1, <3>2, NewMailRequest
  <2>4. CASE \A mail \in DOMAIN req[s].put : db[mail] = NoRow
    <3>1. req[s] # Idle /\ CommitAnd(s, r)
      BY <1>3, <2>1, <2>4 DEF InsertMail, At, Free
    <3>2. LooksAgain(req[s])
      BY <2>4 DEF LooksAgain
    <3>3. Orderly(r)'
      <4>1. /\ r.put = Nothing /\ IsRequest(r) /\ r.memo = [op |-> "sync"]
        BY <2>1, NothingIsEmpty DEF Syncing, Request, IsRequest, Nothing
      <4> QED
        BY <4>1, NothingIsEmpty DEF Orderly, WritesMail, WritesDrafts, WritesFlows, AcceptsFlow, IsRequest
    <3> HIDE DEF Sessions
    <3> QED
      BY <2>2, <3>1, <3>2, <3>3, CommitKeepsMail
  <2> QED
    BY <2>3, <2>4
<1> QED
  BY <1>1, <1>2, <1>3 DEF EndOfRequest

LEMMA MailStep ==
  ASSUME NEW s \in Sessions, MailInv, EndOfRequest(s) \/ MailIntakeNext(s)
  PROVE  MailInv'
<1> HIDE DEF Sessions
<1> QED
  BY ReviewStep, DraftStep, ConnectionStep, FlowStep, AcceptanceStep, LetterStep, EndStep DEF MailIntakeNext, Live, Webhook

-----------------------------------------------------------------------------
(* Theorems about mail *)

\* The inductive invariant of overlapping webhooks, reviews and
\* synchronisations: whoever changes a recorded message has it locked or,
\* inserting it, looks again before it commits.
THEOREM MailInvariance == MailSpec => []MailInv
<1>1. MailboxComplete /\ MailHandledOnce /\ (\A s \in Sessions : Free(s)) => MailInv
  BY DEF MailInv, LocksApart, Free
<1>2. MailInv /\ [\E s \in Sessions : EndOfRequest(s) \/ MailIntakeNext(s)]_vars => MailInv'
  <2>1. ASSUME MailInv, UNCHANGED vars
        PROVE  MailInv'
    <3>1. db' = db /\ req' = req /\ Sessions' = Sessions
      BY <2>1 DEF vars, Sessions
    <3> HIDE DEF Sessions
    <3>2. CASE Sessions = {}
      <4>1. MailboxComplete' /\ MailHandledOnce'
        BY <2>1, <3>1, MailUnchanged
      <4> QED
        BY <3>1, <3>2, <4>1 DEF MailInv, LocksApart
    <3>3. ASSUME NEW s \in Sessions
          PROVE  MailInv'
      <4>1. PICK r : r = req[s]
        OBVIOUS
      <4>2. r # Idle =>
              /\ Orderly(r)
              /\ \A t \in Sessions \ {s} : req[t] # Idle => req[t].locks \cap r.locks = {}
              /\ \A t \in Sessions \ {s} : req[t] # Idle => InsertApart(r, req[t])
        BY <2>1, <4>1 DEF MailInv, LocksApart
      <4> QED
        BY <2>1, <3>1, <4>1, <4>2, NewMailRequest
    <3> QED
      BY <3>2, <3>3
  <2> QED
    BY <2>1, MailStep
<1> QED
  BY <1>1, <1>2, PTL DEF MailSpec

\* One message makes one draft however often it is processed, and a message
\* acknowledged as accepted has its workflow: create_manual_sales_order_from_email
\* locks the record, and the webhook commits the snapshot first.
THEOREM MailsHandledOnce == MailSpec => []MailHandledOnce
<1>1. MailInv => MailHandledOnce
  BY DEF MailInv
<1> QED
  BY <1>1, MailInvariance, PTL

\* A reviewer's decision stands: no second review, no draft and no later
\* synchronisation of the account undoes it (review_inbound_email looks at the
\* status under the lock, sync_inbox skips what is recorded).
THEOREM ReviewsStand == MailSpec => DecisionStands
<1> DEFINE Step ==
      \A mail \in Live("MAIL") :
        /\ Status(mail) = "REJECTED" => db'[mail].status = "REJECTED"
        /\ Status(mail) = "ACCEPTED_FOR_MANUAL_PROCESSING" =>
             db'[mail].status \in {"ACCEPTED_FOR_MANUAL_PROCESSING", "SALES_ORDER_DRAFT_CREATED"}
<1>1. ASSUME MailInv, NEW s \in Sessions, NEW next, req[s] # Idle, CommitAnd(s, next), LooksAgain(req[s])
      PROVE  Step
  <2> HIDE DEF Sessions
  <2>1. SUFFICES ASSUME NEW mail \in Live("MAIL")
                 PROVE  /\ Status(mail) = "REJECTED" => db'[mail].status = "REJECTED"
                        /\ Status(mail) = "ACCEPTED_FOR_MANUAL_PROCESSING" =>
                             db'[mail].status \in {"ACCEPTED_FOR_MANUAL_PROCESSING", "SALES_ORDER_DRAFT_CREATED"}
    OBVIOUS
  <2>2. mail \in DOMAIN db /\ mail \in Rows("MAIL") /\ db[mail] # NoRow /\ "status" \in DOMAIN db[mail]
    BY <1>1 DEF Live, Rows, MailInv, MailboxComplete, MailColumns
  <2>3. mail \in DOMAIN req[s].put => Decides(req[s].put, mail)
    BY <1>1, <2>2 DEF MailInv, Orderly, WritesMail, LooksAgain
  <2>4. CASE mail \in DOMAIN req[s].put /\ "status" \in DOMAIN req[s].put[mail]
    <3>1. db'[mail].status = req[s].put[mail].status
      BY <1>1, <2>2, <2>4, CommitWrites
    <3> QED
      BY <2>3, <2>4, <3>1 DEF Decides
  <2>5. CASE ~(mail \in DOMAIN req[s].put /\ "status" \in DOMAIN req[s].put[mail])
    <3>1. db'[mail].status = db[mail].status
      BY <1>1, <2>2, <2>5, CommitWrites
    <3> QED
      BY <3>1 DEF Status
  <2> QED
    BY <2>4, <2>5
<1>2. ASSUME \A mail \in Live("MAIL") : db'[mail] = db[mail]
      PROVE  Step
  BY <1>2 DEF Status
<1>3. ASSUME NEW s \in Sessions, EndOfRequest(s) \/ MailIntakeNext(s)
      PROVE  \/ \A mail \in Live("MAIL") : db'[mail] = db[mail]
             \/ \E next : req[s] # Idle /\ CommitAnd(s, next) /\ LooksAgain(req[s])
  <2>1. ASSUME NEW letter \in Rows("LETTER"), MarkRead(s, letter)
        PROVE  \A mail \in Live("MAIL") : db'[mail] = db[mail]
    BY <2>1 DEF MarkRead, Live, Rows
  <2>2. ASSUME InsertMail(s)
        PROVE  db' = db \/ (req[s] # Idle /\ CommitAnd(s, Syncing) /\ LooksAgain(req[s]))
    BY <2>2 DEF InsertMail, At, Free, LooksAgain
  <2>3. ASSUME Commit(s) \/ StartFlow(s)
        PROVE  req[s] # Idle /\ CommitAnd(s, Idle) /\ LooksAgain(req[s])
    BY <2>3 DEF Commit, StartFlow, At, Free, LooksAgain
  <2>4. ASSUME NEW mail, PersistSnapshot(s, mail) \/ PersistMail(s)
        PROVE  \E next : req[s] # Idle /\ CommitAnd(s, next) /\ LooksAgain(req[s])
    BY <2>4 DEF PersistSnapshot, PersistMail, Then, At, Free, LooksAgain
  <2> HIDE DEF Sessions
  <2>5. ASSUME NEW mail, NEW letter, NEW flow, NEW drafted, NEW intent, NEW decision,
               \/ Rollback(s) \/ RecordMail(s, mail, intent) \/ BeginRfq(s, flow) \/ ClassifyAsOrder(s, mail)
               \/ ReviewMail(s, mail, decision) \/ CreateOrderFromMail(s, mail, drafted) \/ ConnectGmail(s)
               \/ DisconnectGmail(s) \/ SyncGmail(s) \/ EndSync(s) \/ FetchLetter(s, letter, intent)
        PROVE  db' = db
    BY <2>5 DEF Rollback, RecordMail, BeginRfq, ClassifyAsOrder, ReviewMail, CreateOrderFromMail, ConnectGmail,
       DisconnectGmail, SyncGmail, EndSync, FetchLetter, Stage, Hold, Finish
  <2> QED
    BY <1>3, <2>1, <2>2, <2>3, <2>4, <2>5 DEF EndOfRequest, MailIntakeNext
<1> HIDE DEF Step
<1>4. MailInv /\ [\E s \in Sessions : EndOfRequest(s) \/ MailIntakeNext(s)]_vars => [Step]_vars
  BY <1>1, <1>2, <1>3 DEF vars
<1> HIDE DEF MailInv
<1>5. [][Step]_vars => DecisionStands
  BY DEF DecisionStands, Step
<1> QED
  BY <1>4, <1>5, MailInvariance, PTL DEF MailSpec

-----------------------------------------------------------------------------
(* Workspaces: the inductive invariant *)

\* OnboardingEarned, said of any rows.
EarnedIn(rows) ==
  /\ \A t \in Rows("STEP") : rows[t] # NoRow => StepRow(rows[t])
  /\ \A t \in Rows("STEP") :
       LET m == <<"MASTER", t[2]>> IN
       rows[t].status = "DONE" => rows[t].byHand \/ (rows[m].status = "LIVE" /\ ~rows[m].demo)
  /\ \A g \in Rows("GUIDE"), t \in Rows("STEP") :
       rows[g].status = "DONE" /\ rows[t] # NoRow /\ rows[t].guide = g => rows[t].status = "DONE"

Pays(row, sub) == row.status = "PROCESSED" /\ row.of = sub /\ row.type \in {"succeeded", "resumed"}

\* AccessIsPaid, said of any rows.
PaidIn(rows) ==
  /\ \A sub \in Rows("SAAS") : rows[sub] # NoRow => AccessRow(rows[sub])
  /\ \A ev \in Rows("PROV") : rows[ev] # NoRow => EventRow(rows[ev])
  /\ \A sub \in Rows("SAAS") : rows[sub].status = "active" => \E ev \in Rows("PROV") : Pays(rows[ev], sub)

\* What a request has staged leads to such rows again, and it changes events
\* only that were there when it began.
KeepsWorkspace(put) ==
  /\ EarnedIn(Result(put)) /\ PaidIn(Result(put))
  /\ \A d \in DOMAIN put : d[1] = "PROV" => db[d] # NoRow

WorkspaceInv ==
  /\ OneSession /\ IsFiniteSet(DOMAIN db)
  /\ \A t \in Rows("STEP") : <<"MASTER", t[2]>> \in DOMAIN db
  /\ EarnedIn(db) /\ PaidIn(db)
  /\ \A s \in Sessions : req[s] # Idle => KeepsWorkspace(req[s].put)

LEMMA SameRows ==
  ASSUME db' = db
  PROVE  /\ \A kind : Rows(kind)' = Rows(kind)
         /\ \A rows : EarnedIn(rows)' = EarnedIn(rows) /\ PaidIn(rows)' = PaidIn(rows)
         /\ \A put : KeepsWorkspace(put)' = KeepsWorkspace(put)
<1>1. (\A kind : Rows(kind)' = Rows(kind)) /\ (\A kind : Live(kind)' = Live(kind))
  BY DEF Rows, Live
<1>2. \A rows : EarnedIn(rows)' = EarnedIn(rows)
  BY <1>1 DEF EarnedIn, StepRow
<1>3. \A rows : PaidIn(rows)' = PaidIn(rows)
  BY <1>1 DEF PaidIn, AccessRow, EventRow, Pays
<1>4. \A put : Result(put)' = Result(put)
  BY DEF Result, After
<1>5. ASSUME NEW put
      PROVE  KeepsWorkspace(put)' = KeepsWorkspace(put)
  <2>1. PICK rows : rows = Result(put) /\ rows = Result(put)'
    BY <1>4
  <2>2. (EarnedIn(rows) /\ PaidIn(rows))' = (EarnedIn(rows) /\ PaidIn(rows))
    BY <1>2, <1>3
  <2>3. (\A d \in DOMAIN put : d[1] = "PROV" => db[d] # NoRow)' = (\A d \in DOMAIN put : d[1] = "PROV" => db[d] # NoRow)
    OBVIOUS
  <2> QED
    BY <2>1, <2>2, <2>3 DEF KeepsWorkspace
<1> QED
  BY <1>1, <1>2, <1>3, <1>5

LEMMA StageKeepsWorkspace ==
  ASSUME WorkspaceInv, NEW s \in Sessions, NEW put, NEW locks, Stage(s, put, Nothing, locks), KeepsWorkspace(put)
  PROVE  WorkspaceInv'
<1> HIDE DEF Sessions
<1>1. /\ Sessions' = Sessions /\ db' = db
      /\ req'[s].put = Staged(put)
      /\ \A t \in Sessions : t = s
  BY StageIsOne DEF WorkspaceInv, OneSession
<1>2. PICK staged : staged = Staged(put)
  OBVIOUS
<1>3. Result(staged) = Result(put)
  BY <1>2, StagedAfter DEF Result
<1>4. DOMAIN staged = DOMAIN put
  BY <1>2 DEF Staged
<1>5. KeepsWorkspace(staged)'
  BY <1>1, <1>3, <1>4, SameRows DEF KeepsWorkspace
<1>6. \A t \in Sessions' : req'[t].put = staged
  BY <1>1, <1>2
<1> QED
  BY <1>1, <1>5, <1>6, SameRows DEF WorkspaceInv, OneSession

\* Neither half of the workspace touches the other one.
LEMMA SetupLeavesAccess ==
  ASSUME WorkspaceInv, NEW put, \A d \in DOMAIN put : d[1] \in {"TENANT", "GUIDE", "STEP", "MASTER"}, EarnedIn(Result(put))
  PROVE  KeepsWorkspace(put)
<1>1. PICK rows : rows = Result(put)
  OBVIOUS
<1>2. \A d \in Rows("SAAS") \cup Rows("PROV") : rows[d] = db[d]
  BY <1>1, ResultElsewhere DEF Rows
<1>3. PaidIn(rows)
  BY <1>2 DEF WorkspaceInv, PaidIn
<1> QED
  BY <1>1, <1>3 DEF KeepsWorkspace

LEMMA AccessLeavesSetup ==
  ASSUME WorkspaceInv, NEW put, \A d \in DOMAIN put : d[1] \in {"SAAS", "PROV"}, PaidIn(Result(put)),
         \A d \in DOMAIN put : d[1] = "PROV" => db[d] # NoRow
  PROVE  KeepsWorkspace(put)
<1>1. PICK rows : rows = Result(put)
  OBVIOUS
<1>2. \A d \in Rows("STEP") \cup Rows("GUIDE") : rows[d] = db[d]
  BY <1>1, ResultElsewhere DEF Rows
<1>3. \A t \in Rows("STEP") : rows[<<"MASTER", t[2]>>] = db[<<"MASTER", t[2]>>]
  <2> SUFFICES ASSUME NEW t \in Rows("STEP") PROVE rows[<<"MASTER", t[2]>>] = db[<<"MASTER", t[2]>>]
    OBVIOUS
  <2>1. PICK m : m = <<"MASTER", t[2]>>
    OBVIOUS
  <2>2. m \in DOMAIN db /\ m[1] = "MASTER"
    BY <2>1 DEF WorkspaceInv
  <2> QED
    BY <1>1, <2>1, <2>2, ResultElsewhere
<1>4. EarnedIn(rows)
  BY <1>2, <1>3 DEF WorkspaceInv, EarnedIn
<1> QED
  BY <1>1, <1>4 DEF KeepsWorkspace

-----------------------------------------------------------------------------
(* Workspaces: the setup *)

\* Steps become done by hand or by a record, a module when all its steps are.
LEMMA DoneKeeps ==
  ASSUME WorkspaceInv, NEW done, NEW g, NEW put,
         done \subseteq Live("STEP"), g[1] = "GUIDE",
         DOMAIN put \subseteq done \cup {g}, done \subseteq DOMAIN put,
         \A t \in done :
           /\ "status" \in DOMAIN put[t] /\ DOMAIN put[t] \subseteq {"status", "byHand"} /\ put[t].status = "DONE"
           /\ IF "byHand" \in DOMAIN put[t] THEN put[t].byHand ELSE Validates(t),
         g \in DOMAIN put =>
           /\ put[g] = [status |-> "DONE"]
           /\ \A t \in Of("STEP", "guide", g) : t \in done \/ Status(t) = "DONE"
  PROVE  KeepsWorkspace(put)
<1>1. PICK rows : rows = Result(put)
  OBVIOUS
<1>2. done \subseteq Rows("STEP") /\ \A t \in done : t \in DOMAIN db /\ t \in DOMAIN put /\ StepRow(db[t]) /\ db[t] # NoRow
  BY DEF Live, Rows, WorkspaceInv, EarnedIn
<1>3. ASSUME NEW t \in done
      PROVE  /\ StepRow(rows[t]) /\ rows[t].status = "DONE" /\ rows[t].guide = db[t].guide
             /\ rows[t].byHand \/ Validates(t)
  <2>1. PICK new, old, row : new = put[t] /\ old = db[t] /\ row = rows[t]
    OBVIOUS
  <2>2. /\ DOMAIN row = DOMAIN new \cup DOMAIN old
        /\ \A c \in DOMAIN new : row[c] = new[c]
        /\ \A c \in DOMAIN old \ DOMAIN new : row[c] = old[c]
    BY <1>1, <1>2, <2>1, ResultColumns
  <2>3. /\ "status" \in DOMAIN new /\ DOMAIN new \subseteq {"status", "byHand"} /\ new.status = "DONE"
        /\ IF "byHand" \in DOMAIN new THEN new.byHand ELSE Validates(t)
        /\ StepRow(old)
    BY <1>2, <2>1
  <2>4. StepRow(row) /\ row.status = "DONE" /\ row.guide = old.guide
    BY <2>2, <2>3 DEF StepRow
  <2>5. row.byHand \/ Validates(t)
    <3>1. CASE "byHand" \in DOMAIN new
      BY <2>2, <2>3, <3>1
    <3>2. CASE "byHand" \notin DOMAIN new
      BY <2>3, <3>2
    <3> QED
      BY <3>1, <3>2
  <2> QED
    BY <2>1, <2>4, <2>5
<1>4. \A t \in Rows("STEP") \ done : rows[t] = db[t]
  <2>1. \A t \in Rows("STEP") \ done : t \in DOMAIN db \ DOMAIN put
    BY DEF Rows
  <2> QED
    BY <1>1, <2>1, ResultElsewhere
<1>5. ASSUME NEW t \in Rows("STEP")
      PROVE  rows[<<"MASTER", t[2]>>] = db[<<"MASTER", t[2]>>]
  <2>1. PICK m : m = <<"MASTER", t[2]>>
    OBVIOUS
  <2>2. m \in DOMAIN db /\ m \notin DOMAIN put
    BY <1>2, <2>1 DEF WorkspaceInv, Rows
  <2> QED
    BY <1>1, <2>1, <2>2, ResultElsewhere
<1>6. \A t \in Rows("STEP") : rows[t] # NoRow => StepRow(rows[t])
  BY <1>3, <1>4 DEF WorkspaceInv, EarnedIn
<1>7. ASSUME NEW t \in Rows("STEP"), rows[t].status = "DONE"
      PROVE  rows[t].byHand \/ (rows[<<"MASTER", t[2]>>].status = "LIVE" /\ ~rows[<<"MASTER", t[2]>>].demo)
  <2>1. CASE t \in done
    BY <1>3, <1>5, <2>1 DEF Validates, Status
  <2>2. CASE t \notin done
    BY <1>4, <1>5, <1>7, <2>2 DEF WorkspaceInv, EarnedIn
  <2> QED
    BY <2>1, <2>2
<1>8. ASSUME NEW h \in Rows("GUIDE"), NEW t \in Rows("STEP"), rows[h].status = "DONE", rows[t] # NoRow, rows[t].guide = h
      PROVE  rows[t].status = "DONE"
  <2>1. CASE t \in done
    BY <1>3, <2>1
  <2>2. CASE t \notin done
    <3>1. rows[t] = db[t]
      BY <1>4, <2>2
    <3>2. CASE h \in DOMAIN put
      <4>1. h = g
        BY <1>2, <3>2 DEF Rows
      <4>2. t \in Of("STEP", "guide", g)
        BY <1>8, <3>1, <4>1 DEF Of, Live
      <4> QED
        BY <2>2, <3>1, <3>2, <4>1, <4>2 DEF Status
    <3>3. CASE h \notin DOMAIN put
      <4>1. rows[h] = db[h]
        BY <1>1, <3>3, ResultElsewhere DEF Rows
      <4> QED
        BY <1>8, <3>1, <4>1 DEF WorkspaceInv, EarnedIn
    <3> QED
      BY <3>2, <3>3
  <2> QED
    BY <2>1, <2>2
<1>9. EarnedIn(rows)
  BY <1>6, <1>7, <1>8 DEF EarnedIn
<1>10. \A d \in DOMAIN put : d[1] \in {"TENANT", "GUIDE", "STEP", "MASTER"}
  BY <1>2 DEF Rows
<1> QED
  BY <1>1, <1>9, <1>10, SetupLeavesAccess

LEMMA ClosingRow ==
  ASSUME NEW g, NEW done, NEW closing, closing = Closing(g, done)
  PROVE  /\ DOMAIN closing \subseteq {g}
         /\ g \in DOMAIN closing =>
              /\ closing[g] = [status |-> "DONE"]
              /\ \A t \in Of("STEP", "guide", g) : t \in done \/ Status(t) = "DONE"
<1>1. CASE \A t \in Of("STEP", "guide", g) : t \in done \/ Status(t) = "DONE"
  <2>1. PICK row : row = [status |-> "DONE"]
    OBVIOUS
  <2>2. closing = g :> row
    BY <1>1, <2>1 DEF Closing
  <2>3. DOMAIN closing = {g} /\ closing[g] = row
    BY <2>2, OneRow
  <2> QED
    BY <1>1, <2>1, <2>3
<1>2. CASE ~\A t \in Of("STEP", "guide", g) : t \in done \/ Status(t) = "DONE"
  <2>1. closing = Nothing
    BY <1>2 DEF Closing
  <2> QED
    BY <2>1, NothingIsEmpty
<1> QED
  BY <1>1, <1>2

LEMMA LiveStep ==
  ASSUME WorkspaceInv, NEW t \in Live("STEP")
  PROVE  t \in Rows("STEP") /\ t[1] = "STEP" /\ StepRow(db[t]) /\ db[t].guide[1] = "GUIDE" /\ db[t].guide # t
  BY DEF WorkspaceInv, EarnedIn, Live, Rows, StepRow

LEMMA GetOnboardingProgressKeeps ==
  ASSUME WorkspaceInv, NEW s \in Sessions, GetOnboardingProgress(s)
  PROVE  WorkspaceInv'
<1> HIDE DEF Sessions
<1>1. PICK valid, g, closing :
        /\ valid = {t \in Live("STEP") : Status(t) = "OPEN" /\ Validates(t)}
        /\ g = <<"GUIDE", 1>> /\ closing = Closing(g, valid)
  OBVIOUS
<1>2. PICK marks : marks = [t \in valid |-> [status |-> "DONE"]]
  OBVIOUS
<1>3. PICK put : put = marks @@ closing
  OBVIOUS
<1>4. Stage(s, put, Nothing, {})
  BY <1>1, <1>2, <1>3 DEF GetOnboardingProgress
<1>5. /\ DOMAIN closing \subseteq {g}
      /\ g \in DOMAIN closing =>
           closing[g] = [status |-> "DONE"] /\ \A t \in Of("STEP", "guide", g) : t \in valid \/ Status(t) = "DONE"
  BY <1>1, ClosingRow
<1>6. valid \subseteq Live("STEP") /\ g[1] = "GUIDE" /\ g \notin valid
  BY <1>1, LiveStep
<1>7. DOMAIN put = valid \cup DOMAIN closing /\ (\A t \in valid : put[t] = [status |-> "DONE"])
      /\ (g \in DOMAIN put => put[g] = closing[g])
  BY <1>2, <1>3, <1>5, <1>6 DEF @@
<1>8. ASSUME NEW t \in valid
      PROVE  /\ "status" \in DOMAIN put[t] /\ DOMAIN put[t] \subseteq {"status", "byHand"} /\ put[t].status = "DONE"
             /\ IF "byHand" \in DOMAIN put[t] THEN put[t].byHand ELSE Validates(t)
  <2>1. PICK row : row = put[t]
    OBVIOUS
  <2>2. DOMAIN row = {"status"} /\ row.status = "DONE"
    BY <1>7, <2>1
  <2> QED
    BY <1>1, <2>1, <2>2
<1>9. g \in DOMAIN put =>
        put[g] = [status |-> "DONE"] /\ \A t \in Of("STEP", "guide", g) : t \in valid \/ Status(t) = "DONE"
  BY <1>5, <1>6, <1>7
<1>10. KeepsWorkspace(put)
  BY <1>5, <1>6, <1>7, <1>8, <1>9, DoneKeeps
<1> QED
  BY <1>4, <1>10, StageKeepsWorkspace

LEMMA ManuallyCompleteStepKeeps ==
  ASSUME WorkspaceInv, NEW s \in Sessions, NEW step \in Live("STEP"), ManuallyCompleteStep(s, step)
  PROVE  WorkspaceInv'
<1> HIDE DEF Sessions
<1>1. PICK r, g, closing :
        r = [status |-> "DONE", byHand |-> TRUE] /\ g = db[step].guide /\ closing = Closing(g, {step})
  OBVIOUS
<1>2. PICK mark : mark = step :> r
  OBVIOUS
<1>3. PICK put : put = mark @@ closing
  OBVIOUS
<1>4. Stage(s, put, Nothing, {})
  BY <1>1, <1>2, <1>3 DEF ManuallyCompleteStep
<1>5. /\ DOMAIN closing \subseteq {g}
      /\ g \in DOMAIN closing =>
           closing[g] = [status |-> "DONE"] /\ \A t \in Of("STEP", "guide", g) : t \in {step} \/ Status(t) = "DONE"
  BY <1>1, ClosingRow
<1>6. g[1] = "GUIDE" /\ g # step
  BY <1>1, LiveStep
<1>7. DOMAIN mark = {step} /\ mark[step] = r
  BY <1>2, OneRow
<1>8. DOMAIN put = {step} \cup DOMAIN closing /\ put[step] = r /\ (g \in DOMAIN put => put[g] = closing[g])
  BY <1>3, <1>5, <1>6, <1>7 DEF @@
<1>9. DOMAIN r = {"status", "byHand"} /\ r.status = "DONE" /\ r.byHand
  BY <1>1
<1>10. g \in DOMAIN put =>
         put[g] = [status |-> "DONE"] /\ \A t \in Of("STEP", "guide", g) : t \in {step} \/ Status(t) = "DONE"
  BY <1>5, <1>6, <1>8
<1>11. PICK done : done = {step}
  OBVIOUS
<1>12. \A t \in done :
         /\ "status" \in DOMAIN put[t] /\ DOMAIN put[t] \subseteq {"status", "byHand"} /\ put[t].status = "DONE"
         /\ IF "byHand" \in DOMAIN put[t] THEN put[t].byHand ELSE Validates(t)
  BY <1>8, <1>9, <1>11
<1>13. done \subseteq Live("STEP") /\ DOMAIN put \subseteq done \cup {g} /\ done \subseteq DOMAIN put
  BY <1>5, <1>8, <1>11
<1>14. KeepsWorkspace(put)
  BY <1>6, <1>10, <1>11, <1>12, <1>13, DoneKeeps
<1> QED
  BY <1>4, <1>14, StageKeepsWorkspace

LEMMA ValidateStepKeeps ==
  ASSUME WorkspaceInv, NEW s \in Sessions, NEW step \in Live("STEP"), ValidateStep(s, step)
  PROVE  WorkspaceInv'
<1> HIDE DEF Sessions
<1>1. PICK r, g, done : r = [status |-> "DONE"] /\ g = <<"GUIDE", 1>> /\ done = {step}
  OBVIOUS
<1>2. PICK put : put = step :> r
  OBVIOUS
<1>3. Stage(s, put, Nothing, {}) /\ Validates(step)
  BY <1>1, <1>2 DEF ValidateStep
<1>4. DOMAIN put = {step} /\ put[step] = r
  BY <1>2, OneRow
<1>5. DOMAIN r = {"status"} /\ r.status = "DONE"
  BY <1>1
<1>6. g[1] = "GUIDE" /\ g # step
  BY <1>1, LiveStep
<1>7. \A t \in done :
         /\ "status" \in DOMAIN put[t] /\ DOMAIN put[t] \subseteq {"status", "byHand"} /\ put[t].status = "DONE"
         /\ IF "byHand" \in DOMAIN put[t] THEN put[t].byHand ELSE Validates(t)
  BY <1>1, <1>3, <1>4, <1>5
<1>8. done \subseteq Live("STEP") /\ DOMAIN put \subseteq done \cup {g} /\ done \subseteq DOMAIN put /\ g \notin DOMAIN put
  BY <1>1, <1>4, <1>6
<1>9. KeepsWorkspace(put)
  BY <1>6, <1>7, <1>8, DoneKeeps
<1> QED
  BY <1>3, <1>9, StageKeepsWorkspace

LEMMA SkipModuleKeeps ==
  ASSUME WorkspaceInv, NEW s \in Sessions, NEW guide \in Live("GUIDE"), SkipModule(s, guide)
  PROVE  WorkspaceInv'
<1> HIDE DEF Sessions
<1>1. PICK r, done, closed : r = [status |-> "DONE", byHand |-> TRUE] /\ done = Of("STEP", "guide", guide) /\ closed = [status |-> "DONE"]
  OBVIOUS
<1>2. PICK first, second : first = guide :> closed /\ second = [t \in done |-> r]
  OBVIOUS
<1>3. PICK put : put = first @@ second
  OBVIOUS
<1>4. Stage(s, put, Nothing, {})
  BY <1>1, <1>2, <1>3 DEF SkipModule
<1>5. DOMAIN first = {guide} /\ first[guide] = closed
  BY <1>2, OneRow
<1>6. guide[1] = "GUIDE" /\ done \subseteq Live("STEP") /\ guide \notin done
  BY <1>1 DEF Of, Live, Rows
<1>7. DOMAIN put = {guide} \cup done /\ put[guide] = closed /\ \A t \in done : put[t] = r
  BY <1>2, <1>3, <1>5, <1>6 DEF @@
<1>8. DOMAIN r = {"status", "byHand"} /\ r.status = "DONE" /\ r.byHand
  BY <1>1
<1>9. \A t \in done :
        /\ "status" \in DOMAIN put[t] /\ DOMAIN put[t] \subseteq {"status", "byHand"} /\ put[t].status = "DONE"
        /\ IF "byHand" \in DOMAIN put[t] THEN put[t].byHand ELSE Validates(t)
  BY <1>7, <1>8
<1>10. put[guide] = [status |-> "DONE"] /\ \A t \in Of("STEP", "guide", guide) : t \in done \/ Status(t) = "DONE"
  BY <1>1, <1>7
<1>11. KeepsWorkspace(put)
  BY <1>6, <1>7, <1>9, <1>10, DoneKeeps
<1> QED
  BY <1>4, <1>11, StageKeepsWorkspace

\* A blueprint opens every module and every step, whatever the records are.
LEMMA OpenedKeeps ==
  ASSUME WorkspaceInv, NEW put,
         \A d \in DOMAIN put : d[1] \in {"TENANT", "GUIDE", "STEP", "MASTER"},
         \A g \in Rows("GUIDE") : g \in DOMAIN put /\ put[g] = [status |-> "OPEN"],
         \A t \in Rows("STEP") : t \in DOMAIN put /\ put[t] = [status |-> "OPEN", guide |-> <<"GUIDE", 1>>, byHand |-> FALSE]
  PROVE  KeepsWorkspace(put)
<1>1. PICK rows : rows = Result(put)
  OBVIOUS
<1>2. ASSUME NEW d \in Rows("GUIDE") \cup Rows("STEP")
      PROVE  rows[d].status = "OPEN" /\ (d \in Rows("STEP") => StepRow(rows[d]))
  <2>1. PICK new, row : new = put[d] /\ row = rows[d]
    OBVIOUS
  <2>2. "status" \in DOMAIN new /\ new.status = "OPEN"
        /\ (d \in Rows("STEP") => {"guide", "byHand"} \subseteq DOMAIN new /\ new.guide[1] = "GUIDE")
    BY <2>1
  <2>3. DOMAIN new \subseteq DOMAIN row /\ \A c \in DOMAIN new : row[c] = new[c]
    <3>1. d \in DOMAIN db \cap DOMAIN put
      BY DEF Rows
    <3> QED
      BY <1>1, <2>1, <3>1, ResultColumns
  <2> QED
    BY <2>1, <2>2, <2>3 DEF StepRow
<1>3. EarnedIn(rows)
  BY <1>2 DEF EarnedIn
<1> QED
  BY <1>1, <1>3, SetupLeavesAccess

LEMMA BlueprintKeeps ==
  ASSUME WorkspaceInv, NEW s \in Sessions, NEW tenant, NEW guides, NEW steps, NEW demos, NEW put,
         DOMAIN tenant = {Tenant}, DOMAIN demos \subseteq Rows("MASTER"),
         guides = [g \in Rows("GUIDE") |-> [status |-> "OPEN"]],
         steps = [t \in Rows("STEP") |-> [status |-> "OPEN", guide |-> <<"GUIDE", 1>>, byHand |-> FALSE]],
         put = tenant @@ (guides @@ steps @@ demos),
         Stage(s, put, Nothing, {})
  PROVE  WorkspaceInv'
<1> HIDE DEF Sessions
<1>1. Tenant[1] = "TENANT"
  BY DEF Tenant
<1>2. \A d : /\ d \in Rows("GUIDE") => d[1] = "GUIDE"
             /\ d \in Rows("STEP") => d[1] = "STEP"
             /\ d \in Rows("MASTER") => d[1] = "MASTER"
  BY DEF Rows
<1>3. DOMAIN guides = Rows("GUIDE") /\ DOMAIN steps = Rows("STEP")
  OBVIOUS
<1>4. PICK blueprint : blueprint = guides @@ steps @@ demos
  OBVIOUS
<1>5. /\ DOMAIN blueprint = DOMAIN guides \cup DOMAIN steps \cup DOMAIN demos
      /\ \A g \in DOMAIN guides : blueprint[g] = guides[g]
      /\ \A t \in DOMAIN steps \ DOMAIN guides : blueprint[t] = steps[t]
  BY <1>4 DEF @@
<1>6. /\ DOMAIN put = DOMAIN tenant \cup DOMAIN blueprint
      /\ \A d \in DOMAIN blueprint \ DOMAIN tenant : put[d] = blueprint[d]
  BY <1>4 DEF @@
<1>7. \A d \in DOMAIN put : d[1] \in {"TENANT", "GUIDE", "STEP", "MASTER"}
  BY <1>1, <1>2, <1>3, <1>5, <1>6
<1>8. ASSUME NEW g \in Rows("GUIDE")
      PROVE  g \in DOMAIN put /\ put[g] = guides[g]
  <2>1. g \in DOMAIN guides /\ g \notin DOMAIN tenant
    BY <1>1, <1>2, <1>3
  <2>2. g \in DOMAIN blueprint /\ blueprint[g] = guides[g]
    BY <1>5, <2>1
  <2> QED
    BY <1>6, <2>1, <2>2
<1>9. ASSUME NEW t \in Rows("STEP")
      PROVE  t \in DOMAIN put /\ put[t] = steps[t]
  <2>1. t \in DOMAIN steps /\ t \notin DOMAIN guides /\ t \notin DOMAIN tenant
    BY <1>1, <1>2, <1>3
  <2>2. t \in DOMAIN blueprint /\ blueprint[t] = steps[t]
    BY <1>5, <2>1
  <2> QED
    BY <1>6, <2>1, <2>2
<1>10. KeepsWorkspace(put)
  BY <1>7, <1>8, <1>9, OpenedKeeps
<1> QED
  BY <1>10, StageKeepsWorkspace

LEMMA TenantAloneKeeps ==
  ASSUME WorkspaceInv, NEW s \in Sessions, NEW put, DOMAIN put = {Tenant}, Stage(s, put, Nothing, {})
  PROVE  WorkspaceInv'
<1> HIDE DEF Sessions
<1>1. Tenant[1] = "TENANT"
  BY DEF Tenant
<1>2. PICK rows : rows = Result(put)
  OBVIOUS
<1>3. \A d \in DOMAIN db : d[1] # "TENANT" => rows[d] = db[d]
  BY <1>1, <1>2, ResultElsewhere
<1>4. \A t \in Rows("STEP") : rows[<<"MASTER", t[2]>>] = db[<<"MASTER", t[2]>>]
  <2> SUFFICES ASSUME NEW t \in Rows("STEP") PROVE rows[<<"MASTER", t[2]>>] = db[<<"MASTER", t[2]>>]
    OBVIOUS
  <2>1. PICK m : m = <<"MASTER", t[2]>>
    OBVIOUS
  <2>2. m \in DOMAIN db /\ m[1] = "MASTER"
    BY <2>1 DEF WorkspaceInv
  <2> QED
    BY <1>3, <2>1, <2>2
<1>5. \A d \in Rows("STEP") \cup Rows("GUIDE") : rows[d] = db[d]
  BY <1>3 DEF Rows
<1>6. EarnedIn(rows)
  BY <1>4, <1>5 DEF WorkspaceInv, EarnedIn
<1>7. KeepsWorkspace(put)
  BY <1>1, <1>2, <1>6, SetupLeavesAccess
<1> QED
  BY <1>7, StageKeepsWorkspace

LEMMA DemosAreMasters ==
  /\ DOMAIN DemoRecords \subseteq Rows("MASTER")
  /\ DOMAIN Nothing \subseteq Rows("MASTER")
  BY NothingIsEmpty DEF DemoRecords

LEMMA RegisterTenantKeeps ==
  ASSUME WorkspaceInv, NEW s \in Sessions, NEW provision \in BOOLEAN, RegisterTenant(s, provision)
  PROVE  WorkspaceInv'
<1> HIDE DEF Sessions
<1>1. PICK r, tenant : r = [status |-> IF provision THEN "READY" ELSE "AWAITING_SETUP"] /\ tenant = Tenant :> r
  OBVIOUS
<1>2. DOMAIN tenant = {Tenant}
  BY <1>1, OneRow
<1>3. CASE provision
  <2>1. PICK guides, steps :
          /\ guides = [g \in Rows("GUIDE") |-> [status |-> "OPEN"]]
          /\ steps = [t \in Rows("STEP") |-> [status |-> "OPEN", guide |-> <<"GUIDE", 1>>, byHand |-> FALSE]]
    OBVIOUS
  <2>2. Blueprint(FALSE) = guides @@ steps @@ Nothing
    BY <2>1 DEF Blueprint
  <2>3. PICK put : put = tenant @@ Blueprint(FALSE)
    OBVIOUS
  <2>4. Stage(s, put, Nothing, {})
    BY <1>1, <1>3, <2>3 DEF RegisterTenant
  <2> QED
    BY <1>2, <2>1, <2>2, <2>3, <2>4, DemosAreMasters, BlueprintKeeps
<1>4. CASE ~provision
  <2>1. PICK put : put = tenant @@ Nothing
    OBVIOUS
  <2>2. Stage(s, put, Nothing, {})
    BY <1>1, <1>4, <2>1 DEF RegisterTenant
  <2>3. DOMAIN put = {Tenant}
    BY <1>2, <2>1, NothingIsEmpty DEF @@
  <2> QED
    BY <2>2, <2>3, TenantAloneKeeps
<1> QED
  BY <1>3, <1>4

LEMMA CompleteSetupKeeps ==
  ASSUME WorkspaceInv, NEW s \in Sessions, NEW demo \in BOOLEAN, CompleteSetup(s, demo)
  PROVE  WorkspaceInv'
<1> HIDE DEF Sessions
<1>1. PICK r, tenant : r = [status |-> "READY"] /\ tenant = Tenant :> r
  OBVIOUS
<1>2. DOMAIN tenant = {Tenant}
  BY <1>1, OneRow
<1>3. PICK guides, steps, demos :
        /\ guides = [g \in Rows("GUIDE") |-> [status |-> "OPEN"]]
        /\ steps = [t \in Rows("STEP") |-> [status |-> "OPEN", guide |-> <<"GUIDE", 1>>, byHand |-> FALSE]]
        /\ demos = IF demo THEN DemoRecords ELSE Nothing
  OBVIOUS
<1>4. Blueprint(demo) = guides @@ steps @@ demos
  BY <1>3 DEF Blueprint
<1>5. DOMAIN demos \subseteq Rows("MASTER")
  BY <1>3, DemosAreMasters
<1>6. PICK put : put = tenant @@ Blueprint(demo)
  OBVIOUS
<1>7. Stage(s, put, Nothing, {})
  BY <1>1, <1>6 DEF CompleteSetup
<1> QED
  BY <1>2, <1>3, <1>4, <1>5, <1>6, <1>7, BlueprintKeeps

\* A record that the customer makes can only be a further proof.
LEMMA CreateMasterKeeps ==
  ASSUME WorkspaceInv, NEW s \in Sessions, NEW m \in Rows("MASTER"), CreateMaster(s, m)
  PROVE  WorkspaceInv'
<1> HIDE DEF Sessions
<1>1. PICK r : r = [status |-> "LIVE", demo |-> FALSE]
  OBVIOUS
<1>2. PICK put : put = m :> r
  OBVIOUS
<1>3. Stage(s, put, Nothing, {})
  BY <1>1, <1>2 DEF CreateMaster
<1>4. DOMAIN put = {m} /\ put[m] = r /\ m[1] = "MASTER" /\ m \in DOMAIN db
  BY <1>2, OneRow DEF Rows
<1>5. DOMAIN r = {"status", "demo"} /\ r.status = "LIVE" /\ ~r.demo
  BY <1>1
<1>6. PICK rows : rows = Result(put)
  OBVIOUS
<1>7. \A d \in Rows("STEP") \cup Rows("GUIDE") : rows[d] = db[d]
  <2>1. \A d \in Rows("STEP") \cup Rows("GUIDE") : d \in DOMAIN db \ DOMAIN put
    BY <1>4 DEF Rows
  <2> QED
    BY <1>6, <2>1, ResultElsewhere
<1>8. rows[m].status = "LIVE" /\ ~rows[m].demo
  <2>1. PICK new, row : new = put[m] /\ row = rows[m]
    OBVIOUS
  <2>2. \A c \in DOMAIN new : row[c] = new[c]
    BY <1>4, <1>6, <2>1, ResultColumns
  <2> QED
    BY <1>4, <1>5, <2>1, <2>2
<1>9. ASSUME NEW t \in Rows("STEP"), rows[t].status = "DONE"
      PROVE  rows[t].byHand \/ (rows[<<"MASTER", t[2]>>].status = "LIVE" /\ ~rows[<<"MASTER", t[2]>>].demo)
  <2>1. PICK n : n = <<"MASTER", t[2]>>
    OBVIOUS
  <2>2. n \in DOMAIN db
    BY <2>1 DEF WorkspaceInv
  <2>3. db[t].byHand \/ (db[n].status = "LIVE" /\ ~db[n].demo)
    BY <1>7, <1>9, <2>1 DEF WorkspaceInv, EarnedIn
  <2>4. CASE n = m
    BY <1>8, <2>1, <2>4
  <2>5. CASE n # m
    <3>1. rows[n] = db[n]
      BY <1>4, <1>6, <2>2, <2>5, ResultElsewhere
    <3> QED
      BY <1>7, <2>1, <2>3, <3>1
  <2> QED
    BY <2>4, <2>5
<1>10. EarnedIn(rows)
  BY <1>7, <1>9 DEF EarnedIn, WorkspaceInv
<1>11. KeepsWorkspace(put)
  BY <1>4, <1>6, <1>10, SetupLeavesAccess
<1> QED
  BY <1>3, <1>11, StageKeepsWorkspace

-----------------------------------------------------------------------------
(* Workspaces: the subscription *)

\* An event that was processed is left alone, and what becomes active is paid.
LEMMA AccessKeeps ==
  ASSUME WorkspaceInv, NEW put, NEW rows, rows = Result(put),
         \A d \in DOMAIN put : d[1] \in {"SAAS", "PROV"},
         \A ev \in DOMAIN put : ev[1] = "PROV" =>
           ev \in Live("PROV") /\ db[ev].status # "PROCESSED" /\ DOMAIN put[ev] = {"status"},
         \A sub \in Rows("SAAS") \cap DOMAIN put :
           /\ AccessRow(rows[sub])
           /\ rows[sub].status = "active" => db[sub].status = "active" \/ \E ev \in Rows("PROV") : Pays(rows[ev], sub)
  PROVE  KeepsWorkspace(put)
<1>1. \A d \in DOMAIN db \ DOMAIN put : rows[d] = db[d]
  BY ResultElsewhere
<1>2. ASSUME NEW sub \in Rows("SAAS"), rows[sub] # NoRow
      PROVE  AccessRow(rows[sub])
  BY <1>1, <1>2 DEF WorkspaceInv, PaidIn, Rows
<1>3. ASSUME NEW ev \in Rows("PROV"), rows[ev] # NoRow
      PROVE  EventRow(rows[ev])
  <2>1. CASE ev \notin DOMAIN put
    BY <1>1, <1>3, <2>1 DEF WorkspaceInv, PaidIn, Rows
  <2>2. CASE ev \in DOMAIN put
    <3>1. PICK new, old, row : new = put[ev] /\ old = db[ev] /\ row = rows[ev]
      OBVIOUS
    <3>2. EventRow(old) /\ DOMAIN new = {"status"}
      BY <2>2, <3>1 DEF WorkspaceInv, PaidIn, Live, Rows
    <3>3. DOMAIN row = DOMAIN new \cup DOMAIN old /\ \A c \in DOMAIN old \ DOMAIN new : row[c] = old[c]
      <4>1. ev \in DOMAIN db \cap DOMAIN put
        BY <2>2 DEF Rows
      <4> QED
        BY <3>1, <4>1, ResultColumns
    <3> QED
      BY <3>1, <3>2, <3>3 DEF EventRow
  <2> QED
    BY <2>1, <2>2
<1>4. \A sub : \A ev \in Rows("PROV") : Pays(db[ev], sub) => Pays(rows[ev], sub)
  <2> SUFFICES ASSUME NEW ev \in Rows("PROV"), NEW sub, Pays(db[ev], sub) PROVE Pays(rows[ev], sub)
    OBVIOUS
  <2>1. ev[1] = "PROV" /\ ev \in DOMAIN db /\ db[ev].status = "PROCESSED"
    BY DEF Pays, Rows
  <2>2. rows[ev] = db[ev]
    BY <1>1, <2>1
  <2> QED
    BY <2>2
<1>5. ASSUME NEW sub \in Rows("SAAS"), rows[sub].status = "active"
      PROVE  \E ev \in Rows("PROV") : Pays(rows[ev], sub)
  <2>1. db[sub].status = "active" \/ \E ev \in Rows("PROV") : Pays(rows[ev], sub)
    BY <1>1, <1>5 DEF Rows
  <2> QED
    BY <1>4, <2>1 DEF WorkspaceInv, PaidIn
<1>6. PaidIn(rows)
  BY <1>2, <1>3, <1>5 DEF PaidIn
<1>7. \A d \in DOMAIN put : d[1] = "PROV" => db[d] # NoRow
  BY DEF Live
<1> QED
  BY <1>6, <1>7, AccessLeavesSetup

LEMMA SubscriptionFacts ==
  ASSUME WorkspaceInv, NEW sub \in Rows("SAAS")
  PROVE  sub \in DOMAIN db /\ sub[1] = "SAAS" /\ (db[sub] # NoRow => AccessRow(db[sub]))
  BY DEF WorkspaceInv, PaidIn, Rows

LEMMA CreateCheckoutKeeps ==
  ASSUME WorkspaceInv, NEW s \in Sessions, NEW sub \in Rows("SAAS"), CreateCheckout(s, sub)
  PROVE  WorkspaceInv'
<1> HIDE DEF Sessions
<1>1. PICK r : r = [status |-> "pending", prov |-> FALSE, trial |-> FALSE, asked |-> FALSE]
  OBVIOUS
<1>2. PICK put : put = sub :> r
  OBVIOUS
<1>3. PICK rows : rows = Result(put)
  OBVIOUS
<1>4. Stage(s, put, Nothing, {})
  BY <1>1, <1>2 DEF CreateCheckout
<1>5. DOMAIN put = {sub} /\ put[sub] = r /\ sub[1] = "SAAS" /\ sub \in DOMAIN db
  BY <1>2, OneRow, SubscriptionFacts
<1>6. {"status", "prov", "trial", "asked"} \subseteq DOMAIN rows[sub] /\ rows[sub].status = "pending"
  <2>1. PICK new, row : new = put[sub] /\ row = rows[sub]
    OBVIOUS
  <2>2. DOMAIN new = {"status", "prov", "trial", "asked"} /\ new.status = "pending"
    BY <1>1, <1>5, <2>1
  <2>3. DOMAIN new \subseteq DOMAIN row /\ \A c \in DOMAIN new : row[c] = new[c]
    BY <1>3, <1>5, <2>1, ResultColumns
  <2> QED
    BY <2>1, <2>2, <2>3
<1>7. KeepsWorkspace(put)
  BY <1>3, <1>5, <1>6, AccessKeeps DEF AccessRow
<1> QED
  BY <1>4, <1>7, StageKeepsWorkspace

LEMMA CancelSubscriptionKeeps ==
  ASSUME WorkspaceInv, NEW s \in Sessions, NEW sub \in Rows("SAAS"), db[sub] # NoRow, CancelSubscription(s, sub)
  PROVE  WorkspaceInv'
<1> HIDE DEF Sessions
<1>1. PICK r : r = [asked |-> TRUE]
  OBVIOUS
<1>2. PICK put : put = sub :> r
  OBVIOUS
<1>3. PICK rows : rows = Result(put)
  OBVIOUS
<1>4. Stage(s, put, Nothing, {})
  BY <1>1, <1>2 DEF CancelSubscription
<1>5. DOMAIN put = {sub} /\ put[sub] = r /\ sub[1] = "SAAS" /\ sub \in DOMAIN db /\ AccessRow(db[sub])
  BY <1>2, OneRow, SubscriptionFacts
<1>6. AccessRow(rows[sub]) /\ rows[sub].status = db[sub].status
  <2>1. PICK new, old, row : new = put[sub] /\ old = db[sub] /\ row = rows[sub]
    OBVIOUS
  <2>2. DOMAIN new = {"asked"}
    BY <1>1, <1>5, <2>1
  <2>3. DOMAIN row = DOMAIN new \cup DOMAIN old /\ \A c \in DOMAIN old \ DOMAIN new : row[c] = old[c]
    BY <1>3, <1>5, <2>1, ResultColumns
  <2>4. AccessRow(old)
    BY <1>5, <2>1
  <2> QED
    BY <2>1, <2>2, <2>3, <2>4 DEF AccessRow
<1>7. KeepsWorkspace(put)
  BY <1>3, <1>5, <1>6, AccessKeeps
<1> QED
  BY <1>4, <1>7, StageKeepsWorkspace

\* An event is taken to be about a subscription only if it is: without our
\* reference, and before the provider's id is known, its own subscription is
\* still pending, and the only one that is.
LEMMA CorrelatedIsOwn ==
  ASSUME WorkspaceInv, NEW ev \in Live("PROV"), NEW sub \in Correlated(ev)
  PROVE  sub = db[ev].of /\ sub \in Live("SAAS") /\ EventRow(db[ev]) /\ ev \in Rows("PROV")
<1>1. EventRow(db[ev]) /\ db[ev].of \in Live("SAAS") /\ ev \in Rows("PROV")
  BY DEF WorkspaceInv, PaidIn, Live, EventRow
<1>2. AccessRow(db[db[ev].of])
  BY <1>1 DEF WorkspaceInv, PaidIn, Live
<1>3. CASE db[ev].named \/ db[db[ev].of].prov
  BY <1>1, <1>3 DEF Correlated
<1>4. CASE ~(db[ev].named \/ db[db[ev].of].prov)
  <2>1. Cardinality(Pending) = 1 /\ sub \in Pending
    BY <1>4 DEF Correlated
  <2>2. db[ev].of \in Pending
    BY <1>1, <1>2, <1>4 DEF Pending, AccessRow, Status
  <2>3. IsFiniteSet(Pending)
    BY FS_Subset DEF WorkspaceInv, Pending, Live, Rows
  <2>4. PICK x : Pending = {x}
    BY <2>1, <2>3, FS_Singleton
  <2> QED
    BY <1>1, <2>1, <2>2, <2>4
<1> QED
  BY <1>3, <1>4

LEMMA AppliedColumns ==
  ASSUME NEW sub, NEW type \in EventTypes, NEW running \in BOOLEAN, NEW applied, applied = Applied(sub, type, running)
  PROVE  /\ DOMAIN applied \subseteq {"status", "trial"}
         /\ "status" \in DOMAIN applied /\ applied.status = "active" => type \in {"succeeded", "resumed"}
<1>1. CASE type = "created"
  <2>1. PICK trial, status :
          /\ trial = [trial |-> running]
          /\ status = IF Status(sub) \in {"active", "past_due", "cancelled", "ended"} THEN Nothing
                      ELSE [status |-> IF running THEN "trialing" ELSE "pending"]
    OBVIOUS
  <2>2. applied = trial @@ status
    BY <1>1, <2>1 DEF Applied
  <2>3. DOMAIN trial = {"trial"}
    BY <2>1
  <2>4. DOMAIN status \subseteq {"status"} /\ ("status" \in DOMAIN status => status.status \in {"trialing", "pending"})
    BY <2>1, NothingIsEmpty
  <2>5. DOMAIN applied = DOMAIN trial \cup DOMAIN status /\ \A c \in DOMAIN status \ DOMAIN trial : applied[c] = status[c]
    BY <2>2 DEF @@
  <2> QED
    BY <2>3, <2>4, <2>5
<1>2. CASE type # "created"
  <2>1. PICK status : applied = [status |-> status] /\ (status = "active" => type \in {"succeeded", "resumed"})
    BY <1>2 DEF Applied, EventTypes
  <2> QED
    BY <2>1
<1> QED
  BY <1>1, <1>2

LEMMA ReceiveWebhookKeeps ==
  ASSUME WorkspaceInv, NEW s \in Sessions, NEW ev \in Live("PROV"), ReceiveWebhook(s, ev)
  PROVE  WorkspaceInv'
<1> HIDE DEF Sessions
<1>1. ev \in Rows("PROV") /\ ev \in DOMAIN db /\ ev[1] = "PROV" /\ db[ev].status # "PROCESSED"
  BY DEF Live, Rows, ReceiveWebhook, Status
<1>2. CASE Stage(s, ev :> [status |-> "ERROR"], Nothing, {})
  <2>1. PICK r : r = [status |-> "ERROR"]
    OBVIOUS
  <2>2. PICK put : put = ev :> r
    OBVIOUS
  <2>3. Stage(s, put, Nothing, {})
    BY <1>2, <2>1, <2>2
  <2>4. DOMAIN put = {ev} /\ put[ev] = r /\ DOMAIN r = {"status"}
    BY <2>1, <2>2, OneRow
  <2>5. \A sub \in Rows("SAAS") : sub \notin DOMAIN put
    BY <1>1, <2>4 DEF Rows
  <2>6. KeepsWorkspace(put)
    BY <1>1, <2>4, <2>5, AccessKeeps
  <2> QED
    BY <2>3, <2>6, StageKeepsWorkspace
<1>3. ASSUME NEW sub \in Correlated(ev), NEW running \in BOOLEAN,
             Stage(s, ev :> [status |-> "PROCESSED"] @@ sub :> (Applied(sub, db[ev].type, running) @@ [prov |-> TRUE]),
                   Nothing, {sub, ev})
      PROVE  WorkspaceInv'
  <2>1. sub = db[ev].of /\ sub \in Live("SAAS") /\ EventRow(db[ev])
    BY CorrelatedIsOwn
  <2>2. sub \in Rows("SAAS") /\ db[sub] # NoRow /\ db[ev].type \in EventTypes
    BY <2>1 DEF Live, EventRow
  <2>3. sub \in DOMAIN db /\ sub[1] = "SAAS" /\ AccessRow(db[sub])
    BY <2>2, SubscriptionFacts
  <2>4. PICK seen, known, type, applied :
          /\ seen = [status |-> "PROCESSED"] /\ known = [prov |-> TRUE] /\ type = db[ev].type
          /\ applied = Applied(sub, type, running)
    OBVIOUS
  <2>5. PICK r : r = applied @@ known
    OBVIOUS
  <2>6. PICK first, second : first = ev :> seen /\ second = sub :> r
    OBVIOUS
  <2>7. PICK put : put = first @@ second
    OBVIOUS
  <2>8. Stage(s, put, Nothing, {sub, ev})
    BY <1>3, <2>4, <2>5, <2>6, <2>7
  <2>9. DOMAIN first = {ev} /\ first[ev] = seen /\ DOMAIN second = {sub} /\ second[sub] = r
    BY <2>6, OneRow
  <2>10. DOMAIN put = {ev, sub} /\ put[ev] = seen /\ put[sub] = r
    BY <1>1, <2>3, <2>7, <2>9 DEF @@
  <2>11. /\ DOMAIN applied \subseteq {"status", "trial"}
         /\ "status" \in DOMAIN applied /\ applied.status = "active" => type \in {"succeeded", "resumed"}
    BY <2>2, <2>4, AppliedColumns
  <2>12. DOMAIN known = {"prov"} /\ known.prov /\ DOMAIN seen = {"status"} /\ seen.status = "PROCESSED"
    BY <2>4
  <2>13. /\ DOMAIN r = DOMAIN applied \cup DOMAIN known
         /\ \A c \in DOMAIN applied : r[c] = applied[c]
         /\ \A c \in DOMAIN known \ DOMAIN applied : r[c] = known[c]
    BY <2>5 DEF @@
  <2>14. /\ "prov" \in DOMAIN r /\ r.prov
         /\ "status" \in DOMAIN r /\ r.status = "active" => type \in {"succeeded", "resumed"}
    BY <2>11, <2>12, <2>13
  <2>15. PICK rows : rows = Result(put)
    OBVIOUS
  <2>16. PICK old, row, told, tells : old = db[sub] /\ row = rows[sub] /\ told = db[ev] /\ tells = rows[ev]
    OBVIOUS
  <2>17. /\ DOMAIN row = DOMAIN r \cup DOMAIN old
         /\ \A c \in DOMAIN r : row[c] = r[c]
         /\ \A c \in DOMAIN old \ DOMAIN r : row[c] = old[c]
    BY <2>3, <2>10, <2>15, <2>16, ResultColumns
  <2>18. /\ \A c \in DOMAIN seen : tells[c] = seen[c]
         /\ \A c \in DOMAIN told \ DOMAIN seen : tells[c] = told[c]
    BY <1>1, <2>10, <2>15, <2>16, ResultColumns
  <2>19. AccessRow(row)
    BY <2>3, <2>14, <2>16, <2>17 DEF AccessRow
  <2>20. tells.status = "PROCESSED" /\ tells.of = sub /\ tells.type = type
    BY <2>1, <2>4, <2>12, <2>16, <2>18 DEF EventRow
  <2>21. row.status = "active" => old.status = "active" \/ Pays(tells, sub)
    <3>1. CASE "status" \in DOMAIN r
      BY <2>14, <2>17, <2>20, <3>1 DEF Pays
    <3>2. CASE "status" \notin DOMAIN r
      BY <2>3, <2>16, <2>17, <3>2 DEF AccessRow
    <3> QED
      BY <3>1, <3>2
  <2>22. \A x \in Rows("SAAS") \cap DOMAIN put : x = sub
    BY <1>1, <2>10 DEF Rows
  <2>23. \A x \in DOMAIN put : x[1] \in {"SAAS", "PROV"} /\ (x[1] = "PROV" => x = ev)
    BY <1>1, <2>3, <2>10
  <2>24. KeepsWorkspace(put)
    BY <1>1, <2>10, <2>12, <2>15, <2>16, <2>19, <2>21, <2>22, <2>23, AccessKeeps
  <2> QED
    BY <2>8, <2>24, StageKeepsWorkspace
<1> QED
  BY <1>2, <1>3 DEF ReceiveWebhook

LEMMA WorkspaceNextKeeps ==
  ASSUME WorkspaceInv, NEW s \in Sessions, WorkspaceNext(s)
  PROVE  WorkspaceInv'
<1> HIDE DEF Sessions
<1>1. CASE \E flag \in BOOLEAN : RegisterTenant(s, flag) \/ CompleteSetup(s, flag)
  BY <1>1, RegisterTenantKeeps, CompleteSetupKeeps
<1>2. CASE \E m \in Rows("MASTER") : CreateMaster(s, m)
  BY <1>2, CreateMasterKeeps
<1>3. CASE GetOnboardingProgress(s)
  BY <1>3, GetOnboardingProgressKeeps
<1>4. CASE \E t \in Live("STEP") : ManuallyCompleteStep(s, t) \/ ValidateStep(s, t)
  BY <1>4, ManuallyCompleteStepKeeps, ValidateStepKeeps
<1>5. CASE \E g \in Live("GUIDE") : SkipModule(s, g)
  BY <1>5, SkipModuleKeeps
<1>6. CASE \E sub \in Rows("SAAS") : CreateCheckout(s, sub) \/ (db[sub] # NoRow /\ CancelSubscription(s, sub))
  BY <1>6, CreateCheckoutKeeps, CancelSubscriptionKeeps
<1>7. CASE \E ev \in Live("PROV") : ReceiveWebhook(s, ev)
  BY <1>7, ReceiveWebhookKeeps
<1> QED
  BY <1>1, <1>2, <1>3, <1>4, <1>5, <1>6, <1>7 DEF WorkspaceNext

-----------------------------------------------------------------------------
(* Workspaces: commits, the provider and the calendar *)

LEMMA CommitKeepsWorkspace ==
  ASSUME NEW s \in Sessions, Commit(s), WorkspaceInv
  PROVE  WorkspaceInv'
<1> HIDE DEF Sessions
<1>1. PICK put : put = req[s].put
  OBVIOUS
<1>2. KeepsWorkspace(put) /\ Sessions' = Sessions /\ req'[s] = Idle /\ DOMAIN db' = DOMAIN db
  BY <1>1, CommitIsOne DEF WorkspaceInv
<1>3. db' = Result(put)
  BY <1>1 DEF Commit, CommitAnd, Result, After
<1>4. \A kind : Rows(kind)' = Rows(kind)
  BY <1>2 DEF Rows
<1>5. Live("SAAS") \subseteq Live("SAAS")'
  <2> SUFFICES ASSUME NEW sub \in Live("SAAS") PROVE sub \in Live("SAAS")'
    OBVIOUS
  <2>1. sub \in Rows("SAAS") /\ sub \in DOMAIN db /\ "prov" \in DOMAIN db[sub]
    BY DEF Live, Rows, WorkspaceInv, PaidIn, AccessRow
  <2>2. "prov" \in DOMAIN db'[sub]
    <3>1. CASE sub \in DOMAIN put
      BY <1>3, <2>1, <3>1, ResultColumns
    <3>2. CASE sub \notin DOMAIN put
      BY <1>3, <2>1, <3>2, ResultElsewhere
    <3> QED
      BY <3>1, <3>2
  <2> QED
    BY <1>4, <2>1, <2>2, NoRowColumns DEF Live
<1>6. EarnedIn(db)'
  BY <1>2, <1>3, <1>4 DEF KeepsWorkspace, EarnedIn, StepRow
<1>7. PaidIn(db)'
  BY <1>2, <1>3, <1>4, <1>5 DEF KeepsWorkspace, PaidIn, AccessRow, EventRow, Pays
<1>8. OneSession' /\ \A t \in Sessions' : req'[t] = Idle
  BY <1>2 DEF WorkspaceInv, OneSession
<1> QED
  BY <1>2, <1>4, <1>6, <1>7, <1>8 DEF WorkspaceInv

LEMMA RollbackKeepsWorkspace ==
  ASSUME NEW s \in Sessions, Rollback(s), WorkspaceInv
  PROVE  WorkspaceInv'
<1>1. Sessions' = Sessions /\ req'[s] = Idle /\ db' = db
  BY DEF Rollback, Sessions
<1> HIDE DEF Sessions
<1>2. OneSession' /\ \A t \in Sessions' : req'[t] = Idle
  BY <1>1 DEF WorkspaceInv, OneSession
<1> QED
  BY <1>1, <1>2, SameRows DEF WorkspaceInv

\* Rows as the environment leaves them: a subscription keeps its status, and
\* events only come in.
Follows(rows, next) ==
  /\ \A sub \in Rows("SAAS") :
       \/ next[sub] = rows[sub]
       \/ /\ rows[sub] # NoRow /\ next[sub] # NoRow
          /\ DOMAIN next[sub] = DOMAIN rows[sub]
          /\ next[sub].status = rows[sub].status /\ next[sub].prov = rows[sub].prov
  /\ \A ev \in Rows("PROV") :
       next[ev] = rows[ev] \/ (rows[ev] = NoRow /\ EventRow(next[ev]))

LEMMA FollowsKeepsPaid ==
  ASSUME NEW rows, NEW next, PaidIn(rows), Follows(rows, next)
  PROVE  PaidIn(next)
<1>1. \A sub \in Rows("SAAS") : next[sub] # NoRow => AccessRow(next[sub])
  BY DEF PaidIn, Follows, AccessRow
<1>2. \A ev \in Rows("PROV") : next[ev] # NoRow => EventRow(next[ev])
  BY DEF PaidIn, Follows
<1>3. \A sub : \A ev \in Rows("PROV") : Pays(rows[ev], sub) => Pays(next[ev], sub)
  BY NoRowColumns DEF Follows, Pays
<1>4. \A sub \in Rows("SAAS") : next[sub].status = "active" => rows[sub].status = "active"
  BY DEF Follows
<1> QED
  BY <1>1, <1>2, <1>3, <1>4 DEF PaidIn

\* A step of the environment, which no request has locked out, keeps both
\* what is committed and what will be.
LEMMA EnvironmentKeeps ==
  ASSUME WorkspaceInv, req' = req, DOMAIN db' = DOMAIN db, NEW d \in DOMAIN db, NEW row,
         db' = [db EXCEPT ![d] = row],
         \/ /\ d[1] = "PROV" /\ db[d] = NoRow /\ EventRow(row)
         \/ /\ d[1] = "SAAS" /\ db[d] # NoRow
            /\ DOMAIN row = DOMAIN db[d] /\ row.status = db[d].status /\ row.prov = db[d].prov
  PROVE  WorkspaceInv'
<1>1. Sessions' = Sessions
  BY DEF Sessions
<1> HIDE DEF Sessions
<1>2. \A kind : Rows(kind)' = Rows(kind)
  BY DEF Rows
<1>3. db'[d] = row /\ \A e \in DOMAIN db : e # d => db'[e] = db[e]
  OBVIOUS
<1>4. d[1] = "SAAS" => AccessRow(db[d]) /\ row # NoRow
  <2>1. d[1] = "SAAS" => db[d] # NoRow /\ d \in Rows("SAAS")
    BY DEF Rows
  <2>2. d[1] = "SAAS" => AccessRow(db[d])
    BY <2>1 DEF WorkspaceInv, PaidIn
  <2> QED
    BY <2>1, <2>2, NoRowColumns DEF AccessRow
<1>5. Live("SAAS") \subseteq Live("SAAS")'
  BY <1>2, <1>3, <1>4 DEF Live, Rows
<1>6. \A rows : PaidIn(rows) => PaidIn(rows)'
  BY <1>2, <1>5 DEF PaidIn, AccessRow, EventRow, Pays
<1>7. \A rows : EarnedIn(rows) => EarnedIn(rows)'
  BY <1>2 DEF EarnedIn, StepRow
<1>8. Follows(db, db')
  BY <1>3, <1>4 DEF Follows, Rows
<1>9. PaidIn(db)'
  <2>1. PICK next : next = db'
    OBVIOUS
  <2>2. PaidIn(next)
    BY <1>8, <2>1, FollowsKeepsPaid DEF WorkspaceInv
  <2>3. PaidIn(next)'
    BY <1>6, <2>2
  <2> QED
    BY <2>1, <2>3
<1>10. \A e \in DOMAIN db : e[1] \notin {"SAAS", "PROV"} => db'[e] = db[e]
  BY <1>3
<1>11. EarnedIn(db)'
  <2>1. \A t \in Rows("STEP") : db'[<<"MASTER", t[2]>>] = db[<<"MASTER", t[2]>>]
    <3> SUFFICES ASSUME NEW t \in Rows("STEP") PROVE db'[<<"MASTER", t[2]>>] = db[<<"MASTER", t[2]>>]
      OBVIOUS
    <3>1. PICK m : m = <<"MASTER", t[2]>>
      OBVIOUS
    <3>2. m \in DOMAIN db /\ m[1] = "MASTER"
      BY <3>1 DEF WorkspaceInv
    <3> QED
      BY <1>10, <3>1, <3>2
  <2>2. \A e \in Rows("STEP") \cup Rows("GUIDE") : db'[e] = db[e]
    BY <1>10 DEF Rows
  <2> QED
    BY <1>2, <2>1, <2>2 DEF WorkspaceInv, EarnedIn, StepRow
<1>12. ASSUME NEW put, KeepsWorkspace(put)
       PROVE  KeepsWorkspace(put)'
  <2>1. PICK rows, next : rows = Result(put) /\ next = Result(put)'
    OBVIOUS
  <2>2. \A e \in DOMAIN db : e # d => next[e] = rows[e]
    BY <1>3, <2>1 DEF Result, After
  <2>3. d[1] = "PROV" => d \notin DOMAIN put
    BY <1>12 DEF KeepsWorkspace
  <2>4. d \notin DOMAIN put => rows[d] = db[d] /\ next[d] = row
    BY <1>3, <2>1 DEF Result, After
  <2>5. ASSUME d \in DOMAIN put, d[1] = "SAAS"
        PROVE  /\ rows[d] # NoRow /\ next[d] # NoRow /\ DOMAIN next[d] = DOMAIN rows[d]
               /\ next[d].status = rows[d].status /\ next[d].prov = rows[d].prov
    <3>1. PICK new, old, was, is : new = put[d] /\ old = db[d] /\ was = rows[d] /\ is = next[d]
      OBVIOUS
    <3>2. was = new @@ old /\ is = new @@ row
      BY <1>3, <2>1, <2>5, <3>1 DEF Result, After
    <3>3. AccessRow(old) /\ DOMAIN row = DOMAIN old /\ row.status = old.status /\ row.prov = old.prov
      BY <1>4, <2>5, <3>1
    <3>4. /\ DOMAIN was = DOMAIN new \cup DOMAIN old /\ DOMAIN is = DOMAIN new \cup DOMAIN row
          /\ \A c \in DOMAIN new : was[c] = new[c] /\ is[c] = new[c]
          /\ \A c \in DOMAIN old \ DOMAIN new : was[c] = old[c]
          /\ \A c \in DOMAIN row \ DOMAIN new : is[c] = row[c]
      BY <3>2 DEF @@
    <3>5. "prov" \in DOMAIN was /\ "prov" \in DOMAIN is /\ "status" \in DOMAIN old /\ "prov" \in DOMAIN old
      BY <3>3, <3>4 DEF AccessRow
    <3>6. DOMAIN is = DOMAIN was /\ is.status = was.status /\ is.prov = was.prov
      BY <3>3, <3>4, <3>5
    <3> QED
      BY <3>1, <3>5, <3>6, NoRowColumns
  <2>6. Follows(rows, next)
    <3>1. ASSUME NEW sub \in Rows("SAAS")
          PROVE  \/ next[sub] = rows[sub]
                 \/ /\ rows[sub] # NoRow /\ next[sub] # NoRow
                    /\ DOMAIN next[sub] = DOMAIN rows[sub]
                    /\ next[sub].status = rows[sub].status /\ next[sub].prov = rows[sub].prov
      BY <1>4, <2>2, <2>4, <2>5 DEF Rows
    <3>2. ASSUME NEW ev \in Rows("PROV")
          PROVE  next[ev] = rows[ev] \/ (rows[ev] = NoRow /\ EventRow(next[ev]))
      BY <2>2, <2>3, <2>4 DEF Rows
    <3> QED
      BY <3>1, <3>2 DEF Follows
  <2>7. PaidIn(next)'
    BY <1>6, <1>12, <2>1, <2>6, FollowsKeepsPaid DEF KeepsWorkspace
  <2>8. EarnedIn(next)'
    <3>1. \A e \in DOMAIN db : e[1] \notin {"SAAS", "PROV"} => next[e] = rows[e]
      BY <2>2
    <3>2. \A t \in Rows("STEP") : next[<<"MASTER", t[2]>>] = rows[<<"MASTER", t[2]>>]
      <4> SUFFICES ASSUME NEW t \in Rows("STEP") PROVE next[<<"MASTER", t[2]>>] = rows[<<"MASTER", t[2]>>]
        OBVIOUS
      <4>1. PICK m : m = <<"MASTER", t[2]>>
        OBVIOUS
      <4>2. m \in DOMAIN db /\ m[1] = "MASTER"
        BY <4>1 DEF WorkspaceInv
      <4> QED
        BY <3>1, <4>1, <4>2
    <3>3. \A e \in Rows("STEP") \cup Rows("GUIDE") : next[e] = rows[e]
      BY <3>1 DEF Rows
    <3>4. EarnedIn(next)
      BY <1>12, <2>1, <3>2, <3>3 DEF KeepsWorkspace, EarnedIn
    <3> QED
      BY <1>7, <3>4
  <2>9. \A e \in DOMAIN put : e[1] = "PROV" => db'[e] # NoRow
    <3>1. \A e \in DOMAIN put : e[1] = "PROV" => db[e] # NoRow /\ e # d
      BY <1>12, <2>3 DEF KeepsWorkspace
    <3> QED
      BY <1>3, <3>1
  <2> QED
    BY <2>1, <2>7, <2>8, <2>9 DEF KeepsWorkspace
<1>13. ASSUME NEW t \in Sessions, req[t] # Idle
       PROVE  KeepsWorkspace(req[t].put)'
  <2>1. PICK put : put = req[t].put
    OBVIOUS
  <2>2. KeepsWorkspace(put)'
    BY <1>12, <1>13, <2>1 DEF WorkspaceInv
  <2> QED
    BY <2>1, <2>2
<1> QED
  BY <1>1, <1>2, <1>9, <1>11, <1>13 DEF WorkspaceInv, OneSession

LEMMA WorkspaceEnvironmentKeeps ==
  ASSUME WorkspaceInv, WorkspaceEnvironment
  PROVE  WorkspaceInv'
<1>1. ASSUME NEW ev \in Rows("PROV"), NEW sub \in Rows("SAAS"), NEW type \in EventTypes, NEW named \in BOOLEAN,
             ProviderEvent(ev, sub, type, named)
      PROVE  WorkspaceInv'
  <2>1. PICK row : row = [status |-> "SENT", of |-> sub, type |-> type, named |-> named]
    OBVIOUS
  <2>2. EventRow(row)
    BY <1>1, <2>1 DEF EventRow, ProviderEvent, Live
  <2>3. ev \in DOMAIN db /\ ev[1] = "PROV" /\ db[ev] = NoRow /\ req' = req /\ db' = [db EXCEPT ![ev] = row]
    BY <1>1, <2>1 DEF ProviderEvent, Rows
  <2>4. DOMAIN db' = DOMAIN db
    BY <2>3
  <2> QED
    BY <2>2, <2>3, <2>4, EnvironmentKeeps
<1>2. ASSUME NEW sub \in Rows("SAAS"), TrialEnds(sub)
      PROVE  WorkspaceInv'
  <2>1. PICK old, row : old = db[sub] /\ row = [old EXCEPT !.trial = FALSE]
    OBVIOUS
  <2>2. sub \in DOMAIN db /\ sub[1] = "SAAS" /\ AccessRow(old) /\ db[sub] # NoRow
    BY <1>2, <2>1, SubscriptionFacts DEF TrialEnds
  <2>3. DOMAIN row = DOMAIN old /\ row.status = old.status /\ row.prov = old.prov
    BY <2>1, <2>2 DEF AccessRow
  <2>4. req' = req /\ db' = [db EXCEPT ![sub] = row]
    BY <1>2, <2>1 DEF TrialEnds
  <2>5. DOMAIN db' = DOMAIN db
    BY <2>4
  <2> QED
    BY <2>1, <2>2, <2>3, <2>4, <2>5, EnvironmentKeeps
<1> QED
  BY <1>1, <1>2 DEF WorkspaceEnvironment

\* Requests one after the other, while the provider sends events of its own
\* and trials run out in between, keep what has been staged right: also of
\* rows that have changed since they were read.
THEOREM WorkspaceInvariance == WorkspaceSpec /\ OneSession => []WorkspaceInv
<1> DEFINE Step == WorkspaceEnvironment \/ \E s \in Sessions : EndOfRequest(s) \/ WorkspaceNext(s)
<1>1. WorkspaceComplete /\ WorkspaceEarned /\ (\A s \in Sessions : Free(s)) /\ OneSession => WorkspaceInv
  <2> SUFFICES ASSUME WorkspaceComplete, WorkspaceEarned, \A s \in Sessions : Free(s), OneSession
               PROVE  WorkspaceInv
    OBVIOUS
  <2> HIDE DEF Sessions
  <2>1. \A t \in Rows("STEP") : db[t] # NoRow => StepRow(db[t])
    BY DEF WorkspaceComplete, Live
  <2>2. \A d : db[d].status \in {"DONE", "active"} => db[d] # NoRow
    BY NoRowColumns
  <2>3. EarnedIn(db)
    BY <2>1, <2>2 DEF EarnedIn, WorkspaceEarned, OnboardingEarned, Live, Of, Status
  <2>4. PaidIn(db)
    BY <2>2 DEF PaidIn, WorkspaceComplete, WorkspaceEarned, AccessIsPaid, Live, Status, Pays
  <2> QED
    BY <2>3, <2>4 DEF WorkspaceInv, WorkspaceComplete, Free
<1>2. WorkspaceInv /\ [Step]_vars => WorkspaceInv'
  <2> SUFFICES ASSUME WorkspaceInv, [Step]_vars PROVE WorkspaceInv'
    OBVIOUS
  <2>1. CASE WorkspaceEnvironment
    BY <2>1, WorkspaceEnvironmentKeeps
  <2>2. CASE \E s \in Sessions : EndOfRequest(s) \/ WorkspaceNext(s)
    <3> HIDE DEF Sessions
    <3> QED
      BY <2>2, CommitKeepsWorkspace, RollbackKeepsWorkspace, WorkspaceNextKeeps DEF EndOfRequest
  <2>3. CASE UNCHANGED vars
    <3>1. db' = db /\ req' = req
      BY <2>3 DEF vars
    <3>2. Sessions' = Sessions
      BY <3>1 DEF Sessions
    <3> HIDE DEF Sessions
    <3>3. ASSUME NEW s \in Sessions, req[s] # Idle
          PROVE  KeepsWorkspace(req[s].put)'
      <4>1. PICK put : put = req[s].put
        OBVIOUS
      <4>2. KeepsWorkspace(put)'
        BY <3>1, <3>3, <4>1, SameRows DEF WorkspaceInv
      <4> QED
        BY <3>1, <4>1, <4>2
    <3> QED
      BY <3>1, <3>2, <3>3, SameRows DEF WorkspaceInv, OneSession
  <2> QED
    BY <2>1, <2>2, <2>3
<1> QED
  BY <1>1, <1>2, PTL DEF WorkspaceSpec

\* A step of the checklist is done by the customer's word or by a record
\* that the customer made after the setup, a module when its steps are
\* (api/routes/onboarding.py); and a subscription is active only when an
\* event about that very subscription said so, in whatever order, however
\* often and with whatever reference the provider sent its events
\* (api/routes/safepay_webhooks.py), for any number of steps, checkouts and
\* events.
THEOREM WorkspaceAsEarned == WorkspaceSpec /\ OneSession => []WorkspaceEarned
<1>1. WorkspaceInv => WorkspaceEarned
  BY NoRowColumns DEF WorkspaceInv, EarnedIn, PaidIn, WorkspaceEarned, OnboardingEarned, AccessIsPaid, Live, Of, Status, Pays
<1> QED
  BY <1>1, WorkspaceInvariance, PTL
-----------------------------------------------------------------------------
(* Loyalty points: the inductive invariant *)

\* An entry that the balance and the entries of its bill have room for.
EntryFits(row) ==
  /\ PointsRow(row)
  /\ row.status = "REDEEM" => row.points <= PointBalance
  /\ \A q \in Live("POINTS") : Status(q) = row.status => db[q].bill # row.bill \/ row.bill = NoRef

\* A request inserts at most one entry, with the customer locked, and no bill.
WritesPoints(put, locks) ==
  /\ \A d \in DOMAIN put : d[1] # "BILL"
  /\ \A p \in Rows("POINTS") :
       p \in DOMAIN put =>
         /\ Customer \in locks /\ db[p] = NoRow /\ EntryFits(put[p])
         /\ \A q \in Rows("POINTS") : q \in DOMAIN put => q = p

PointsInv ==
  /\ LocksApart
  /\ PointsComplete /\ PointsCovered
  /\ \A s \in Sessions : req[s] # Idle => WritesPoints(req[s].put, req[s].locks)

LEMMA SamePoints ==
  ASSUME DOMAIN db' = DOMAIN db, \A d \in Rows("POINTS") : db'[d] = db[d]
  PROVE  /\ \A kind : Rows(kind)' = Rows(kind)
         /\ Live("POINTS")' = Live("POINTS") /\ \A p \in Live("POINTS") : db'[p] = db[p]
         /\ PointBalance' = PointBalance
         /\ \A row : EntryFits(row)' = EntryFits(row)
<1>1. \A kind : Rows(kind)' = Rows(kind)
  BY DEF Rows
<1>2. Live("POINTS")' = Live("POINTS") /\ \A p \in Live("POINTS") : db'[p] = db[p] /\ Status(p)' = Status(p)
  BY <1>1 DEF Live, Status
<1>3. \A type : Entries(type)' = Entries(type) /\ \A p \in Entries(type) : db'[p] = db[p]
  BY <1>2 DEF Entries
<1>4. ASSUME NEW type PROVE Total(Entries(type), "points")' = Total(Entries(type), "points")
  <2>1. [p \in Entries(type) |-> db'[p]["points"]] = [p \in Entries(type) |-> db[p]["points"]]
    BY <1>3
  <2> QED
    BY <1>3, <2>1 DEF Total
<1>5. PointBalance' = PointBalance
  BY <1>4 DEF PointBalance
<1>6. \A row : EntryFits(row)' = EntryFits(row)
  BY <1>2, <1>5 DEF EntryFits, PointsRow
<1> QED
  BY <1>1, <1>2, <1>5, <1>6

LEMMA StageKeepsPoints ==
  ASSUME PointsInv, NEW s \in Sessions, NEW put, NEW locks, NEW add, Stage(s, put, add, locks),
         WritesPoints(Staged(put), locks)
  PROVE  PointsInv'
<1>1. LocksApart'
  BY StageKeepsApart DEF PointsInv
<1>2. /\ Sessions' = Sessions /\ db' = db
      /\ req'[s].put = Staged(put) /\ req'[s].locks = locks
      /\ \A t \in Sessions \ {s} : req'[t] = req[t]
  BY StageIsOne
<1> HIDE DEF Sessions
<1>3. /\ \A kind : Rows(kind)' = Rows(kind)
      /\ Live("POINTS")' = Live("POINTS") /\ PointBalance' = PointBalance
      /\ \A row : EntryFits(row)' = EntryFits(row)
  BY <1>2, SamePoints
<1>4. \A p, l : WritesPoints(p, l)' = WritesPoints(p, l)
  BY <1>2, <1>3 DEF WritesPoints
<1>5. PointsComplete' /\ PointsCovered'
  BY <1>2, <1>3 DEF PointsInv, PointsComplete, PointsCovered, Live, PointsRow, Status
<1>6. ASSUME NEW t \in Sessions, req'[t] # Idle
      PROVE  WritesPoints(req[t].put, req[t].locks)'
  <2>1. PICK staged : staged = Staged(put)
    OBVIOUS
  <2>2. CASE t = s
    <3>1. WritesPoints(staged, locks)'
      BY <1>4, <2>1
    <3> QED
      BY <1>2, <2>1, <2>2, <3>1
  <2>3. CASE t # s
    <3>1. PICK p, l : p = req[t].put /\ l = req[t].locks /\ p = req'[t].put /\ l = req'[t].locks
      BY <1>2, <2>3
    <3>2. WritesPoints(p, l)
      BY <1>2, <1>6, <2>3, <3>1 DEF PointsInv
    <3> QED
      BY <1>4, <3>1, <3>2
  <2> QED
    BY <2>2, <2>3
<1> QED
  BY <1>1, <1>2, <1>5, <1>6 DEF PointsInv

LEMMA QuietKeepsPoints ==
  ASSUME PointsInv, NEW s \in Sessions, NEW put, NEW add, NEW locks, Stage(s, put, add, locks),
         \A d \in DOMAIN put : d[1] \notin {"POINTS", "BILL"}
  PROVE  PointsInv'
<1> HIDE DEF Sessions
<1>1. PICK staged : staged = Staged(put)
  OBVIOUS
<1>2. DOMAIN staged = DOMAIN put
  BY <1>1 DEF Staged
<1>3. WritesPoints(staged, locks)
  BY <1>2 DEF WritesPoints, Rows
<1> QED
  BY <1>1, <1>3, StageKeepsPoints

LEMMA RollbackKeepsPoints ==
  ASSUME PointsInv, NEW s \in Sessions, Rollback(s)
  PROVE  PointsInv'
<1>1. Sessions' = Sessions /\ db' = db /\ req'[s] = Idle /\ \A t \in Sessions \ {s} : req'[t] = req[t]
  BY DEF Rollback, Sessions
<1> HIDE DEF Sessions
<1>2. LocksApart'
  BY <1>1 DEF PointsInv, LocksApart
<1>3. /\ \A kind : Rows(kind)' = Rows(kind)
      /\ Live("POINTS")' = Live("POINTS") /\ PointBalance' = PointBalance
      /\ \A row : EntryFits(row)' = EntryFits(row)
  BY <1>1, SamePoints
<1>4. \A p, l : WritesPoints(p, l)' = WritesPoints(p, l)
  BY <1>1, <1>3 DEF WritesPoints
<1>5. PointsComplete' /\ PointsCovered'
  BY <1>1, <1>3 DEF PointsInv, PointsComplete, PointsCovered, Live, PointsRow, Status
<1>6. ASSUME NEW t \in Sessions, req'[t] # Idle
      PROVE  WritesPoints(req[t].put, req[t].locks)'
  <2>1. PICK p, l : p = req[t].put /\ l = req[t].locks /\ p = req'[t].put /\ l = req'[t].locks
    BY <1>1, <1>6
  <2>2. WritesPoints(p, l)
    BY <1>1, <1>6, <2>1 DEF PointsInv
  <2> QED
    BY <1>4, <2>1, <2>2
<1> QED
  BY <1>1, <1>2, <1>5, <1>6 DEF PointsInv

\* The balance with one more entry.
LEMMA BalanceWithEntry ==
  ASSUME PointsComplete, PointsComplete', DOMAIN db' = DOMAIN db, NEW p \in Rows("POINTS"), db[p] = NoRow, db'[p] # NoRow,
         \A q \in Rows("POINTS") : q # p => db'[q] = db[q]
  PROVE  /\ Live("POINTS")' = Live("POINTS") \cup {p}
         /\ PointBalance \in Int /\ db'[p].points \in Nat
         /\ PointBalance' = PointBalance + (IF db'[p].status = "EARN" THEN db'[p].points ELSE -db'[p].points)
<1>1. Rows("POINTS")' = Rows("POINTS")
  BY DEF Rows
<1>2. Live("POINTS")' = Live("POINTS") \cup {p} /\ p \notin Live("POINTS") /\ \A q \in Live("POINTS") : db'[q] = db[q]
  BY <1>1 DEF Live
<1>3. PointsRow(db'[p])
  BY <1>2 DEF PointsComplete, PointsRow
<1>4. ASSUME NEW type
      PROVE  /\ Total(Entries(type), "points") \in Int
             /\ Total(Entries(type), "points")' =
                  Total(Entries(type), "points") + (IF db'[p].status = type THEN db'[p].points ELSE 0)
  <2>1. PICK E, f, g : E = Entries(type) /\ f = [q \in E \cup {p} |-> db'[q]["points"]] /\ g = [q \in E |-> db[q]["points"]]
    OBVIOUS
  <2>2. Entries(type)' = E \cup (IF db'[p].status = type THEN {p} ELSE {}) /\ p \notin E
    BY <1>2, <2>1 DEF Entries, Status
  <2>3. E \subseteq Rows("POINTS") /\ \A q \in E : db'[q] = db[q] /\ db[q].points \in Int
    BY <1>2, <2>1 DEF Entries, Live, PointsComplete, PointsRow
  <2>4. IsFiniteSet(E)
    BY <2>3, FS_Subset DEF PointsComplete
  <2>5. \A q \in E : f[q] = g[q] /\ f[q] \in Int /\ g[q] \in Int
    BY <2>1, <2>3
  <2>6. SumFunctionOnSet(f, E) = SumFunctionOnSet(g, E) /\ SumFunctionOnSet(g, E) \in Int
    BY <2>4, <2>5, SumEqual, SumInt DEF Summable
  <2>7. Total(Entries(type), "points") = SumFunctionOnSet(g, E)
    BY <2>1 DEF Total
  <2>8. CASE db'[p].status # type
    <3>1. [q \in E |-> db'[q]["points"]] = g
      BY <2>1, <2>3
    <3>2. Total(Entries(type), "points")' = SumFunctionOnSet(g, E)
      BY <2>2, <2>8, <3>1 DEF Total
    <3> QED
      BY <2>6, <2>7, <2>8, <3>2
  <2>9. CASE db'[p].status = type
    <3>1. Total(Entries(type), "points")' = SumFunctionOnSet(f, E \cup {p})
      BY <2>1, <2>2, <2>9 DEF Total
    <3>2. f[p] = db'[p].points /\ f[p] \in Int
      BY <1>3, <2>1 DEF PointsRow
    <3>3. SumFunctionOnSet(f, E \cup {p}) = f[p] + SumFunctionOnSet(f, E)
      BY <2>2, <2>4, <2>5, <3>2, SumAdd DEF Summable
    <3> QED
      BY <2>6, <2>7, <2>9, <3>1, <3>2, <3>3
  <2> QED
    BY <2>8, <2>9
<1>5. db'[p].status \in {"EARN", "REDEEM"} /\ db'[p].points \in Nat
  BY <1>3 DEF PointsRow
<1>6. /\ Total(Entries("EARN"), "points") \in Int /\ Total(Entries("REDEEM"), "points") \in Int
      /\ Total(Entries("EARN"), "points")' = Total(Entries("EARN"), "points") + (IF db'[p].status = "EARN" THEN db'[p].points ELSE 0)
      /\ Total(Entries("REDEEM"), "points")' = Total(Entries("REDEEM"), "points") + (IF db'[p].status = "REDEEM" THEN db'[p].points ELSE 0)
  BY <1>4
<1> QED
  BY <1>2, <1>5, <1>6 DEF PointBalance

LEMMA CommitKeepsPoints ==
  ASSUME PointsInv, NEW s \in Sessions, Commit(s)
  PROVE  PointsInv'
<1>1. /\ Sessions' = Sessions /\ DOMAIN db' = DOMAIN db
      /\ req[s] # Idle /\ req'[s] = Idle
      /\ \A t \in Sessions \ {s} : req'[t] = req[t]
      /\ \A d \in DOMAIN db \ DOMAIN req[s].put : db'[d] = db[d]
      /\ \A d \in DOMAIN db \cap DOMAIN req[s].put :
              /\ DOMAIN db'[d] = DOMAIN req[s].put[d] \cup DOMAIN db[d]
              /\ \A c \in DOMAIN req[s].put[d] : db'[d][c] = req[s].put[d][c]
  BY CommitIsOne
<1> HIDE DEF Sessions
<1>2. LocksApart'
  BY <1>1 DEF PointsInv, LocksApart
<1>3. PICK put, locks : put = req[s].put /\ locks = req[s].locks
  OBVIOUS
<1>4. WritesPoints(put, locks)
  BY <1>1, <1>3 DEF PointsInv
<1>5. \A kind : Rows(kind)' = Rows(kind)
  BY <1>1 DEF Rows
<1>6. \A b \in Rows("BILL") : db'[b] = db[b]
  BY <1>1, <1>3, <1>4 DEF WritesPoints, Rows
<1>7. \A b \in Live("BILL")' : {"status", "total"} \subseteq DOMAIN db'[b] /\ db'[b].total \in Int
  BY <1>5, <1>6 DEF PointsInv, PointsComplete, Live
<1>8. CASE \A p \in Rows("POINTS") : p \notin DOMAIN put
  <2>1. \A d \in Rows("POINTS") : db'[d] = db[d]
    BY <1>1, <1>3, <1>8 DEF Rows
  <2>2. /\ Live("POINTS")' = Live("POINTS") /\ (\A p \in Live("POINTS") : db'[p] = db[p])
        /\ PointBalance' = PointBalance
        /\ \A row : EntryFits(row)' = EntryFits(row)
    BY <1>1, <2>1, SamePoints
  <2>3. \A p, l : WritesPoints(p, l)' = WritesPoints(p, l)
    BY <1>5, <2>1, <2>2 DEF WritesPoints
  <2>4. PointsComplete' /\ PointsCovered'
    BY <1>5, <1>7, <2>2 DEF PointsInv, PointsComplete, PointsCovered, PointsRow, Status
  <2>5. ASSUME NEW t \in Sessions, req'[t] # Idle
        PROVE  WritesPoints(req[t].put, req[t].locks)'
    <3>1. PICK p, l : p = req[t].put /\ l = req[t].locks /\ p = req'[t].put /\ l = req'[t].locks
      BY <1>1, <2>5
    <3>2. WritesPoints(p, l)
      BY <1>1, <2>5, <3>1 DEF PointsInv
    <3> QED
      BY <2>3, <3>1, <3>2
  <2> QED
    BY <1>1, <1>2, <2>4, <2>5 DEF PointsInv
<1>9. CASE \E p \in Rows("POINTS") : p \in DOMAIN put
  <2>1. PICK p \in Rows("POINTS") : p \in DOMAIN put
    BY <1>9
  <2>2. Customer \in locks /\ db[p] = NoRow /\ EntryFits(put[p]) /\ \A q \in Rows("POINTS") : q \in DOMAIN put => q = p
    BY <1>4, <2>1 DEF WritesPoints
  <2>3. PICK new, row : new = put[p] /\ row = db'[p]
    OBVIOUS
  <2>4. DOMAIN row = DOMAIN new \cup DOMAIN NoRow /\ \A c \in DOMAIN new : row[c] = new[c]
    <3>1. p \in DOMAIN db \cap DOMAIN req[s].put
      BY <1>3, <2>1 DEF Rows
    <3> QED
      BY <1>1, <1>3, <2>2, <2>3, <3>1
  <2>5. PointsRow(row) /\ row.status = new.status /\ row.points = new.points /\ row.bill = new.bill /\ row # NoRow
    BY <2>2, <2>3, <2>4, NoRowColumns DEF EntryFits, PointsRow
  <2>6. \A q \in Rows("POINTS") : q # p => db'[q] = db[q]
    BY <1>1, <1>3, <2>2 DEF Rows
  <2>7. Live("POINTS")' = Live("POINTS") \cup {p} /\ p \notin Live("POINTS") /\ \A q \in Live("POINTS") : q # p /\ db'[q] = db[q]
    BY <1>5, <2>2, <2>3, <2>5, <2>6 DEF Live
  <2>8. PointsComplete'
    BY <1>5, <1>7, <2>3, <2>5, <2>7 DEF PointsInv, PointsComplete, PointsRow
  <2>9. /\ PointBalance \in Int /\ row.points \in Nat
        /\ PointBalance' = PointBalance + (IF row.status = "EARN" THEN row.points ELSE -row.points)
    BY <1>1, <2>2, <2>3, <2>5, <2>6, <2>8, BalanceWithEntry DEF PointsInv
  <2>10. PointBalance' >= 0
    <3>1. PointBalance >= 0 /\ (row.status = "REDEEM" => row.points <= PointBalance) /\ row.status \in {"EARN", "REDEEM"}
      BY <2>2, <2>3, <2>5 DEF PointsInv, PointsCovered, EntryFits, PointsRow
    <3> QED
      BY <2>9, <3>1
  <2>11. PointsCovered'
    <3>1. \A q \in Live("POINTS") : db[q].status = row.status => db[q].bill # row.bill \/ row.bill = NoRef
      BY <2>2, <2>3, <2>5 DEF EntryFits, Status
    <3>2. \A q, r \in Live("POINTS") : q # r /\ db[q].status = db[r].status => db[q].bill # db[r].bill \/ db[q].bill = NoRef
      BY DEF PointsInv, PointsCovered, Status
    <3>3. \A q, r \in Live("POINTS")' : q # r /\ db'[q].status = db'[r].status => db'[q].bill # db'[r].bill \/ db'[q].bill = NoRef
      BY <2>3, <2>7, <3>1, <3>2
    <3> QED
      BY <2>10, <3>3 DEF PointsCovered, Status
  <2>12. ASSUME NEW t \in Sessions, req'[t] # Idle
         PROVE  WritesPoints(req[t].put, req[t].locks)'
    <3>1. t # s /\ req'[t] = req[t] /\ req[t] # Idle
      BY <1>1, <2>12
    <3>2. Customer \notin req[t].locks
      BY <1>1, <1>3, <2>2, <3>1 DEF PointsInv, LocksApart
    <3>3. PICK other, l : other = req[t].put /\ l = req[t].locks /\ other = req'[t].put /\ l = req'[t].locks
      BY <3>1
    <3>4. WritesPoints(other, l) /\ Customer \notin l
      BY <3>1, <3>2, <3>3 DEF PointsInv
    <3>5. (\A d \in DOMAIN other : d[1] # "BILL") /\ \A q \in Rows("POINTS") : q \notin DOMAIN other
      BY <3>4 DEF WritesPoints
    <3>6. WritesPoints(other, l)'
      BY <1>5, <3>5 DEF WritesPoints
    <3> QED
      BY <3>3, <3>6
  <2> QED
    BY <1>1, <1>2, <2>8, <2>11, <2>12 DEF PointsInv
<1> QED
  BY <1>8, <1>9

-----------------------------------------------------------------------------
(* Loyalty points: the handlers *)

LEMMA EntryKeeps ==
  ASSUME PointsInv, NEW s \in Sessions, NEW p \in Rows("POINTS"), Fresh(p), NEW r, EntryFits(r), DOMAIN r = {"status", "bill", "points"},
         NEW locks, Customer \in locks, Stage(s, p :> r, Nothing, locks)
  PROVE  PointsInv'
<1> HIDE DEF Sessions
<1>1. PICK put, staged : put = p :> r /\ staged = Staged(put)
  OBVIOUS
<1>2. DOMAIN put = {p} /\ put[p] = r
  BY <1>1, OneRow
<1>3. db[p] = NoRow
  BY FreshIsNew DEF Rows
<1>4. PICK new : new = staged[p]
  OBVIOUS
<1>5. DOMAIN staged = {p} /\ DOMAIN new \subseteq DOMAIN r
      /\ (\A c \in DOMAIN r : (c \in DOMAIN NoRow /\ r[c] = NoRow[c]) \/ c \in DOMAIN new)
      /\ \A c \in DOMAIN new : new[c] = r[c]
  <2>1. p \in DOMAIN put
    BY <1>2
  <2> QED
    BY <1>1, <1>2, <1>3, <1>4, <2>1, StagedColumns
<1>6. DOMAIN new = DOMAIN r /\ new.status = r.status /\ new.bill = r.bill /\ new.points = r.points
  BY <1>5, NoRowColumns DEF EntryFits, PointsRow
<1>7. EntryFits(new)
  BY <1>6 DEF EntryFits, PointsRow
<1>8. WritesPoints(staged, locks)
  BY <1>3, <1>4, <1>5, <1>7 DEF WritesPoints, Rows
<1> QED
  BY <1>1, <1>8, StageKeepsPoints

LEMMA EarnLoyaltyPointsKeeps ==
  ASSUME PointsInv, NEW s \in Sessions, NEW p \in Rows("POINTS"), Fresh(p), NEW bill \in Live("BILL"), EarnLoyaltyPoints(s, bill, p)
  PROVE  PointsInv'
<1> HIDE DEF Sessions
<1>1. PICK r : r = [status |-> "EARN", bill |-> bill, points |-> db[bill].total]
  OBVIOUS
<1>2. db[bill].total \in Nat
  BY DEF PointsInv, PointsComplete, EarnLoyaltyPoints
<1>3. EntryFits(r)
  BY <1>1, <1>2 DEF EntryFits, PointsRow, EarnLoyaltyPoints, Entries
<1>4. Stage(s, p :> r, Nothing, PointsLock \cup {bill}) /\ Customer \in PointsLock \cup {bill} /\ DOMAIN r = {"status", "bill", "points"}
  BY <1>1 DEF EarnLoyaltyPoints, PointsLock
<1> QED
  BY <1>3, <1>4, EntryKeeps

LEMMA RedeemLoyaltyPointsKeeps ==
  ASSUME PointsInv, NEW s \in Sessions, NEW p \in Rows("POINTS"), Fresh(p), NEW bill, NEW points \in Nat,
         RedeemLoyaltyPoints(s, bill, points, p)
  PROVE  PointsInv'
<1> HIDE DEF Sessions
<1>1. PICK r : r = [status |-> "REDEEM", bill |-> bill, points |-> points]
  OBVIOUS
<1>2. EntryFits(r)
  BY <1>1 DEF EntryFits, PointsRow, RedeemLoyaltyPoints, Entries
<1>3. Stage(s, p :> r, Nothing, PointsLock) /\ Customer \in PointsLock /\ DOMAIN r = {"status", "bill", "points"}
  BY <1>1 DEF RedeemLoyaltyPoints, PointsLock
<1> QED
  BY <1>2, <1>3, EntryKeeps

\* Rows of groups alone.
LEMMA TreeKeepsPoints ==
  ASSUME PointsInv, NEW s \in Sessions, NEW tree, NEW gone, \A g \in DOMAIN tree \cup gone : g[1] = "GROUP", StageTree(s, tree, gone)
  PROVE  PointsInv'
<1> HIDE DEF Sessions
<1>1. PICK first, rest, put : first = Rebuilt(tree) /\ rest = [g \in gone |-> [status |-> "DELETED"]] /\ put = first @@ rest
  OBVIOUS
<1>2. DOMAIN first = DOMAIN tree /\ DOMAIN rest = gone
  BY <1>1 DEF Rebuilt
<1>3. DOMAIN put = DOMAIN tree \cup gone
  BY <1>1, <1>2 DEF @@
<1>4. Stage(s, put, Nothing, {})
  BY <1>1 DEF StageTree
<1> QED
  BY <1>3, <1>4, QuietKeepsPoints

LEMMA GroupsKeepPoints ==
  ASSUME PointsInv, NEW s \in Sessions,
         \/ \E g \in Rows("GROUP"), parent \in Groups \cup {NoRef}, folder \in BOOLEAN : CreateGroup(s, g, parent, folder)
         \/ \E g \in Groups :
              \/ \E parent \in Groups \cup {NoRef} : MoveGroup(s, g, parent)
              \/ \E folder \in BOOLEAN : SetFolder(s, g, folder)
              \/ DeleteGroup(s, g)
         \/ Rows("GROUP") # {} /\ SeedDefaults(s)
  PROVE  PointsInv'
<1> HIDE DEF Sessions
<1>1. DOMAIN Tree = Groups /\ \A g \in Groups : g[1] = "GROUP"
  BY DEF Tree, Groups, Live, Rows
<1>2. ASSUME NEW g \in Rows("GROUP"), NEW parent, NEW folder, CreateGroup(s, g, parent, folder) PROVE PointsInv'
  <2>1. PICK one, tree : one = g :> NewGroup(parent, folder) /\ tree = Tree @@ one
    OBVIOUS
  <2>2. DOMAIN one = {g}
    BY <2>1, OneRow
  <2>3. DOMAIN tree = Groups \cup {g} /\ g[1] = "GROUP"
    BY <1>1, <2>1, <2>2 DEF @@, Rows
  <2>4. StageTree(s, tree, {})
    BY <1>2, <2>1 DEF CreateGroup
  <2> QED
    BY <1>1, <2>3, <2>4, TreeKeepsPoints
<1>3. ASSUME NEW g \in Groups, NEW parent, MoveGroup(s, g, parent) PROVE PointsInv'
  <2>1. PICK tree : tree = [Tree EXCEPT ![g].parent = parent]
    OBVIOUS
  <2>2. StageTree(s, tree, {}) /\ DOMAIN tree = Groups
    BY <1>1, <1>3, <2>1 DEF MoveGroup
  <2> QED
    BY <1>1, <2>2, TreeKeepsPoints
<1>4. ASSUME NEW g \in Groups, NEW folder, SetFolder(s, g, folder) PROVE PointsInv'
  <2>1. PICK tree : tree = [Tree EXCEPT ![g].folder = folder]
    OBVIOUS
  <2>2. StageTree(s, tree, {}) /\ DOMAIN tree = Groups
    BY <1>1, <1>4, <2>1 DEF SetFolder
  <2> QED
    BY <1>1, <2>2, TreeKeepsPoints
<1>5. ASSUME NEW g \in Groups, DeleteGroup(s, g) PROVE PointsInv'
  <2>1. PICK tree : tree = Restrict(Tree, Groups \ {g})
    OBVIOUS
  <2>2. StageTree(s, tree, {g}) /\ DOMAIN tree = Groups \ {g}
    BY <1>5, <2>1 DEF DeleteGroup, Restrict
  <2> QED
    BY <1>1, <2>2, TreeKeepsPoints
<1>6. ASSUME SeedDefaults(s) PROVE PointsInv'
  <2>1. PICK root, missing : root = <<"GROUP", 1>> /\ missing = Rows("GROUP") \ Groups
    OBVIOUS
  <2>2. PICK more, tree : more = [g \in missing |-> NewGroup(IF g = root THEN NoRef ELSE root, g = root)] /\ tree = Tree @@ more
    OBVIOUS
  <2>3. DOMAIN more = missing /\ \A g \in missing : g[1] = "GROUP"
    BY <2>1, <2>2 DEF Rows
  <2>4. DOMAIN tree = Groups \cup missing
    BY <1>1, <2>2, <2>3 DEF @@
  <2>5. StageTree(s, tree, {})
    BY <1>6, <2>1, <2>2 DEF SeedDefaults
  <2> QED
    BY <1>1, <2>3, <2>4, <2>5, TreeKeepsPoints
<1> QED
  BY <1>2, <1>3, <1>4, <1>5, <1>6

\* One row of another kind.
LEMMA OtherRowKeepsPoints ==
  ASSUME PointsInv, NEW s \in Sessions, NEW d, d[1] \notin {"POINTS", "BILL"}, NEW r, NEW add, Stage(s, d :> r, add, {})
  PROVE  PointsInv'
<1> HIDE DEF Sessions
<1>1. PICK put : put = d :> r
  OBVIOUS
<1>2. DOMAIN put = {d}
  BY <1>1, OneRow
<1> QED
  BY <1>1, <1>2, QuietKeepsPoints

LEMMA GeneratePaymentScheduleKeepsPoints ==
  ASSUME PointsInv, NEW s \in Sessions, NEW bill, NEW terms, GeneratePaymentSchedule(s, bill, terms)
  PROVE  PointsInv'
<1> HIDE DEF Sessions
<1>1. PICK portions : portions = db[terms].portions
  OBVIOUS
<1>2. PICK first, put :
        /\ first = [m \in {Milestone(i) : i \in DOMAIN portions} |->
                      [status |-> "UNPAID", bill |-> bill, amount |-> Rounded(db[bill].total * portions[m[2]], 100)]]
        /\ put = first @@ Replaced
  OBVIOUS
<1>3. Stage(s, put, Nothing, {})
  BY <1>1, <1>2 DEF GeneratePaymentSchedule
<1>4. DOMAIN first = {Milestone(i) : i \in DOMAIN portions} /\ DOMAIN Replaced = Live("MILESTONE")
  BY <1>2 DEF Replaced
<1>5. DOMAIN put = DOMAIN first \cup DOMAIN Replaced
  BY <1>2 DEF @@
<1>6. \A d \in DOMAIN put : d[1] = "MILESTONE"
  BY <1>4, <1>5 DEF Milestone, Live, Rows
<1> QED
  BY <1>3, <1>6, QuietKeepsPoints

LEMMA ImportKeepsPoints ==
  ASSUME PointsInv, NEW s \in Sessions, NEW codes \in SUBSET Rows("STOCKED"), NEW qty, ImportInventoryItems(s, codes, qty)
  PROVE  PointsInv'
<1> HIDE DEF Sessions
<1>1. PICK new : new = {item \in codes : db[item] = NoRow}
  OBVIOUS
<1>2. PICK put, add : put = [item \in new |-> NewItem(qty)] /\ add = [k \in {ItemLedger(item) : item \in new} |-> qty]
  OBVIOUS
<1>3. Stage(s, put, add, {})
  BY <1>1, <1>2 DEF ImportInventoryItems
<1>4. \A d \in DOMAIN put : d[1] = "STOCKED"
  BY <1>1, <1>2 DEF Rows
<1> QED
  BY <1>3, <1>4, QuietKeepsPoints

LEMMA MasterDataKeepsPoints ==
  ASSUME PointsInv, NEW s \in Sessions, MasterDataHandlers(s, Nat)
  PROVE  PointsInv'
<1> HIDE DEF Sessions
<1>1. CASE \/ \E g \in Rows("GROUP"), parent \in Groups \cup {NoRef}, folder \in BOOLEAN : CreateGroup(s, g, parent, folder)
           \/ \E g \in Groups :
                \/ \E parent \in Groups \cup {NoRef} : MoveGroup(s, g, parent)
                \/ \E folder \in BOOLEAN : SetFolder(s, g, folder)
                \/ DeleteGroup(s, g)
           \/ Rows("GROUP") # {} /\ SeedDefaults(s)
  BY <1>1, GroupsKeepPoints
<1>2. CASE \E member \in Rows("SPLIT"), share \in {4, 6, 10} :
             (Fresh(member) /\ AddToTeam(s, member, share)) \/ (db[member] # NoRow /\ ChangeShare(s, member, share))
  <2>1. PICK member \in Rows("SPLIT"), share \in {4, 6, 10} : AddToTeam(s, member, share) \/ ChangeShare(s, member, share)
    BY <1>2
  <2> QED
    BY <2>1, OtherRowKeepsPoints DEF AddToTeam, ChangeShare, Rows
<1>3. CASE \E entry \in Rows("POINTS"), bill \in Live("BILL") :
             /\ Fresh(entry)
             /\ \/ EarnLoyaltyPoints(s, bill, entry)
                \/ \E points \in Nat : RedeemLoyaltyPoints(s, bill, points, entry) \/ RedeemLoyaltyPoints(s, NoRef, points, entry)
  BY <1>3, EarnLoyaltyPointsKeeps, RedeemLoyaltyPointsKeeps
<1>4. CASE \E terms \in Rows("TERMS") :
             \/ \E portions \in {<<50, 50>>, <<30, 30, 40>>, <<50, 30>>} :
                  Fresh(terms) /\ CreatePaymentTermsTemplate(s, terms, portions)
             \/ \E bill \in Live("BILL") : db[terms] # NoRow /\ GeneratePaymentSchedule(s, bill, terms)
  <2>1. PICK terms \in Rows("TERMS") :
             \/ \E portions \in {<<50, 50>>, <<30, 30, 40>>, <<50, 30>>} : CreatePaymentTermsTemplate(s, terms, portions)
             \/ \E bill \in Live("BILL") : GeneratePaymentSchedule(s, bill, terms)
    BY <1>4
  <2>2. terms[1] = "TERMS"
    BY DEF Rows
  <2> QED
    BY <2>1, <2>2, OtherRowKeepsPoints, GeneratePaymentScheduleKeepsPoints DEF CreatePaymentTermsTemplate
<1>5. CASE \E item \in Rows("STOCKED") :
             \/ CreateInventoryItem(s, item, 1)
             \/ \E delta \in {-1, 1} : db[item] # NoRow /\ db[item].current + delta <= 3 /\ AdjustStock(s, item, delta)
  <2>1. PICK item \in Rows("STOCKED") : CreateInventoryItem(s, item, 1) \/ \E delta \in {-1, 1} : AdjustStock(s, item, delta)
    BY <1>5
  <2>2. item[1] = "STOCKED"
    BY DEF Rows
  <2> QED
    BY <2>1, <2>2, OtherRowKeepsPoints DEF CreateInventoryItem, AdjustStock
<1>6. CASE \E codes \in SUBSET Rows("STOCKED") : codes # {} /\ ImportInventoryItems(s, codes, 2)
  BY <1>6, ImportKeepsPoints
<1> QED
  BY <1>1, <1>2, <1>3, <1>4, <1>5, <1>6 DEF MasterDataHandlers

-----------------------------------------------------------------------------

(* However many redemptions and bills of a customer overlap, the balance   *)
(* of points is never overdrawn, and no bill earns or takes off points     *)
(* twice: the lock of the customer covers the balance that was read.       *)
THEOREM PointsNeverOverdrawn == PointsSpec => []PointsCovered
<1> HIDE DEF Sessions
<1>1. PointsComplete /\ PointsCovered /\ (\A s \in Sessions : Free(s)) => PointsInv
  BY DEF PointsInv, LocksApart, Free
<1>2. PointsInv /\ [\E s \in Sessions : EndOfRequest(s) \/ MasterDataHandlers(s, Nat)]_vars => PointsInv'
  <2> SUFFICES ASSUME PointsInv, [\E s \in Sessions : EndOfRequest(s) \/ MasterDataHandlers(s, Nat)]_vars
              PROVE  PointsInv'
    OBVIOUS
  <2>1. CASE \E s \in Sessions : EndOfRequest(s)
    BY <2>1, CommitKeepsPoints, RollbackKeepsPoints DEF EndOfRequest
  <2>2. CASE \E s \in Sessions : MasterDataHandlers(s, Nat)
    BY <2>2, MasterDataKeepsPoints
  <2>3. CASE UNCHANGED vars
    <3>1. db' = db /\ req' = req /\ Sessions' = Sessions
      BY <2>3 DEF vars, Sessions
    <3>2. /\ \A kind : Rows(kind)' = Rows(kind)
          /\ Live("POINTS")' = Live("POINTS") /\ PointBalance' = PointBalance
          /\ \A row : EntryFits(row)' = EntryFits(row)
      BY <3>1, SamePoints
    <3>3. \A p, l : WritesPoints(p, l)' = WritesPoints(p, l)
      BY <3>1, <3>2 DEF WritesPoints
    <3>4. PointsComplete' /\ PointsCovered' /\ LocksApart'
      BY <3>1, <3>2 DEF PointsInv, PointsComplete, PointsCovered, Live, PointsRow, Status, LocksApart
    <3>5. ASSUME NEW t \in Sessions, req[t] # Idle PROVE WritesPoints(req[t].put, req[t].locks)'
      <4>1. PICK p, l : p = req[t].put /\ l = req[t].locks /\ p = req'[t].put /\ l = req'[t].locks
        BY <3>1
      <4> QED
        BY <3>3, <3>5, <4>1 DEF PointsInv
    <3> QED
      BY <3>1, <3>4, <3>5 DEF PointsInv
  <2> QED
    BY <2>1, <2>2, <2>3
<1>3. PointsInv => PointsCovered
  BY DEF PointsInv
<1> QED
  BY <1>1, <1>2, <1>3, PTL DEF PointsSpec
-----------------------------------------------------------------------------
(* Payroll: the inductive invariant *)

\* The books as they are once a request that posts add has committed.
Posted(add) == [k \in DOMAIN sums |-> sums[k] + (IF k \in DOMAIN add THEN add[k] ELSE 0)]

SumIn(rows, set, column) == SumFunctionOnSet([r \in set |-> rows[r][column]], set)

\* The slips among any rows, the submitted ones, and the advances paid out.
SlipsIn(rows) == {p \in Rows("SLIP") : rows[p] # NoRow}
PaidSlipsIn(rows) == {p \in SlipsIn(rows) : rows[p].status = "SUBMITTED"}
LoansIn(rows) == {a \in Rows("ADV") : rows[a] # NoRow /\ rows[a].status # "PENDING"}

\* EachDayPaidOnce, said of any rows.
SlipsStand(rows) ==
  \A p \in SlipsIn(rows) :
    /\ PaySlip(rows[p])
    /\ \A q \in SlipsIn(rows) :
         p # q /\ rows[p].emp = rows[q].emp => ~(rows[p].from <= rows[q].to /\ rows[p].to >= rows[q].from)

AdditionStands(rows, x) ==
  /\ Addition(rows[x])
  /\ rows[x].slip # NoRef => rows[x].slip \in SlipsIn(rows)
  /\ (rows[x].slip = NoRef) = (rows[x].status = "PENDING")
  /\ (rows[x].status = "PAID") = (rows[x].slip # NoRef /\ rows[rows[x].slip].status = "SUBMITTED")

AdditionsStand(rows) == \A x \in Rows("EXTRA") : rows[x] # NoRow => AdditionStands(rows, x)

\* The rows that amounts are computed from.
PayRowsStand(rows) ==
  /\ \A a \in Rows("ADV") : rows[a] # NoRow => Loan(rows[a])
  /\ \A l \in Rows("LEAVE") : rows[l] # NoRow => Absence(rows[l])
  /\ \A e \in Rows("EMP") : rows[e] # NoRow => {"status", "base"} \subseteq DOMAIN rows[e] /\ rows[e].base \in Int
  /\ \A c \in Rows("CLAIM") : rows[c] # NoRow => {"status", "amount"} \subseteq DOMAIN rows[c] /\ rows[c].amount \in Int

\* PayrollPosted, of any rows and books.
PayBooksStand(rows, books) ==
  /\ DOMAIN books = DOMAIN sums /\ \A k \in DOMAIN sums : books[k] \in Int
  /\ books[Account("SALARY")] = SumIn(rows, PaidSlipsIn(rows), "gross")
  /\ books[Account("PAYABLE")] = -SumIn(rows, PaidSlipsIn(rows), "net")
  /\ books[Account("ADVANCE")] = SumIn(rows, LoansIn(rows), "amount") - SumIn(rows, PaidSlipsIn(rows), "emi")
  /\ SumFunctionOnSet(books, DOMAIN sums) = 0

PayrollStands(rows, books) ==
  SlipsStand(rows) /\ AdditionsStand(rows) /\ PayRowsStand(rows) /\ PayBooksStand(rows, books)

\* What a request has staged leads to such rows and books again.
KeepsPayroll(put, add) == DOMAIN put \subseteq DOMAIN db /\ PayrollStands(Result(put), Posted(add))

PayAccounts == {Account(a) : a \in {"SALARY", "PAYABLE", "TAX", "ADVANCE", "BANK", "EXPENSE"}}

PayTables ==
  /\ \A kind \in {"SLIP", "EXTRA", "ADV", "LEAVE", "ATT"} : IsFiniteSet(Rows(kind))
  /\ (\A a \in Rows("ADV") : a[2] \in Nat) /\ \A a \in Rows("ATT") : a = <<"ATT", a[2]>>
  /\ IsFiniteSet(DOMAIN sums) /\ PayAccounts \subseteq DOMAIN sums

PayrollInv ==
  /\ OneSession /\ PayTables
  /\ PayrollStands(db, sums)
  /\ \A s \in Sessions : req[s] # Idle => KeepsPayroll(req[s].put, req[s].add)

LEMMA SamePayroll ==
  ASSUME DOMAIN db' = DOMAIN db, DOMAIN sums' = DOMAIN sums
  PROVE  /\ \A rows, books : PayrollStands(rows, books)' = PayrollStands(rows, books)
         /\ PayTables' = PayTables
<1>1. \A kind : Rows(kind)' = Rows(kind)
  BY DEF Rows
<1>2. \A rows : SlipsIn(rows)' = SlipsIn(rows) /\ LoansIn(rows)' = LoansIn(rows)
  BY <1>1 DEF SlipsIn, LoansIn
<1>3. \A rows : PaidSlipsIn(rows)' = PaidSlipsIn(rows)
  BY <1>2 DEF PaidSlipsIn
<1>4. \A rows : SlipsStand(rows)' = SlipsStand(rows)
  BY <1>2 DEF SlipsStand, PaySlip
<1>5. \A rows : AdditionsStand(rows)' = AdditionsStand(rows)
  BY <1>1, <1>2 DEF AdditionsStand, AdditionStands, Addition
<1>6. \A rows : PayRowsStand(rows)' = PayRowsStand(rows)
  BY <1>1 DEF PayRowsStand, Loan, Absence
<1>7. \A rows, books : PayBooksStand(rows, books)' = PayBooksStand(rows, books)
  BY <1>2, <1>3 DEF PayBooksStand, Account, SumIn
<1>8. PayTables' = PayTables
  BY <1>1 DEF PayTables, PayAccounts, Account
<1> QED
  BY <1>4, <1>5, <1>6, <1>7, <1>8 DEF PayrollStands

LEMMA StageKeepsPayroll ==
  ASSUME PayrollInv, NEW s \in Sessions, NEW put, NEW add, Stage(s, put, add, {}), KeepsPayroll(put, add)
  PROVE  PayrollInv'
<1>1. Sessions' = Sessions
  BY StageIsOne
<1>2. req'[s].add = add /\ sums' = sums
  BY DEF Stage, Request, Sessions
<1> HIDE DEF Sessions
<1>3. db' = db /\ req'[s].put = Staged(put) /\ \A t \in Sessions : t = s
  BY StageIsOne DEF PayrollInv, OneSession
<1>4. PICK staged : staged = Staged(put)
  OBVIOUS
<1>5. Result(staged) = Result(put)
  BY <1>4, StagedAfter DEF Result
<1>6. DOMAIN staged = DOMAIN put /\ DOMAIN put \subseteq DOMAIN db
  BY <1>4 DEF Staged, KeepsPayroll
<1>7. PICK rows, books : rows = Result(staged) /\ books = Posted(add) /\ rows = Result(staged)' /\ books = Posted(add)'
  BY <1>2, <1>3 DEF Result, After, Posted
<1>8. PayrollStands(rows, books) /\ PayrollStands(db, sums)
  BY <1>5, <1>7 DEF KeepsPayroll, PayrollInv
<1>9. PayrollStands(rows, books)' /\ PayrollStands(db, sums)'
  BY <1>2, <1>3, <1>8, SamePayroll
<1>10. KeepsPayroll(staged, add)'
  BY <1>3, <1>6, <1>7, <1>9 DEF KeepsPayroll
<1>11. \A t \in Sessions' : KeepsPayroll(req[t].put, req[t].add)'
  <2> SUFFICES ASSUME NEW t \in Sessions' PROVE KeepsPayroll(req[t].put, req[t].add)'
    OBVIOUS
  <2>1. req'[t].put = staged /\ req'[t].add = add
    BY <1>1, <1>2, <1>3, <1>4
  <2> QED
    BY <1>10, <2>1
<1>12. PayTables'
  BY <1>2, <1>3, SamePayroll DEF PayrollInv
<1> QED
  BY <1>1, <1>3, <1>9, <1>11, <1>12 DEF PayrollInv, OneSession

LEMMA CommitKeepsPayroll ==
  ASSUME PayrollInv, NEW s \in Sessions, Commit(s)
  PROVE  PayrollInv'
<1>1. Sessions' = Sessions /\ req'[s] = Idle /\ DOMAIN db' = DOMAIN db /\ req[s] # Idle
  BY CommitIsOne
<1> HIDE DEF Sessions
<1>2. PICK put, add : put = req[s].put /\ add = req[s].add
  OBVIOUS
<1>3. KeepsPayroll(put, add)
  BY <1>1, <1>2 DEF PayrollInv
<1>4. db' = Result(put) /\ sums' = Posted(add) /\ DOMAIN sums' = DOMAIN sums
  BY <1>2 DEF Commit, CommitAnd, Result, After, Posted
<1>5. PICK rows, books : rows = Result(put) /\ books = Posted(add) /\ rows = db' /\ books = sums'
  BY <1>4
<1>6. PayrollStands(rows, books)'
  BY <1>1, <1>3, <1>4, <1>5, SamePayroll DEF KeepsPayroll
<1>7. \A t \in Sessions' : req'[t] = Idle
  BY <1>1 DEF PayrollInv, OneSession
<1>8. OneSession' /\ PayTables'
  BY <1>1, <1>4, SamePayroll DEF PayrollInv, OneSession
<1> QED
  BY <1>5, <1>6, <1>7, <1>8 DEF PayrollInv

LEMMA RollbackKeepsPayroll ==
  ASSUME PayrollInv, NEW s \in Sessions, Rollback(s)
  PROVE  PayrollInv'
<1>1. Sessions' = Sessions /\ req'[s] = Idle /\ db' = db /\ sums' = sums
  BY DEF Rollback, Sessions
<1> HIDE DEF Sessions
<1>2. \A t \in Sessions' : req'[t] = Idle
  BY <1>1 DEF PayrollInv, OneSession
<1>3. PayrollStands(db, sums)' /\ PayTables'
  BY <1>1, SamePayroll DEF PayrollInv
<1> QED
  BY <1>1, <1>2, <1>3 DEF PayrollInv, OneSession

LEMMA IdlePayroll ==
  ASSUME PayrollInv, UNCHANGED vars
  PROVE  PayrollInv'
<1>1. db' = db /\ sums' = sums /\ req' = req /\ Sessions' = Sessions
  BY DEF vars, Sessions
<1> HIDE DEF Sessions
<1>2. PayrollStands(db, sums)' /\ PayTables'
  BY <1>1, SamePayroll DEF PayrollInv
<1>3. ASSUME NEW s \in Sessions, req[s] # Idle
      PROVE  KeepsPayroll(req[s].put, req[s].add)'
  <2>1. PICK put, add : put = req[s].put /\ add = req[s].add /\ put = req'[s].put /\ add = req'[s].add
    BY <1>1
  <2>2. KeepsPayroll(put, add)
    BY <1>3, <2>1 DEF PayrollInv
  <2>3. PICK rows, books : rows = Result(put) /\ books = Posted(add) /\ rows = Result(put)' /\ books = Posted(add)'
    BY <1>1 DEF Result, After, Posted
  <2>4. PayrollStands(rows, books)'
    BY <1>1, <2>2, <2>3, SamePayroll DEF KeepsPayroll
  <2>5. KeepsPayroll(put, add)'
    BY <1>1, <2>2, <2>3, <2>4 DEF KeepsPayroll
  <2> QED
    BY <2>1, <2>5
<1>4. \A s \in Sessions' : req'[s] # Idle => KeepsPayroll(req[s].put, req[s].add)'
  BY <1>1, <1>3
<1>5. OneSession'
  BY <1>1 DEF PayrollInv, OneSession
<1> QED
  BY <1>2, <1>4, <1>5 DEF PayrollInv

-----------------------------------------------------------------------------
(* Payroll: sums and books *)

LEMMA SumUnion ==
  ASSUME NEW f, NEW S, NEW U, S \cap U = {}, Summable(f, S), Summable(f, U)
  PROVE  SumFunctionOnSet(f, S \cup U) = SumFunctionOnSet(f, S) + SumFunctionOnSet(f, U)
<1>1. PICK g, h : g = [x \in S \cup U |-> IF x \in S THEN f[x] ELSE 0] /\ h = [x \in S \cup U |-> IF x \in U THEN f[x] ELSE 0]
  OBVIOUS
<1>2. \A x \in S \cup U : f[x] \in Int /\ g[x] \in Int /\ h[x] \in Int /\ f[x] = g[x] + h[x]
  BY <1>1 DEF Summable
<1>3. IsFiniteSet(S \cup U)
  BY FS_Union DEF Summable
<1>4. Summable(g, S \cup U) /\ Summable(h, S \cup U)
  BY <1>2, <1>3 DEF Summable
<1>5. SumFunctionOnSet(f, S \cup U) = SumFunctionOnSet(g, S \cup U) + SumFunctionOnSet(h, S \cup U)
  BY <1>2, <1>4, SumPlus
<1>6. SumFunctionOnSet(g, S \cup U) = SumFunctionOnSet(g, S)
  BY <1>1, <1>4, SumWithin
<1>7. SumFunctionOnSet(h, S \cup U) = SumFunctionOnSet(h, U)
  BY <1>1, <1>4, SumWithin
<1>8. SumFunctionOnSet(g, S) = SumFunctionOnSet(f, S) /\ SumFunctionOnSet(h, U) = SumFunctionOnSet(f, U)
  BY <1>1, SumEqual DEF Summable
<1> QED
  BY <1>5, <1>6, <1>7, <1>8

LEMMA SumInUnion ==
  ASSUME NEW rows, NEW S, NEW U, NEW c, S \cap U = {}, IsFiniteSet(S), IsFiniteSet(U), \A r \in S \cup U : rows[r][c] \in Int
  PROVE  SumIn(rows, S \cup U, c) = SumIn(rows, S, c) + SumIn(rows, U, c)
<1>1. PICK f : f = [r \in S \cup U |-> rows[r][c]]
  OBVIOUS
<1>2. Summable(f, S) /\ Summable(f, U) /\ IsFiniteSet(S \cup U)
  BY <1>1, FS_Union DEF Summable
<1>3. SumFunctionOnSet(f, S \cup U) = SumFunctionOnSet(f, S) + SumFunctionOnSet(f, U)
  BY <1>2, SumUnion
<1>4. PICK g, h : g = [r \in S |-> rows[r][c]] /\ h = [r \in U |-> rows[r][c]]
  OBVIOUS
<1>5. SumFunctionOnSet(f, S) = SumFunctionOnSet(g, S)
  BY <1>1, <1>2, <1>4, SumEqual DEF Summable
<1>6. SumFunctionOnSet(f, U) = SumFunctionOnSet(h, U)
  BY <1>1, <1>2, <1>4, SumEqual DEF Summable
<1> QED
  BY <1>1, <1>3, <1>4, <1>5, <1>6 DEF SumIn

LEMMA SumInInt ==
  ASSUME NEW rows, NEW S, NEW c, IsFiniteSet(S), \A r \in S : rows[r][c] \in Int
  PROVE  SumIn(rows, S, c) \in Int
<1>1. PICK f : f = [r \in S |-> rows[r][c]]
  OBVIOUS
<1>2. Summable(f, S)
  BY <1>1 DEF Summable
<1> QED
  BY <1>1, <1>2, SumInt DEF SumIn

LEMMA SumUnchanged ==
  ASSUME NEW rows, NEW set, NEW c, \A r \in set : rows[r][c] = db[r][c]
  PROVE  SumIn(rows, set, c) = SumIn(db, set, c)
<1>1. [r \in set |-> rows[r][c]] = [r \in set |-> db[r][c]]
  OBVIOUS
<1> QED
  BY <1>1 DEF SumIn

\* Postings that cancel out keep the total of the books.
LEMMA PostedTotal ==
  ASSUME PayrollInv, NEW add, DOMAIN add \subseteq DOMAIN sums, \A k \in DOMAIN add : add[k] \in Int,
         SumFunctionOnSet(add, DOMAIN add) = 0
  PROVE  /\ DOMAIN Posted(add) = DOMAIN sums /\ \A k \in DOMAIN sums : Posted(add)[k] \in Int /\ sums[k] \in Int
         /\ SumFunctionOnSet(Posted(add), DOMAIN sums) = 0
<1>1. PICK more : more = [k \in DOMAIN sums |-> IF k \in DOMAIN add THEN add[k] ELSE 0]
  OBVIOUS
<1>2. IsFiniteSet(DOMAIN sums) /\ (\A k \in DOMAIN sums : sums[k] \in Int) /\ SumFunctionOnSet(sums, DOMAIN sums) = 0
  BY DEF PayrollInv, PayTables, PayrollStands, PayBooksStand
<1>3. PICK books : books = Posted(add)
  OBVIOUS
<1>4. DOMAIN books = DOMAIN sums /\ \A k \in DOMAIN sums : books[k] = sums[k] + more[k] /\ more[k] \in Int
  BY <1>1, <1>3 DEF Posted
<1>5. Summable(sums, DOMAIN sums) /\ Summable(more, DOMAIN sums)
  BY <1>2, <1>4 DEF Summable
<1>6. SumFunctionOnSet(books, DOMAIN sums) = SumFunctionOnSet(sums, DOMAIN sums) + SumFunctionOnSet(more, DOMAIN sums)
  BY <1>4, <1>5, SumPlus
<1>7. SumFunctionOnSet(more, DOMAIN sums) = SumFunctionOnSet(more, DOMAIN add)
  BY <1>1, <1>5, SumWithin
<1>8. IsFiniteSet(DOMAIN add) /\ \A k \in DOMAIN add : more[k] = add[k]
  BY <1>1, <1>2, FS_Subset
<1>9. SumFunctionOnSet(more, DOMAIN add) = SumFunctionOnSet(add, DOMAIN add)
  BY <1>8, SumEqual
<1> QED
  BY <1>2, <1>3, <1>4, <1>6, <1>7, <1>9

LEMMA TwoAreFinite == ASSUME NEW k, NEW m PROVE IsFiniteSet({k, m})
<1>1. IsFiniteSet({k}) /\ IsFiniteSet({m})
  BY FS_Singleton
<1>2. {k, m} = {k} \cup {m}
  OBVIOUS
<1> QED
  BY <1>1, <1>2, FS_Union

LEMMA SumTwo ==
  ASSUME NEW f, NEW k, NEW m, k # m, f[k] \in Int, f[m] \in Int
  PROVE  SumFunctionOnSet(f, {k, m}) = f[k] + f[m]
<1>1. Summable(f, {k, m}) /\ {k, m} \ {k} = {m}
  BY TwoAreFinite DEF Summable
<1>2. SumFunctionOnSet(f, {k, m}) = f[k] + SumFunctionOnSet(f, {k, m} \ {k})
  BY <1>1, SumTakeOut
<1> QED
  BY <1>1, <1>2, SumOne

LEMMA SumFour ==
  ASSUME NEW f, NEW k, NEW l, NEW m, NEW n, k # l, m # n, {k, l} \cap {m, n} = {},
         f[k] \in Int, f[l] \in Int, f[m] \in Int, f[n] \in Int
  PROVE  SumFunctionOnSet(f, {k, l, m, n}) = (f[k] + f[l]) + (f[m] + f[n])
<1>1. PICK S, U : S = {k, l} /\ U = {m, n}
  OBVIOUS
<1>2. SumFunctionOnSet(f, S) = f[k] + f[l]
  BY <1>1, SumTwo
<1>3. SumFunctionOnSet(f, U) = f[m] + f[n]
  BY <1>1, SumTwo
<1>4. Summable(f, S) /\ Summable(f, U) /\ S \cap U = {}
  BY <1>1, TwoAreFinite DEF Summable
<1>5. SumFunctionOnSet(f, S \cup U) = SumFunctionOnSet(f, S) + SumFunctionOnSet(f, U)
  BY <1>4, SumUnion
<1>6. S \cup U = {k, l, m, n}
  BY <1>1
<1> QED
  BY <1>2, <1>3, <1>5, <1>6

LEMMA PayFacts ==
  ASSUME PayrollInv
  PROVE  /\ IsFiniteSet(SlipsIn(db)) /\ IsFiniteSet(PaidSlipsIn(db)) /\ IsFiniteSet(LoansIn(db))
         /\ \A p \in SlipsIn(db) : PaySlip(db[p])
         /\ \A a \in Live("ADV") : Loan(db[a])
         /\ PayAccounts \subseteq DOMAIN sums /\ \A k \in DOMAIN sums : sums[k] \in Int
  BY FS_Subset DEF PayrollInv, PayTables, PayrollStands, SlipsStand, PayRowsStand, PayBooksStand, SlipsIn, PaidSlipsIn, LoansIn, Live

\* Slips P are submitted and advances L paid out.
LEMMA PayBooksAfter ==
  ASSUME PayrollInv, NEW rows, NEW books, NEW P \in SUBSET (SlipsIn(db) \ PaidSlipsIn(db)), NEW L \in SUBSET Live("ADV"),
         L \cap LoansIn(db) = {},
         PaidSlipsIn(rows) = PaidSlipsIn(db) \cup P, LoansIn(rows) = LoansIn(db) \cup L,
         \A p \in PaidSlipsIn(rows) : \A c \in {"gross", "net", "emi"} : rows[p][c] = db[p][c],
         \A a \in LoansIn(rows) : rows[a]["amount"] = db[a]["amount"],
         DOMAIN books = DOMAIN sums, \A k \in DOMAIN sums : books[k] \in Int,
         SumFunctionOnSet(books, DOMAIN sums) = 0,
         books[Account("SALARY")] = sums[Account("SALARY")] + SumIn(db, P, "gross"),
         books[Account("PAYABLE")] = sums[Account("PAYABLE")] - SumIn(db, P, "net"),
         books[Account("ADVANCE")] = sums[Account("ADVANCE")] + SumIn(db, L, "amount") - SumIn(db, P, "emi")
  PROVE  PayBooksStand(rows, books)
<1>1. IsFiniteSet(PaidSlipsIn(db)) /\ IsFiniteSet(P) /\ P \cap PaidSlipsIn(db) = {} /\ P \subseteq SlipsIn(db)
  BY PayFacts, FS_Subset
<1>2. IsFiniteSet(LoansIn(db)) /\ IsFiniteSet(L) /\ LoansIn(db) \cup L \subseteq Live("ADV")
  <2>1. L \subseteq Rows("ADV") /\ LoansIn(db) \subseteq Live("ADV")
    BY DEF Live, LoansIn
  <2>2. IsFiniteSet(Rows("ADV"))
    BY DEF PayrollInv, PayTables
  <2> QED
    BY <2>1, <2>2, PayFacts, FS_Subset
<1>3. \A p \in SlipsIn(db) : \A c \in {"gross", "net", "emi"} : db[p][c] \in Int
  <2>1. ASSUME NEW p \in SlipsIn(db) PROVE \A c \in {"gross", "net", "emi"} : db[p][c] \in Int
    <3>1. PaySlip(db[p])
      BY PayFacts
    <3>2. db[p].gross \in Int /\ db[p].net \in Int /\ db[p].emi \in Int
      BY <3>1 DEF PaySlip
    <3> QED
      BY <3>2
  <2> QED
    BY <2>1
<1>4. ASSUME NEW c \in {"gross", "net", "emi"}
      PROVE  /\ SumIn(rows, PaidSlipsIn(rows), c) = SumIn(db, PaidSlipsIn(db), c) + SumIn(db, P, c)
             /\ SumIn(db, PaidSlipsIn(db), c) \in Int /\ SumIn(db, P, c) \in Int
  <2>1. PICK old, all : old = PaidSlipsIn(db) /\ all = PaidSlipsIn(rows)
    OBVIOUS
  <2>2. all = old \cup P /\ old \subseteq SlipsIn(db)
    BY <2>1 DEF PaidSlipsIn
  <2>3. SumIn(rows, all, c) = SumIn(db, all, c)
    BY <2>1, SumUnchanged
  <2>4. \A r \in old \cup P : db[r][c] \in Int
    BY <1>1, <1>3, <2>2
  <2>5. SumIn(db, old \cup P, c) = SumIn(db, old, c) + SumIn(db, P, c)
    BY <1>1, <2>1, <2>4, SumInUnion
  <2>6. SumIn(db, old, c) \in Int /\ SumIn(db, P, c) \in Int
    BY <1>1, <2>1, <2>4, SumInInt
  <2> QED
    BY <2>1, <2>2, <2>3, <2>5, <2>6
<1>5. /\ SumIn(rows, LoansIn(rows), "amount") = SumIn(db, LoansIn(db), "amount") + SumIn(db, L, "amount")
      /\ SumIn(db, LoansIn(db), "amount") \in Int /\ SumIn(db, L, "amount") \in Int
  <2>1. PICK old, all : old = LoansIn(db) /\ all = LoansIn(rows)
    OBVIOUS
  <2>2. SumIn(rows, all, "amount") = SumIn(db, all, "amount")
    BY <2>1, SumUnchanged
  <2>3. \A r \in old \cup L : db[r]["amount"] \in Int
    BY <1>2, <2>1, PayFacts DEF Loan
  <2>4. SumIn(db, old \cup L, "amount") = SumIn(db, old, "amount") + SumIn(db, L, "amount")
    BY <1>2, <2>1, <2>3, SumInUnion
  <2>5. SumIn(db, old, "amount") \in Int /\ SumIn(db, L, "amount") \in Int
    BY <1>2, <2>1, <2>3, SumInInt
  <2> QED
    BY <2>1, <2>2, <2>4, <2>5
<1>6. /\ sums[Account("SALARY")] = SumIn(db, PaidSlipsIn(db), "gross")
      /\ sums[Account("PAYABLE")] = -SumIn(db, PaidSlipsIn(db), "net")
      /\ sums[Account("ADVANCE")] = SumIn(db, LoansIn(db), "amount") - SumIn(db, PaidSlipsIn(db), "emi")
  BY DEF PayrollInv, PayrollStands, PayBooksStand
<1>7. books[Account("SALARY")] = SumIn(rows, PaidSlipsIn(rows), "gross")
  BY <1>4, <1>6
<1>8. books[Account("PAYABLE")] = -SumIn(rows, PaidSlipsIn(rows), "net")
  BY <1>4, <1>6
<1>9. books[Account("ADVANCE")] = SumIn(rows, LoansIn(rows), "amount") - SumIn(rows, PaidSlipsIn(rows), "emi")
  BY <1>4, <1>5, <1>6
<1> QED
  BY <1>7, <1>8, <1>9 DEF PayBooksStand

-----------------------------------------------------------------------------
(* Payroll: the handlers *)

LEMMA PayKinds ==
  /\ \A x \in Rows("EXTRA") : x \notin Rows("SLIP") /\ x \notin Rows("ADV")
  /\ \A p \in Rows("SLIP") : p \notin Rows("ADV") /\ p # NoRef
  /\ \A d \in DOMAIN db : \A kind : d \in Rows(kind) <=> d[1] = kind
  BY DEF Rows, NoRef

LEMMA AccountsDiffer ==
  \A a, b : Account(a) = Account(b) => a = b
  BY DEF Account

\* Nothing that is paid changes.
PlainPosting(add) ==
  /\ DOMAIN add \subseteq DOMAIN sums /\ \A k \in DOMAIN add : add[k] \in Int
  /\ SumFunctionOnSet(add, DOMAIN add) = 0
  /\ \A a \in {"SALARY", "PAYABLE", "ADVANCE"} : Account(a) \notin DOMAIN add

LEMMA SumInNone == ASSUME NEW rows, NEW c PROVE SumIn(rows, {}, c) = 0
  BY SumEmpty DEF SumIn

LEMMA NothingIsPlain == PlainPosting(Nothing)
<1>1. DOMAIN Nothing = {}
  BY NothingIsEmpty
<1>2. SumFunctionOnSet(Nothing, DOMAIN Nothing) = 0
  BY <1>1, SumEmpty
<1> QED
  BY <1>1, <1>2 DEF PlainPosting

LEMMA PlainBooks ==
  ASSUME PayrollInv, NEW rows, NEW add, PlainPosting(add),
         PaidSlipsIn(rows) = PaidSlipsIn(db), LoansIn(rows) = LoansIn(db),
         \A p \in PaidSlipsIn(db) : \A c \in {"gross", "net", "emi"} : rows[p][c] = db[p][c],
         \A a \in LoansIn(db) : rows[a]["amount"] = db[a]["amount"]
  PROVE  PayBooksStand(rows, Posted(add))
<1>1. PICK books : books = Posted(add)
  OBVIOUS
<1>2. /\ DOMAIN books = DOMAIN sums /\ \A k \in DOMAIN sums : books[k] \in Int /\ sums[k] \in Int
      /\ SumFunctionOnSet(books, DOMAIN sums) = 0
  BY <1>1, PostedTotal DEF PlainPosting
<1>3. \A a \in {"SALARY", "PAYABLE", "ADVANCE"} : Account(a) \in DOMAIN sums
  BY PayFacts DEF PayAccounts
<1>4. \A a \in {"SALARY", "PAYABLE", "ADVANCE"} : books[Account(a)] = sums[Account(a)]
  BY <1>1, <1>2, <1>3 DEF Posted, PlainPosting
<1>5. SumIn(db, {}, "gross") = 0 /\ SumIn(db, {}, "net") = 0 /\ SumIn(db, {}, "emi") = 0 /\ SumIn(db, {}, "amount") = 0
  BY SumInNone
<1>6. PICK P : P = {}
  OBVIOUS
<1>7. /\ books[Account("SALARY")] = sums[Account("SALARY")] + SumIn(db, P, "gross")
      /\ books[Account("PAYABLE")] = sums[Account("PAYABLE")] - SumIn(db, P, "net")
      /\ books[Account("ADVANCE")] = sums[Account("ADVANCE")] + SumIn(db, P, "amount") - SumIn(db, P, "emi")
  BY <1>2, <1>3, <1>4, <1>5, <1>6
<1>8. /\ P \in SUBSET (SlipsIn(db) \ PaidSlipsIn(db)) /\ P \in SUBSET Live("ADV") /\ P \cap LoansIn(db) = {}
      /\ PaidSlipsIn(rows) = PaidSlipsIn(db) \cup P /\ LoansIn(rows) = LoansIn(db) \cup P
  BY <1>6
<1>9. PayBooksStand(rows, books)
  BY <1>2, <1>7, <1>8, PayBooksAfter
<1> QED
  BY <1>1, <1>9

\* A row as a request may add or change it that pays nothing.
PlainRow(d, new) ==
  /\ d[1] \notin {"SLIP", "EMP"}
  /\ d[1] = "LEAVE" => Absence(new)
  /\ d[1] = "CLAIM" => {"status", "amount"} \subseteq DOMAIN new /\ new.amount \in Int
  /\ d[1] = "ADV" => db[d] = NoRow /\ Loan(new) /\ new.status = "PENDING"
  /\ d[1] = "EXTRA" => db[d] = NoRow /\ Addition(new) /\ new.status = "PENDING" /\ new.slip = NoRef

LEMMA PlainKeeps ==
  ASSUME PayrollInv, NEW s \in Sessions, NEW d \in DOMAIN db, NEW r, NEW add, PlainPosting(add),
         Stage(s, d :> r, add, {}), \A new : DOMAIN new = DOMAIN r \cup DOMAIN db[d] /\ (\A c \in DOMAIN r : new[c] = r[c])
                                              /\ (\A c \in DOMAIN db[d] \ DOMAIN r : new[c] = db[d][c]) => PlainRow(d, new)
  PROVE  PayrollInv'
<1> HIDE DEF Sessions
<1>1. PICK put : put = d :> r
  OBVIOUS
<1>2. DOMAIN put = {d} /\ put[d] = r
  BY <1>1, OneRow
<1>3. PICK rows : rows = Result(put)
  OBVIOUS
<1>4. \A e \in DOMAIN db : e # d => rows[e] = db[e]
  <2>1. \A e \in DOMAIN db : e # d => e \in DOMAIN db \ DOMAIN put
    BY <1>2
  <2> QED
    BY <1>3, <2>1, ResultElsewhere
<1>5. PICK new : new = rows[d]
  OBVIOUS
<1>6. PlainRow(d, new)
  <2>1. d \in DOMAIN db \cap DOMAIN put
    BY <1>2
  <2>2. /\ DOMAIN new = DOMAIN r \cup DOMAIN db[d] /\ (\A c \in DOMAIN r : new[c] = r[c])
        /\ (\A c \in DOMAIN db[d] \ DOMAIN r : new[c] = db[d][c])
    BY <1>2, <1>3, <1>5, <2>1, ResultColumns
  <2> QED
    BY <2>2
<1>7. \A p \in Rows("SLIP") : rows[p] = db[p]
  BY <1>4, <1>6, PayKinds DEF PlainRow, Rows
<1>8. \A a \in Rows("ADV") : rows[a] = db[a] \/ (db[a] = NoRow /\ Loan(rows[a]) /\ rows[a].status = "PENDING")
  BY <1>4, <1>5, <1>6 DEF PlainRow, Rows
<1>9. SlipsIn(rows) = SlipsIn(db) /\ PaidSlipsIn(rows) = PaidSlipsIn(db)
  BY <1>7 DEF SlipsIn, PaidSlipsIn
<1>10. LoansIn(rows) = LoansIn(db) /\ \A a \in LoansIn(db) : rows[a] = db[a]
  BY <1>8 DEF LoansIn
<1>11. PayBooksStand(rows, Posted(add))
  <2>1. \A p \in PaidSlipsIn(db) : rows[p] = db[p]
    BY <1>7 DEF PaidSlipsIn, SlipsIn
  <2> QED
    BY <1>9, <1>10, <2>1, PlainBooks
<1>12. SlipsStand(rows)
  <2>1. SlipsStand(db)
    BY DEF PayrollInv, PayrollStands
  <2>2. \A p \in SlipsIn(db) : rows[p] = db[p]
    BY <1>7 DEF SlipsIn
  <2> QED
    BY <1>9, <2>1, <2>2 DEF SlipsStand
<1>13. AdditionsStand(rows)
  <2> SUFFICES ASSUME NEW x \in Rows("EXTRA"), rows[x] # NoRow PROVE AdditionStands(rows, x)
    BY DEF AdditionsStand
  <2>1. CASE rows[x] = db[x]
    <3>1. AdditionStands(db, x)
      BY <2>1 DEF PayrollInv, PayrollStands, AdditionsStand
    <3>2. db[x].slip # NoRef => db[x].slip \in SlipsIn(db) /\ rows[db[x].slip] = db[db[x].slip]
      BY <1>7, <3>1 DEF AdditionStands, SlipsIn
    <3> QED
      BY <1>9, <2>1, <3>1, <3>2 DEF AdditionStands
  <2>2. CASE rows[x] # db[x]
    <3>1. x = d /\ x[1] = "EXTRA"
      BY <1>4, <2>2 DEF Rows
    <3>2. Addition(rows[x]) /\ rows[x].status = "PENDING" /\ rows[x].slip = NoRef
      BY <1>5, <1>6, <3>1 DEF PlainRow
    <3> QED
      BY <3>2 DEF AdditionStands
  <2> QED
    BY <2>1, <2>2
<1>14. PayRowsStand(rows)
  <2>1. PayRowsStand(db)
    BY DEF PayrollInv, PayrollStands
  <2>2. \A a \in Rows("ADV") : rows[a] # NoRow => Loan(rows[a])
    BY <1>8, <2>1 DEF PayRowsStand
  <2>3. \A l \in Rows("LEAVE") : rows[l] # NoRow => Absence(rows[l])
    BY <1>4, <1>5, <1>6, <2>1 DEF PayRowsStand, PlainRow, Rows
  <2>4. \A e \in Rows("EMP") : rows[e] = db[e]
    BY <1>4, <1>6 DEF PlainRow, Rows
  <2>5. \A c \in Rows("CLAIM") : rows[c] # NoRow => {"status", "amount"} \subseteq DOMAIN rows[c] /\ rows[c].amount \in Int
    BY <1>4, <1>5, <1>6, <2>1 DEF PayRowsStand, PlainRow, Rows
  <2> QED
    BY <2>1, <2>2, <2>3, <2>4, <2>5 DEF PayRowsStand
<1>15. KeepsPayroll(put, add)
  BY <1>2, <1>3, <1>11, <1>12, <1>13, <1>14 DEF KeepsPayroll, PayrollStands
<1> QED
  BY <1>1, <1>15, StageKeepsPayroll

LEMMA PlainHandlersKeep ==
  ASSUME PayrollInv, NEW s \in Sessions,
         \/ \E d \in Rows("ATT") \cup Rows("ALLOC") \cup Rows("PERIOD") : \E r : Stage(s, d :> r, Nothing, {})
         \/ \E l \in Rows("LEAVE"), status \in {"APPROVED", "REJECTED"} :
              db[l] # NoRow /\ Stage(s, l :> [status |-> status], Nothing, {})
         \/ \E l \in Rows("LEAVE"), from \in Int, to \in Int, lwp \in BOOLEAN :
              Fresh(l) /\ Stage(s, l :> [status |-> "SUBMITTED", from |-> from, to |-> to, lwp |-> lwp], Nothing, {})
         \/ \E adv \in Rows("ADV"), emp \in Live("EMP"), amount \in Nat, monthly \in Nat :
              Fresh(adv) /\ CreateEmployeeAdvance(s, adv, emp, amount, monthly)
         \/ \E x \in Rows("EXTRA"), emp \in Live("EMP"), day \in Int, amount \in Nat, bonus \in BOOLEAN :
              Fresh(x) /\ CreateAdditionalSalary(s, x, emp, day, amount, bonus)
  PROVE  PayrollInv'
<1> HIDE DEF Sessions
<1>1. CASE \E d \in Rows("ATT") \cup Rows("ALLOC") \cup Rows("PERIOD") : \E r : Stage(s, d :> r, Nothing, {})
  <2>1. PICK d \in Rows("ATT") \cup Rows("ALLOC") \cup Rows("PERIOD") : \E r : Stage(s, d :> r, Nothing, {})
    BY <1>1
  <2>3. PICK r : Stage(s, d :> r, Nothing, {})
    BY <2>1
  <2>2. d \in DOMAIN db /\ \A new : PlainRow(d, new)
    BY DEF Rows, PlainRow
  <2> QED
    BY <2>3, <2>2, NothingIsPlain, PlainKeeps
<1>2. CASE \E l \in Rows("LEAVE"), status \in {"APPROVED", "REJECTED"} :
              db[l] # NoRow /\ Stage(s, l :> [status |-> status], Nothing, {})
  <2>1. PICK l \in Rows("LEAVE"), status \in {"APPROVED", "REJECTED"} :
           db[l] # NoRow /\ Stage(s, l :> [status |-> status], Nothing, {})
    BY <1>2
  <2>2. PICK r : r = [status |-> status]
    OBVIOUS
  <2>3. Absence(db[l]) /\ l \in DOMAIN db /\ l[1] = "LEAVE"
    BY <2>1 DEF PayrollInv, PayrollStands, PayRowsStand, Rows
  <2>4. ASSUME NEW new, DOMAIN new = DOMAIN r \cup DOMAIN db[l], \A c \in DOMAIN r : new[c] = r[c],
               \A c \in DOMAIN db[l] \ DOMAIN r : new[c] = db[l][c]
        PROVE  PlainRow(l, new)
    BY <2>2, <2>3, <2>4 DEF PlainRow, Absence
  <2> QED
    BY <2>1, <2>2, <2>3, <2>4, NothingIsPlain, PlainKeeps
<1>3. CASE \E l \in Rows("LEAVE"), from \in Int, to \in Int, lwp \in BOOLEAN :
              Fresh(l) /\ Stage(s, l :> [status |-> "SUBMITTED", from |-> from, to |-> to, lwp |-> lwp], Nothing, {})
  <2>1. PICK l \in Rows("LEAVE"), from \in Int, to \in Int, lwp \in BOOLEAN :
           Stage(s, l :> [status |-> "SUBMITTED", from |-> from, to |-> to, lwp |-> lwp], Nothing, {})
    BY <1>3
  <2>2. PICK r : r = [status |-> "SUBMITTED", from |-> from, to |-> to, lwp |-> lwp]
    OBVIOUS
  <2>3. l \in DOMAIN db /\ l[1] = "LEAVE"
    BY DEF Rows
  <2>4. ASSUME NEW new, DOMAIN new = DOMAIN r \cup DOMAIN db[l], \A c \in DOMAIN r : new[c] = r[c]
        PROVE  PlainRow(l, new)
    BY <2>2, <2>3, <2>4 DEF PlainRow, Absence
  <2> QED
    BY <2>1, <2>2, <2>3, <2>4, NothingIsPlain, PlainKeeps
<1>4. CASE \E adv \in Rows("ADV"), emp \in Live("EMP"), amount \in Nat, monthly \in Nat :
              Fresh(adv) /\ CreateEmployeeAdvance(s, adv, emp, amount, monthly)
  <2>1. PICK adv \in Rows("ADV"), emp \in Live("EMP"), amount \in Nat, monthly \in Nat :
           Fresh(adv) /\ CreateEmployeeAdvance(s, adv, emp, amount, monthly)
    BY <1>4
  <2>2. PICK r : r = [status |-> "PENDING", emp |-> emp, amount |-> amount, monthly |-> monthly, repaid |-> 0]
    OBVIOUS
  <2>3. adv \in DOMAIN db /\ adv[1] = "ADV"
    BY DEF Rows
  <2>4. db[adv] = NoRow
    BY <2>1, <2>3, FreshIsNew
  <2>5. ASSUME NEW new, DOMAIN new = DOMAIN r \cup DOMAIN db[adv], \A c \in DOMAIN r : new[c] = r[c]
        PROVE  PlainRow(adv, new)
    BY <2>2, <2>3, <2>4, <2>5 DEF PlainRow, Loan
  <2>6. Stage(s, adv :> r, Nothing, {})
    BY <2>1, <2>2 DEF CreateEmployeeAdvance
  <2> QED
    BY <2>3, <2>5, <2>6, NothingIsPlain, PlainKeeps
<1>5. CASE \E x \in Rows("EXTRA"), emp \in Live("EMP"), day \in Int, amount \in Nat, bonus \in BOOLEAN :
              Fresh(x) /\ CreateAdditionalSalary(s, x, emp, day, amount, bonus)
  <2>1. PICK x \in Rows("EXTRA"), emp \in Live("EMP"), day \in Int, amount \in Nat, bonus \in BOOLEAN :
              Fresh(x) /\ CreateAdditionalSalary(s, x, emp, day, amount, bonus)
    BY <1>5
  <2>2. PICK r : r = [status |-> "PENDING", emp |-> emp, day |-> day, amount |-> amount, bonus |-> bonus, slip |-> NoRef]
    OBVIOUS
  <2>3. x \in DOMAIN db /\ x[1] = "EXTRA"
    BY DEF Rows
  <2>4. db[x] = NoRow
    BY <2>1, <2>3, FreshIsNew
  <2>5. ASSUME NEW new, DOMAIN new = DOMAIN r \cup DOMAIN db[x], \A c \in DOMAIN r : new[c] = r[c]
        PROVE  PlainRow(x, new)
    BY <2>2, <2>3, <2>4, <2>5 DEF PlainRow, Addition
  <2>6. Stage(s, x :> r, Nothing, {})
    BY <2>1, <2>2 DEF CreateAdditionalSalary
  <2> QED
    BY <2>3, <2>5, <2>6, NothingIsPlain, PlainKeeps
<1> QED
  BY <1>1, <1>2, <1>3, <1>4, <1>5

LEMMA ReimburseExpenseClaimKeeps ==
  ASSUME PayrollInv, NEW s \in Sessions, NEW claim \in Live("CLAIM"), ReimburseExpenseClaim(s, claim)
  PROVE  PayrollInv'
<1> HIDE DEF Sessions
<1>1. PICK r : r = [status |-> "PAID"]
  OBVIOUS
<1>2. PICK old : old = db[claim]
  OBVIOUS
<1>3. claim \in DOMAIN db /\ claim[1] = "CLAIM" /\ {"status", "amount"} \subseteq DOMAIN old /\ old.amount \in Int
  BY <1>2 DEF PayrollInv, PayrollStands, PayRowsStand, Live, Rows
<1>4. ASSUME NEW new, DOMAIN new = DOMAIN r \cup DOMAIN old, \A c \in DOMAIN r : new[c] = r[c],
             \A c \in DOMAIN old \ DOMAIN r : new[c] = old[c]
      PROVE  PlainRow(claim, new)
  BY <1>1, <1>3, <1>4 DEF PlainRow
<1>5. PICK spent, paid, add :
        spent = Account("EXPENSE") :> old.amount /\ paid = Account("BANK") :> -old.amount /\ add = spent @@ paid
  OBVIOUS
<1>6. PICK k, m : k = Account("EXPENSE") /\ m = Account("BANK")
  OBVIOUS
<1>7. k # m /\ k \in DOMAIN sums /\ m \in DOMAIN sums
  BY <1>6, AccountsDiffer, PayFacts DEF PayAccounts
<1>8. DOMAIN add = {k, m} /\ add[k] = old.amount /\ add[m] = -old.amount
  <2>1. DOMAIN spent = {k} /\ spent[k] = old.amount /\ DOMAIN paid = {m} /\ paid[m] = -old.amount
    BY <1>5, <1>6, OneRow
  <2> QED
    BY <1>5, <1>7, <2>1 DEF @@
<1>9. PlainPosting(add)
  <2>1. SumFunctionOnSet(add, {k, m}) = add[k] + add[m]
    BY <1>3, <1>7, <1>8, SumTwo
  <2>2. \A a \in {"SALARY", "PAYABLE", "ADVANCE"} : Account(a) \notin {k, m}
    BY <1>6, AccountsDiffer
  <2> QED
    BY <1>3, <1>7, <1>8, <2>1, <2>2 DEF PlainPosting
<1>10. Stage(s, claim :> r, add, {})
  BY <1>1, <1>2, <1>5 DEF ReimburseExpenseClaim
<1> QED
  BY <1>2, <1>3, <1>4, <1>9, <1>10, PlainKeeps

LEMMA ApproveAndDisburseAdvanceKeeps ==
  ASSUME PayrollInv, NEW s \in Sessions, NEW adv \in Live("ADV"), ApproveAndDisburseAdvance(s, adv)
  PROVE  PayrollInv'
<1> HIDE DEF Sessions
<1>1. PICK r, put : r = [status |-> "PAID"] /\ put = adv :> r
  OBVIOUS
<1>2. PICK old : old = db[adv]
  OBVIOUS
<1>3. adv \in DOMAIN db /\ adv[1] = "ADV" /\ adv \in Rows("ADV") /\ Loan(old) /\ old.status = "PENDING" /\ old # NoRow
  BY <1>2, PayFacts DEF Live, Rows, ApproveAndDisburseAdvance, Status
<1>4. PICK lent, paid, add :
        lent = Account("ADVANCE") :> old.amount /\ paid = Account("BANK") :> -old.amount /\ add = lent @@ paid
  OBVIOUS
<1>5. PICK k, m : k = Account("ADVANCE") /\ m = Account("BANK")
  OBVIOUS
<1>6. k # m /\ k \in DOMAIN sums /\ m \in DOMAIN sums
  BY <1>5, AccountsDiffer, PayFacts DEF PayAccounts
<1>7. DOMAIN add = {k, m} /\ add[k] = old.amount /\ add[m] = -old.amount
  <2>1. DOMAIN lent = {k} /\ lent[k] = old.amount /\ DOMAIN paid = {m} /\ paid[m] = -old.amount
    BY <1>4, <1>5, OneRow
  <2> QED
    BY <1>4, <1>6, <2>1 DEF @@
<1>8. Stage(s, put, add, {})
  BY <1>1, <1>2, <1>4 DEF ApproveAndDisburseAdvance
<1>9. DOMAIN put = {adv} /\ put[adv] = r
  BY <1>1, OneRow
<1>10. PICK rows, books : rows = Result(put) /\ books = Posted(add)
  OBVIOUS
<1>11. \A e \in DOMAIN db : e # adv => rows[e] = db[e]
  <2>1. \A e \in DOMAIN db : e # adv => e \in DOMAIN db \ DOMAIN put
    BY <1>9
  <2> QED
    BY <1>10, <2>1, ResultElsewhere
<1>12. PICK new : new = rows[adv]
  OBVIOUS
<1>13. DOMAIN new = DOMAIN r \cup DOMAIN old /\ (\A c \in DOMAIN r : new[c] = r[c]) /\ \A c \in DOMAIN old \ DOMAIN r : new[c] = old[c]
  <2>1. adv \in DOMAIN db \cap DOMAIN put
    BY <1>3, <1>9
  <2> QED
    BY <1>2, <1>9, <1>10, <1>12, <2>1, ResultColumns
<1>14. Loan(new) /\ new.status = "PAID" /\ new.amount = old.amount /\ new # NoRow
  BY <1>1, <1>3, <1>13, NoRowColumns DEF Loan
<1>15. \A d \in DOMAIN db : d[1] \in {"SLIP", "EXTRA", "LEAVE", "EMP", "CLAIM"} => rows[d] = db[d]
  BY <1>3, <1>11
<1>16. SlipsIn(rows) = SlipsIn(db) /\ PaidSlipsIn(rows) = PaidSlipsIn(db)
  BY <1>15 DEF SlipsIn, PaidSlipsIn, Rows
<1>17. PICK L : L = {adv}
  OBVIOUS
<1>18. LoansIn(rows) = LoansIn(db) \cup L /\ L \cap LoansIn(db) = {} /\ L \in SUBSET Live("ADV")
  BY <1>2, <1>3, <1>11, <1>12, <1>14, <1>17 DEF LoansIn, Rows
<1>19. PayBooksStand(rows, books)
  <2>1. /\ DOMAIN books = DOMAIN sums /\ \A x \in DOMAIN sums : books[x] \in Int /\ sums[x] \in Int
        /\ SumFunctionOnSet(books, DOMAIN sums) = 0
    <3>1. SumFunctionOnSet(add, {k, m}) = add[k] + add[m]
      BY <1>3, <1>6, <1>7, SumTwo DEF Loan
    <3>2. SumFunctionOnSet(add, DOMAIN add) = 0 /\ \A x \in DOMAIN add : add[x] \in Int
      BY <1>3, <1>7, <3>1 DEF Loan
    <3> QED
      BY <1>6, <1>7, <1>10, <3>2, PostedTotal
  <2>2. PICK P : P = {}
    OBVIOUS
  <2>3. SumIn(db, P, "gross") = 0 /\ SumIn(db, P, "net") = 0 /\ SumIn(db, P, "emi") = 0
    BY <2>2, SumInNone
  <2>4. SumIn(db, L, "amount") = old.amount
    <3>1. PICK f : f = [a \in L |-> db[a]["amount"]]
      OBVIOUS
    <3>2. f[adv] = old.amount /\ f[adv] \in Int
      BY <1>2, <1>3, <1>17, <3>1 DEF Loan
    <3>3. SumFunctionOnSet(f, {adv}) = f[adv]
      BY <3>2, SumOne
    <3> QED
      BY <1>17, <3>1, <3>2, <3>3 DEF SumIn
  <2>5. Account("SALARY") \notin DOMAIN add /\ Account("PAYABLE") \notin DOMAIN add
    BY <1>5, <1>7, AccountsDiffer
  <2>6. Account("SALARY") \in DOMAIN sums /\ Account("PAYABLE") \in DOMAIN sums
    BY PayFacts DEF PayAccounts
  <2>7. /\ books[Account("SALARY")] = sums[Account("SALARY")] + SumIn(db, P, "gross")
        /\ books[Account("PAYABLE")] = sums[Account("PAYABLE")] - SumIn(db, P, "net")
    BY <1>10, <2>1, <2>3, <2>5, <2>6 DEF Posted
  <2>8. books[Account("ADVANCE")] = sums[Account("ADVANCE")] + SumIn(db, L, "amount") - SumIn(db, P, "emi")
    <3>1. books[k] = sums[k] + old.amount
      BY <1>6, <1>7, <1>10 DEF Posted
    <3>2. sums[k] \in Int /\ old.amount \in Int
      BY <1>3, <1>6, <2>1 DEF Loan
    <3> QED
      BY <1>5, <2>3, <2>4, <3>1, <3>2
  <2>9. P \in SUBSET (SlipsIn(db) \ PaidSlipsIn(db)) /\ PaidSlipsIn(rows) = PaidSlipsIn(db) \cup P
    BY <1>16, <2>2
  <2>10. \A p \in PaidSlipsIn(rows) : \A c \in {"gross", "net", "emi"} : rows[p][c] = db[p][c]
    BY <1>15 DEF PaidSlipsIn, SlipsIn, Rows
  <2>11. \A a \in LoansIn(rows) : rows[a]["amount"] = db[a]["amount"]
    BY <1>2, <1>11, <1>12, <1>14 DEF LoansIn, Rows
  <2> QED
    BY <1>18, <2>1, <2>7, <2>8, <2>9, <2>10, <2>11, PayBooksAfter
<1>20. SlipsStand(rows) /\ AdditionsStand(rows)
  <2>1. SlipsStand(db) /\ AdditionsStand(db)
    BY DEF PayrollInv, PayrollStands
  <2>2. \A p \in SlipsIn(db) : rows[p] = db[p]
    BY <1>15 DEF SlipsIn, Rows
  <2>3. SlipsStand(rows)
    BY <1>16, <2>1, <2>2 DEF SlipsStand
  <2>4. \A x \in Rows("EXTRA") : rows[x] = db[x]
    BY <1>15 DEF Rows
  <2>5. AdditionsStand(rows)
    BY <1>16, <2>1, <2>2, <2>4 DEF AdditionsStand, AdditionStands
  <2> QED
    BY <2>3, <2>5
<1>21. PayRowsStand(rows)
  BY <1>11, <1>12, <1>14, <1>15 DEF PayrollInv, PayrollStands, PayRowsStand, Rows
<1>22. KeepsPayroll(put, add)
  BY <1>3, <1>9, <1>10, <1>19, <1>20, <1>21 DEF KeepsPayroll, PayrollStands
<1> QED
  BY <1>8, <1>22, StageKeepsPayroll

-----------------------------------------------------------------------------
(* Payroll: slips *)

LEMMA OldestAdvance ==
  ASSUME PayrollInv, NEW emp, OpenAdvances(emp) # {}
  PROVE  ActiveAdvance(emp) \in OpenAdvances(emp) /\ ActiveAdvance(emp) \in Live("ADV")
<1>1. PICK O : O = OpenAdvances(emp)
  OBVIOUS
<1>2. O \subseteq Live("ADV") /\ O \subseteq Rows("ADV") /\ \A a \in O : a[2] \in Nat
  BY <1>1 DEF OpenAdvances, Of, Live, PayrollInv, PayTables
<1>3. IsFiniteSet(O)
  BY <1>2, FS_Subset DEF PayrollInv, PayTables
<1> DEFINE older(a) == {b \in O : b[2] < a[2]}
           C == {older(a) : a \in O}
<1>4. PICK T \in C : \A U \in C : U \subseteq T => U = T
  <2>2. PICK a \in O : TRUE
    BY <1>1
  <2>3. older(a) \in C
    OBVIOUS
  <2>1. C \subseteq SUBSET O /\ C # {}
    BY <2>3
  <2> HIDE DEF C
  <2> QED
    BY <1>3, <2>1, LeastSubset
<1>5. PICK a \in O : T = older(a)
  OBVIOUS
<1>6. \A b \in O : a[2] <= b[2]
  <2> SUFFICES ASSUME NEW b \in O, b[2] < a[2] PROVE FALSE
    BY <1>2
  <2>1. older(b) \subseteq older(a) /\ b \in older(a) /\ b \notin older(b)
    BY <1>2
  <2>2. older(b) \in C
    OBVIOUS
  <2> QED
    BY <1>4, <1>5, <2>1, <2>2
<1>7. ActiveAdvance(emp) = CHOOSE x \in O : \A b \in O : x[2] <= b[2]
  BY <1>1 DEF ActiveAdvance
<1>8. ActiveAdvance(emp) \in O
  BY <1>6, <1>7
<1> QED
  BY <1>1, <1>2, <1>8

LEMMA EmiIsInt ==
  ASSUME PayrollInv, NEW emp
  PROVE  Emi(emp) \in Int
<1>1. CASE OpenAdvances(emp) = {}
  BY <1>1 DEF Emi
<1>2. CASE OpenAdvances(emp) # {}
  <2>1. PICK a : a = ActiveAdvance(emp)
    OBVIOUS
  <2>2. Loan(db[a])
    BY <1>2, <2>1, OldestAdvance, PayFacts
  <2>3. PICK m, n : m = db[a].monthly /\ n = db[a].amount - db[a].repaid
    OBVIOUS
  <2>4. m \in Int /\ n \in Int
    BY <2>2, <2>3 DEF Loan
  <2>5. Min({m, n}) \in {m, n}
    BY <2>4 DEF Min
  <2> QED
    BY <1>2, <2>1, <2>3, <2>4, <2>5 DEF Emi
<1> QED
  BY <1>1, <1>2

LEMMA UnpaidIsInt ==
  ASSUME PayrollInv, NEW from \in Int, NEW to \in Int
  PROVE  UnpaidDays(from, to) \in Int
<1>1. PICK absent : absent = {a \in Live("ATT") : a[2] \in from..to /\ Status(a) = "ABSENT"}
  OBVIOUS
<1>2. PICK unpaid : unpaid = {l \in Live("LEAVE") : Status(l) = "APPROVED" /\ db[l].lwp}
  OBVIOUS
<1>3. absent \subseteq Rows("ATT") /\ unpaid \subseteq Rows("LEAVE") /\ unpaid \subseteq Live("LEAVE")
  BY <1>1, <1>2 DEF Live
<1>4. IsFiniteSet(absent) /\ IsFiniteSet(unpaid)
  BY <1>3, FS_Subset DEF PayrollInv, PayTables
<1>5. Cardinality(absent) \in Int
  BY <1>4, FS_CardinalityType
<1>6. PICK f : f = [l \in unpaid |-> Cardinality((db[l].from..db[l].to) \cap (from..to))]
  OBVIOUS
<1>7. ASSUME NEW l \in unpaid PROVE f[l] \in Int
  <2>1. IsFiniteSet(from..to)
    BY FS_Interval
  <2>2. PICK T : T = (db[l].from..db[l].to) \cap (from..to)
    OBVIOUS
  <2>3. T \subseteq from..to
    BY <2>2
  <2>4. Cardinality(T) \in Nat
    BY <2>1, <2>3, FS_Subset, FS_CardinalityType
  <2> QED
    BY <1>6, <2>2, <2>4
<1>8. SumFunctionOnSet(f, unpaid) \in Int
  BY <1>4, <1>7, SumInt DEF Summable
<1>9. UnpaidDays(from, to) = Cardinality(absent) + SumFunctionOnSet(f, unpaid)
  BY <1>1, <1>2, <1>6 DEF UnpaidDays
<1> QED
  BY <1>5, <1>8, <1>9

LEMMA DivIsInt == ASSUME NEW a \in Int, NEW b \in Int, b > 0 PROVE a \div b \in Int
  OBVIOUS

LEMMA SlipIsWhole ==
  ASSUME PayrollInv, NEW emp \in Live("EMP"), NEW from \in Int, NEW to \in Int, from <= to
  PROVE  /\ PaySlip(Slip(emp, from, to))
         /\ DOMAIN Slip(emp, from, to) = {"status", "emp", "from", "to", "gross", "tax", "emi", "net"}
         /\ Slip(emp, from, to).status = "DRAFT" /\ Slip(emp, from, to).emp = emp
         /\ Slip(emp, from, to).from = from /\ Slip(emp, from, to).to = to
<1>1. PaymentDays(emp, from, to) \in Int
  <2>1. PICK unpaid, days : unpaid = (IF emp[2] = 1 THEN UnpaidDays(from, to) ELSE 0) /\ days = to - from + 1
    OBVIOUS
  <2>2. unpaid \in Int /\ days \in Int
    BY <2>1, UnpaidIsInt
  <2>3. PaymentDays(emp, from, to) = IF unpaid >= days THEN 0 ELSE days - unpaid
    BY <2>1 DEF PaymentDays
  <2> QED
    BY <2>2, <2>3
<1>2. db[emp].base \in Int
  BY DEF PayrollInv, PayrollStands, PayRowsStand, Live
<1>3. PICK pay : pay = (db[emp].base * PaymentDays(emp, from, to)) \div (to - from + 1)
  OBVIOUS
<1>4. pay \in Int
  <2>1. PICK a, b : a = db[emp].base * PaymentDays(emp, from, to) /\ b = to - from + 1
    OBVIOUS
  <2>2. a \in Int /\ b \in Int /\ b > 0
    BY <1>1, <1>2, <2>1
  <2> QED
    BY <1>3, <2>1, <2>2, DivIsInt
<1>5. Total(Due(emp, from, to), "amount") \in Int
  <2>1. Due(emp, from, to) \subseteq Rows("EXTRA") /\ Due(emp, from, to) \subseteq Live("EXTRA")
    BY DEF Due, Of, Live
  <2>2. IsFiniteSet(Due(emp, from, to))
    BY <2>1, FS_Subset DEF PayrollInv, PayTables
  <2>3. \A x \in Due(emp, from, to) : db[x]["amount"] \in Int
    BY <2>1 DEF PayrollInv, PayrollStands, AdditionsStand, AdditionStands, Addition, Live
  <2>4. SumIn(db, Due(emp, from, to), "amount") \in Int
    BY <2>2, <2>3, SumInInt
  <2> QED
    BY <2>4 DEF SumIn, Total
<1>6. PICK gross : gross = pay + Total(Due(emp, from, to), "amount")
  OBVIOUS
<1>7. gross \in Int /\ Tax(gross) \in Int /\ Emi(emp) \in Int
  BY <1>4, <1>5, <1>6, EmiIsInt DEF Tax
<1>8. Slip(emp, from, to) =
        [status |-> "DRAFT", emp |-> emp, from |-> from, to |-> to, gross |-> gross, tax |-> Tax(gross),
         emi |-> Emi(emp), net |-> gross - Tax(gross) - Emi(emp)]
  BY <1>3, <1>6 DEF Slip
<1> QED
  BY <1>7, <1>8 DEF PaySlip

\* New slips N for days not yet paid, and the additions that they take in.
LEMMA NewSlipsStand ==
  ASSUME PayrollInv, NEW N \in SUBSET Rows("SLIP"), \A p \in N : db[p] = NoRow, NEW rows,
         \A d \in DOMAIN db : d[1] \in {"ADV", "LEAVE", "EMP", "CLAIM"} => rows[d] = db[d],
         \A p \in Rows("SLIP") \ N : rows[p] = db[p],
         \A p \in N :
           /\ PaySlip(rows[p]) /\ rows[p].status = "DRAFT"
           /\ \A q \in SlipsIn(db) : db[q].emp = rows[p].emp => ~(db[q].from <= rows[p].to /\ db[q].to >= rows[p].from)
           /\ \A q \in N : p # q => rows[q].emp # rows[p].emp,
         \A x \in Rows("EXTRA") :
           \/ rows[x] = db[x]
           \/ /\ db[x] # NoRow /\ db[x].status = "PENDING" /\ Addition(rows[x])
              /\ rows[x].slip \in N /\ rows[x].status \in {"EARNED", "INCLUDED"}
  PROVE  PayrollStands(rows, Posted(Nothing))
<1>1. SlipsIn(rows) = SlipsIn(db) \cup N
  <2>1. \A p \in N : rows[p] # NoRow
    BY NoRowColumns DEF PaySlip
  <2> QED
    BY <2>1 DEF SlipsIn
<1>2. SlipsIn(db) \cap N = {} /\ \A p \in SlipsIn(db) : rows[p] = db[p]
  BY DEF SlipsIn
<1>3. PaidSlipsIn(rows) = PaidSlipsIn(db)
  BY <1>1, <1>2 DEF PaidSlipsIn
<1>4. SlipsStand(rows)
  <2> SUFFICES ASSUME NEW p \in SlipsIn(rows)
              PROVE  /\ PaySlip(rows[p])
                     /\ \A q \in SlipsIn(rows) :
                          p # q /\ rows[p].emp = rows[q].emp => ~(rows[p].from <= rows[q].to /\ rows[p].to >= rows[q].from)
    BY DEF SlipsStand
  <2>1. SlipsStand(db)
    BY DEF PayrollInv, PayrollStands
  <2>2. PaySlip(rows[p])
    BY <1>1, <1>2, <2>1 DEF SlipsStand
  <2>3. ASSUME NEW q \in SlipsIn(rows), p # q, rows[p].emp = rows[q].emp,
               rows[p].from <= rows[q].to, rows[p].to >= rows[q].from
        PROVE  FALSE
    <3>1. PaySlip(rows[q])
      BY <1>1, <1>2, <2>1 DEF SlipsStand
    <3>2. rows[q].from <= rows[p].to /\ rows[q].to >= rows[p].from
      BY <2>2, <2>3, <3>1 DEF PaySlip
    <3>3. CASE p \in N /\ q \in N
      BY <2>3, <3>3
    <3>4. CASE p \in N /\ q \in SlipsIn(db)
      BY <1>2, <2>3, <3>2, <3>4
    <3>5. CASE p \in SlipsIn(db) /\ q \in N
      BY <1>2, <2>3, <3>5
    <3>6. CASE p \in SlipsIn(db) /\ q \in SlipsIn(db)
      BY <1>2, <2>1, <2>3, <3>6 DEF SlipsStand
    <3> QED
      BY <1>1, <3>3, <3>4, <3>5, <3>6
  <2> QED
    BY <2>2, <2>3
<1>5. AdditionsStand(rows)
  <2> SUFFICES ASSUME NEW x \in Rows("EXTRA"), rows[x] # NoRow PROVE AdditionStands(rows, x)
    BY DEF AdditionsStand
  <2>1. CASE rows[x] = db[x]
    <3>1. AdditionStands(db, x)
      BY <2>1 DEF PayrollInv, PayrollStands, AdditionsStand
    <3>2. db[x].slip # NoRef => db[x].slip \in SlipsIn(db) /\ rows[db[x].slip] = db[db[x].slip]
      BY <1>2, <3>1 DEF AdditionStands
    <3> QED
      BY <1>1, <2>1, <3>1, <3>2 DEF AdditionStands
  <2>2. CASE rows[x] # db[x]
    <3>1. Addition(rows[x]) /\ rows[x].slip \in N /\ rows[x].status \in {"EARNED", "INCLUDED"}
      BY <2>2
    <3>2. rows[x].slip \in SlipsIn(rows) /\ rows[rows[x].slip].status = "DRAFT" /\ rows[x].slip # NoRef
      BY <1>1, <3>1, PayKinds
    <3> QED
      BY <3>1, <3>2 DEF AdditionStands
  <2> QED
    BY <2>1, <2>2
<1>6. PayRowsStand(rows)
  BY DEF PayrollInv, PayrollStands, PayRowsStand, Rows
<1>7. LoansIn(rows) = LoansIn(db) /\ \A a \in LoansIn(db) : rows[a] = db[a]
  BY DEF LoansIn, Rows
<1>8. \A p \in PaidSlipsIn(db) : rows[p] = db[p]
  BY <1>2 DEF PaidSlipsIn
<1>9. PayBooksStand(rows, Posted(Nothing))
  BY <1>3, <1>7, <1>8, NothingIsPlain, PlainBooks
<1> QED
  BY <1>4, <1>5, <1>6, <1>9 DEF PayrollStands

\* A row that new slips of the employees E are made of.
SlippedRow(E, slipOf, from, to, d, row) ==
  \/ d[1] = "BATCH"
  \/ \E e \in E : d = slipOf[e] /\ row = Slip(e, from, to)
  \/ \E e \in E : /\ d \in Due(e, from, to)
                  /\ DOMAIN row = {"status", "slip"} /\ row.slip = slipOf[e] /\ row.status \in {"EARNED", "INCLUDED"}

LEMMA SlippingKeeps ==
  ASSUME PayrollInv, NEW from \in Int, NEW to \in Int, from <= to, NEW E \in SUBSET Live("EMP"), NEW slipOf,
         \A e \in E : slipOf[e] \in Rows("SLIP") /\ db[slipOf[e]] = NoRow /\ ~Covered(e, from, to),
         NEW put, DOMAIN put \subseteq DOMAIN db, \A e \in E : slipOf[e] \in DOMAIN put,
         \A d \in DOMAIN put : SlippedRow(E, slipOf, from, to, d, put[d])
  PROVE  KeepsPayroll(put, Nothing)
<1>1. PICK rows : rows = Result(put)
  OBVIOUS
<1>2. PICK N : N = {slipOf[e] : e \in E}
  OBVIOUS
<1>3. N \in SUBSET Rows("SLIP") /\ N \subseteq DOMAIN put /\ \A p \in N : db[p] = NoRow /\ \E e \in E : p = slipOf[e]
  BY <1>2
<1>4. \A d \in DOMAIN put : d[1] = "BATCH" \/ d \in N \/ d \in Live("EXTRA")
  BY <1>2 DEF SlippedRow, Due, Of
<1>5. \A d \in DOMAIN db \ DOMAIN put : rows[d] = db[d]
  BY <1>1, ResultElsewhere
<1>6. \A d \in DOMAIN db : d[1] \in {"ADV", "LEAVE", "EMP", "CLAIM"} => rows[d] = db[d]
  BY <1>3, <1>4, <1>5 DEF Live, Rows
<1>7. \A p \in Rows("SLIP") \ N : rows[p] = db[p]
  BY <1>4, <1>5 DEF Live, Rows
<1>8. ASSUME NEW p \in N
      PROVE  \E e \in E : /\ p = slipOf[e] /\ PaySlip(rows[p]) /\ rows[p].status = "DRAFT" /\ rows[p].emp = e
                          /\ rows[p].from = from /\ rows[p].to = to
  <2>1. p \in DOMAIN db \cap DOMAIN put /\ db[p] = NoRow /\ p[1] = "SLIP"
    BY <1>3 DEF Rows
  <2>2. PICK e \in E : p = slipOf[e] /\ put[p] = Slip(e, from, to)
    BY <2>1 DEF SlippedRow, Due, Of, Live, Rows
  <2>3. PICK new, row : new = rows[p] /\ row = Slip(e, from, to)
    OBVIOUS
  <2>4. /\ PaySlip(row) /\ DOMAIN row = {"status", "emp", "from", "to", "gross", "tax", "emi", "net"}
        /\ row.status = "DRAFT" /\ row.emp = e /\ row.from = from /\ row.to = to
    <3>1. e \in Live("EMP")
      OBVIOUS
    <3> QED
      BY <2>3, <3>1, SlipIsWhole
  <2>5. DOMAIN new = DOMAIN row \cup {"status"} /\ \A c \in DOMAIN row : new[c] = row[c]
    BY <1>1, <2>1, <2>2, <2>3, ResultColumns, NoRowColumns
  <2>6. PaySlip(new) /\ new.status = "DRAFT" /\ new.emp = e /\ new.from = from /\ new.to = to
    BY <2>4, <2>5 DEF PaySlip
  <2> QED
    BY <2>2, <2>3, <2>6
<1>9. ASSUME NEW p \in N
      PROVE  /\ PaySlip(rows[p]) /\ rows[p].status = "DRAFT"
             /\ \A q \in SlipsIn(db) : db[q].emp = rows[p].emp => ~(db[q].from <= rows[p].to /\ db[q].to >= rows[p].from)
             /\ \A q \in N : p # q => rows[q].emp # rows[p].emp
  <2>1. PICK e \in E : /\ p = slipOf[e] /\ PaySlip(rows[p]) /\ rows[p].status = "DRAFT" /\ rows[p].emp = e
                       /\ rows[p].from = from /\ rows[p].to = to
    BY <1>8
  <2>2. \A q \in SlipsIn(db) : db[q].emp = e => ~(db[q].from <= to /\ db[q].to >= from)
    BY DEF Covered, Of, Live, SlipsIn, Overlap
  <2>3. \A q \in N : \E f \in E : q = slipOf[f] /\ rows[q].emp = f
    BY <1>8
  <2> QED
    BY <2>1, <2>2, <2>3
<1>10. ASSUME NEW x \in Rows("EXTRA"), rows[x] # db[x]
       PROVE  /\ db[x] # NoRow /\ db[x].status = "PENDING" /\ Addition(rows[x])
              /\ rows[x].slip \in N /\ rows[x].status \in {"EARNED", "INCLUDED"}
  <2>1. x \in DOMAIN put /\ x \in DOMAIN db \cap DOMAIN put /\ x[1] = "EXTRA" /\ x \notin Rows("SLIP")
    BY <1>5, <1>10 DEF Rows
  <2>2. PICK e \in E : /\ x \in Due(e, from, to)
                       /\ DOMAIN put[x] = {"status", "slip"} /\ put[x].slip = slipOf[e] /\ put[x].status \in {"EARNED", "INCLUDED"}
    BY <2>1 DEF SlippedRow
  <2>3. db[x] # NoRow /\ db[x].status = "PENDING"
    BY <2>2 DEF Due, Of, Live, Status
  <2>4. Addition(db[x])
    BY <2>3 DEF PayrollInv, PayrollStands, AdditionsStand, AdditionStands
  <2>5. PICK new, row, old : new = rows[x] /\ row = put[x] /\ old = db[x]
    OBVIOUS
  <2>6. DOMAIN new = DOMAIN row \cup DOMAIN old /\ (\A c \in DOMAIN row : new[c] = row[c]) /\ \A c \in DOMAIN old \ DOMAIN row : new[c] = old[c]
    BY <1>1, <2>1, <2>5, ResultColumns
  <2>7. Addition(new) /\ new.slip = slipOf[e] /\ new.status \in {"EARNED", "INCLUDED"}
    BY <2>2, <2>4, <2>5, <2>6 DEF Addition
  <2>8. slipOf[e] \in N
    BY <1>2
  <2>9. Addition(rows[x]) /\ rows[x].slip \in N /\ rows[x].status \in {"EARNED", "INCLUDED"}
    BY <2>5, <2>7, <2>8
  <2> QED
    BY <2>3, <2>9
<1>11. PayrollStands(rows, Posted(Nothing))
  <2>1. N \in SUBSET Rows("SLIP") /\ \A p \in N : db[p] = NoRow
    BY <1>3
  <2>2. \A p \in N :
          /\ PaySlip(rows[p]) /\ rows[p].status = "DRAFT"
          /\ \A q \in SlipsIn(db) : db[q].emp = rows[p].emp => ~(db[q].from <= rows[p].to /\ db[q].to >= rows[p].from)
          /\ \A q \in N : p # q => rows[q].emp # rows[p].emp
    BY <1>9
  <2>3. \A x \in Rows("EXTRA") :
          \/ rows[x] = db[x]
          \/ /\ db[x] # NoRow /\ db[x].status = "PENDING" /\ Addition(rows[x])
             /\ rows[x].slip \in N /\ rows[x].status \in {"EARNED", "INCLUDED"}
    BY <1>10
  <2> QED
    BY <1>6, <1>7, <2>1, <2>2, <2>3, NewSlipsStand
<1> QED
  BY <1>1, <1>11 DEF KeepsPayroll

\* What put stages of one new slip.
SlipsInto(put, slip, emp, from, to) ==
  /\ DOMAIN put = {slip} \cup Due(emp, from, to) /\ put[slip] = Slip(emp, from, to)
  /\ \A x \in Due(emp, from, to) :
       DOMAIN put[x] = {"status", "slip"} /\ put[x].slip = slip /\ put[x].status \in {"EARNED", "INCLUDED"}

LEMMA SlippedColumns ==
  ASSUME NEW slip \in Rows("SLIP"), NEW emp, NEW from, NEW to
  PROVE  SlipsInto(Slipped(slip, emp, from, to), slip, emp, from, to)
<1>1. PICK due : due = Due(emp, from, to)
  OBVIOUS
<1>2. slip \notin due
  BY <1>1 DEF Due, Of, Live, Rows
<1>3. PICK first, rest :
        /\ first = slip :> Slip(emp, from, to)
        /\ rest = [x \in due |-> [status |-> IF db[x].bonus THEN "EARNED" ELSE "INCLUDED", slip |-> slip]]
  OBVIOUS
<1>4. DOMAIN first = {slip} /\ first[slip] = Slip(emp, from, to)
  BY <1>3, OneRow
<1>5. /\ DOMAIN rest = due
      /\ \A x \in due : DOMAIN rest[x] = {"status", "slip"} /\ rest[x].slip = slip /\ rest[x].status \in {"EARNED", "INCLUDED"}
  BY <1>3
<1>6. PICK put : put = first @@ rest
  OBVIOUS
<1>7. DOMAIN put = {slip} \cup due /\ put[slip] = first[slip] /\ \A x \in due : put[x] = rest[x]
  BY <1>2, <1>4, <1>5, <1>6 DEF @@
<1>8. Slipped(slip, emp, from, to) = put
  BY <1>1, <1>3, <1>6 DEF Slipped
<1>9. SlipsInto(put, slip, emp, from, to)
  BY <1>1, <1>4, <1>5, <1>7 DEF SlipsInto
<1> QED
  BY <1>8, <1>9

LEMMA GenerateSalarySlipKeeps ==
  ASSUME PayrollInv, NEW s \in Sessions, NEW slip \in Rows("SLIP"), Fresh(slip), NEW emp \in Live("EMP"),
         NEW from \in Int, NEW to \in Int, GenerateSalarySlip(s, slip, emp, from, to)
  PROVE  PayrollInv'
<1> HIDE DEF Sessions
<1>1. PICK E, slipOf : E = {emp} /\ slipOf = [e \in E |-> slip]
  OBVIOUS
<1>2. from <= to /\ ~Covered(emp, from, to) /\ Stage(s, Slipped(slip, emp, from, to), Nothing, {})
  BY DEF GenerateSalarySlip, Payable
<1>3. slip \in DOMAIN db /\ db[slip] = NoRow
  BY FreshIsNew DEF Rows
<1>4. PICK put : put = Slipped(slip, emp, from, to)
  OBVIOUS
<1>5. /\ DOMAIN put = {slip} \cup Due(emp, from, to) /\ put[slip] = Slip(emp, from, to)
      /\ \A x \in Due(emp, from, to) : DOMAIN put[x] = {"status", "slip"} /\ put[x].slip = slip /\ put[x].status \in {"EARNED", "INCLUDED"}
  <2>1. SlipsInto(Slipped(slip, emp, from, to), slip, emp, from, to)
    BY SlippedColumns
  <2>2. SlipsInto(put, slip, emp, from, to)
    BY <1>4, <2>1
  <2> QED
    BY <2>2 DEF SlipsInto
<1>6. DOMAIN put \subseteq DOMAIN db
  BY <1>3, <1>5 DEF Due, Of, Live, Rows
<1>7. \A d \in DOMAIN put : SlippedRow(E, slipOf, from, to, d, put[d])
  BY <1>1, <1>5 DEF SlippedRow
<1>8. KeepsPayroll(put, Nothing)
  <2>1. E \in SUBSET Live("EMP") /\ \A e \in E : slipOf[e] \in Rows("SLIP") /\ db[slipOf[e]] = NoRow /\ ~Covered(e, from, to)
    BY <1>1, <1>2, <1>3
  <2>2. \A e \in E : slipOf[e] \in DOMAIN put
    BY <1>1, <1>5
  <2> QED
    BY <1>2, <1>6, <1>7, <2>1, <2>2, SlippingKeeps
<1> QED
  BY <1>2, <1>4, <1>8, StageKeepsPayroll

LEMMA CreateBatchPayrollKeeps ==
  ASSUME PayrollInv, NEW s \in Sessions, NEW batch \in Rows("BATCH"), NEW from \in Int, NEW to \in Int,
         NEW slipOf, \A e \in Live("EMP") : slipOf[e] \in Rows("SLIP") /\ db[slipOf[e]] = NoRow,
         \A e, f \in Live("EMP") : slipOf[e] = slipOf[f] => e = f,
         CreateBatchPayroll(s, batch, from, to, slipOf)
  PROVE  PayrollInv'
<1> HIDE DEF Sessions
<1>1. PICK E : E = {e \in Live("EMP") : Status(e) = "ACTIVE"}
  OBVIOUS
<1> DEFINE all == UNION {DOMAIN Slipped(slipOf[e], e, from, to) : e \in E}
           owner(d) == CHOOSE e \in E : d \in DOMAIN Slipped(slipOf[e], e, from, to)
<1>2. PICK first, rest, put :
        /\ first = batch :> [status |-> "DRAFT", from |-> from, to |-> to]
        /\ rest = [d \in all |-> Slipped(slipOf[owner(d)], owner(d), from, to)[d]]
        /\ put = first @@ rest
  OBVIOUS
<1>3. E # {} /\ (\A e \in E : Payable(e, from, to)) /\ Stage(s, put, Nothing, {})
  BY <1>1, <1>2 DEF CreateBatchPayroll
<1>4. E \in SUBSET Live("EMP") /\ \A e \in E : slipOf[e] \in Rows("SLIP") /\ db[slipOf[e]] = NoRow /\ ~Covered(e, from, to)
  BY <1>1, <1>3 DEF Payable
<1>5. from <= to
  BY <1>3 DEF Payable
<1>6. \A d \in all : owner(d) \in E /\ d \in DOMAIN Slipped(slipOf[owner(d)], owner(d), from, to)
  OBVIOUS
<1>7. ASSUME NEW d \in all
      PROVE  /\ d \in Rows("SLIP") \cup Rows("EXTRA")
             /\ SlippedRow(E, slipOf, from, to, d, rest[d])
  <2>1. PICK e : e = owner(d)
    OBVIOUS
  <2>2. e \in E /\ d \in DOMAIN Slipped(slipOf[e], e, from, to)
    BY <1>6, <2>1
  <2>3. rest[d] = Slipped(slipOf[e], e, from, to)[d]
    BY <1>2, <2>1
  <2>4. slipOf[e] \in Rows("SLIP")
    BY <1>4, <2>2
  <2> HIDE DEF owner, all
  <2>5. PICK slip, one : slip = slipOf[e] /\ one = Slipped(slip, e, from, to)
    OBVIOUS
  <2>6. /\ DOMAIN one = {slip} \cup Due(e, from, to) /\ one[slip] = Slip(e, from, to)
        /\ \A x \in Due(e, from, to) : DOMAIN one[x] = {"status", "slip"} /\ one[x].slip = slip /\ one[x].status \in {"EARNED", "INCLUDED"}
    <3>1. slip \in Rows("SLIP")
      BY <2>4, <2>5
    <3>2. SlipsInto(Slipped(slip, e, from, to), slip, e, from, to)
      BY <3>1, SlippedColumns
    <3>3. SlipsInto(one, slip, e, from, to)
      BY <2>5, <3>2
    <3> QED
      BY <3>3 DEF SlipsInto
  <2>7. d = slip \/ d \in Due(e, from, to)
    BY <2>2, <2>5, <2>6
  <2>8. SlippedRow(E, slipOf, from, to, d, one[d])
    BY <2>2, <2>5, <2>6, <2>7 DEF SlippedRow
  <2>9. d \in Rows("SLIP") \cup Rows("EXTRA")
    BY <2>4, <2>5, <2>7 DEF Due, Of, Live
  <2> QED
    BY <2>3, <2>5, <2>8, <2>9
<1>8. \A e \in E : slipOf[e] \in all
  <2> SUFFICES ASSUME NEW e \in E PROVE slipOf[e] \in all
    OBVIOUS
  <2>1. slipOf[e] \in DOMAIN Slipped(slipOf[e], e, from, to)
    <3>1. PICK slip : slip = slipOf[e]
      OBVIOUS
    <3>2. slip \in Rows("SLIP")
      BY <1>4, <3>1
    <3>3. SlipsInto(Slipped(slip, e, from, to), slip, e, from, to)
      BY <3>2, SlippedColumns
    <3> QED
      BY <3>1, <3>3 DEF SlipsInto
  <2> QED
    BY <2>1
<1>9. DOMAIN first = {batch} /\ DOMAIN rest = all
  BY <1>2, OneRow
<1> HIDE DEF owner, all
<1>10. DOMAIN put = {batch} \cup all /\ \A d \in all : d # batch => put[d] = rest[d]
  BY <1>2, <1>9 DEF @@
<1>11. batch[1] = "BATCH" /\ batch \in DOMAIN db
  BY DEF Rows
<1>12. DOMAIN put \subseteq DOMAIN db
  BY <1>7, <1>10, <1>11 DEF Rows
<1>13. \A d \in DOMAIN put : SlippedRow(E, slipOf, from, to, d, put[d])
  <2>1. \A row : SlippedRow(E, slipOf, from, to, batch, row)
    BY <1>11 DEF SlippedRow
  <2> QED
    BY <1>7, <1>10, <2>1
<1>14. KeepsPayroll(put, Nothing)
  BY <1>4, <1>5, <1>8, <1>10, <1>12, <1>13, SlippingKeeps
<1> QED
  BY <1>3, <1>14, StageKeepsPayroll

-----------------------------------------------------------------------------
(* Payroll: submission *)

\* A row as the submission of the slips P changes it.
SubmittedRow(P, d, row) ==
  \/ d[1] = "BATCH"
  \/ d \in P /\ row = [status |-> "SUBMITTED"]
  \/ \E p \in P : d \in Of("EXTRA", "slip", p) /\ row = [status |-> "PAID"]
  \/ /\ d \in Live("ADV") /\ db[d].status = "PAID"
     /\ DOMAIN row = {"repaid", "status"} /\ row.repaid \in Int /\ row.status \in {"PAID", "REPAID"}

LEMMA SlipsBalance ==
  ASSUME PayrollInv, NEW P \in SUBSET SlipsIn(db)
  PROVE  /\ \A c \in {"gross", "net", "tax", "emi"} : SumIn(db, P, c) \in Int
         /\ SumIn(db, P, "gross") = SumIn(db, P, "net") + SumIn(db, P, "tax") + SumIn(db, P, "emi")
<1>1. IsFiniteSet(P)
  BY PayFacts, FS_Subset
<1>2. ASSUME NEW p \in P
      PROVE  /\ db[p]["gross"] \in Int /\ db[p]["net"] \in Int /\ db[p]["tax"] \in Int /\ db[p]["emi"] \in Int
             /\ db[p]["gross"] = db[p]["net"] + (db[p]["tax"] + db[p]["emi"])
  <2>1. PaySlip(db[p])
    BY PayFacts
  <2>2. PICK g, n, t, e \in Int : g = db[p].gross /\ n = db[p].net /\ t = db[p].tax /\ e = db[p].emi /\ n = g - t - e
    <3>1. db[p].net \in Int
      BY <2>1 DEF PaySlip
    <3> QED
      BY <2>1, <3>1 DEF PaySlip
  <2>3. g = n + (t + e)
    BY <2>2
  <2> QED
    BY <2>2, <2>3
<1>3. PICK g, n, t, e, d :
        /\ g = [p \in P |-> db[p]["gross"]] /\ n = [p \in P |-> db[p]["net"]]
        /\ t = [p \in P |-> db[p]["tax"]] /\ e = [p \in P |-> db[p]["emi"]]
        /\ d = [p \in P |-> t[p] + e[p]]
  OBVIOUS
<1>4. Summable(g, P) /\ Summable(n, P) /\ Summable(t, P) /\ Summable(e, P)
  BY <1>1, <1>2, <1>3 DEF Summable
<1>5. Summable(d, P) /\ \A p \in P : d[p] = t[p] + e[p]
  BY <1>3, <1>4 DEF Summable
<1>6. \A p \in P : g[p] = n[p] + d[p]
  BY <1>2, <1>3
<1>7. SumFunctionOnSet(d, P) = SumFunctionOnSet(t, P) + SumFunctionOnSet(e, P)
  BY <1>4, <1>5, SumPlus
<1>8. SumFunctionOnSet(g, P) = SumFunctionOnSet(n, P) + SumFunctionOnSet(d, P)
  BY <1>4, <1>5, <1>6, SumPlus
<1>9. /\ SumFunctionOnSet(g, P) \in Int /\ SumFunctionOnSet(n, P) \in Int
      /\ SumFunctionOnSet(t, P) \in Int /\ SumFunctionOnSet(e, P) \in Int
  BY <1>4, SumInt
<1>10. /\ SumIn(db, P, "gross") = SumFunctionOnSet(g, P) /\ SumIn(db, P, "net") = SumFunctionOnSet(n, P)
       /\ SumIn(db, P, "tax") = SumFunctionOnSet(t, P) /\ SumIn(db, P, "emi") = SumFunctionOnSet(e, P)
  BY <1>3 DEF SumIn
<1> QED
  BY <1>7, <1>8, <1>9, <1>10

\* The journal of the slips P: gross against net, tax and recovery.
Journalled(add, P) ==
  /\ DOMAIN add = {Account("SALARY"), Account("PAYABLE"), Account("TAX"), Account("ADVANCE")}
  /\ add[Account("SALARY")] = SumIn(db, P, "gross") /\ add[Account("PAYABLE")] = -SumIn(db, P, "net")
  /\ add[Account("TAX")] = -SumIn(db, P, "tax") /\ add[Account("ADVANCE")] = -SumIn(db, P, "emi")

LEMMA JournalColumns == ASSUME NEW P PROVE Journalled(Journal(P), P)
<1>1. PICK g, n, t, e :
        /\ g = SumIn(db, P, "gross") /\ n = -SumIn(db, P, "net") /\ t = -SumIn(db, P, "tax") /\ e = -SumIn(db, P, "emi")
  OBVIOUS
<1>2. PICK S, Y, T, A : S = Account("SALARY") /\ Y = Account("PAYABLE") /\ T = Account("TAX") /\ A = Account("ADVANCE")
  OBVIOUS
<1>3. S \notin {Y, T, A} /\ Y \notin {T, A} /\ T # A
  BY <1>2, AccountsDiffer
<1>4. PICK a, b, c, d : a = S :> g /\ b = Y :> n /\ c = T :> t /\ d = A :> e
  OBVIOUS
<1>5. /\ DOMAIN a = {S} /\ a[S] = g /\ DOMAIN b = {Y} /\ b[Y] = n
      /\ DOMAIN c = {T} /\ c[T] = t /\ DOMAIN d = {A} /\ d[A] = e
  BY <1>4, OneRow
<1>6. PICK ab, abc, add : ab = a @@ b /\ abc = ab @@ c /\ add = abc @@ d
  OBVIOUS
<1>7. DOMAIN ab = {S, Y} /\ ab[S] = g /\ ab[Y] = n
  BY <1>3, <1>5, <1>6 DEF @@
<1>8. DOMAIN abc = {S, Y, T} /\ abc[S] = g /\ abc[Y] = n /\ abc[T] = t
  BY <1>3, <1>5, <1>6, <1>7 DEF @@
<1>9. DOMAIN add = {S, Y, T, A} /\ add[S] = g /\ add[Y] = n /\ add[T] = t /\ add[A] = e
  BY <1>3, <1>5, <1>6, <1>8 DEF @@
<1>10. Journal(P) = add
  BY <1>1, <1>2, <1>4, <1>6 DEF Journal, Total, SumIn
<1> QED
  BY <1>1, <1>2, <1>9, <1>10 DEF Journalled

LEMMA JournalBalances ==
  ASSUME PayrollInv, NEW P \in SUBSET SlipsIn(db), NEW add, Journalled(add, P)
  PROVE  /\ DOMAIN add \subseteq DOMAIN sums /\ \A k \in DOMAIN add : add[k] \in Int
         /\ SumFunctionOnSet(add, DOMAIN add) = 0
<1>1. PICK S, Y, T, A : S = Account("SALARY") /\ Y = Account("PAYABLE") /\ T = Account("TAX") /\ A = Account("ADVANCE")
  OBVIOUS
<1>2. S \notin {Y, T, A} /\ Y \notin {T, A} /\ T # A
  BY <1>1, AccountsDiffer
<1>3. PICK g, n, t, e \in Int :
        /\ g = SumIn(db, P, "gross") /\ n = SumIn(db, P, "net") /\ t = SumIn(db, P, "tax") /\ e = SumIn(db, P, "emi")
        /\ g = n + t + e
  BY SlipsBalance
<1>4. DOMAIN add = {S, Y, T, A} /\ add[S] = g /\ add[Y] = -n /\ add[T] = -t /\ add[A] = -e
  BY <1>1, <1>3 DEF Journalled
<1>5. add[S] \in Int /\ add[Y] \in Int /\ add[T] \in Int /\ add[A] \in Int
  BY <1>4
<1>6. SumFunctionOnSet(add, {S, Y, T, A}) = (add[S] + add[Y]) + (add[T] + add[A])
  <2>1. S # Y /\ T # A /\ {S, Y} \cap {T, A} = {}
    BY <1>2
  <2> HIDE <1>1, <1>2, <1>3, <1>4
  <2> QED
    BY <1>5, <2>1, SumFour
<1>7. (g + (-n)) + ((-t) + (-e)) = 0
  BY <1>3
<1>8. SumFunctionOnSet(add, DOMAIN add) = 0
  BY <1>4, <1>6, <1>7
<1>9. {S, Y, T, A} \subseteq DOMAIN sums
  BY <1>1, PayFacts DEF PayAccounts
<1> QED
  BY <1>4, <1>5, <1>8, <1>9

\* Drafts P are submitted.
LEMMA SubmittingKeeps ==
  ASSUME PayrollInv, NEW P \in SUBSET SlipsIn(db), \A p \in P : db[p].status = "DRAFT",
         NEW put, DOMAIN put \subseteq DOMAIN db, P \subseteq DOMAIN put,
         \A p \in P : Of("EXTRA", "slip", p) \subseteq DOMAIN put,
         \A d \in DOMAIN put : SubmittedRow(P, d, put[d])
  PROVE  KeepsPayroll(put, Journal(P))
<1>1. PICK rows, add, books : rows = Result(put) /\ add = Journal(P) /\ books = Posted(add)
  OBVIOUS
<1>2. \A d \in DOMAIN db \ DOMAIN put : rows[d] = db[d]
  BY <1>1, ResultElsewhere
<1>3. ASSUME NEW d \in DOMAIN put
      PROVE  /\ DOMAIN rows[d] = DOMAIN put[d] \cup DOMAIN db[d]
             /\ \A c \in DOMAIN put[d] : rows[d][c] = put[d][c]
             /\ \A c \in DOMAIN db[d] \ DOMAIN put[d] : rows[d][c] = db[d][c]
  <2>1. d \in DOMAIN db \cap DOMAIN put
    OBVIOUS
  <2> QED
    BY <1>1, <2>1, ResultColumns
<1>4. P \subseteq Rows("SLIP") /\ P \cap PaidSlipsIn(db) = {}
  BY DEF SlipsIn, PaidSlipsIn
<1>5. \A d \in DOMAIN db : d[1] \in {"LEAVE", "EMP", "CLAIM"} => rows[d] = db[d]
  <2>1. \A d \in DOMAIN put : d[1] \in {"BATCH", "SLIP", "EXTRA", "ADV"}
    BY <1>4 DEF SubmittedRow, Of, Live, Rows
  <2> QED
    BY <1>2, <2>1
<1>6. \A p \in Rows("SLIP") \ P : rows[p] = db[p]
  <2>1. \A p \in Rows("SLIP") \ P : p \notin DOMAIN put
    BY DEF SubmittedRow, Of, Live, Rows
  <2> QED
    BY <1>2, <2>1 DEF Rows
<1>7. ASSUME NEW p \in P
      PROVE  /\ PaySlip(rows[p]) /\ rows[p].status = "SUBMITTED"
             /\ \A c \in {"emp", "from", "to", "gross", "net", "emi"} : rows[p][c] = db[p][c]
  <2>1. put[p] = [status |-> "SUBMITTED"]
    BY <1>4 DEF SubmittedRow, Of, Live, Rows
  <2>2. PaySlip(db[p])
    BY PayFacts
  <2>3. PICK new, old, row : new = rows[p] /\ old = db[p] /\ row = put[p]
    OBVIOUS
  <2>4. DOMAIN row = {"status"} /\ row.status = "SUBMITTED"
    BY <2>1, <2>3
  <2>5. DOMAIN new = DOMAIN row \cup DOMAIN old /\ (\A c \in DOMAIN row : new[c] = row[c]) /\ \A c \in DOMAIN old \ DOMAIN row : new[c] = old[c]
    BY <1>3, <2>3
  <2>6. PaySlip(new) /\ new.status = "SUBMITTED" /\ \A c \in {"emp", "from", "to", "gross", "net", "emi"} : new[c] = old[c]
    BY <2>2, <2>3, <2>4, <2>5 DEF PaySlip
  <2> QED
    BY <2>3, <2>6
<1>8. SlipsIn(rows) = SlipsIn(db)
  <2>1. \A p \in P : rows[p] # NoRow
    BY <1>7, NoRowColumns
  <2> QED
    BY <1>6, <2>1 DEF SlipsIn
<1>9. PaidSlipsIn(rows) = PaidSlipsIn(db) \cup P
  <2>1. \A p \in SlipsIn(db) \ P : rows[p] = db[p]
    BY <1>6 DEF SlipsIn
  <2> QED
    BY <1>7, <1>8, <2>1 DEF PaidSlipsIn
<1>10. \A p \in SlipsIn(db) : \A c \in {"emp", "from", "to", "gross", "net", "emi"} : rows[p][c] = db[p][c]
  BY <1>6, <1>7 DEF SlipsIn
<1>11. SlipsStand(rows)
  <2>1. SlipsStand(db)
    BY DEF PayrollInv, PayrollStands
  <2>2. \A p \in SlipsIn(db) : PaySlip(rows[p])
    BY <1>6, <1>7, <2>1 DEF SlipsStand, SlipsIn
  <2>3. \A p \in SlipsIn(db) : rows[p].emp = db[p].emp /\ rows[p].from = db[p].from /\ rows[p].to = db[p].to
    BY <1>10
  <2> QED
    BY <1>8, <2>1, <2>2, <2>3 DEF SlipsStand
<1>12. AdditionsStand(rows)
  <2> SUFFICES ASSUME NEW x \in Rows("EXTRA"), rows[x] # NoRow PROVE AdditionStands(rows, x)
    BY DEF AdditionsStand
  <2>1. x \in DOMAIN db /\ x[1] = "EXTRA" /\ x \notin P /\ x \notin Rows("ADV")
    BY <1>4 DEF Rows
  <2>2. CASE x \notin DOMAIN put
    <3>1. rows[x] = db[x]
      BY <1>2, <2>1, <2>2
    <3>2. AdditionStands(db, x)
      BY <3>1 DEF PayrollInv, PayrollStands, AdditionsStand
    <3>3. db[x].slip \notin P
      BY <2>2, <3>1 DEF Of, Live
    <3>4. db[x].slip # NoRef => db[x].slip \in SlipsIn(db) /\ rows[db[x].slip] = db[db[x].slip]
      BY <1>6, <3>2, <3>3 DEF AdditionStands, SlipsIn
    <3> QED
      BY <1>8, <3>1, <3>2, <3>4 DEF AdditionStands
  <2>3. CASE x \in DOMAIN put
    <3>1. PICK p \in P : x \in Of("EXTRA", "slip", p) /\ put[x] = [status |-> "PAID"]
      BY <2>1, <2>3 DEF SubmittedRow, Live
    <3>2. db[x] # NoRow /\ db[x].slip = p
      BY <3>1 DEF Of, Live
    <3>3. Addition(db[x])
      BY <3>2 DEF PayrollInv, PayrollStands, AdditionsStand, AdditionStands
    <3>4. PICK new, old, row : new = rows[x] /\ old = db[x] /\ row = put[x]
      OBVIOUS
    <3>5. DOMAIN row = {"status"} /\ row.status = "PAID"
      BY <3>1, <3>4
    <3>6. DOMAIN new = DOMAIN row \cup DOMAIN old /\ (\A c \in DOMAIN row : new[c] = row[c]) /\ \A c \in DOMAIN old \ DOMAIN row : new[c] = old[c]
      BY <1>3, <2>3, <3>4
    <3>7. Addition(new) /\ new.slip = p /\ new.status = "PAID"
      BY <3>2, <3>3, <3>4, <3>5, <3>6 DEF Addition
    <3>8. p \in SlipsIn(rows) /\ p # NoRef /\ rows[p].status = "SUBMITTED"
      BY <1>4, <1>7, <1>8, PayKinds
    <3>9. /\ Addition(rows[x]) /\ rows[x].slip = p /\ rows[x].status = "PAID"
      BY <3>4, <3>7
    <3> QED
      BY <3>8, <3>9 DEF AdditionStands
  <2> QED
    BY <2>2, <2>3
<1>13. ASSUME NEW a \in Rows("ADV")
       PROVE  \/ rows[a] = db[a]
              \/ /\ a \in Live("ADV") /\ db[a].status = "PAID" /\ Loan(rows[a]) /\ rows[a] # NoRow
                 /\ rows[a].status \in {"PAID", "REPAID"} /\ rows[a]["amount"] = db[a]["amount"]
  <2>1. a \in DOMAIN db /\ a[1] = "ADV" /\ a \notin P
    BY <1>4 DEF Rows
  <2>2. CASE a \notin DOMAIN put
    BY <1>2, <2>1, <2>2
  <2>3. CASE a \in DOMAIN put
    <3>1. /\ a \in Live("ADV") /\ db[a].status = "PAID"
          /\ DOMAIN put[a] = {"repaid", "status"} /\ put[a].repaid \in Int /\ put[a].status \in {"PAID", "REPAID"}
      BY <2>1, <2>3 DEF SubmittedRow, Of, Live, Rows
    <3>2. Loan(db[a])
      BY <3>1, PayFacts
    <3>3. PICK new, old, row : new = rows[a] /\ old = db[a] /\ row = put[a]
      OBVIOUS
    <3>4. DOMAIN new = DOMAIN row \cup DOMAIN old /\ (\A c \in DOMAIN row : new[c] = row[c]) /\ \A c \in DOMAIN old \ DOMAIN row : new[c] = old[c]
      BY <1>3, <2>3, <3>3
    <3>5. Loan(new) /\ new.status \in {"PAID", "REPAID"} /\ new["amount"] = old["amount"]
      BY <3>1, <3>2, <3>3, <3>4 DEF Loan
    <3>6. new # NoRow
      BY <3>5, NoRowColumns
    <3> QED
      BY <3>1, <3>3, <3>5, <3>6
  <2> QED
    BY <2>2, <2>3
<1>14. LoansIn(rows) = LoansIn(db) /\ \A a \in LoansIn(db) : rows[a]["amount"] = db[a]["amount"]
  BY <1>13 DEF LoansIn, Live
<1>15. PayRowsStand(rows)
  <2>1. \A a \in Rows("ADV") : rows[a] # NoRow => Loan(rows[a])
    BY <1>13 DEF PayrollInv, PayrollStands, PayRowsStand
  <2>2. \A d \in Rows("LEAVE") \cup Rows("EMP") \cup Rows("CLAIM") : rows[d] = db[d]
    BY <1>5 DEF Rows
  <2> QED
    BY <2>1, <2>2 DEF PayrollInv, PayrollStands, PayRowsStand
<1>16. Journalled(add, P)
  BY <1>1, JournalColumns
<1>17. PayBooksStand(rows, books)
  <2>1. DOMAIN add \subseteq DOMAIN sums /\ (\A k \in DOMAIN add : add[k] \in Int) /\ SumFunctionOnSet(add, DOMAIN add) = 0
    BY <1>16, JournalBalances
  <2>2. /\ DOMAIN books = DOMAIN sums /\ \A k \in DOMAIN sums : books[k] \in Int /\ sums[k] \in Int
        /\ SumFunctionOnSet(books, DOMAIN sums) = 0
    BY <1>1, <2>1, PostedTotal
  <2>3. \A k \in DOMAIN add : books[k] = sums[k] + add[k]
    BY <1>1, <2>1 DEF Posted
  <2>4. PICK S, Y, A : S = Account("SALARY") /\ Y = Account("PAYABLE") /\ A = Account("ADVANCE")
    OBVIOUS
  <2>5. S \in DOMAIN add /\ Y \in DOMAIN add /\ A \in DOMAIN add
    BY <1>16, <2>4 DEF Journalled
  <2>6. books[S] = sums[S] + add[S] /\ books[Y] = sums[Y] + add[Y] /\ books[A] = sums[A] + add[A]
    BY <2>3, <2>5
  <2>7. sums[S] \in Int /\ sums[Y] \in Int /\ sums[A] \in Int
    BY <2>1, <2>2, <2>5
  <2>8. PICK g, n, e \in Int : g = SumIn(db, P, "gross") /\ n = SumIn(db, P, "net") /\ e = SumIn(db, P, "emi")
    BY SlipsBalance
  <2>9. add[S] = g /\ add[Y] = -n /\ add[A] = -e
    BY <1>16, <2>4, <2>8 DEF Journalled
  <2>10. PICK L : L = {}
    OBVIOUS
  <2>11. SumIn(db, L, "amount") = 0
    BY <2>10, SumInNone
  <2>12. books[S] = sums[S] + g /\ books[Y] = sums[Y] - n /\ books[A] = (sums[A] + 0) - e
    BY <2>6, <2>7, <2>8, <2>9
  <2>13. /\ books[Account("SALARY")] = sums[Account("SALARY")] + SumIn(db, P, "gross")
         /\ books[Account("PAYABLE")] = sums[Account("PAYABLE")] - SumIn(db, P, "net")
         /\ books[Account("ADVANCE")] = sums[Account("ADVANCE")] + SumIn(db, L, "amount") - SumIn(db, P, "emi")
    <3>1. books[Account("SALARY")] = sums[Account("SALARY")] + SumIn(db, P, "gross")
      BY <2>4, <2>8, <2>12
    <3>2. books[Account("PAYABLE")] = sums[Account("PAYABLE")] - SumIn(db, P, "net")
      BY <2>4, <2>8, <2>12
    <3>3. books[Account("ADVANCE")] = sums[Account("ADVANCE")] + SumIn(db, L, "amount") - SumIn(db, P, "emi")
      <4>1. PICK x : x = SumIn(db, L, "amount")
        OBVIOUS
      <4>2. x = 0
        BY <2>11, <4>1
      <4>3. books[A] = sums[A] + (x - e)
        BY <2>7, <2>12, <4>2
      <4>4. books[A] = sums[A] + (SumIn(db, L, "amount") - SumIn(db, P, "emi"))
        BY <2>8, <4>1, <4>3
      <4> QED
        BY <2>4, <4>4
    <3> QED
      BY <3>1, <3>2, <3>3
  <2>14. P \in SUBSET (SlipsIn(db) \ PaidSlipsIn(db)) /\ L \in SUBSET Live("ADV")
    BY <1>4, <2>10
  <2>15. L \cap LoansIn(db) = {} /\ LoansIn(rows) = LoansIn(db) \cup L
    BY <1>14, <2>10
  <2>16. \A p \in PaidSlipsIn(rows) : \A c \in {"gross", "net", "emi"} : rows[p][c] = db[p][c]
    BY <1>9, <1>10 DEF PaidSlipsIn
  <2>17. \A a \in LoansIn(rows) : rows[a]["amount"] = db[a]["amount"]
    BY <1>14
  <2>18. \A k \in DOMAIN sums : books[k] \in Int
    BY <2>2
  <2> QED
    BY <1>9, <2>2, <2>13, <2>14, <2>15, <2>16, <2>17, <2>18, PayBooksAfter
<1> QED
  BY <1>1, <1>11, <1>12, <1>15, <1>17 DEF KeepsPayroll, PayrollStands

\* What put stages when one slip is submitted.
SubmitsInto(put, slip) ==
  /\ DOMAIN put \subseteq DOMAIN db /\ slip \in DOMAIN put /\ Of("EXTRA", "slip", slip) \subseteq DOMAIN put
  /\ \A d \in DOMAIN put : d[1] \in {"SLIP", "EXTRA", "ADV"} /\ SubmittedRow({slip}, d, put[d])

LEMMA SubmittedColumns ==
  ASSUME PayrollInv, NEW slip \in Live("SLIP")
  PROVE  SubmitsInto(Submitted(slip), slip)
<1>1. PICK extras, emp, open, adv :
        extras = Of("EXTRA", "slip", slip) /\ emp = db[slip].emp /\ open = OpenAdvances(emp) /\ adv = ActiveAdvance(emp)
  OBVIOUS
<1>2. PICK paid : paid = db[adv].repaid + db[slip].emi
  OBVIOUS
<1>3. PICK row : row = [repaid |-> paid, status |-> IF paid >= db[adv].amount THEN "REPAID" ELSE "PAID"]
  OBVIOUS
<1>4. PICK a, b, c :
        /\ a = slip :> [status |-> "SUBMITTED"] /\ b = [x \in extras |-> [status |-> "PAID"]]
        /\ c = IF db[slip].emi > 0 /\ open # {} THEN adv :> row ELSE Nothing
  OBVIOUS
<1>5. PICK ab, put : ab = a @@ b /\ put = ab @@ c
  OBVIOUS
<1>6. Submitted(slip) = put
  BY <1>1, <1>2, <1>3, <1>4, <1>5 DEF Submitted
<1>7. DOMAIN a = {slip} /\ a[slip] = [status |-> "SUBMITTED"]
  BY <1>4, OneRow
<1>8. DOMAIN b = extras /\ \A x \in extras : b[x] = [status |-> "PAID"]
  BY <1>4
<1>9. /\ slip \in DOMAIN db /\ slip[1] = "SLIP"
      /\ \A x \in extras : x \in DOMAIN db /\ x[1] = "EXTRA"
  BY <1>1 DEF Of, Live, Rows
<1>10. \A d \in DOMAIN c : d = adv /\ c[d] = row /\ open # {}
  <2>1. DOMAIN (adv :> row) = {adv} /\ (adv :> row)[adv] = row
    BY OneRow
  <2> QED
    BY <1>4, <2>1, NothingIsEmpty
<1>11. ASSUME open # {}
       PROVE  /\ adv \in Live("ADV") /\ adv \in DOMAIN db /\ adv[1] = "ADV" /\ db[adv].status = "PAID"
              /\ DOMAIN row = {"repaid", "status"} /\ row.repaid \in Int /\ row.status \in {"PAID", "REPAID"}
  <2>1. adv \in OpenAdvances(emp) /\ adv \in Live("ADV")
    BY <1>1, <1>11, OldestAdvance
  <2>2. adv \in DOMAIN db /\ adv[1] = "ADV" /\ db[adv].status = "PAID"
    BY <2>1 DEF OpenAdvances, Live, Rows, Status
  <2>3. Loan(db[adv]) /\ PaySlip(db[slip])
    BY <2>1, PayFacts DEF SlipsIn, Live
  <2>4. paid \in Int
    BY <1>2, <2>3 DEF Loan, PaySlip
  <2> QED
    BY <1>3, <2>1, <2>2, <2>4
<1>12. DOMAIN ab = {slip} \cup extras /\ ab[slip] = a[slip] /\ \A x \in extras : ab[x] = b[x]
  BY <1>5, <1>7, <1>8, <1>9 DEF @@
<1>13. DOMAIN put = DOMAIN ab \cup DOMAIN c /\ (\A d \in DOMAIN ab : put[d] = ab[d]) /\ \A d \in DOMAIN c \ DOMAIN ab : put[d] = c[d]
  BY <1>5 DEF @@
<1>14. ASSUME NEW d \in DOMAIN put
       PROVE  d \in DOMAIN db /\ d[1] \in {"SLIP", "EXTRA", "ADV"} /\ SubmittedRow({slip}, d, put[d])
  <2>1. CASE d = slip
    BY <1>7, <1>9, <1>12, <1>13, <2>1 DEF SubmittedRow
  <2>2. CASE d \in extras
    BY <1>1, <1>8, <1>9, <1>12, <1>13, <2>2 DEF SubmittedRow
  <2>3. CASE d \in DOMAIN c \ DOMAIN ab
    <3>1. d = adv /\ put[d] = row /\ open # {}
      BY <1>10, <1>13, <2>3
    <3> QED
      BY <1>11, <3>1 DEF SubmittedRow
  <2> QED
    BY <1>12, <1>13, <2>1, <2>2, <2>3
<1>15. SubmitsInto(put, slip)
  BY <1>1, <1>12, <1>13, <1>14 DEF SubmitsInto
<1> QED
  BY <1>6, <1>15

LEMMA SubmitSalarySlipKeeps ==
  ASSUME PayrollInv, NEW s \in Sessions, NEW slip \in Live("SLIP"), SubmitSalarySlip(s, slip)
  PROVE  PayrollInv'
<1> HIDE DEF Sessions
<1>1. Status(slip) = "DRAFT" /\ Stage(s, Submitted(slip), Journal({slip}), {})
  BY DEF SubmitSalarySlip, CanSubmit
<1>2. PICK P, put : P = {slip} /\ put = Submitted(slip)
  OBVIOUS
<1>3. SubmitsInto(Submitted(slip), slip)
  BY SubmittedColumns
<1>4. SubmitsInto(put, slip)
  BY <1>2, <1>3
<1>5. P \in SUBSET SlipsIn(db) /\ \A p \in P : db[p].status = "DRAFT"
  BY <1>1, <1>2 DEF SlipsIn, Live, Status
<1>6. DOMAIN put \subseteq DOMAIN db /\ P \subseteq DOMAIN put
  BY <1>2, <1>4 DEF SubmitsInto
<1>7. \A p \in P : Of("EXTRA", "slip", p) \subseteq DOMAIN put
  BY <1>2, <1>4 DEF SubmitsInto
<1>8. \A d \in DOMAIN put : SubmittedRow(P, d, put[d])
  BY <1>2, <1>4 DEF SubmitsInto
<1>9. KeepsPayroll(put, Journal(P))
  BY <1>5, <1>6, <1>7, <1>8, SubmittingKeeps
<1>10. Stage(s, put, Journal(P), {})
  BY <1>1, <1>2
<1> QED
  BY <1>9, <1>10, StageKeepsPayroll

LEMMA SubmitBatchPayrollKeeps ==
  ASSUME PayrollInv, NEW s \in Sessions, NEW batch \in Rows("BATCH"), SubmitBatchPayroll(s, batch)
  PROVE  PayrollInv'
<1> HIDE DEF Sessions
<1>1. PICK P : P = {p \in Live("SLIP") : /\ Status(p) = "DRAFT"
                                         /\ db[p].from = db[batch].from /\ db[p].to = db[batch].to}
  OBVIOUS
<1> DEFINE all == UNION {DOMAIN Submitted(p) : p \in P}
           owner(d) == CHOOSE p \in P : d \in DOMAIN Submitted(p)
<1>2. PICK first, rest, put :
        /\ first = batch :> [status |-> "SUBMITTED"]
        /\ rest = [d \in all |-> Submitted(owner(d))[d]]
        /\ put = rest @@ first
  OBVIOUS
<1>3. Stage(s, put, Journal(P), {})
  BY <1>1, <1>2 DEF SubmitBatchPayroll
<1>4. P \in SUBSET SlipsIn(db) /\ (\A p \in P : db[p].status = "DRAFT") /\ P \subseteq Live("SLIP")
  BY <1>1 DEF SlipsIn, Live, Status
<1>5. ASSUME NEW p \in P
      PROVE  SubmitsInto(Submitted(p), p)
  <2>1. p \in Live("SLIP")
    BY <1>4
  <2> QED
    BY <2>1, SubmittedColumns
<1>6. \A d \in all : owner(d) \in P /\ d \in DOMAIN Submitted(owner(d))
  OBVIOUS
<1>7. ASSUME NEW d \in all
      PROVE  d \in DOMAIN db /\ d[1] \in {"SLIP", "EXTRA", "ADV"} /\ SubmittedRow(P, d, rest[d])
  <2>1. PICK p, one : p = owner(d) /\ one = Submitted(p)
    OBVIOUS
  <2>2. p \in P /\ d \in DOMAIN one /\ rest[d] = one[d]
    BY <1>2, <1>6, <2>1
  <2> HIDE DEF owner, all
  <2>3. SubmitsInto(one, p)
    BY <1>5, <2>1, <2>2
  <2>4. d \in DOMAIN db /\ d[1] \in {"SLIP", "EXTRA", "ADV"} /\ SubmittedRow({p}, d, one[d])
    BY <2>2, <2>3 DEF SubmitsInto
  <2>5. SubmittedRow(P, d, one[d])
    BY <2>2, <2>4 DEF SubmittedRow
  <2> QED
    BY <2>2, <2>4, <2>5
<1>8. ASSUME NEW p \in P
      PROVE  p \in all /\ Of("EXTRA", "slip", p) \subseteq all
  <2>1. PICK one : one = Submitted(p)
    OBVIOUS
  <2>2. SubmitsInto(one, p)
    BY <1>5, <2>1
  <2>3. p \in DOMAIN one /\ Of("EXTRA", "slip", p) \subseteq DOMAIN one
    BY <2>2 DEF SubmitsInto
  <2>4. DOMAIN one \subseteq all
    BY <2>1
  <2> QED
    BY <2>3, <2>4
<1>9. DOMAIN first = {batch} /\ DOMAIN rest = all
  BY <1>2, OneRow
<1> HIDE DEF owner, all
<1>10. DOMAIN put = all \cup {batch} /\ \A d \in all : put[d] = rest[d]
  BY <1>2, <1>9 DEF @@
<1>11. batch[1] = "BATCH" /\ batch \in DOMAIN db
  BY DEF Rows
<1>12. DOMAIN put \subseteq DOMAIN db /\ P \subseteq DOMAIN put /\ \A p \in P : Of("EXTRA", "slip", p) \subseteq DOMAIN put
  BY <1>7, <1>8, <1>10, <1>11
<1>13. \A d \in DOMAIN put : SubmittedRow(P, d, put[d])
  <2>1. \A row : SubmittedRow(P, batch, row)
    BY <1>11 DEF SubmittedRow
  <2> QED
    BY <1>7, <1>10, <2>1
<1>14. KeepsPayroll(put, Journal(P))
  BY <1>4, <1>12, <1>13, SubmittingKeeps
<1> QED
  BY <1>3, <1>14, StageKeepsPayroll

-----------------------------------------------------------------------------
(* Payroll: every step *)

LEMMA PayrollStep ==
  ASSUME PayrollInv, NEW s \in Sessions, PayrollHandlers(s, AnyPayroll)
  PROVE  PayrollInv'
<1> HIDE DEF Sessions
<1>1. CASE \E att \in Rows("ATT"), status \in {"PRESENT", "ABSENT"} : MarkAttendance(s, att[2], status)
  <2>1. PICK att \in Rows("ATT"), status \in {"PRESENT", "ABSENT"} : MarkAttendance(s, att[2], status)
    BY <1>1
  <2>2. PICK d, r : d = <<"ATT", att[2]>> /\ r = [status |-> status]
    OBVIOUS
  <2>3. Stage(s, d :> r, Nothing, {})
    BY <2>1, <2>2 DEF MarkAttendance
  <2>4. d \in Rows("ATT")
    BY <2>2 DEF PayrollInv, PayTables
  <2> QED
    BY <2>3, <2>4, PlainHandlersKeep
<1>2. CASE \E a \in Rows("ALLOC"), total \in AnyPayroll.grants : AllocateLeaves(s, a, total)
  BY <1>2, PlainHandlersKeep DEF AllocateLeaves
<1>3. CASE \E l \in Rows("LEAVE") :
             \/ \E r \in AnyPayroll.leaves, lwp \in BOOLEAN : Fresh(l) /\ SubmitLeaveApplication(s, l, r[1], r[2], lwp)
             \/ db[l] # NoRow /\ (ApproveLeaveApplication(s, l) \/ RejectLeaveApplication(s, l))
  <2>1. PICK l \in Rows("LEAVE") :
          \/ \E r \in AnyPayroll.leaves, lwp \in BOOLEAN : Fresh(l) /\ SubmitLeaveApplication(s, l, r[1], r[2], lwp)
          \/ db[l] # NoRow /\ (ApproveLeaveApplication(s, l) \/ RejectLeaveApplication(s, l))
    BY <1>3
  <2>2. ASSUME NEW r \in AnyPayroll.leaves, NEW lwp \in BOOLEAN, Fresh(l), SubmitLeaveApplication(s, l, r[1], r[2], lwp)
        PROVE  PayrollInv'
    <3>1. PICK from, to : from = r[1] /\ to = r[2]
      OBVIOUS
    <3>2. from \in Int /\ to \in Int
      BY <3>1 DEF AnyPayroll
    <3>3. Stage(s, l :> [status |-> "SUBMITTED", from |-> from, to |-> to, lwp |-> lwp], Nothing, {})
      BY <2>2, <3>1 DEF SubmitLeaveApplication
    <3> QED
      BY <2>2, <3>2, <3>3, PlainHandlersKeep
  <2>3. ASSUME db[l] # NoRow, ApproveLeaveApplication(s, l) \/ RejectLeaveApplication(s, l) PROVE PayrollInv'
    <3>1. \E status \in {"APPROVED", "REJECTED"} : Stage(s, l :> [status |-> status], Nothing, {})
      BY <2>3 DEF ApproveLeaveApplication, RejectLeaveApplication
    <3> QED
      BY <2>3, <3>1, PlainHandlersKeep
  <2> QED
    BY <2>1, <2>2, <2>3
<1>4. ASSUME NEW emp \in Live("EMP"), NEW adv \in Rows("ADV"), NEW r \in AnyPayroll.loans,
             Fresh(adv), CreateEmployeeAdvance(s, adv, emp, r[1], r[2])
      PROVE  PayrollInv'
  <2>1. PICK amount, monthly : amount = r[1] /\ monthly = r[2]
    OBVIOUS
  <2>2. amount \in Nat /\ monthly \in Nat
    BY <2>1 DEF AnyPayroll
  <2>3. CreateEmployeeAdvance(s, adv, emp, amount, monthly)
    BY <1>4, <2>1
  <2> QED
    BY <1>4, <2>2, <2>3, PlainHandlersKeep
<1>5. ASSUME NEW emp \in Live("EMP"), NEW x \in Rows("EXTRA"), NEW r \in AnyPayroll.extras, NEW bonus \in BOOLEAN,
             Fresh(x), CreateAdditionalSalary(s, x, emp, r[1], r[2], bonus)
      PROVE  PayrollInv'
  <2>1. PICK day, amount : day = r[1] /\ amount = r[2]
    OBVIOUS
  <2>2. day \in Int /\ amount \in Nat
    BY <2>1 DEF AnyPayroll
  <2>3. CreateAdditionalSalary(s, x, emp, day, amount, bonus)
    BY <1>5, <2>1
  <2> QED
    BY <1>5, <2>2, <2>3, PlainHandlersKeep
<1>6. ASSUME NEW emp \in Live("EMP"), NEW slip \in Rows("SLIP"), NEW r \in AnyPayroll.spans,
             Fresh(slip), GenerateSalarySlip(s, slip, emp, r[1], r[2])
      PROVE  PayrollInv'
  <2>1. PICK from, to : from = r[1] /\ to = r[2]
    OBVIOUS
  <2>2. from \in Int /\ to \in Int
    BY <2>1 DEF AnyPayroll
  <2>3. GenerateSalarySlip(s, slip, emp, from, to)
    BY <1>6, <2>1
  <2> QED
    BY <1>6, <2>2, <2>3, GenerateSalarySlipKeeps
<1>7. ASSUME NEW p \in Rows("PERIOD"), (\E r \in AnyPayroll.periods : Fresh(p) /\ CreatePayrollPeriod(s, p, r[1], r[2]))
                                      \/ (db[p] # NoRow /\ ClosePayrollPeriod(s, p))
      PROVE  PayrollInv'
  <2>1. \E r : Stage(s, p :> r, Nothing, {})
    BY <1>7 DEF CreatePayrollPeriod, ClosePayrollPeriod
  <2>2. \E d \in Rows("ATT") \cup Rows("ALLOC") \cup Rows("PERIOD") : \E r : Stage(s, d :> r, Nothing, {})
    BY <2>1
  <2> QED
    BY <2>2, PlainHandlersKeep
<1>8. ASSUME NEW batch \in Rows("BATCH"), NEW r \in AnyPayroll.spans,
             NEW slipOf \in Injection(Live("EMP"), {p \in Rows("SLIP") : db[p] = NoRow}),
             CreateBatchPayroll(s, batch, r[1], r[2], slipOf)
      PROVE  PayrollInv'
  <2>1. PICK from, to : from = r[1] /\ to = r[2]
    OBVIOUS
  <2>2. from \in Int /\ to \in Int
    BY <2>1 DEF AnyPayroll
  <2>3. CreateBatchPayroll(s, batch, from, to, slipOf)
    BY <1>8, <2>1
  <2>4. \A e \in Live("EMP") : slipOf[e] \in Rows("SLIP") /\ db[slipOf[e]] = NoRow
    BY DEF Injection, IsInjective
  <2>5. \A e, f \in Live("EMP") : slipOf[e] = slipOf[f] => e = f
    BY DEF Injection, IsInjective
  <2> QED
    BY <2>2, <2>3, <2>4, <2>5, CreateBatchPayrollKeeps
<1> QED
  <2>1. CASE \E emp \in Live("EMP") :
               \/ \E adv \in Rows("ADV"), r \in AnyPayroll.loans : Fresh(adv) /\ CreateEmployeeAdvance(s, adv, emp, r[1], r[2])
               \/ \E x \in Rows("EXTRA"), r \in AnyPayroll.extras, bonus \in BOOLEAN :
                    Fresh(x) /\ CreateAdditionalSalary(s, x, emp, r[1], r[2], bonus)
               \/ \E slip \in Rows("SLIP"), r \in AnyPayroll.spans : Fresh(slip) /\ GenerateSalarySlip(s, slip, emp, r[1], r[2])
    BY <1>4, <1>5, <1>6, <2>1
  <2>2. CASE \E adv \in Live("ADV") : ApproveAndDisburseAdvance(s, adv)
    BY <2>2, ApproveAndDisburseAdvanceKeeps
  <2>3. CASE \E claim \in Live("CLAIM") : ReimburseExpenseClaim(s, claim)
    BY <2>3, ReimburseExpenseClaimKeeps
  <2>4. CASE \E p \in Rows("PERIOD") :
               \/ \E r \in AnyPayroll.periods : Fresh(p) /\ CreatePayrollPeriod(s, p, r[1], r[2])
               \/ db[p] # NoRow /\ ClosePayrollPeriod(s, p)
    BY <1>7, <2>4
  <2>5. CASE \E slip \in Live("SLIP") : SubmitSalarySlip(s, slip)
    BY <2>5, SubmitSalarySlipKeeps
  <2>6. CASE \E batch \in Rows("BATCH"), r \in AnyPayroll.spans,
                slipOf \in Injection(Live("EMP"), {p \in Rows("SLIP") : db[p] = NoRow}) :
                  CreateBatchPayroll(s, batch, r[1], r[2], slipOf)
    BY <1>8, <2>6
  <2>7. CASE \E batch \in Rows("BATCH") : SubmitBatchPayroll(s, batch)
    BY <2>7, SubmitBatchPayrollKeeps
  <2> QED
    BY <1>1, <1>2, <1>3, <2>1, <2>2, <2>3, <2>4, <2>5, <2>6, <2>7 DEF PayrollHandlers

LEMMA PayrollStart ==
  ASSUME PayrollComplete, PayrollAgrees, OneSession, \A s \in Sessions : Free(s)
  PROVE  PayrollInv
<1> HIDE DEF Sessions
<1>1. PayTables
  BY DEF PayrollComplete, PayTables, PayAccounts
<1>2. SlipsIn(db) = Live("SLIP") /\ PaidSlipsIn(db) = SubmittedSlips
  BY DEF SlipsIn, PaidSlipsIn, SubmittedSlips, Live, Status
<1>3. LoansIn(db) = {a \in Live("ADV") : Status(a) # "PENDING"}
  BY DEF LoansIn, Live, Status
<1>4. SlipsStand(db)
  BY <1>2 DEF SlipsStand, PayrollComplete, PayrollAgrees, EachDayPaidOnce, Overlap
<1>5. AdditionsStand(db)
  <2> SUFFICES ASSUME NEW x \in Live("EXTRA") PROVE AdditionStands(db, x)
    BY DEF AdditionsStand, Live
  <2>1. Addition(db[x]) /\ (db[x].slip # NoRef => db[x].slip \in SlipsIn(db))
    BY <1>2 DEF PayrollComplete
  <2>2. /\ (db[x].slip = NoRef) = (db[x].status = "PENDING")
        /\ (db[x].status = "PAID") = (db[x].slip # NoRef /\ db[db[x].slip].status = "SUBMITTED")
    BY DEF PayrollAgrees, EachDayPaidOnce, Status
  <2> QED
    BY <2>1, <2>2 DEF AdditionStands
<1>6. PayRowsStand(db)
  BY DEF PayRowsStand, PayrollComplete, Live
<1>7. PayBooksStand(db, sums)
  <2>1. \A a \in {"SALARY", "PAYABLE", "ADVANCE"} : Account(a) \in DOMAIN sums
    BY <1>1 DEF PayTables, PayAccounts
  <2>2. \A k \in DOMAIN sums : sums[k] \in Int
    BY DEF PayrollComplete
  <2>3. PayrollPosted
    BY DEF PayrollAgrees
  <2>4. /\ sums[Account("SALARY")] = SumIn(db, PaidSlipsIn(db), "gross")
        /\ sums[Account("PAYABLE")] = -SumIn(db, PaidSlipsIn(db), "net")
        /\ sums[Account("ADVANCE")] = SumIn(db, LoansIn(db), "amount") - SumIn(db, PaidSlipsIn(db), "emi")
        /\ SumFunctionOnSet(sums, DOMAIN sums) = 0
    BY <1>2, <1>3, <2>1, <2>3 DEF PayrollPosted, Book, Total, SumIn
  <2> QED
    BY <2>2, <2>4 DEF PayBooksStand
<1>8. \A s \in Sessions : req[s] = Idle
  BY DEF Free
<1> QED
  BY <1>1, <1>4, <1>5, <1>6, <1>7, <1>8 DEF PayrollInv, PayrollStands

LEMMA PayrollInvAgrees == ASSUME PayrollInv PROVE PayrollAgrees
<1>1. SlipsIn(db) = Live("SLIP") /\ PaidSlipsIn(db) = SubmittedSlips
  BY DEF SlipsIn, PaidSlipsIn, SubmittedSlips, Live, Status
<1>2. LoansIn(db) = {a \in Live("ADV") : Status(a) # "PENDING"}
  BY DEF LoansIn, Live, Status
<1>3. EachDayPaidOnce
  <2>1. \A p, q \in Live("SLIP") : p # q /\ db[p].emp = db[q].emp => ~Overlap(p, db[q].from, db[q].to)
    BY <1>1 DEF PayrollInv, PayrollStands, SlipsStand, Overlap
  <2>2. ASSUME NEW x \in Live("EXTRA")
        PROVE  /\ (db[x].slip = NoRef) = (Status(x) = "PENDING")
               /\ (Status(x) = "PAID") = (db[x].slip # NoRef /\ Status(db[x].slip) = "SUBMITTED")
    <3>1. AdditionStands(db, x)
      BY DEF PayrollInv, PayrollStands, AdditionsStand, Live
    <3> QED
      BY <3>1 DEF AdditionStands, Status
  <2> QED
    BY <2>1, <2>2 DEF EachDayPaidOnce
<1>4. PayrollPosted
  <2>1. PayBooksStand(db, sums)
    BY DEF PayrollInv, PayrollStands
  <2>2. \A a \in {"SALARY", "PAYABLE", "ADVANCE"} : Account(a) \in DOMAIN sums
    BY DEF PayrollInv, PayTables, PayAccounts
  <2> QED
    BY <1>1, <1>2, <2>1, <2>2 DEF PayrollPosted, PayBooksStand, Book, Total, SumIn
<1> QED
  BY <1>3, <1>4 DEF PayrollAgrees

\* The invariant that payroll rests on holds whatever spans, loans and
\* amounts are asked for, when one request runs at a time.
THEOREM PayrollInvariance == PayrollSpec /\ OneSession => []PayrollInv
<1>1. PayrollSpec /\ OneSession => PayrollInv
  BY PayrollStart DEF PayrollSpec
<1>2. PayrollInv /\ [\E s \in Sessions : EndOfRequest(s) \/ PayrollHandlers(s, AnyPayroll)]_vars => PayrollInv'
  <2> SUFFICES ASSUME PayrollInv, [\E s \in Sessions : EndOfRequest(s) \/ PayrollHandlers(s, AnyPayroll)]_vars
               PROVE  PayrollInv'
    OBVIOUS
  <2>1. ASSUME NEW s \in Sessions, EndOfRequest(s) PROVE PayrollInv'
    BY <2>1, CommitKeepsPayroll, RollbackKeepsPayroll DEF EndOfRequest
  <2>2. ASSUME NEW s \in Sessions, PayrollHandlers(s, AnyPayroll) PROVE PayrollInv'
    BY <2>2, PayrollStep
  <2>3. CASE UNCHANGED vars
    BY <2>3, IdlePayroll
  <2> QED
    BY <2>1, <2>2, <2>3
<1> QED
  BY <1>1, <1>2, PTL DEF PayrollSpec

\* Every day is paid once and every journal of the payroll is in the ledger.
THEOREM DaysPaidOnce == PayrollSpec /\ OneSession => []PayrollAgrees
<1>1. PayrollInv => PayrollAgrees
  BY PayrollInvAgrees
<1> QED
  BY <1>1, PayrollInvariance, PTL

-----------------------------------------------------------------------------
(* Payables: what overlapping requests keep up *)

\* The receipts and invoices of an order, among any rows.
ReceiptsOf(rows, po) == {g \in Rows("GRN") : rows[g] # NoRow /\ rows[g].po = po}
BillsOf(rows, po) == {i \in Rows("SINV") : rows[i] # NoRow /\ rows[i].po = po}
QtyReceived(rows, po) == SumIn(rows, ReceiptsOf(rows, po), "qty")
LiveOrder(rows, po) == po \in Rows("PO") /\ rows[po] # NoRow

\* The order is open exactly while something is missing of q units received.
OrderStands(row, q) ==
  /\ Ordered(row)
  /\ q <= row.qty + row.over
  /\ (row.status = "COMPLETED") = (q >= row.qty)

OrdersStand(rows) == \A po \in Rows("PO") : rows[po] # NoRow => OrderStands(rows[po], QtyReceived(rows, po))

GoodsStand(rows) == \A g \in Rows("GRN") : rows[g] # NoRow => ReceiptRow(rows[g]) /\ LiveOrder(rows, rows[g].po)

Bill(row) == {"status", "po", "qty"} \subseteq DOMAIN row

\* The invoice is covered by one receipt of its order.
CoveredByReceipt(rows, po, q) == \E g \in ReceiptsOf(rows, po) : q <= rows[g].qty

BillsStand(rows) ==
  \A i \in Rows("SINV") :
    rows[i] # NoRow =>
      /\ Bill(rows[i])
      /\ LiveOrder(rows, rows[i].po) /\ rows[i].qty = rows[rows[i].po].qty
      /\ \A j \in BillsOf(rows, rows[i].po) : i = j
      /\ rows[i].status = "MATCHED" => CoveredByReceipt(rows, rows[i].po, rows[i].qty)

Voucher(row) ==
  {"status", "charges", "share"} \subseteq DOMAIN row /\ SumFunctionOnSet(row.share, DOMAIN row.share) = row.charges

Marks(row) == {"status", "quality", "rejected"} \subseteq DOMAIN row /\ (row.rejected > 0 => row.quality < 100)

VouchersStand(rows) == \A l \in Rows("LCV") : rows[l] # NoRow => Voucher(rows[l])
MarksStand(rows) == \A c \in Rows("SCORE") : rows[c] # NoRow => Marks(rows[c])

SupplyStands(rows) ==
  OrdersStand(rows) /\ GoodsStand(rows) /\ BillsStand(rows) /\ VouchersStand(rows) /\ MarksStand(rows)

\* A row as it is once the columns put are written over rows; the rows that
\* put inserts and the ones it updates.
Over(rows, put, d) == IF d \in DOMAIN put THEN put[d] @@ rows[d] ELSE rows[d]
Inserts(rows, put) == {d \in DOMAIN put : rows[d] = NoRow}
Updates(rows, put) == {d \in DOMAIN put : rows[d] # NoRow}

\* A receipt of an order that the request has locked, with the new status of
\* the order.
NewReceipt(rows, put, locks, g) ==
  LET r == Over(rows, put, g) IN
  /\ ReceiptRow(r)
  /\ LiveOrder(rows, r.po) /\ r.po \in locks
  /\ OrderStands(Over(rows, put, r.po), QtyReceived(rows, r.po) + r.qty)
  /\ \A h \in Rows("GRN") \cap Inserts(rows, put) : h = g

\* What an inspection of a locked receipt writes.
Inspects(rows, put, locks, g) ==
  LET r == Over(rows, put, g) IN
  g \in locks /\ ReceiptRow(r) /\ r.po = rows[g].po /\ r.qty = rows[g].qty

\* An invoice for all of a locked order, the first one for it.
NewBill(rows, put, locks, i) ==
  LET r == Over(rows, put, i) IN
  /\ Bill(r)
  /\ LiveOrder(rows, r.po) /\ r.po \in locks /\ r.qty = rows[r.po].qty
  /\ BillsOf(rows, r.po) = {} /\ r.status # "MATCHED"
  /\ \A j \in Rows("SINV") \cap Inserts(rows, put) : i = j

\* The outcome of a match, which locks nothing.
Matched(rows, put, i) ==
  /\ DOMAIN put[i] \subseteq {"status"}
  /\ "status" \in DOMAIN put[i] /\ put[i].status = "MATCHED" => CoveredByReceipt(rows, rows[i].po, rows[i].qty)

WritesOrder(rows, put, locks, po) ==
  /\ po \in locks /\ rows[po] # NoRow /\ DOMAIN put[po] \subseteq {"status"}
  /\ \E g \in Rows("GRN") \cap Inserts(rows, put) : Over(rows, put, g).po = po

WritesReceipts(rows, put, locks) ==
  /\ \A po \in Rows("PO") \cap DOMAIN put : WritesOrder(rows, put, locks, po)
  /\ \A g \in Rows("GRN") \cap Inserts(rows, put) : NewReceipt(rows, put, locks, g)
  /\ \A g \in Rows("GRN") \cap Updates(rows, put) : Inspects(rows, put, locks, g)

WritesBills(rows, put, locks) ==
  /\ \A i \in Rows("SINV") \cap Inserts(rows, put) : NewBill(rows, put, locks, i)
  /\ \A i \in Rows("SINV") \cap Updates(rows, put) : Matched(rows, put, i)

WritesPapers(rows, put) ==
  /\ \A l \in Rows("LCV") \cap Inserts(rows, put) : Voucher(Over(rows, put, l))
  /\ \A l \in Rows("LCV") \cap Updates(rows, put) : DOMAIN put[l] \subseteq {"status"}
  /\ \A c \in Rows("SCORE") \cap DOMAIN put : rows[c] = NoRow /\ Marks(Over(rows, put, c))

GoodSupply(rows, put, locks) ==
  /\ DOMAIN put \subseteq DOMAIN db
  /\ WritesReceipts(rows, put, locks) /\ WritesBills(rows, put, locks) /\ WritesPapers(rows, put)

SupplyTables ==
  /\ \A kind \in {"GRN", "SINV", "DN"} : IsFiniteSet(Rows(kind))
  /\ \A g \in Rows("GRN") : g = <<"GRN", g[2]>> /\ g[2] \in Nat

-----------------------------------------------------------------------------
(* Payables: what a commit does to the rows *)

LEMMA OverColumns == \A rows, put, d : d \in DOMAIN put => Overlaid(Over(rows, put, d), put[d], rows[d])
  BY DEF Over, @@, Overlaid

LEMMA OverElsewhere == \A rows, put, d : d \notin DOMAIN put => Over(rows, put, d) = rows[d]
  BY DEF Over

LEMMA OverIsAfter == \A put, d : Over(db, put, d) = After(put, d)
  BY DEF Over, After

\* The rows of orders after a commit: only the status changes, of locked ones.
OrderKept(rows, locks, po, row) ==
  /\ (rows[po] = NoRow) = (row = NoRow)
  /\ po \notin locks => row = rows[po]
  /\ rows[po] # NoRow => Ordered(row) /\ row.qty = rows[po].qty /\ row.over = rows[po].over

LEMMA OrdersAfter ==
  ASSUME NEW rows, NEW put, NEW locks, WritesReceipts(rows, put, locks), OrdersStand(rows), NEW po \in Rows("PO")
  PROVE  OrderKept(rows, locks, po, Over(rows, put, po))
<1> PICK row : row = Over(rows, put, po)
  OBVIOUS
<1> SUFFICES OrderKept(rows, locks, po, row)
  OBVIOUS
<1> USE DEF OrderKept
<1>1. CASE po \notin DOMAIN put
  BY <1>1, OverElsewhere DEF OrdersStand, OrderStands
<1>2. CASE po \in DOMAIN put
  <2>1. po \in locks /\ rows[po] # NoRow /\ DOMAIN put[po] \subseteq {"status"}
    BY <1>2 DEF WritesReceipts, WritesOrder
  <2>2. PICK new, old : new = put[po] /\ old = rows[po]
    OBVIOUS
  <2>3. Ordered(old)
    BY <2>1, <2>2 DEF OrdersStand, OrderStands
  <2>4. DOMAIN row = DOMAIN new \cup DOMAIN old /\ \A c \in DOMAIN old \ DOMAIN new : row[c] = old[c]
    <3>1. Overlaid(row, new, old)
      BY <1>2, <2>2, OverColumns
    <3> QED
      BY <3>1 DEF Overlaid
  <2>5. Ordered(row) /\ row.qty = old.qty /\ row.over = old.over
    BY <2>1, <2>2, <2>3, <2>4 DEF Ordered
  <2>6. row # NoRow
    BY <2>5, NoRowColumns DEF Ordered
  <2> QED
    BY <2>1, <2>2, <2>5, <2>6
<1> QED
  BY <1>1, <1>2

ReceiptKept(rows, put, g, row) ==
  /\ g \notin DOMAIN put => row = rows[g]
  /\ g \in Inserts(rows, put) => rows[g] = NoRow /\ row # NoRow /\ ReceiptRow(row)
  /\ rows[g] # NoRow => row # NoRow /\ ReceiptRow(row) /\ row.po = rows[g].po /\ row.qty = rows[g].qty

LEMMA ReceiptsAfter ==
  ASSUME NEW rows, NEW put, NEW locks, WritesReceipts(rows, put, locks), GoodsStand(rows), NEW g \in Rows("GRN")
  PROVE  ReceiptKept(rows, put, g, Over(rows, put, g))
<1> PICK row : row = Over(rows, put, g)
  OBVIOUS
<1> SUFFICES ReceiptKept(rows, put, g, row)
  OBVIOUS
<1> USE DEF ReceiptKept
<1>1. ReceiptRow(NoRow) => FALSE
  BY NoRowColumns DEF ReceiptRow
<1>2. CASE g \notin DOMAIN put
  BY <1>1, <1>2, OverElsewhere DEF GoodsStand, Inserts
<1>3. CASE g \in Inserts(rows, put)
  BY <1>1, <1>3 DEF WritesReceipts, NewReceipt, Inserts
<1>4. CASE g \in Updates(rows, put)
  BY <1>1, <1>4 DEF WritesReceipts, Inspects, Inserts, Updates
<1> QED
  BY <1>2, <1>3, <1>4 DEF Inserts, Updates

BillKept(rows, put, i, row) ==
  /\ i \notin DOMAIN put => row = rows[i]
  /\ i \in Inserts(rows, put) => rows[i] = NoRow /\ row # NoRow /\ Bill(row)
  /\ rows[i] # NoRow => /\ row # NoRow /\ Bill(row) /\ row.po = rows[i].po /\ row.qty = rows[i].qty
                        /\ row.status = "MATCHED" => CoveredByReceipt(rows, rows[i].po, rows[i].qty)

LEMMA BillsAfter ==
  ASSUME NEW rows, NEW put, NEW locks, WritesBills(rows, put, locks), BillsStand(rows), NEW i \in Rows("SINV")
  PROVE  BillKept(rows, put, i, Over(rows, put, i))
<1> PICK row : row = Over(rows, put, i)
  OBVIOUS
<1> SUFFICES BillKept(rows, put, i, row)
  OBVIOUS
<1> USE DEF BillKept
<1>1. Bill(NoRow) => FALSE
  BY NoRowColumns DEF Bill
<1>2. CASE i \notin DOMAIN put
  BY <1>1, <1>2, OverElsewhere DEF BillsStand, Inserts
<1>3. CASE i \in Inserts(rows, put)
  BY <1>1, <1>3 DEF WritesBills, NewBill, Inserts
<1>4. CASE i \in Updates(rows, put)
  <2>1. Matched(rows, put, i) /\ rows[i] # NoRow /\ i \in DOMAIN put
    BY <1>4 DEF WritesBills, Updates
  <2>2. PICK new, old : new = put[i] /\ old = rows[i]
    OBVIOUS
  <2>3. Bill(old) /\ (old.status = "MATCHED" => CoveredByReceipt(rows, rows[i].po, rows[i].qty))
    BY <2>1, <2>2 DEF BillsStand
  <2>4. /\ DOMAIN row = DOMAIN new \cup DOMAIN old
        /\ \A c \in DOMAIN new : row[c] = new[c]
        /\ \A c \in DOMAIN old \ DOMAIN new : row[c] = old[c]
    <3>1. Overlaid(row, new, old)
      BY <2>1, <2>2, OverColumns
    <3> QED
      BY <3>1 DEF Overlaid
  <2>5. DOMAIN new \subseteq {"status"}
        /\ ("status" \in DOMAIN new /\ new.status = "MATCHED" => CoveredByReceipt(rows, rows[i].po, rows[i].qty))
    BY <2>1, <2>2 DEF Matched
  <2>6. Bill(row) /\ row.po = old.po /\ row.qty = old.qty
    BY <2>3, <2>4, <2>5 DEF Bill
  <2>7. row.status = "MATCHED" => CoveredByReceipt(rows, rows[i].po, rows[i].qty)
    BY <2>3, <2>4, <2>5 DEF Bill
  <2> QED
    BY <1>1, <2>1, <2>2, <2>6, <2>7 DEF Inserts
<1> QED
  BY <1>2, <1>3, <1>4 DEF Inserts, Updates

\* All rows once put is written over them.
AllOver(rows, put, after) == \A d \in DOMAIN db : after[d] = Over(rows, put, d)

InsertsReceipt(rows, put, g) == g \in Rows("GRN") /\ g \in Inserts(rows, put)

LEMMA ReceiptsOfAfter ==
  ASSUME NEW rows, NEW put, NEW locks, WritesReceipts(rows, put, locks), GoodsStand(rows),
         NEW after, AllOver(rows, put, after), NEW po
  PROVE  ReceiptsOf(after, po) = ReceiptsOf(rows, po) \cup {g \in Rows("GRN") \cap Inserts(rows, put) : after[g].po = po}
<1>1. ASSUME NEW g \in Rows("GRN")
      PROVE  /\ g \in Inserts(rows, put) => rows[g] = NoRow /\ after[g] # NoRow
             /\ rows[g] # NoRow => after[g] # NoRow /\ after[g].po = rows[g].po
             /\ g \notin Inserts(rows, put) => (rows[g] = NoRow => after[g] = NoRow)
  <2>1. PICK row : row = Over(rows, put, g) /\ row = after[g]
    BY DEF AllOver, Rows
  <2>2. /\ g \notin DOMAIN put => row = rows[g]
        /\ g \in Inserts(rows, put) => rows[g] = NoRow /\ row # NoRow
        /\ rows[g] # NoRow => row # NoRow /\ row.po = rows[g].po
    <3>1. ReceiptKept(rows, put, g, row)
      BY <2>1, ReceiptsAfter
    <3> QED
      BY <3>1 DEF ReceiptKept
  <2> QED
    BY <2>1, <2>2 DEF Inserts
<1> QED
  BY <1>1 DEF ReceiptsOf

LEMMA QtyReceivedAfter ==
  ASSUME SupplyTables, NEW rows, NEW put, NEW locks, WritesReceipts(rows, put, locks), GoodsStand(rows),
         NEW after, AllOver(rows, put, after), NEW po
  PROVE  /\ (\A g : InsertsReceipt(rows, put, g) => after[g].po # po) =>
              ReceiptsOf(after, po) = ReceiptsOf(rows, po) /\ QtyReceived(after, po) = QtyReceived(rows, po)
         /\ \A g : InsertsReceipt(rows, put, g) /\ after[g].po = po =>
              QtyReceived(after, po) = QtyReceived(rows, po) + after[g].qty
         /\ QtyReceived(rows, po) \in Nat
<1>1. PICK old, new, gone : /\ old = ReceiptsOf(rows, po) /\ new = ReceiptsOf(after, po)
                            /\ gone = {g \in Rows("GRN") \cap Inserts(rows, put) : after[g].po = po}
  OBVIOUS
<1>2. new = old \cup gone
  BY <1>1, ReceiptsOfAfter
<1>3. IsFiniteSet(old) /\ IsFiniteSet(new) /\ old \cap gone = {}
  BY <1>1, FS_Subset DEF SupplyTables, ReceiptsOf, Inserts
<1>4. ASSUME NEW g \in Rows("GRN")
      PROVE  /\ rows[g] # NoRow => after[g].qty = rows[g].qty /\ rows[g].qty \in Nat
             /\ g \in Inserts(rows, put) => after[g].qty \in Nat
  <2>1. PICK row : row = Over(rows, put, g) /\ row = after[g]
    BY DEF AllOver, Rows
  <2>2. /\ rows[g] # NoRow => ReceiptRow(row) /\ row.qty = rows[g].qty
        /\ g \in Inserts(rows, put) => ReceiptRow(row)
    <3>1. ReceiptKept(rows, put, g, row)
      BY <2>1, ReceiptsAfter
    <3> QED
      BY <3>1 DEF ReceiptKept
  <2> QED
    BY <2>1, <2>2 DEF ReceiptRow
<1>5. \A g \in old : after[g].qty = rows[g].qty /\ rows[g].qty \in Nat
  BY <1>1, <1>4 DEF ReceiptsOf
<1>6. PICK f, h : f = [g \in old |-> rows[g]["qty"]] /\ h = [g \in new |-> after[g]["qty"]]
  OBVIOUS
<1>7. QtyReceived(rows, po) = SumFunctionOnSet(f, old) /\ QtyReceived(after, po) = SumFunctionOnSet(h, new)
  BY <1>1, <1>6 DEF QtyReceived, SumIn
<1>8. \A g \in old : f[g] \in Nat /\ f[g] = h[g]
  BY <1>2, <1>5, <1>6
<1>9. SumFunctionOnSet(h, old) = SumFunctionOnSet(f, old) /\ SumFunctionOnSet(f, old) \in Nat
  BY <1>3, <1>8, SumEqual, SumNat
<1>10. (\A g : InsertsReceipt(rows, put, g) => after[g].po # po) => new = old
  BY <1>1, <1>2 DEF InsertsReceipt
<1>11. ASSUME NEW g, InsertsReceipt(rows, put, g), after[g].po = po
       PROVE  SumFunctionOnSet(h, new) = SumFunctionOnSet(f, old) + after[g].qty
  <2>1. NewReceipt(rows, put, locks, g)
    BY <1>11 DEF InsertsReceipt, WritesReceipts
  <2>2. \A x \in Rows("GRN") \cap Inserts(rows, put) : x = g
    BY <2>1 DEF NewReceipt
  <2>3. gone = {g} /\ g \notin old
    BY <1>1, <1>3, <1>11, <2>2 DEF InsertsReceipt
  <2>4. Summable(h, old)
    BY <1>3, <1>8 DEF Summable
  <2>5. h[g] = after[g].qty /\ h[g] \in Nat
    BY <1>2, <1>4, <1>6, <1>11, <2>3 DEF InsertsReceipt
  <2>6. SumFunctionOnSet(h, old \cup {g}) = h[g] + SumFunctionOnSet(h, old)
    BY <2>3, <2>4, <2>5, SumAdd
  <2> QED
    BY <1>2, <1>9, <2>3, <2>5, <2>6
<1> QED
  BY <1>1, <1>7, <1>9, <1>10, <1>11

\* What a request writes leads to rows that stand again.
LEMMA OrdersStandAfter ==
  ASSUME SupplyTables, NEW rows, NEW put, NEW locks, WritesReceipts(rows, put, locks), GoodsStand(rows), OrdersStand(rows),
         NEW after, AllOver(rows, put, after)
  PROVE  OrdersStand(after)
<1> SUFFICES ASSUME NEW po \in Rows("PO"), after[po] # NoRow PROVE OrderStands(after[po], QtyReceived(after, po))
  BY DEF OrdersStand
<1>1. PICK row : row = Over(rows, put, po) /\ row = after[po]
  BY DEF AllOver, Rows
<1>2. rows[po] # NoRow
  BY <1>1, OrdersAfter DEF OrderKept
<1>3. CASE \E g : InsertsReceipt(rows, put, g) /\ after[g].po = po
  <2>1. PICK g : InsertsReceipt(rows, put, g) /\ after[g].po = po
    BY <1>3
  <2>2. after[g] = Over(rows, put, g)
    BY <2>1 DEF AllOver, InsertsReceipt, Rows
  <2>3. NewReceipt(rows, put, locks, g)
    BY <2>1 DEF InsertsReceipt, WritesReceipts
  <2>4. OrderStands(Over(rows, put, po), QtyReceived(rows, po) + after[g].qty)
    BY <2>1, <2>2, <2>3 DEF NewReceipt
  <2>5. QtyReceived(after, po) = QtyReceived(rows, po) + after[g].qty
    BY <2>1, QtyReceivedAfter
  <2> QED
    BY <1>1, <2>4, <2>5
<1>4. CASE \A g : InsertsReceipt(rows, put, g) => after[g].po # po
  <2>1. QtyReceived(after, po) = QtyReceived(rows, po)
    BY <1>4, QtyReceivedAfter
  <2>2. po \notin DOMAIN put
    <3> SUFFICES ASSUME po \in DOMAIN put PROVE FALSE
      OBVIOUS
    <3>1. WritesOrder(rows, put, locks, po)
      BY DEF WritesReceipts
    <3>2. PICK g \in Rows("GRN") \cap Inserts(rows, put) : Over(rows, put, g).po = po
      BY <3>1 DEF WritesOrder
    <3>3. after[g] = Over(rows, put, g)
      BY DEF AllOver, Rows
    <3> QED
      BY <1>4, <3>2, <3>3 DEF InsertsReceipt
  <2>3. after[po] = rows[po]
    BY <1>1, <2>2, OverElsewhere
  <2> QED
    BY <1>2, <2>1, <2>3 DEF OrdersStand
<1> QED
  BY <1>3, <1>4

LEMMA LiveOrderAfter ==
  ASSUME NEW rows, NEW put, NEW locks, WritesReceipts(rows, put, locks), OrdersStand(rows),
         NEW after, AllOver(rows, put, after), NEW po, LiveOrder(rows, po)
  PROVE  LiveOrder(after, po) /\ after[po].qty = rows[po].qty /\ after[po].over = rows[po].over
         /\ (po \notin locks => after[po] = rows[po])
<1>1. PICK row : row = Over(rows, put, po) /\ row = after[po]
  BY DEF AllOver, Rows, LiveOrder
<1> QED
  <2>1. OrderKept(rows, locks, po, row)
    BY <1>1, OrdersAfter DEF LiveOrder
  <2> QED
    BY <1>1, <2>1 DEF OrderKept, LiveOrder

LEMMA ReceiptsStandAfter ==
  ASSUME NEW rows, NEW put, NEW locks, WritesReceipts(rows, put, locks), GoodsStand(rows), OrdersStand(rows),
         NEW after, AllOver(rows, put, after)
  PROVE  GoodsStand(after)
<1> SUFFICES ASSUME NEW g \in Rows("GRN"), after[g] # NoRow PROVE ReceiptRow(after[g]) /\ LiveOrder(after, after[g].po)
  BY DEF GoodsStand
<1>1. PICK row : row = Over(rows, put, g) /\ row = after[g]
  BY DEF AllOver, Rows
<1>2. CASE g \in Inserts(rows, put)
  <2>1. NewReceipt(rows, put, locks, g)
    BY <1>2 DEF WritesReceipts
  <2>2. ReceiptRow(row) /\ LiveOrder(rows, row.po)
    BY <1>1, <2>1 DEF NewReceipt
  <2> QED
    BY <1>1, <2>2, LiveOrderAfter
<1>3. CASE g \notin Inserts(rows, put)
  <2>1. rows[g] # NoRow
    BY <1>1, <1>3, ReceiptsAfter DEF Inserts, ReceiptKept
  <2>2. ReceiptRow(row) /\ row.po = rows[g].po
    <3>1. ReceiptKept(rows, put, g, row)
      BY <1>1, ReceiptsAfter
    <3> QED
      BY <2>1, <3>1 DEF ReceiptKept
  <2>3. LiveOrder(rows, rows[g].po)
    BY <2>1 DEF GoodsStand
  <2> QED
    BY <1>1, <2>2, <2>3, LiveOrderAfter
<1> QED
  BY <1>2, <1>3

LEMMA BillsOfAfter ==
  ASSUME NEW rows, NEW put, NEW locks, WritesBills(rows, put, locks), BillsStand(rows),
         NEW after, AllOver(rows, put, after), NEW po
  PROVE  BillsOf(after, po) = BillsOf(rows, po) \cup {i \in Rows("SINV") \cap Inserts(rows, put) : after[i].po = po}
<1>1. ASSUME NEW i \in Rows("SINV")
      PROVE  /\ i \in Inserts(rows, put) => rows[i] = NoRow /\ after[i] # NoRow
             /\ rows[i] # NoRow => after[i] # NoRow /\ after[i].po = rows[i].po
             /\ i \notin Inserts(rows, put) => (rows[i] = NoRow => after[i] = NoRow)
  <2>1. PICK row : row = Over(rows, put, i) /\ row = after[i]
    BY DEF AllOver, Rows
  <2>2. BillKept(rows, put, i, row)
    BY <2>1, BillsAfter
  <2>3. /\ i \notin DOMAIN put => row = rows[i]
        /\ i \in Inserts(rows, put) => rows[i] = NoRow /\ row # NoRow
        /\ rows[i] # NoRow => row # NoRow /\ row.po = rows[i].po
    BY <2>2 DEF BillKept
  <2> QED
    BY <2>1, <2>3 DEF Inserts
<1> QED
  BY <1>1 DEF BillsOf

\* What covers an invoice goes on covering it.
LEMMA CoverAfter ==
  ASSUME NEW rows, NEW put, NEW locks, WritesReceipts(rows, put, locks), GoodsStand(rows),
         NEW after, AllOver(rows, put, after), NEW po, NEW q, CoveredByReceipt(rows, po, q)
  PROVE  CoveredByReceipt(after, po, q)
<1>1. PICK g \in ReceiptsOf(rows, po) : q <= rows[g].qty
  BY DEF CoveredByReceipt
<1>2. g \in Rows("GRN") /\ rows[g] # NoRow
  BY DEF ReceiptsOf
<1>3. g \in ReceiptsOf(after, po)
  BY ReceiptsOfAfter
<1>4. after[g] = Over(rows, put, g)
  BY <1>2 DEF AllOver, Rows
<1>5. ReceiptKept(rows, put, g, after[g])
  BY <1>2, <1>4, ReceiptsAfter
<1>6. after[g].qty = rows[g].qty
  BY <1>2, <1>5 DEF ReceiptKept
<1> QED
  BY <1>1, <1>3, <1>6 DEF CoveredByReceipt

BillStands(rows, i) ==
  /\ Bill(rows[i])
  /\ LiveOrder(rows, rows[i].po) /\ rows[i].qty = rows[rows[i].po].qty
  /\ \A j \in BillsOf(rows, rows[i].po) : i = j
  /\ rows[i].status = "MATCHED" => CoveredByReceipt(rows, rows[i].po, rows[i].qty)

LEMMA BillsStandAfter ==
  ASSUME NEW rows, NEW put, NEW locks, WritesReceipts(rows, put, locks), WritesBills(rows, put, locks),
         OrdersStand(rows), GoodsStand(rows), BillsStand(rows), NEW after, AllOver(rows, put, after)
  PROVE  BillsStand(after)
<1> SUFFICES ASSUME NEW i \in Rows("SINV"), after[i] # NoRow PROVE BillStands(after, i)
  BY DEF BillsStand, BillStands
<1>1. PICK row : row = Over(rows, put, i) /\ row = after[i]
  BY DEF AllOver, Rows
<1>2. BillKept(rows, put, i, row)
  BY <1>1, BillsAfter
<1>3. CASE i \in Inserts(rows, put)
  <2>1. NewBill(rows, put, locks, i)
    BY <1>3 DEF WritesBills
  <2>2. PICK po : po = row.po
    OBVIOUS
  <2>3. /\ Bill(row) /\ LiveOrder(rows, po) /\ row.qty = rows[po].qty /\ BillsOf(rows, po) = {} /\ row.status # "MATCHED"
        /\ \A j \in Rows("SINV") \cap Inserts(rows, put) : i = j
    BY <1>1, <2>1, <2>2 DEF NewBill
  <2>4. LiveOrder(after, po) /\ after[po].qty = rows[po].qty
    BY <2>3, LiveOrderAfter
  <2>5. \A j \in BillsOf(after, po) : i = j
    <3>1. BillsOf(after, po) = BillsOf(rows, po) \cup {j \in Rows("SINV") \cap Inserts(rows, put) : after[j].po = po}
      BY BillsOfAfter
    <3> QED
      BY <2>3, <3>1
  <2> QED
    BY <1>1, <2>2, <2>3, <2>4, <2>5 DEF BillStands
<1>4. CASE i \notin Inserts(rows, put)
  <2>1. rows[i] # NoRow
    BY <1>1, <1>2, <1>4 DEF Inserts, BillKept
  <2>2. PICK old, po : old = rows[i] /\ po = old.po
    OBVIOUS
  <2>3. BillStands(rows, i)
    BY <2>1 DEF BillsStand, BillStands
  <2>4. /\ Bill(row) /\ row.po = po /\ row.qty = old.qty
        /\ row.status = "MATCHED" => CoveredByReceipt(rows, po, old.qty)
    BY <1>2, <2>1, <2>2 DEF BillKept
  <2>5. LiveOrder(rows, po) /\ old.qty = rows[po].qty /\ i \in BillsOf(rows, po) /\ \A j \in BillsOf(rows, po) : i = j
    BY <2>1, <2>2, <2>3 DEF BillStands, BillsOf
  <2>6. LiveOrder(after, po) /\ after[po].qty = rows[po].qty
    BY <2>5, LiveOrderAfter
  <2>7. {j \in Rows("SINV") \cap Inserts(rows, put) : after[j].po = po} = {}
    <3> SUFFICES ASSUME NEW j \in Rows("SINV") \cap Inserts(rows, put), after[j].po = po PROVE FALSE
      OBVIOUS
    <3>1. NewBill(rows, put, locks, j)
      BY DEF WritesBills
    <3>2. after[j] = Over(rows, put, j)
      BY DEF AllOver, Rows
    <3>3. BillsOf(rows, po) = {}
      BY <3>1, <3>2 DEF NewBill
    <3> QED
      BY <2>5, <3>3
  <2>8. BillsOf(after, po) = BillsOf(rows, po)
    <3>1. BillsOf(after, po) = BillsOf(rows, po) \cup {j \in Rows("SINV") \cap Inserts(rows, put) : after[j].po = po}
      BY BillsOfAfter
    <3> QED
      BY <2>7, <3>1
  <2>9. row.status = "MATCHED" => CoveredByReceipt(after, po, row.qty)
    BY <2>4, CoverAfter
  <2> QED
    BY <1>1, <2>4, <2>5, <2>6, <2>8, <2>9 DEF BillStands
<1> QED
  BY <1>3, <1>4

LEMMA PapersStandAfter ==
  ASSUME NEW rows, NEW put, WritesPapers(rows, put), VouchersStand(rows), MarksStand(rows), NEW after, AllOver(rows, put, after)
  PROVE  VouchersStand(after) /\ MarksStand(after)
<1>1. ASSUME NEW l \in Rows("LCV"), after[l] # NoRow PROVE Voucher(after[l])
  <2>1. PICK row : row = Over(rows, put, l) /\ row = after[l]
    BY DEF AllOver, Rows
  <2>2. CASE l \notin DOMAIN put
    <3>1. row = rows[l]
      BY <2>1, <2>2, OverElsewhere
    <3> QED
      BY <1>1, <2>1, <3>1 DEF VouchersStand
  <2>3. CASE l \in Inserts(rows, put)
    BY <2>1, <2>3 DEF WritesPapers
  <2>4. CASE l \in Updates(rows, put)
    <3>1. PICK new, old : new = put[l] /\ old = rows[l]
      OBVIOUS
    <3>2. DOMAIN new \subseteq {"status"} /\ Voucher(old)
      BY <2>4, <3>1 DEF WritesPapers, VouchersStand, Updates
    <3>3. Overlaid(row, new, old)
      BY <2>1, <2>4, <3>1, OverColumns DEF Updates
    <3>4. {"status", "charges", "share"} \subseteq DOMAIN row /\ row.share = old.share /\ row.charges = old.charges
      BY <3>2, <3>3 DEF Overlaid, Voucher
    <3> QED
      BY <2>1, <3>2, <3>4 DEF Voucher
  <2> QED
    BY <2>2, <2>3, <2>4 DEF Inserts, Updates
<1>2. ASSUME NEW c \in Rows("SCORE"), after[c] # NoRow PROVE Marks(after[c])
  <2>1. PICK row : row = Over(rows, put, c) /\ row = after[c]
    BY DEF AllOver, Rows
  <2>2. CASE c \notin DOMAIN put
    <3>1. row = rows[c]
      BY <2>1, <2>2, OverElsewhere
    <3> QED
      BY <1>2, <2>1, <3>1 DEF MarksStand
  <2>3. CASE c \in DOMAIN put
    BY <2>1, <2>3 DEF WritesPapers
  <2> QED
    BY <2>2, <2>3
<1> QED
  BY <1>1, <1>2 DEF VouchersStand, MarksStand

LEMMA SupplyStandsAfter ==
  ASSUME SupplyTables, NEW rows, SupplyStands(rows), NEW put, NEW locks, GoodSupply(rows, put, locks),
         NEW after, AllOver(rows, put, after)
  PROVE  SupplyStands(after)
<1>1. WritesReceipts(rows, put, locks) /\ WritesBills(rows, put, locks) /\ WritesPapers(rows, put)
  BY DEF GoodSupply
<1>2. OrdersStand(rows) /\ GoodsStand(rows) /\ BillsStand(rows) /\ VouchersStand(rows) /\ MarksStand(rows)
  BY DEF SupplyStands
<1>3. OrdersStand(after) /\ GoodsStand(after)
  BY <1>1, <1>2, OrdersStandAfter, ReceiptsStandAfter
<1>4. BillsStand(after)
  BY <1>1, <1>2, BillsStandAfter
<1>5. VouchersStand(after) /\ MarksStand(after)
  BY <1>1, <1>2, PapersStandAfter
<1> QED
  BY <1>3, <1>4, <1>5 DEF SupplyStands

LEMMA VoucherStays ==
  ASSUME NEW rows, NEW put, WritesPapers(rows, put), VouchersStand(rows), NEW l \in Rows("LCV"), rows[l] # NoRow
  PROVE  Over(rows, put, l) # NoRow
<1>1. Voucher(rows[l]) /\ "share" \in DOMAIN rows[l]
  BY DEF VouchersStand, Voucher
<1>2. CASE l \notin DOMAIN put
  BY <1>2, OverElsewhere
<1>3. CASE l \in DOMAIN put
  <2>1. PICK new, old, row : new = put[l] /\ old = rows[l] /\ row = Over(rows, put, l)
    OBVIOUS
  <2>2. Overlaid(row, new, old)
    BY <1>3, <2>1, OverColumns
  <2>3. "share" \in DOMAIN row
    BY <1>1, <2>1, <2>2 DEF Overlaid
  <2> QED
    BY <2>1, <2>3, NoRowColumns
<1> QED
  BY <1>2, <1>3

SupplyKinds == {"PO", "GRN", "SINV", "LCV"}
InsertedKinds == {"PO", "GRN", "SINV", "LCV", "SCORE"}

\* What the commit of put leaves of the rows that another request is about.
LEMMA OthersRows ==
  ASSUME NEW rows, SupplyStands(rows), NEW put, NEW locks, GoodSupply(rows, put, locks), NEW after, AllOver(rows, put, after)
  PROVE  /\ \A d \in DOMAIN db : d \notin DOMAIN put => after[d] = rows[d]
         /\ \A kind \in SupplyKinds : \A d \in Rows(kind) : rows[d] # NoRow => after[d] # NoRow
<1>1. WritesReceipts(rows, put, locks) /\ WritesBills(rows, put, locks) /\ WritesPapers(rows, put)
  BY DEF GoodSupply
<1>2. OrdersStand(rows) /\ GoodsStand(rows) /\ BillsStand(rows) /\ VouchersStand(rows)
  BY DEF SupplyStands
<1>3. \A d \in DOMAIN db : d \notin DOMAIN put => after[d] = rows[d]
  BY OverElsewhere DEF AllOver
<1>4. ASSUME NEW po \in Rows("PO"), rows[po] # NoRow PROVE after[po] # NoRow
  <2>1. LiveOrder(rows, po)
    BY <1>4 DEF LiveOrder
  <2>2. LiveOrder(after, po)
    BY <1>1, <1>2, <2>1, LiveOrderAfter
  <2> QED
    BY <2>2 DEF LiveOrder
<1>5. ASSUME NEW g \in Rows("GRN"), rows[g] # NoRow PROVE after[g] # NoRow
  <2>1. PICK row : row = Over(rows, put, g) /\ row = after[g]
    BY DEF AllOver, Rows
  <2>2. ReceiptKept(rows, put, g, row)
    BY <1>1, <1>2, <2>1, ReceiptsAfter
  <2> QED
    BY <1>5, <2>1, <2>2 DEF ReceiptKept
<1>6. ASSUME NEW i \in Rows("SINV"), rows[i] # NoRow PROVE after[i] # NoRow
  <2>1. PICK row : row = Over(rows, put, i) /\ row = after[i]
    BY DEF AllOver, Rows
  <2>2. BillKept(rows, put, i, row)
    BY <1>1, <1>2, <2>1, BillsAfter
  <2> QED
    BY <1>6, <2>1, <2>2 DEF BillKept
<1>7. ASSUME NEW l \in Rows("LCV"), rows[l] # NoRow PROVE after[l] # NoRow
  <2>1. after[l] = Over(rows, put, l)
    BY DEF AllOver, Rows
  <2> QED
    BY <1>1, <1>2, <1>7, <2>1, VoucherStays
<1> QED
  BY <1>3, <1>4, <1>5, <1>6, <1>7 DEF SupplyKinds

\* The locks that keep a request good while another one commits.
Apart(rows, put, locks, other, held) ==
  /\ locks \cap held = {} /\ held \cap DOMAIN put = {}
  /\ \A d \in DOMAIN put \cap DOMAIN other : d[1] \in InsertedKinds => rows[d] # NoRow

LEMMA OthersOrders ==
  ASSUME SupplyTables, NEW rows, SupplyStands(rows), NEW put, NEW locks, GoodSupply(rows, put, locks),
         NEW after, AllOver(rows, put, after), NEW held, locks \cap held = {}, held \cap DOMAIN put = {},
         NEW po, LiveOrder(rows, po), po \in held
  PROVE  /\ LiveOrder(after, po) /\ after[po] = rows[po]
         /\ QtyReceived(after, po) = QtyReceived(rows, po)
         /\ BillsOf(after, po) = BillsOf(rows, po)
<1>1. WritesReceipts(rows, put, locks) /\ WritesBills(rows, put, locks)
  BY DEF GoodSupply
<1>2. OrdersStand(rows) /\ GoodsStand(rows) /\ BillsStand(rows)
  BY DEF SupplyStands
<1>3. LiveOrder(after, po) /\ after[po] = rows[po]
  <2>1. po \notin locks
    OBVIOUS
  <2> QED
    BY <1>1, <1>2, <2>1, LiveOrderAfter
<1>4. \A g : InsertsReceipt(rows, put, g) => after[g].po # po
  <2> SUFFICES ASSUME NEW g, InsertsReceipt(rows, put, g) PROVE after[g].po # po
    OBVIOUS
  <2>1. after[g] = Over(rows, put, g)
    BY DEF AllOver, InsertsReceipt, Rows
  <2>2. NewReceipt(rows, put, locks, g)
    BY <1>1 DEF WritesReceipts, InsertsReceipt
  <2> QED
    BY <2>1, <2>2 DEF NewReceipt
<1>5. QtyReceived(after, po) = QtyReceived(rows, po)
  BY <1>1, <1>2, <1>4, QtyReceivedAfter
<1>6. {i \in Rows("SINV") \cap Inserts(rows, put) : after[i].po = po} = {}
  <2> SUFFICES ASSUME NEW i \in Rows("SINV") \cap Inserts(rows, put) PROVE after[i].po # po
    OBVIOUS
  <2>1. after[i] = Over(rows, put, i)
    BY DEF AllOver, Rows
  <2>2. NewBill(rows, put, locks, i)
    BY <1>1 DEF WritesBills
  <2> QED
    BY <2>1, <2>2 DEF NewBill
<1>7. BillsOf(after, po) = BillsOf(rows, po)
  <2>1. BillsOf(after, po) = BillsOf(rows, po) \cup {i \in Rows("SINV") \cap Inserts(rows, put) : after[i].po = po}
    BY <1>1, <1>2, BillsOfAfter
  <2> QED
    BY <1>6, <2>1
<1> QED
  BY <1>3, <1>5, <1>7

LEMMA OthersReceipts ==
  ASSUME SupplyTables, NEW rows, SupplyStands(rows), NEW put, NEW locks, GoodSupply(rows, put, locks),
         NEW after, AllOver(rows, put, after),
         NEW other, NEW held, GoodSupply(rows, other, held), Apart(rows, put, locks, other, held)
  PROVE  WritesReceipts(after, other, held)
<1>1. WritesReceipts(rows, other, held) /\ DOMAIN other \subseteq DOMAIN db
  BY DEF GoodSupply
<1>2. /\ locks \cap held = {} /\ held \cap DOMAIN put = {}
      /\ \A d \in DOMAIN put \cap DOMAIN other : d[1] \in InsertedKinds => rows[d] # NoRow
  BY DEF Apart
<1>3. \A kind \in InsertedKinds : \A d \in Rows(kind) \cap DOMAIN other :
        d \in held \/ rows[d] = NoRow => after[d] = rows[d] /\ Over(after, other, d) = Over(rows, other, d)
  <2> SUFFICES ASSUME NEW kind \in InsertedKinds, NEW d \in Rows(kind) \cap DOMAIN other, d \in held \/ rows[d] = NoRow
               PROVE  after[d] = rows[d] /\ Over(after, other, d) = Over(rows, other, d)
    OBVIOUS
  <2>1. d \in DOMAIN db /\ d \notin DOMAIN put
    BY <1>2 DEF Rows
  <2>2. after[d] = rows[d]
    BY <2>1, OthersRows
  <2> QED
    BY <2>2 DEF Over
<1>4. Rows("GRN") \cap Inserts(after, other) = Rows("GRN") \cap Inserts(rows, other)
  BY <1>3, OthersRows DEF Inserts, SupplyKinds, InsertedKinds
<1>5. ASSUME NEW g \in Rows("GRN") \cap Inserts(rows, other) PROVE NewReceipt(after, other, held, g)
  <2>1. PICK r, po : r = Over(rows, other, g) /\ po = r.po
    OBVIOUS
  <2>2. r = Over(after, other, g)
    BY <1>3, <2>1 DEF Inserts, InsertedKinds
  <2>3. NewReceipt(rows, other, held, g)
    BY <1>1 DEF WritesReceipts
  <2>4. /\ ReceiptRow(r) /\ LiveOrder(rows, po) /\ po \in held
        /\ OrderStands(Over(rows, other, po), QtyReceived(rows, po) + r.qty)
        /\ \A h \in Rows("GRN") \cap Inserts(rows, other) : h = g
    BY <2>1, <2>3 DEF NewReceipt
  <2>5. LiveOrder(after, po) /\ after[po] = rows[po] /\ QtyReceived(after, po) = QtyReceived(rows, po)
    BY <1>2, <2>4, OthersOrders
  <2>6. Over(after, other, po) = Over(rows, other, po)
    BY <2>5 DEF Over
  <2> QED
    BY <1>4, <2>1, <2>2, <2>4, <2>5, <2>6 DEF NewReceipt
<1>6. ASSUME NEW g \in Rows("GRN") \cap Updates(after, other) PROVE Inspects(after, other, held, g)
  <2>1. g \in Rows("GRN") \cap Updates(rows, other)
    BY <1>3, <1>6 DEF Updates, InsertedKinds
  <2>2. Inspects(rows, other, held, g)
    BY <1>1, <2>1 DEF WritesReceipts
  <2>3. g \in held /\ g \in DOMAIN other
    BY <2>1, <2>2 DEF Inspects, Updates
  <2>4. after[g] = rows[g] /\ Over(after, other, g) = Over(rows, other, g)
    BY <1>3, <2>3 DEF InsertedKinds
  <2> QED
    BY <2>2, <2>4 DEF Inspects
<1>7. ASSUME NEW po \in Rows("PO") \cap DOMAIN other PROVE WritesOrder(after, other, held, po)
  <2>1. WritesOrder(rows, other, held, po)
    BY <1>1 DEF WritesReceipts
  <2>2. po \in held /\ rows[po] # NoRow /\ DOMAIN other[po] \subseteq {"status"}
    BY <2>1 DEF WritesOrder
  <2>3. after[po] = rows[po]
    BY <1>3, <2>2 DEF InsertedKinds
  <2>4. PICK g \in Rows("GRN") \cap Inserts(rows, other) : Over(rows, other, g).po = po
    BY <2>1 DEF WritesOrder
  <2>5. g \in Rows("GRN") \cap Inserts(after, other) /\ Over(after, other, g) = Over(rows, other, g)
    BY <1>3, <1>4 DEF Inserts, InsertedKinds
  <2> QED
    BY <2>2, <2>3, <2>4, <2>5 DEF WritesOrder
<1> QED
  BY <1>4, <1>5, <1>6, <1>7 DEF WritesReceipts

LEMMA OthersBills ==
  ASSUME SupplyTables, NEW rows, SupplyStands(rows), NEW put, NEW locks, GoodSupply(rows, put, locks),
         NEW after, AllOver(rows, put, after),
         NEW other, NEW held, GoodSupply(rows, other, held), Apart(rows, put, locks, other, held)
  PROVE  WritesBills(after, other, held) /\ WritesPapers(after, other)
<1>1. WritesBills(rows, other, held) /\ WritesPapers(rows, other) /\ DOMAIN other \subseteq DOMAIN db
  BY DEF GoodSupply
<1>2. /\ locks \cap held = {} /\ held \cap DOMAIN put = {}
      /\ \A d \in DOMAIN put \cap DOMAIN other : d[1] \in InsertedKinds => rows[d] # NoRow
  BY DEF Apart
<1>3. \A kind \in InsertedKinds : \A d \in Rows(kind) \cap DOMAIN other :
        d \in held \/ rows[d] = NoRow => after[d] = rows[d] /\ Over(after, other, d) = Over(rows, other, d)
  <2> SUFFICES ASSUME NEW kind \in InsertedKinds, NEW d \in Rows(kind) \cap DOMAIN other, d \in held \/ rows[d] = NoRow
               PROVE  after[d] = rows[d] /\ Over(after, other, d) = Over(rows, other, d)
    OBVIOUS
  <2>1. d \in DOMAIN db /\ d \notin DOMAIN put
    BY <1>2 DEF Rows
  <2>2. after[d] = rows[d]
    BY <2>1, OthersRows
  <2> QED
    BY <2>2 DEF Over
<1>4. /\ Rows("SINV") \cap Inserts(after, other) = Rows("SINV") \cap Inserts(rows, other)
      /\ Rows("LCV") \cap Inserts(after, other) = Rows("LCV") \cap Inserts(rows, other)
  BY <1>3, OthersRows DEF Inserts, SupplyKinds, InsertedKinds
<1>5. ASSUME NEW i \in Rows("SINV") \cap Inserts(rows, other) PROVE NewBill(after, other, held, i)
  <2>1. PICK r, po : r = Over(rows, other, i) /\ po = r.po
    OBVIOUS
  <2>2. r = Over(after, other, i)
    BY <1>3, <2>1 DEF Inserts, InsertedKinds
  <2>3. NewBill(rows, other, held, i)
    BY <1>1 DEF WritesBills
  <2>4. /\ Bill(r) /\ LiveOrder(rows, po) /\ po \in held /\ r.qty = rows[po].qty /\ BillsOf(rows, po) = {}
        /\ r.status # "MATCHED" /\ \A j \in Rows("SINV") \cap Inserts(rows, other) : i = j
    BY <2>1, <2>3 DEF NewBill
  <2>5. LiveOrder(after, po) /\ after[po] = rows[po] /\ BillsOf(after, po) = BillsOf(rows, po)
    BY <1>2, <2>4, OthersOrders
  <2> QED
    BY <1>4, <2>1, <2>2, <2>4, <2>5 DEF NewBill
<1>6. ASSUME NEW i \in Rows("SINV") \cap Updates(after, other) PROVE Matched(after, other, i)
  <2>1. i \in Rows("SINV") \cap Updates(rows, other)
    BY <1>3, <1>6 DEF Updates, InsertedKinds
  <2>2. Matched(rows, other, i) /\ rows[i] # NoRow
    BY <1>1, <2>1 DEF WritesBills, Updates
  <2>3. PICK row : row = Over(rows, put, i) /\ row = after[i]
    BY DEF AllOver, Rows
  <2>4. BillKept(rows, put, i, row)
    <3>1. WritesBills(rows, put, locks) /\ BillsStand(rows)
      BY DEF GoodSupply, SupplyStands
    <3> QED
      BY <2>3, <3>1, BillsAfter
  <2>5. PICK po, q : po = rows[i].po /\ q = rows[i].qty
    OBVIOUS
  <2>6. after[i].po = po /\ after[i].qty = q
    BY <2>2, <2>3, <2>4, <2>5 DEF BillKept
  <2>7. CoveredByReceipt(rows, po, q) => CoveredByReceipt(after, po, q)
    <3>1. WritesReceipts(rows, put, locks) /\ GoodsStand(rows)
      BY DEF GoodSupply, SupplyStands
    <3> QED
      BY <3>1, CoverAfter
  <2> QED
    BY <2>2, <2>5, <2>6, <2>7 DEF Matched
<1>7. WritesBills(after, other, held)
  BY <1>4, <1>5, <1>6 DEF WritesBills
<1>8. WritesPapers(after, other)
  <2>1. \A l \in Rows("LCV") \cap Inserts(rows, other) : Voucher(Over(after, other, l))
    BY <1>1, <1>3 DEF WritesPapers, Inserts, InsertedKinds
  <2>2. \A l \in Rows("LCV") \cap Updates(after, other) : DOMAIN other[l] \subseteq {"status"}
    BY <1>1, <1>3 DEF WritesPapers, Updates, InsertedKinds
  <2>3. \A c \in Rows("SCORE") \cap DOMAIN other : after[c] = NoRow /\ Marks(Over(after, other, c))
    BY <1>1, <1>3 DEF WritesPapers, InsertedKinds
  <2> QED
    BY <1>4, <2>1, <2>2, <2>3 DEF WritesPapers
<1> QED
  BY <1>7, <1>8

-----------------------------------------------------------------------------
(* Payables: the inductive invariant of overlapping requests *)

InsertsApart ==
  \A s, t \in Sessions :
    s # t /\ req[s] # Idle /\ req[t] # Idle =>
      \A d \in DOMAIN req[s].put \cap DOMAIN req[t].put : d[1] \in InsertedKinds => db[d] # NoRow

SupplyInv ==
  /\ SupplyTables /\ SupplyStands(db) /\ LocksApart /\ InsertsApart
  /\ \A s \in Sessions : req[s] # Idle => GoodSupply(db, req[s].put, req[s].locks)

LEMMA SameSupply ==
  ASSUME DOMAIN db' = DOMAIN db
  PROVE  /\ \A rows : SupplyStands(rows)' = SupplyStands(rows)
         /\ \A rows, put, locks : GoodSupply(rows, put, locks)' = GoodSupply(rows, put, locks)
         /\ SupplyTables' = SupplyTables
<1>1. \A kind : Rows(kind)' = Rows(kind)
  BY DEF Rows
<1>2. \A rows, po : /\ ReceiptsOf(rows, po)' = ReceiptsOf(rows, po) /\ BillsOf(rows, po)' = BillsOf(rows, po)
                    /\ LiveOrder(rows, po)' = LiveOrder(rows, po)
  BY <1>1 DEF ReceiptsOf, BillsOf, LiveOrder
<1>3. \A rows, po : QtyReceived(rows, po)' = QtyReceived(rows, po)
  BY <1>2 DEF QtyReceived, SumIn
<1>4. \A rows, po, q : CoveredByReceipt(rows, po, q)' = CoveredByReceipt(rows, po, q)
  BY <1>2 DEF CoveredByReceipt
<1>5. \A rows : OrdersStand(rows)' = OrdersStand(rows)
  BY <1>1, <1>3 DEF OrdersStand, OrderStands, Ordered
<1>6. \A rows : GoodsStand(rows)' = GoodsStand(rows)
  BY <1>1, <1>2 DEF GoodsStand, ReceiptRow
<1>7. \A rows : BillsStand(rows)' = BillsStand(rows)
  BY <1>1, <1>2, <1>4 DEF BillsStand, Bill
<1>8. \A rows : VouchersStand(rows)' = VouchersStand(rows) /\ MarksStand(rows)' = MarksStand(rows)
  <2>1. Rows("LCV")' = Rows("LCV") /\ Rows("SCORE")' = Rows("SCORE")
    BY <1>1
  <2>2. \A rows : VouchersStand(rows)' = VouchersStand(rows)
    BY <2>1 DEF VouchersStand, Voucher
  <2>3. \A rows : MarksStand(rows)' = MarksStand(rows)
    BY <2>1 DEF MarksStand, Marks
  <2> QED
    BY <2>2, <2>3
<1>9. \A rows, put, locks, g : NewReceipt(rows, put, locks, g)' = NewReceipt(rows, put, locks, g)
  <2>1. ASSUME NEW rows, NEW put, NEW locks, NEW g
        PROVE  NewReceipt(rows, put, locks, g)' = NewReceipt(rows, put, locks, g)
    <3>1. PICK r : r = Over(rows, put, g)
      OBVIOUS
    <3>2. r = Over(rows, put, g)'
      BY <3>1 DEF Over
    <3>3. PICK o, q : o = Over(rows, put, r.po) /\ q = QtyReceived(rows, r.po)
      OBVIOUS
    <3>4. o = Over(rows, put, r.po)' /\ q = QtyReceived(rows, r.po)' /\ LiveOrder(rows, r.po)' = LiveOrder(rows, r.po)
      BY <1>2, <1>3, <3>3 DEF Over
    <3>5. Rows("GRN")' = Rows("GRN") /\ Inserts(rows, put)' = Inserts(rows, put)
      BY <1>1 DEF Inserts
    <3>6. ReceiptRow(r)' = ReceiptRow(r) /\ OrderStands(o, q + r.qty)' = OrderStands(o, q + r.qty)
      BY DEF ReceiptRow, OrderStands, Ordered
    <3> QED
      BY <3>1, <3>2, <3>3, <3>4, <3>5, <3>6 DEF NewReceipt
  <2> QED
    BY <2>1
<1>10. \A rows, put, locks, g : Inspects(rows, put, locks, g)' = Inspects(rows, put, locks, g)
  BY DEF Inspects, Over, ReceiptRow
<1>11. \A rows, put, locks, po : WritesOrder(rows, put, locks, po)' = WritesOrder(rows, put, locks, po)
  BY <1>1 DEF WritesOrder, Over, Inserts
<1>12. \A rows, put, locks : WritesReceipts(rows, put, locks)' = WritesReceipts(rows, put, locks)
  BY <1>1, <1>9, <1>10, <1>11 DEF WritesReceipts, Inserts, Updates
<1>13. \A rows, put, locks, i : NewBill(rows, put, locks, i)' = NewBill(rows, put, locks, i)
  BY <1>1, <1>2 DEF NewBill, Over, Bill, Inserts
<1>14. \A rows, put, i : Matched(rows, put, i)' = Matched(rows, put, i)
  BY <1>4 DEF Matched
<1>15. \A rows, put, locks : WritesBills(rows, put, locks)' = WritesBills(rows, put, locks)
  BY <1>1, <1>13, <1>14 DEF WritesBills, Inserts, Updates
<1>16. \A rows, put : WritesPapers(rows, put)' = WritesPapers(rows, put)
  BY <1>1 DEF WritesPapers, Voucher, Marks, Over, Inserts, Updates
<1>17. \A rows, put, locks : GoodSupply(rows, put, locks)' = GoodSupply(rows, put, locks)
  BY <1>12, <1>15, <1>16 DEF GoodSupply
<1>18. SupplyTables' = SupplyTables
  BY <1>1 DEF SupplyTables
<1> QED
  BY <1>5, <1>6, <1>7, <1>8, <1>17, <1>18 DEF SupplyStands

\* Dropping what does not change leaves a good request.
LEMMA StagedSupply ==
  ASSUME NEW put, NEW locks, GoodSupply(db, put, locks), NEW staged, staged = Staged(put)
  PROVE  GoodSupply(db, staged, locks)
<1>1. DOMAIN staged = DOMAIN put
  BY DEF Staged
<1>2. \A d : Over(db, staged, d) = Over(db, put, d)
  BY StagedAfter, OverIsAfter
<1>3. Inserts(db, staged) = Inserts(db, put) /\ Updates(db, staged) = Updates(db, put)
  BY <1>1 DEF Inserts, Updates
<1>4. \A d \in DOMAIN put : DOMAIN staged[d] \subseteq DOMAIN put[d] /\ \A c \in DOMAIN staged[d] : staged[d][c] = put[d][c]
  BY StagedColumns
<1>5. \A i \in Updates(db, put) : Matched(db, put, i) => Matched(db, staged, i)
  BY <1>4 DEF Matched, Updates
<1>6. \A po \in DOMAIN put : WritesOrder(db, put, locks, po) => WritesOrder(db, staged, locks, po)
  BY <1>2, <1>3, <1>4 DEF WritesOrder
<1>7. \A g : /\ NewReceipt(db, staged, locks, g) = NewReceipt(db, put, locks, g)
             /\ Inspects(db, staged, locks, g) = Inspects(db, put, locks, g)
             /\ NewBill(db, staged, locks, g) = NewBill(db, put, locks, g)
  BY <1>2, <1>3 DEF NewReceipt, Inspects, NewBill
<1>8. WritesReceipts(db, staged, locks)
  BY <1>1, <1>3, <1>6, <1>7 DEF GoodSupply, WritesReceipts
<1>9. WritesBills(db, staged, locks)
  BY <1>1, <1>3, <1>5, <1>7 DEF GoodSupply, WritesBills
<1>10. WritesPapers(db, staged)
  <2>1. WritesPapers(db, put)
    BY DEF GoodSupply
  <2>2. \A l \in Rows("LCV") \cap Updates(db, put) : DOMAIN staged[l] \subseteq {"status"}
    BY <1>4, <2>1 DEF WritesPapers, Updates
  <2> QED
    BY <1>1, <1>2, <1>3, <2>1, <2>2 DEF WritesPapers
<1> QED
  BY <1>1, <1>8, <1>9, <1>10 DEF GoodSupply

\* A handler that writes what is good and inserts only rows of its own.
LEMMA StageKeepsSupply ==
  ASSUME SupplyInv, NEW s \in Sessions, NEW put, NEW add, NEW locks, Stage(s, put, add, locks),
         GoodSupply(db, put, locks), \A d \in DOMAIN put : d[1] \in InsertedKinds => db[d] # NoRow \/ Fresh(d)
  PROVE  SupplyInv'
<1>1. \A t \in Sessions : req[t] # Idle => \A d \in DOMAIN put \cap DOMAIN req[t].put : d[1] \in InsertedKinds => db[d] # NoRow
  BY DEF Fresh, Used
<1> HIDE DEF Sessions
<1>2. PICK staged : staged = Staged(put)
  OBVIOUS
<1>3. /\ Sessions' = Sessions /\ db' = db /\ req'[s].put = staged /\ req'[s].locks = locks
      /\ \A t \in Sessions \ {s} : req'[t] = req[t]
  BY <1>2, StageIsOne
<1>4. GoodSupply(db, staged, locks) /\ DOMAIN staged = DOMAIN put
  BY <1>2, StagedSupply DEF Staged
<1>5. PICK rows : rows = db /\ rows = db'
  BY <1>3
<1>6. SupplyStands(db)' /\ SupplyTables'
  BY <1>3, <1>5, SameSupply DEF SupplyInv
<1>7. LocksApart'
  BY StageKeepsApart DEF SupplyInv
<1>8. InsertsApart'
  BY <1>1, <1>3, <1>4 DEF InsertsApart, SupplyInv
<1>9. ASSUME NEW t \in Sessions, req'[t] # Idle PROVE GoodSupply(db, req[t].put, req[t].locks)'
  <2>1. PICK other, held : other = req'[t].put /\ held = req'[t].locks
    OBVIOUS
  <2>2. GoodSupply(rows, other, held)
    BY <1>3, <1>4, <1>5, <1>9, <2>1 DEF SupplyInv
  <2>3. GoodSupply(rows, other, held)'
    BY <1>3, <2>2, SameSupply
  <2> QED
    BY <1>5, <2>1, <2>3
<1> QED
  BY <1>3, <1>6, <1>7, <1>8, <1>9 DEF SupplyInv

LEMMA CommitKeepsSupply ==
  ASSUME SupplyInv, NEW s \in Sessions, Commit(s)
  PROVE  SupplyInv'
<1>1. /\ Sessions' = Sessions /\ DOMAIN db' = DOMAIN db /\ req[s] # Idle /\ req'[s] = Idle
      /\ \A t \in Sessions \ {s} : req'[t] = req[t]
      /\ \A t \in Sessions \ {s} : req[t] # Idle => req[t].locks \cap DOMAIN req[s].put = {}
  BY CommitIsOne
<1>2. \A d \in DOMAIN db : db'[d] = Over(db, req[s].put, d)
  BY CommitIsAfter, OverIsAfter
<1> HIDE DEF Sessions
<1>3. PICK put, locks, rows, after : put = req[s].put /\ locks = req[s].locks /\ rows = db /\ after = db'
  OBVIOUS
<1>4. AllOver(rows, put, after) /\ GoodSupply(rows, put, locks) /\ SupplyStands(rows) /\ SupplyTables
  BY <1>1, <1>2, <1>3 DEF AllOver, SupplyInv
<1>5. SupplyStands(after)
  BY <1>4, SupplyStandsAfter
<1>6. ASSUME NEW t \in Sessions \ {s}, req[t] # Idle
      PROVE  GoodSupply(db, req[t].put, req[t].locks)'
  <2>1. PICK other, held : other = req[t].put /\ held = req[t].locks
    OBVIOUS
  <2>2. GoodSupply(rows, other, held)
    BY <1>3, <1>6, <2>1 DEF SupplyInv
  <2>3. locks \cap held = {} /\ held \cap DOMAIN put = {}
    BY <1>1, <1>3, <1>6, <2>1 DEF SupplyInv, LocksApart
  <2>4. \A d \in DOMAIN put \cap DOMAIN other : d[1] \in InsertedKinds => rows[d] # NoRow
    BY <1>1, <1>3, <1>6, <2>1 DEF SupplyInv, InsertsApart
  <2>5. Apart(rows, put, locks, other, held)
    BY <2>3, <2>4 DEF Apart
  <2>6. WritesReceipts(after, other, held)
    BY <1>4, <2>2, <2>5, OthersReceipts
  <2>7. WritesBills(after, other, held) /\ WritesPapers(after, other)
    BY <1>4, <2>2, <2>5, OthersBills
  <2>8. GoodSupply(after, other, held)
    BY <2>2, <2>6, <2>7 DEF GoodSupply
  <2>9. GoodSupply(after, other, held)'
    BY <1>1, <2>8, SameSupply
  <2>10. req'[t] = req[t]
    BY <1>1
  <2> QED
    BY <1>3, <2>1, <2>9, <2>10
<1>7. SupplyStands(db)' /\ SupplyTables'
  BY <1>1, <1>3, <1>4, <1>5, SameSupply
<1>8. LocksApart'
  BY <1>1 DEF LocksApart, SupplyInv
<1>9. InsertsApart'
  <2> SUFFICES ASSUME NEW t \in Sessions, NEW u \in Sessions, t # u, req'[t] # Idle, req'[u] # Idle,
                      NEW d \in DOMAIN req'[t].put \cap DOMAIN req'[u].put, d[1] \in InsertedKinds
               PROVE  db'[d] # NoRow
    BY <1>1 DEF InsertsApart
  <2>1. t \in Sessions \ {s} /\ u \in Sessions \ {s} /\ req'[t] = req[t] /\ req'[u] = req[u]
    BY <1>1
  <2>2. db[d] # NoRow
    BY <2>1 DEF SupplyInv, InsertsApart
  <2>3. GoodSupply(db, req[t].put, req[t].locks)
    BY <2>1 DEF SupplyInv
  <2>4. d \in DOMAIN db
    BY <2>1, <2>3 DEF GoodSupply
  <2>5. d[1] # "SCORE"
    BY <2>1, <2>2, <2>3, <2>4 DEF GoodSupply, WritesPapers, Rows
  <2>6. d[1] \in SupplyKinds /\ d \in Rows(d[1])
    BY <2>4, <2>5 DEF SupplyKinds, InsertedKinds, Rows
  <2>7. rows[d] # NoRow => after[d] # NoRow
    BY <1>4, <2>6, OthersRows
  <2> QED
    BY <1>3, <2>2, <2>7
<1> QED
  BY <1>1, <1>6, <1>7, <1>8, <1>9 DEF SupplyInv

LEMMA RollbackKeepsSupply ==
  ASSUME SupplyInv, NEW s \in Sessions, Rollback(s)
  PROVE  SupplyInv'
<1>1. Sessions' = Sessions /\ req'[s] = Idle /\ db' = db /\ \A t \in Sessions \ {s} : req'[t] = req[t]
  BY DEF Rollback, Sessions
<1> HIDE DEF Sessions
<1>2. PICK rows : rows = db /\ rows = db'
  BY <1>1
<1>3. SupplyStands(db)' /\ SupplyTables'
  BY <1>1, <1>2, SameSupply DEF SupplyInv
<1>4. ASSUME NEW t \in Sessions \ {s}, req[t] # Idle PROVE GoodSupply(db, req[t].put, req[t].locks)'
  <2>1. PICK other, held : other = req[t].put /\ held = req[t].locks
    OBVIOUS
  <2>2. GoodSupply(rows, other, held)
    BY <1>2, <1>4, <2>1 DEF SupplyInv
  <2>3. GoodSupply(rows, other, held)'
    BY <1>1, <2>2, SameSupply
  <2>4. req'[t] = req[t]
    BY <1>1
  <2> QED
    BY <1>2, <2>1, <2>3, <2>4
<1>5. LocksApart' /\ InsertsApart'
  BY <1>1 DEF SupplyInv, LocksApart, InsertsApart
<1> QED
  BY <1>1, <1>3, <1>4, <1>5 DEF SupplyInv

LEMMA IdleSupply ==
  ASSUME SupplyInv, UNCHANGED vars
  PROVE  SupplyInv'
<1>1. db' = db /\ req' = req /\ Sessions' = Sessions
  BY DEF vars, Sessions
<1> HIDE DEF Sessions
<1>2. PICK rows : rows = db /\ rows = db'
  BY <1>1
<1>3. SupplyStands(db)' /\ SupplyTables'
  BY <1>1, <1>2, SameSupply DEF SupplyInv
<1>4. ASSUME NEW t \in Sessions, req[t] # Idle PROVE GoodSupply(db, req[t].put, req[t].locks)'
  <2>1. PICK other, held : other = req[t].put /\ held = req[t].locks /\ other = req'[t].put /\ held = req'[t].locks
    BY <1>1
  <2>2. GoodSupply(rows, other, held)
    BY <1>2, <1>4, <2>1 DEF SupplyInv
  <2>3. GoodSupply(rows, other, held)'
    BY <1>1, <2>2, SameSupply
  <2> QED
    BY <1>2, <2>1, <2>3
<1>5. LocksApart' /\ InsertsApart'
  BY <1>1 DEF SupplyInv, LocksApart, InsertsApart
<1> QED
  BY <1>1, <1>3, <1>4, <1>5 DEF SupplyInv

-----------------------------------------------------------------------------
(* Payables: the handlers *)

\* A request that writes row d, and besides nothing but levels and debit notes.
OnlyWrites(put, d) == DOMAIN put \subseteq DOMAIN db /\ \A e \in DOMAIN put : e = d \/ e[1] \notin InsertedKinds

LEMMA OverNew ==
  ASSUME NEW put, NEW d \in DOMAIN put, db[d] = NoRow, "status" \in DOMAIN put[d]
  PROVE  Over(db, put, d) = put[d] @@ NoRow
  BY DEF Over

\* A new row of all columns is as it is written.
NewRowIs(put, d, r) ==
  /\ d \in Inserts(db, put) /\ DOMAIN Over(db, put, d) = DOMAIN r
  /\ \A c \in DOMAIN r : Over(db, put, d)[c] = r[c]

LEMMA NewRow ==
  ASSUME NEW put, NEW d \in DOMAIN put, db[d] = NoRow, NEW r, r = put[d], "status" \in DOMAIN r
  PROVE  NewRowIs(put, d, r)
<1>1. Overlaid(Over(db, put, d), put[d], db[d])
  BY OverColumns
<1>2. d \in Inserts(db, put)
  BY DEF Inserts
<1> QED
  BY <1>1, <1>2, NoRowColumns DEF Overlaid, NewRowIs

LEMMA WritesNothing ==
  ASSUME NEW put, NEW locks, NEW d, OnlyWrites(put, d), d[1] \notin InsertedKinds
  PROVE  GoodSupply(db, put, locks)
<1>1. \A e \in DOMAIN put : e[1] \notin InsertedKinds
  BY DEF OnlyWrites
<1>2. \A kind \in InsertedKinds : Rows(kind) \cap DOMAIN put = {}
  BY <1>1 DEF Rows
<1>3. Rows("PO") \cap DOMAIN put = {} /\ Rows("GRN") \cap DOMAIN put = {} /\ Rows("SINV") \cap DOMAIN put = {}
      /\ Rows("LCV") \cap DOMAIN put = {} /\ Rows("SCORE") \cap DOMAIN put = {}
  BY <1>2 DEF InsertedKinds
<1> QED
  BY <1>3 DEF GoodSupply, OnlyWrites, WritesReceipts, WritesBills, WritesPapers, Inserts, Updates

LEMMA IssueDebitNoteSupply ==
  ASSUME SupplyInv, NEW s \in Sessions, NEW inv, NEW q, NEW dn \in Rows("DN"), Main \in DOMAIN db, IssueDebitNote(s, inv, q, dn)
  PROVE  SupplyInv'
<1>1. PICK r, level, put, add :
        /\ put = dn :> r @@ Main :> level
        /\ Stage(s, put, add, {inv})
  BY DEF IssueDebitNote
<1>2. DOMAIN put = {dn, Main}
  <2>1. PICK one, two : one = dn :> r /\ two = Main :> level
    OBVIOUS
  <2>2. DOMAIN one = {dn} /\ DOMAIN two = {Main} /\ put = one @@ two
    BY <1>1, <2>1, OneRow
  <2> QED
    BY <2>2 DEF @@
<1>3. dn[1] = "DN" /\ Main[1] = "LVL" /\ dn \in DOMAIN db
  BY DEF Rows, Main
<1>4. OnlyWrites(put, dn) /\ dn[1] \notin InsertedKinds
  BY <1>2, <1>3 DEF OnlyWrites, InsertedKinds
<1>5. GoodSupply(db, put, {inv})
  BY <1>4, WritesNothing
<1>6. \A d \in DOMAIN put : d[1] \notin InsertedKinds
  BY <1>4 DEF OnlyWrites
<1> QED
  BY <1>1, <1>5, <1>6, StageKeepsSupply

LEMMA CreateSupplierInvoiceSupply ==
  ASSUME SupplyInv, NEW s \in Sessions, NEW po \in Live("PO"), NEW inv \in Rows("SINV"), Fresh(inv), CreateSupplierInvoice(s, po, inv)
  PROVE  SupplyInv'
<1>1. PICK q, r, put : /\ q = db[po].qty - BilledQty(po) /\ r = [status |-> "UNMATCHED", po |-> po, qty |-> q]
                       /\ put = inv :> r
  OBVIOUS
<1>2. Stage(s, put, Nothing, {po}) /\ BilledQty(po) < db[po].qty
  BY <1>1 DEF CreateSupplierInvoice
<1>3. DOMAIN put = {inv} /\ put[inv] = r
  BY <1>1, OneRow
<1>4. inv \in DOMAIN db /\ inv[1] = "SINV" /\ db[inv] = NoRow
  BY FreshIsNew DEF Rows
<1>5. LiveOrder(db, po) /\ Ordered(db[po])
  BY DEF SupplyInv, SupplyStands, OrdersStand, OrderStands, LiveOrder, Live
<1>6. BillsOf(db, po) = {} /\ q = db[po].qty
  <2>1. BillsOf(db, po) = Of("SINV", "po", po)
    BY DEF BillsOf, Of, Live
  <2>2. ASSUME NEW i \in BillsOf(db, po) PROVE FALSE
    <3>1. db[i].qty = db[po].qty /\ BillsOf(db, po) = {i}
      BY <2>2 DEF SupplyInv, SupplyStands, BillsStand, BillsOf
    <3>2. BilledQty(po) = SumFunctionOnSet([r0 \in {i} |-> db[r0]["qty"]], {i})
      BY <2>1, <3>1 DEF BilledQty, Total
    <3>3. PICK f : f = [r0 \in {i} |-> db[r0]["qty"]]
      OBVIOUS
    <3>4. f[i] = db[po].qty /\ f[i] \in Int
      BY <1>5, <3>1, <3>3 DEF Ordered
    <3>5. BilledQty(po) = db[po].qty
      BY <3>2, <3>3, <3>4, SumOne
    <3> QED
      BY <1>2, <1>5, <3>5 DEF Ordered
  <2>3. BillsOf(db, po) = {}
    BY <2>2
  <2>4. BilledQty(po) = 0
    BY <2>1, <2>3, SumEmpty DEF BilledQty, Total
  <2> QED
    BY <1>1, <1>5, <2>3, <2>4 DEF Ordered
<1>7. NewRowIs(put, inv, r)
  BY <1>1, <1>3, <1>4, NewRow
<1>8. NewBill(db, put, {po}, inv)
  <2>1. PICK row : row = Over(db, put, inv)
    OBVIOUS
  <2>2. /\ DOMAIN row = {"status", "po", "qty"} /\ row.po = po /\ row.qty = q /\ row.status = "UNMATCHED"
    BY <1>1, <1>7, <2>1 DEF NewRowIs
  <2>3. \A j \in Rows("SINV") \cap Inserts(db, put) : inv = j
    BY <1>3 DEF Inserts
  <2> QED
    BY <1>5, <1>6, <2>1, <2>2, <2>3 DEF NewBill, Bill
<1>9. GoodSupply(db, put, {po})
  <2>1. Rows("PO") \cap DOMAIN put = {} /\ Rows("GRN") \cap DOMAIN put = {} /\ Rows("LCV") \cap DOMAIN put = {}
        /\ Rows("SCORE") \cap DOMAIN put = {}
    BY <1>3, <1>4 DEF Rows
  <2>2. WritesBills(db, put, {po})
    BY <1>3, <1>4, <1>8 DEF WritesBills, Inserts, Updates
  <2> QED
    BY <1>3, <1>4, <2>1, <2>2 DEF GoodSupply, WritesReceipts, WritesPapers, Inserts, Updates
<1> QED
  BY <1>2, <1>3, <1>9, StageKeepsSupply

LEMMA MatchInvoiceSupply ==
  ASSUME SupplyInv, NEW s \in Sessions, NEW inv \in Live("SINV"), NEW approved, MatchInvoice(s, inv, approved)
  PROVE  SupplyInv'
<1>1. \E status, add :
        /\ Stage(s, inv :> [status |-> status], add, {})
        /\ status = "MATCHED" => \E grn \in MatchedReceipt(inv) : Matches(ComparedLines(inv, grn))
  <2>1. CASE PostMatch(s, inv, approved)
    <3>1. PICK status, add :
            /\ status = IF db[inv].qty <= Ceiling \/ approved THEN "MATCHED" ELSE "STAGED"
            /\ add = IF db[inv].qty <= Ceiling \/ approved THEN AP(inv) :> db[inv].qty ELSE Nothing
      OBVIOUS
    <3>2. Stage(s, inv :> [status |-> status], add, {})
          /\ \E grn \in MatchedReceipt(inv) : Matches(ComparedLines(inv, grn))
      BY <2>1, <3>1 DEF PostMatch
    <3> QED
      BY <3>2
  <2>2. CASE Dispute(s, inv)
    <3>1. PICK status : status = "DISPUTED"
      OBVIOUS
    <3>2. Stage(s, inv :> [status |-> status], Nothing, {}) /\ status # "MATCHED"
      BY <2>2, <3>1 DEF Dispute
    <3> QED
      BY <3>2
  <2> QED
    BY <2>1, <2>2 DEF MatchInvoice, DisputeUnreceived, DisputeMismatch
<1>11. PICK status, add :
         /\ Stage(s, inv :> [status |-> status], add, {})
         /\ status = "MATCHED" => \E grn \in MatchedReceipt(inv) : Matches(ComparedLines(inv, grn))
  BY <1>1
<1>2. PICK put, r : r = [status |-> status] /\ put = inv :> r
  OBVIOUS
<1>3. DOMAIN put = {inv} /\ put[inv] = r /\ DOMAIN r = {"status"} /\ r.status = status /\ Stage(s, put, add, {})
  BY <1>11, <1>2, OneRow
<1>4. inv \in DOMAIN db /\ inv[1] = "SINV" /\ db[inv] # NoRow
  BY DEF Live, Rows
<1>5. status = "MATCHED" => CoveredByReceipt(db, db[inv].po, db[inv].qty)
  <2>1. MatchedReceipt(inv) \subseteq ReceiptsOf(db, db[inv].po)
    BY DEF MatchedReceipt, ReceiptsOf, Of, Live
  <2>2. \A grn : Matches(ComparedLines(inv, grn)) => db[inv].qty <= db[grn].qty
    BY DEF Matches, ComparedLines
  <2> QED
    BY <1>11, <2>1, <2>2 DEF CoveredByReceipt
<1>6. Matched(db, put, inv)
  BY <1>3, <1>5 DEF Matched
<1>7. GoodSupply(db, put, {})
  <2>1. Rows("PO") \cap DOMAIN put = {} /\ Rows("GRN") \cap DOMAIN put = {} /\ Rows("LCV") \cap DOMAIN put = {}
        /\ Rows("SCORE") \cap DOMAIN put = {}
    BY <1>3, <1>4 DEF Rows
  <2>2. WritesBills(db, put, {})
    BY <1>3, <1>4, <1>6 DEF WritesBills, Inserts, Updates
  <2> QED
    BY <1>3, <1>4, <2>1, <2>2 DEF GoodSupply, WritesReceipts, WritesPapers, Inserts, Updates
<1> QED
  BY <1>3, <1>4, <1>7, StageKeepsSupply

\* A request that writes one row of a kind, which is neither an order nor a
\* receipt nor an invoice, leaves those alone.
LEMMA WritesPaper ==
  ASSUME NEW put, NEW locks, NEW d, DOMAIN put = {d}, d \in DOMAIN db, d[1] \in {"LCV", "SCORE"}, WritesPapers(db, put)
  PROVE  GoodSupply(db, put, locks)
<1>1. Rows("PO") \cap DOMAIN put = {} /\ Rows("GRN") \cap DOMAIN put = {} /\ Rows("SINV") \cap DOMAIN put = {}
  BY DEF Rows
<1> QED
  BY <1>1 DEF GoodSupply, WritesReceipts, WritesBills, Inserts, Updates

LEMMA SubmitLandedCostVoucherSupply ==
  ASSUME SupplyInv, NEW s \in Sessions, NEW lcv \in Rows("LCV"), db[lcv] # NoRow, SubmitLandedCostVoucher(s, lcv)
  PROVE  SupplyInv'
<1>1. PICK r, put : r = [status |-> "SUBMITTED"] /\ put = lcv :> r
  OBVIOUS
<1>2. DOMAIN put = {lcv} /\ put[lcv] = r /\ DOMAIN r = {"status"} /\ Stage(s, put, Nothing, {})
  BY <1>1, OneRow DEF SubmitLandedCostVoucher
<1>3. lcv \in DOMAIN db /\ lcv[1] = "LCV"
  BY DEF Rows
<1>4. WritesPapers(db, put)
  <2>1. Rows("SCORE") \cap DOMAIN put = {}
    BY <1>2, <1>3 DEF Rows
  <2> QED
    BY <1>2, <2>1 DEF WritesPapers, Inserts, Updates
<1>5. GoodSupply(db, put, {})
  BY <1>2, <1>3, <1>4, WritesPaper
<1> QED
  BY <1>2, <1>3, <1>5, StageKeepsSupply

LEMMA DivBelow == ASSUME NEW a \in Nat, NEW b \in Nat, a < b PROVE (a * 100) \div b < 100
<1>1. PICK q : q = (a * 100) \div b
  OBVIOUS
<1>2. q \in Int /\ b * q <= a * 100
  BY <1>1
<1>3. ASSUME q >= 100 PROVE FALSE
  <2>1. b * q >= b * 100
    BY <1>2, <1>3
  <2> QED
    BY <1>2, <2>1
<1> QED
  BY <1>1, <1>2, <1>3

\* What the receipts count for in a voucher or a scorecard.
LEMMA LandedFacts ==
  ASSUME SupplyInv
  PROVE  /\ IsFiniteSet(Live("GRN"))
         /\ \A g \in Live("GRN") : Landed(g) \in Nat \ {0} /\ g[2] \in Nat /\ g = <<"GRN", g[2]>>
                                   /\ db[g].rejected \in Nat
<1>1. Live("GRN") \subseteq Rows("GRN")
  BY DEF Live
<1>2. IsFiniteSet(Live("GRN"))
  BY <1>1, FS_Subset DEF SupplyInv, SupplyTables
<1>3. ASSUME NEW g \in Live("GRN") PROVE Landed(g) \in Nat \ {0} /\ db[g].rejected \in Nat
  <2>1. ReceiptRow(db[g])
    BY DEF Live, SupplyInv, SupplyStands, GoodsStand
  <2> QED
    BY <2>1 DEF ReceiptRow, Landed
<1> QED
  BY <1>1, <1>2, <1>3 DEF SupplyInv, SupplyTables

LEMMA AllLandedPositive ==
  ASSUME SupplyInv
  PROVE  AllLanded(Live("GRN")) \in Nat /\ (Live("GRN") # {} => AllLanded(Live("GRN")) > 0)
<1>1. PICK S, f : S = Live("GRN") /\ f = [g \in S |-> Landed(g)]
  OBVIOUS
<1>2. IsFiniteSet(S) /\ \A g \in S : f[g] \in Nat /\ f[g] > 0
  BY <1>1, LandedFacts
<1>3. SumFunctionOnSet(f, S) \in Nat /\ \A g \in S : f[g] <= SumFunctionOnSet(f, S)
  BY <1>2, SumNat
<1>4. AllLanded(S) = SumFunctionOnSet(f, S)
  BY <1>1 DEF AllLanded
<1>5. S # {} => SumFunctionOnSet(f, S) > 0
  BY <1>2, <1>3
<1> QED
  BY <1>1, <1>3, <1>4, <1>5

LEMMA ScorecardSupply ==
  ASSUME SupplyInv, NEW s \in Sessions, NEW score \in Rows("SCORE"), Fresh(score), CalculateAndGenerateScorecard(s, score)
  PROVE  SupplyInv'
<1>1. PICK standing, r, put :
        /\ r = [status |-> "LIVE", quality |-> Quality(Live("GRN")), rejected |-> Total(Live("GRN"), "rejected"),
                standing |-> standing]
        /\ put = score :> r
        /\ Stage(s, put, Nothing, {})
  BY DEF CalculateAndGenerateScorecard
<1>2. score \in DOMAIN db /\ score[1] = "SCORE" /\ db[score] = NoRow
  BY FreshIsNew DEF Rows
<1>3. DOMAIN put = {score} /\ put[score] = r
  BY <1>1, OneRow
<1>4. r.rejected > 0 => r.quality < 100
  <2>1. PICK ok, no : ok = AllLanded(Live("GRN")) /\ no = Total(Live("GRN"), "rejected")
    OBVIOUS
  <2>2. ok \in Nat
    BY <2>1, AllLandedPositive
  <2>3. no \in Nat
    <3>1. PICK f : f = [g \in Live("GRN") |-> db[g]["rejected"]]
      OBVIOUS
    <3>2. \A g \in Live("GRN") : f[g] \in Nat
      BY <3>1, LandedFacts
    <3>3. SumFunctionOnSet(f, Live("GRN")) \in Nat
      BY <3>2, LandedFacts, SumNat
    <3> QED
      BY <2>1, <3>1, <3>3 DEF Total
  <2>4. no > 0 => ok + no \in Nat /\ ok < ok + no
    BY <2>2, <2>3
  <2>5. no > 0 => (ok * 100) \div (ok + no) < 100
    BY <2>2, <2>4, DivBelow
  <2>6. no > 0 => Quality(Live("GRN")) = (ok * 100) \div (ok + no)
    BY <2>1, <2>2, <2>4 DEF Quality
  <2>7. r.rejected = no /\ r.quality = Quality(Live("GRN"))
    BY <1>1, <2>1
  <2> QED
    BY <2>5, <2>6, <2>7
<1>5. "status" \in DOMAIN r /\ {"status", "quality", "rejected"} \subseteq DOMAIN r
  BY <1>1
<1>6. NewRowIs(put, score, r)
  BY <1>2, <1>3, <1>5, NewRow
<1>7. Marks(Over(db, put, score))
  <2>1. PICK row : row = Over(db, put, score)
    OBVIOUS
  <2>2. {"status", "quality", "rejected"} \subseteq DOMAIN row /\ row.quality = r.quality /\ row.rejected = r.rejected
    BY <1>5, <1>6, <2>1 DEF NewRowIs
  <2> QED
    BY <1>4, <2>1, <2>2 DEF Marks
<1>8. WritesPapers(db, put)
  <2>1. Rows("LCV") \cap DOMAIN put = {}
    BY <1>2, <1>3 DEF Rows
  <2> QED
    BY <1>2, <1>3, <1>7, <2>1 DEF WritesPapers, Inserts, Updates
<1>9. GoodSupply(db, put, {})
  BY <1>2, <1>3, <1>8, WritesPaper
<1> QED
  BY <1>1, <1>2, <1>3, <1>9, StageKeepsSupply

\* A finite set of rows has one that comes last.
LEMMA LastRow ==
  ASSUME NEW S, IsFiniteSet(S), S # {}, \A g \in S : g[2] \in Nat
  PROVE  \E last \in S : \A g \in S : g[2] <= last[2]
<1> DEFINE newer(a) == {b \in S : b[2] > a[2]}
           C == {newer(a) : a \in S}
<1>1. PICK T \in C : \A U \in C : U \subseteq T => U = T
  <2>1. PICK a \in S : TRUE
    OBVIOUS
  <2>2. newer(a) \in C
    OBVIOUS
  <2>3. C \subseteq SUBSET S /\ C # {}
    BY <2>2
  <2> HIDE DEF C
  <2> QED
    BY <2>3, LeastSubset
<1>2. PICK a \in S : T = newer(a)
  OBVIOUS
<1>3. \A b \in S : b[2] <= a[2]
  <2> SUFFICES ASSUME NEW b \in S, b[2] > a[2] PROVE FALSE
    OBVIOUS
  <2>1. newer(b) \subseteq newer(a) /\ b \in newer(a) /\ b \notin newer(b)
    OBVIOUS
  <2>2. newer(b) \in C
    OBVIOUS
  <2> QED
    BY <1>1, <1>2, <2>1, <2>2
<1> QED
  BY <1>3

\* The shares of the charges add up to the charges.
LEMMA ChargesSplit ==
  ASSUME SupplyInv, NEW charges \in Nat, NEW all, all = Live("GRN"), all # {}, NEW share,
         share = [grn \in all |-> Share(charges, grn, all)]
  PROVE  SumFunctionOnSet(share, all) = charges
<1>1. IsFiniteSet(all) /\ \A g \in all : Landed(g) \in Nat \ {0} /\ g[2] \in Nat /\ g = <<"GRN", g[2]>>
  BY LandedFacts
<1>2. PICK last \in all : \A g \in all : g[2] <= last[2]
  BY <1>1, LastRow
<1>3. PICK total : total = AllLanded(all) /\ total \in Int /\ total > 0
  BY AllLandedPositive
<1>4. PICK part : part = [g \in all \ {last} |-> (charges * Landed(g)) \div total]
  OBVIOUS
<1>5. \A g \in all \ {last} : g[2] < last[2]
  BY <1>1, <1>2
<1>6. {g \in all : g[2] < last[2]} = all \ {last}
  BY <1>1, <1>5
<1>7. \A g \in all \ {last} : part[g] \in Int
  BY <1>1, <1>3, <1>4, DivIsInt
<1>8. share[last] = charges - SumFunctionOnSet(part, all \ {last})
  <2>1. share[last] = Share(charges, last, all)
    OBVIOUS
  <2> QED
    BY <1>2, <1>3, <1>4, <1>6, <2>1 DEF Share
<1>9. ASSUME NEW g \in all \ {last} PROVE share[g] = part[g]
  <2>1. ~(last[2] <= g[2])
    BY <1>1, <1>5
  <2>2. ~ \A h \in all : h[2] <= g[2]
    BY <2>1
  <2>3. share[g] = Share(charges, g, all)
    OBVIOUS
  <2> QED
    BY <1>3, <1>4, <2>2, <2>3 DEF Share
<1>10. IsFiniteSet(all \ {last})
  BY <1>1, FS_Subset
<1>11. SumFunctionOnSet(share, all \ {last}) = SumFunctionOnSet(part, all \ {last})
  BY <1>9, <1>10, SumEqual
<1>12. SumFunctionOnSet(part, all \ {last}) \in Int
  BY <1>7, <1>10, SumInt DEF Summable
<1>13. Summable(share, all \ {last}) /\ share[last] \in Int
  BY <1>7, <1>8, <1>9, <1>10, <1>12 DEF Summable
<1>14. SumFunctionOnSet(share, (all \ {last}) \cup {last}) = share[last] + SumFunctionOnSet(share, all \ {last})
  BY <1>13, SumAdd
<1>15. (all \ {last}) \cup {last} = all
  OBVIOUS
<1>16. PICK rest, sum : rest = SumFunctionOnSet(part, all \ {last}) /\ sum = SumFunctionOnSet(share, all)
  OBVIOUS
<1>17. rest \in Int /\ sum = (charges - rest) + rest
  BY <1>8, <1>11, <1>12, <1>14, <1>15, <1>16
<1>18. sum = charges
  BY <1>17
<1> QED
  BY <1>16, <1>18

LEMMA CreateLandedCostVoucherSupply ==
  ASSUME SupplyInv, NEW s \in Sessions, NEW charges \in Nat, NEW lcv \in Rows("LCV"), Fresh(lcv), Live("GRN") # {},
         CreateLandedCostVoucher(s, charges, Live("GRN"), lcv)
  PROVE  SupplyInv'
<1>1. PICK all, share, r, put :
        /\ all = Live("GRN") /\ share = [grn \in all |-> Share(charges, grn, all)]
        /\ r = [status |-> "DRAFT", charges |-> charges, share |-> share]
        /\ put = lcv :> r
  OBVIOUS
<1>2. Stage(s, put, Nothing, {})
  BY <1>1 DEF CreateLandedCostVoucher
<1>3. lcv \in DOMAIN db /\ lcv[1] = "LCV" /\ db[lcv] = NoRow
  BY FreshIsNew DEF Rows
<1>4. DOMAIN put = {lcv} /\ put[lcv] = r /\ DOMAIN r = {"status", "charges", "share"}
      /\ r.share = share /\ r.charges = charges /\ DOMAIN share = all
  <2>1. DOMAIN r = {"status", "charges", "share"} /\ r.share = share /\ r.charges = charges
    BY <1>1
  <2>2. DOMAIN share = all
    BY <1>1
  <2>0. put = lcv :> r
    BY <1>1
  <2>3. DOMAIN put = {lcv} /\ put[lcv] = r
    BY <2>0, OneRow
  <2> QED
    BY <2>1, <2>2, <2>3
<1>5. SumFunctionOnSet(share, all) = charges
  BY <1>1, ChargesSplit
<1>6. NewRowIs(put, lcv, r)
  BY <1>3, <1>4, NewRow
<1>7. Voucher(Over(db, put, lcv))
  <2>1. PICK row : row = Over(db, put, lcv)
    OBVIOUS
  <2>2. DOMAIN row = {"status", "charges", "share"} /\ row.share = share /\ row.charges = charges
    BY <1>4, <1>6, <2>1 DEF NewRowIs
  <2> QED
    BY <1>4, <1>5, <2>1, <2>2 DEF Voucher
<1>8. WritesPapers(db, put)
  <2>1. Rows("SCORE") \cap DOMAIN put = {}
    BY <1>3, <1>4 DEF Rows
  <2> QED
    BY <1>3, <1>4, <1>7, <2>1 DEF WritesPapers, Inserts, Updates
<1>9. GoodSupply(db, put, {})
  BY <1>3, <1>4, <1>8, WritesPaper
<1> QED
  BY <1>2, <1>3, <1>4, <1>9, StageKeepsSupply

\* A request that writes a receipt, with or without its order, and besides
\* nothing but levels.
LEMMA WritesReceipt ==
  ASSUME NEW put, NEW locks, DOMAIN put \subseteq DOMAIN db, \A d \in DOMAIN put : d[1] \in {"PO", "GRN", "LVL"},
         WritesReceipts(db, put, locks)
  PROVE  GoodSupply(db, put, locks)
<1>1. Rows("LCV") \cap DOMAIN put = {} /\ Rows("SCORE") \cap DOMAIN put = {} /\ Rows("SINV") \cap DOMAIN put = {}
  BY DEF Rows
<1> QED
  BY <1>1 DEF GoodSupply, WritesBills, WritesPapers, Inserts, Updates

LEMMA ReceivedIs == \A po : Received(po) = QtyReceived(db, po)
<1>1. \A po : Of("GRN", "po", po) = ReceiptsOf(db, po)
  BY DEF Of, Live, ReceiptsOf
<1> QED
  BY <1>1 DEF Received, QtyReceived, SumIn, Total

LEMMA ReceivedFacts ==
  ASSUME SupplyInv, NEW po
  PROVE  /\ QtyReceived(db, po) \in Nat
         /\ \A g \in ReceiptsOf(db, po) : db[g].qty <= QtyReceived(db, po)
<1>1. PICK S, f : S = ReceiptsOf(db, po) /\ f = [g \in S |-> db[g]["qty"]]
  OBVIOUS
<1>2. S \subseteq Rows("GRN")
  BY <1>1 DEF ReceiptsOf
<1>3. IsFiniteSet(S)
  BY <1>2, FS_Subset DEF SupplyInv, SupplyTables
<1>4. \A g \in S : f[g] \in Nat
  BY <1>1 DEF SupplyInv, SupplyStands, GoodsStand, ReceiptRow, ReceiptsOf
<1>5. SumFunctionOnSet(f, S) \in Nat /\ \A g \in S : f[g] <= SumFunctionOnSet(f, S)
  BY <1>3, <1>4, SumNat
<1> QED
  BY <1>1, <1>5 DEF QtyReceived, SumIn

\* The columns of a receipt that is written in full.
NewGoods(r, po, q) ==
  /\ DOMAIN r = {"status", "po", "qty", "accepted", "rejected", "inspected"}
  /\ r.po = po /\ r.qty = q /\ r.accepted = q /\ r.rejected = 0 /\ r.inspected = FALSE /\ r.status = "COMPLETED"

LEMMA CreateGoodsReceiptSupply ==
  ASSUME SupplyInv, NEW s \in Sessions, NEW po \in Live("PO"), NEW q \in Nat \ {0}, NEW grn \in Rows("GRN"), Fresh(grn),
         Main \in DOMAIN db, CreateGoodsReceipt(s, po, q, grn)
  PROVE  SupplyInv'
<1>1. PICK r, st, level, put, add :
        /\ r = [status |-> "COMPLETED", po |-> po, qty |-> q, accepted |-> q, rejected |-> 0, inspected |-> FALSE]
        /\ st = [status |-> IF Received(po) + q >= db[po].qty THEN "COMPLETED" ELSE "PARTIALLY_RECEIVED"]
        /\ level = [current |-> db[Main].current + q, available |-> db[Main].available + q]
        /\ put = grn :> r @@ po :> st @@ Main :> level
        /\ Stage(s, put, add, {po})
  BY DEF CreateGoodsReceipt, Moved
<1>2. put = grn :> r @@ po :> st @@ Main :> level /\ Stage(s, put, add, {po})
  BY <1>1
<1>3. NewGoods(r, po, q)
  BY <1>1 DEF NewGoods
<1>4. DOMAIN st = {"status"} /\ st.status = IF Received(po) + q >= db[po].qty THEN "COMPLETED" ELSE "PARTIALLY_RECEIVED"
  BY <1>1
<1>5. grn \in DOMAIN db /\ grn[1] = "GRN" /\ db[grn] = NoRow /\ po[1] = "PO" /\ po \in DOMAIN db /\ db[po] # NoRow
      /\ Main[1] = "LVL"
  BY FreshIsNew DEF Rows, Live, Main
<1>6. DOMAIN put = {grn, po, Main} /\ put[grn] = r /\ put[po] = st
  <2>1. PICK one, two, three, both : /\ one = grn :> r /\ two = po :> st /\ three = Main :> level /\ both = one @@ two
                                     /\ put = both @@ three
    BY <1>2
  <2>2. DOMAIN one = {grn} /\ one[grn] = r /\ DOMAIN two = {po} /\ two[po] = st /\ DOMAIN three = {Main}
    BY <2>1, OneRow
  <2>3. DOMAIN both = {grn, po} /\ both[grn] = r /\ both[po] = st
    BY <1>5, <2>1, <2>2 DEF @@
  <2> QED
    BY <1>5, <2>1, <2>2, <2>3 DEF @@
<1>7. LiveOrder(db, po) /\ Ordered(db[po])
  BY DEF SupplyInv, SupplyStands, OrdersStand, OrderStands, LiveOrder, Live
<1>8. NewRowIs(put, grn, r)
  <2>1. grn \in DOMAIN put /\ r = put[grn] /\ "status" \in DOMAIN r
    BY <1>3, <1>6 DEF NewGoods
  <2> QED
    BY <1>5, <2>1, NewRow
<1>9. PICK row : row = Over(db, put, grn)
  OBVIOUS
<1>10. ReceiptRow(row) /\ row.po = po /\ row.qty = q
  BY <1>3, <1>8, <1>9 DEF NewRowIs, NewGoods, ReceiptRow
<1>11. PICK order, got : order = Over(db, put, po) /\ got = QtyReceived(db, po)
  OBVIOUS
<1>12. Received(po) = got /\ got \in Nat /\ got + q <= db[po].qty + db[po].over
  BY <1>11, ReceivedIs, ReceivedFacts DEF CreateGoodsReceipt, Receivable
<1>13. OrderStands(order, got + q)
  <2>1. PICK old : old = db[po]
    OBVIOUS
  <2>2. Overlaid(order, st, old)
    <3>1. Overlaid(Over(db, put, po), put[po], db[po])
      BY <1>6, OverColumns
    <3> QED
      BY <1>6, <1>11, <2>1, <3>1
  <2>3. Ordered(order) /\ order.qty = old.qty /\ order.over = old.over /\ order.status = st.status
    BY <1>4, <1>7, <2>1, <2>2 DEF Overlaid, Ordered
  <2> QED
    BY <1>4, <1>7, <1>12, <2>1, <2>3 DEF OrderStands, Ordered
<1>14. grn \in Rows("GRN") \cap Inserts(db, put) /\ \A h \in Rows("GRN") \cap Inserts(db, put) : h = grn
  BY <1>5, <1>6 DEF Inserts, Rows
<1>15. NewReceipt(db, put, {po}, grn)
  BY <1>7, <1>9, <1>10, <1>11, <1>13, <1>14 DEF NewReceipt
<1>16. WritesOrder(db, put, {po}, po)
  BY <1>4, <1>5, <1>6, <1>9, <1>10, <1>14 DEF WritesOrder
<1>17. Rows("GRN") \cap Updates(db, put) = {} /\ Rows("PO") \cap DOMAIN put = {po}
  BY <1>5, <1>6 DEF Updates, Rows
<1>18. WritesReceipts(db, put, {po})
  BY <1>14, <1>15, <1>16, <1>17 DEF WritesReceipts
<1>19. GoodSupply(db, put, {po})
  BY <1>5, <1>6, <1>18, WritesReceipt
<1> QED
  BY <1>2, <1>5, <1>6, <1>19, StageKeepsSupply DEF InsertedKinds

LEMMA InspectGrnSupply ==
  ASSUME SupplyInv, NEW s \in Sessions, NEW grn \in Live("GRN"), NEW rejected \in 0..db[grn].qty,
         Main \in DOMAIN db, Quarantine \in DOMAIN db, InspectGrn(s, grn, rejected)
  PROVE  SupplyInv'
<1>1. PICK r, moves, put, add, locks :
        /\ r = [accepted |-> db[grn].qty - rejected, rejected |-> rejected, inspected |-> TRUE]
        /\ moves = (IF rejected > 0 THEN Moved(Main, -rejected) @@ Moved(Quarantine, rejected) ELSE Nothing)
        /\ put = grn :> r @@ moves
        /\ locks = {grn} \cup IF rejected > 0 THEN {Main, Quarantine} ELSE {}
        /\ Stage(s, put, add, locks)
  BY DEF InspectGrn
<1>2. put = grn :> r @@ moves /\ Stage(s, put, add, locks) /\ grn \in locks
  BY <1>1
<1>3. DOMAIN r = {"accepted", "rejected", "inspected"} /\ r.accepted = db[grn].qty - rejected /\ r.rejected = rejected
      /\ r.inspected = TRUE
  BY <1>1
<1>4. grn \in DOMAIN db /\ grn \in Rows("GRN") /\ grn[1] = "GRN" /\ db[grn] # NoRow /\ Main[1] = "LVL" /\ Quarantine[1] = "LVL"
  BY DEF Rows, Live, Main, Quarantine
<1>5. DOMAIN moves \subseteq {Main, Quarantine}
  <2>1. CASE rejected > 0
    <3>1. PICK one, two : one = Moved(Main, -rejected) /\ two = Moved(Quarantine, rejected)
      OBVIOUS
    <3>2. DOMAIN one = {Main} /\ DOMAIN two = {Quarantine}
      BY <3>1, OneRow DEF Moved
    <3>3. moves = one @@ two
      BY <1>1, <2>1, <3>1
    <3> QED
      BY <3>2, <3>3 DEF @@
  <2>2. CASE ~(rejected > 0)
    <3>1. moves = Nothing
      BY <1>1, <2>2
    <3> QED
      BY <3>1 DEF Nothing
  <2> QED
    BY <2>1, <2>2
<1>6. DOMAIN put = {grn} \cup DOMAIN moves /\ put[grn] = r
  <2>1. PICK one : one = grn :> r
    OBVIOUS
  <2>2. DOMAIN one = {grn} /\ one[grn] = r /\ put = one @@ moves
    BY <1>2, <2>1, OneRow
  <2> QED
    BY <2>2 DEF @@
<1>7. PICK row, old : row = Over(db, put, grn) /\ old = db[grn]
  OBVIOUS
<1>8. ReceiptRow(old)
  BY <1>4, <1>7 DEF SupplyInv, SupplyStands, GoodsStand
<1>9. Overlaid(row, r, old)
  <2>1. Overlaid(Over(db, put, grn), put[grn], db[grn])
    BY <1>6, OverColumns
  <2> QED
    BY <1>6, <1>7, <2>1
<1>10. {"status", "po", "qty", "accepted", "rejected", "inspected"} \subseteq DOMAIN row /\ row.po = old.po /\ row.qty = old.qty
       /\ row.accepted = old.qty - rejected /\ row.rejected = rejected /\ row.inspected = TRUE
  BY <1>3, <1>7, <1>8, <1>9 DEF Overlaid, ReceiptRow
<1>11. ReceiptRow(row)
  <2>1. old.qty \in Nat \ {0} /\ rejected \in 0..old.qty
    BY <1>7, <1>8 DEF ReceiptRow
  <2>2. row.accepted \in Nat /\ row.rejected \in Nat
    BY <1>10, <2>1
  <2> QED
    BY <1>10, <2>1, <2>2 DEF ReceiptRow
<1>12. Inspects(db, put, locks, grn)
  BY <1>2, <1>7, <1>10, <1>11 DEF Inspects
<1>13. \A d \in DOMAIN put : d = grn \/ d[1] = "LVL"
  BY <1>4, <1>5, <1>6
<1>14. Rows("PO") \cap DOMAIN put = {} /\ Rows("GRN") \cap Inserts(db, put) = {} /\ Rows("GRN") \cap Updates(db, put) \subseteq {grn}
  BY <1>4, <1>13 DEF Rows, Inserts, Updates
<1>15. WritesReceipts(db, put, locks)
  BY <1>12, <1>14 DEF WritesReceipts
<1>16. GoodSupply(db, put, locks)
  <2>1. DOMAIN put \subseteq DOMAIN db
    BY <1>4, <1>5, <1>6
  <2>2. \A d \in DOMAIN put : d[1] \in {"PO", "GRN", "LVL"}
    BY <1>4, <1>13
  <2> QED
    BY <1>15, <2>1, <2>2, WritesReceipt
<1>17. \A d \in DOMAIN put : d[1] \in InsertedKinds => db[d] # NoRow \/ Fresh(d)
  BY <1>4, <1>13 DEF InsertedKinds
<1> QED
  BY <1>2, <1>16, <1>17, StageKeepsSupply

LEMMA SupplyHandlers ==
  ASSUME SupplyInv, NEW s \in Sessions, Main \in DOMAIN db, Quarantine \in DOMAIN db,
         NEW asked, asked.goods \subseteq Nat \ {0}, asked.charges \subseteq Nat, PayablesHandlers(s, asked)
  PROVE  SupplyInv'
<1>1. ASSUME NEW po \in Live("PO"), NEW grn \in Rows("GRN"), NEW q \in asked.goods, Fresh(grn), CreateGoodsReceipt(s, po, q, grn)
      PROVE  SupplyInv'
  BY <1>1, CreateGoodsReceiptSupply
<1>2. ASSUME NEW po \in Live("PO"), NEW inv \in Rows("SINV"), Fresh(inv), CreateSupplierInvoice(s, po, inv)
      PROVE  SupplyInv'
  BY <1>2, CreateSupplierInvoiceSupply
<1>3. ASSUME NEW grn \in Live("GRN"), NEW rejected \in 0..db[grn].qty, InspectGrn(s, grn, rejected)
      PROVE  SupplyInv'
  BY <1>3, InspectGrnSupply
<1>4. ASSUME NEW inv \in Live("SINV"), NEW approved \in BOOLEAN, MatchInvoice(s, inv, approved)
      PROVE  SupplyInv'
  BY <1>4, MatchInvoiceSupply
<1>5. ASSUME NEW inv \in Live("SINV"), NEW dn \in Rows("DN"), NEW q \in asked.returns, IssueDebitNote(s, inv, q, dn)
      PROVE  SupplyInv'
  BY <1>5, IssueDebitNoteSupply
<1>6. ASSUME NEW lcv \in Rows("LCV"), NEW charges \in asked.charges, Fresh(lcv), Live("GRN") # {},
             CreateLandedCostVoucher(s, charges, Live("GRN"), lcv)
      PROVE  SupplyInv'
  BY <1>6, CreateLandedCostVoucherSupply
<1>7. ASSUME NEW lcv \in Rows("LCV"), db[lcv] # NoRow, SubmitLandedCostVoucher(s, lcv)
      PROVE  SupplyInv'
  BY <1>7, SubmitLandedCostVoucherSupply
<1>8. ASSUME NEW score \in Rows("SCORE"), Fresh(score), CalculateAndGenerateScorecard(s, score)
      PROVE  SupplyInv'
  BY <1>8, ScorecardSupply
<1> QED
  BY <1>1, <1>2, <1>3, <1>4, <1>5, <1>6, <1>7, <1>8 DEF PayablesHandlers

=============================================================================
