------------------------------- MODULE Database -------------------------------
(***************************************************************************)
(* The relational database as the request handlers use it (db/session.py): *)
(* every request has one session and one transaction at READ COMMITTED,    *)
(* committed when the handler returns and rolled back when it raises.      *)
(*                                                                         *)
(* A handler reads the committed rows, checks its guards and stages the    *)
(* columns it changes (Stage); Commit writes them.  A handler that takes   *)
(* row locks (SELECT ... FOR UPDATE) or advisory locks keeps them from its *)
(* read to its commit.  A handler that takes none may write what it        *)
(* computed from a row that another request has changed since.             *)
(*                                                                         *)
(* A row is named <<kind, number>>; db holds the rows of one scenario, the *)
(* ones not yet inserted as NoRow, so the number of rows of each kind      *)
(* bounds a run.  sums holds the append-only books (ledger accounts, stock *)
(* ledger, counters of outgoing messages), aggregated by key.              *)
(***************************************************************************)
EXTENDS Integers, FiniteSets, FiniteSetsExt, Functions

d :> r == [x \in {d} |-> r]
f @@ g == [x \in DOMAIN f \cup DOMAIN g |-> IF x \in DOMAIN f THEN f[x] ELSE g[x]]

CONSTANT Idle     \* a session without a request

VARIABLES
  db,    \* db[d]: the committed row d
  sums,  \* sums[k]: the committed total of book k
  req    \* req[s]: what the request of session s has staged, or Idle

vars == <<db, sums, req>>

NoRow == [status |-> "NONE"]
NoRef == <<"NONE", 0>>   \* a null foreign key

Sessions == DOMAIN req

\* One request after the other.
OneSession == \A s, t \in Sessions : s = t

Rows(kind) == {d \in DOMAIN db : d[1] = kind}
Live(kind) == {d \in Rows(kind) : db[d] # NoRow}
Status(d) == db[d].status

\* The rows of a kind that refer to row d through a column.
Of(kind, column, d) == {r \in Live(kind) : db[r][column] = d}
Total(rows, column) == SumFunctionOnSet([r \in rows |-> db[r][column]], rows)

\* The total of a book that a scenario may lack.
Book(k) == IF k \in DOMAIN sums THEN sums[k] ELSE 0

\* The next row to insert: uuid keys never collide, so an id that a request
\* in progress has staged is not used by another one.
Used(d) == db[d] # NoRow \/ \E s \in Sessions : req[s] # Idle /\ d \in DOMAIN req[s].put
Fresh(d) == ~Used(d) /\ \A e \in Rows(d[1]) : e[2] < d[2] => Used(e)

\* A stock level after q units came in or, negative, went out; books of the
\* stock ledger are kept per level.
Moved(level, q) ==
  level :> [current |-> db[level].current + q, available |-> db[level].available + q]
Sle(level) == <<"SLE", level>>

Nothing == <<>>
Free(s) == req[s] = Idle

\* No other session holds one of the locks.
Lockable(s, locks) ==
  \A t \in Sessions \ {s} : req[t] # Idle => req[t].locks \cap locks = {}

\* The ORM writes the attributes whose value differs from the loaded one.
Changed(old, new) == [c \in {x \in DOMAIN new : x \notin DOMAIN old \/ new[x] # old[x]} |-> new[c]]

Request(put, add, locks, memo) ==
  [put |-> [d \in DOMAIN put |-> Changed(db[d], put[d])], add |-> add, locks |-> locks, memo |-> memo]

\* The whole handler: it holds locks, writes the columns put and posts add.
Stage(s, put, add, locks) ==
  /\ Free(s)
  /\ Lockable(s, locks)
  /\ req' = [req EXCEPT ![s] = Request(put, add, locks, [op |-> "commit"])]
  /\ UNCHANGED <<db, sums>>

\* The first part of a handler that locks again after its first reads.
Hold(s, memo, locks) ==
  /\ Free(s)
  /\ Lockable(s, locks)
  /\ req' = [req EXCEPT ![s] = Request(Nothing, Nothing, locks, memo)]
  /\ UNCHANGED <<db, sums>>

At(s, op) == ~Free(s) /\ req[s].memo.op = op

\* The rest of such a handler.
Finish(s, put, add, locks) ==
  /\ Lockable(s, locks)
  /\ req' = [req EXCEPT ![s] = Request(put, add, req[s].locks \cup locks, [op |-> "commit"])]
  /\ UNCHANGED <<db, sums>>

\* The staged columns and postings become visible; the session goes on.
CommitAnd(s, next) ==
  /\ db' = [d \in DOMAIN db |->
              IF d \in DOMAIN req[s].put THEN req[s].put[d] @@ db[d] ELSE db[d]]
  /\ sums' = [k \in DOMAIN sums |->
                sums[k] + (IF k \in DOMAIN req[s].add THEN req[s].add[k] ELSE 0)]
  /\ req' = [req EXCEPT ![s] = next]

\* The flush, which waits for the locks on the rows it writes, and the commit.
Commit(s) ==
  /\ At(s, "commit")
  /\ Lockable(s, DOMAIN req[s].put)
  /\ CommitAnd(s, Idle)

\* The handler raises, the client disconnects or the process dies.
Rollback(s) ==
  /\ ~Free(s)
  /\ req' = [req EXCEPT ![s] = Idle]
  /\ UNCHANGED <<db, sums>>

EndOfRequest(s) == Commit(s) \/ Rollback(s)
=============================================================================
