------------------------------ MODULE MasterData ------------------------------
(***************************************************************************)
(* Records that other documents build on (api/routes/master_data.py, the   *)
(* item catalogue of inventory_rop.py and the payment terms of             *)
(* tax_and_terms_service.py).  Loyalty entries are made under the lock of  *)
(* the customer; the others take no lock.                                  *)
(*                                                                         *)
(* Rows: GROUP [status, parent, folder, left, right] an item or a supplier *)
(* group, numbered by its name, with the bounds of its subtree; SPLIT      *)
(* [status, share] a member of the sales team of a document; MEMBER        *)
(* customer; BILL [status, total]; POINTS [status, bill, points] an entry  *)
(* by its type; TERMS [status, portions]; MILESTONE [status, bill, amount] *)
(* the parts in which a bill is due; STOCKED [status, current] an item and *)
(* its level, numbered by its code.  A deleted row is DELETED.             *)
(***************************************************************************)
EXTENDS Database, Sequences, Functions

-----------------------------------------------------------------------------
(* Trees of groups *)

Groups == {g \in Live("GROUP") : Status(g) = "LIVE"}
Tree == [g \in Groups |-> db[g]]

Inside(tree, g) == {h \in DOMAIN tree : tree[h].parent = g}

\* A group and all that is under it.
Reached(tree, start) ==
  LET after[n \in Nat] ==
        IF n = 0 THEN start ELSE after[n - 1] \cup UNION {Inside(tree, g) : g \in after[n - 1]}
  IN after[Cardinality(DOMAIN tree)]

\* A cycle hangs from no root.
Hangs(tree) == Reached(tree, Inside(tree, NoRef)) = DOMAIN tree

\* Mutant of Before: an earlier group counts without what is under it.
BeforeAlone(tree, g) == {h \in Inside(tree, tree[g].parent) : h[2] < g[2]}

\* Everything under the groups that precede a group by name.
Before(tree, g) == Reached(tree, {h \in Inside(tree, tree[g].parent) : h[2] < g[2]})

\* The bounds that a walk in the order of the names gives.
Rebuilt(tree) ==
  LET left[g \in DOMAIN tree] ==
        2 * Cardinality(Before(tree, g))
          + IF tree[g].parent = NoRef THEN 1 ELSE left[tree[g].parent] + 1
      right(g) == left[g] + 2 * Cardinality(Reached(tree, {g})) - 1
  IN [g \in DOMAIN tree |-> [tree[g] EXCEPT !.left = left[g], !.right = right(g)]]

NewGroup(parent, folder) == [status |-> "LIVE", parent |-> parent, folder |-> folder, left |-> 0, right |-> 0]

StageTree(s, tree, gone) ==
  Hangs(tree) /\ Stage(s, Rebuilt(tree) @@ [g \in gone |-> [status |-> "DELETED"]], Nothing, {})

CreateGroup(s, g, parent, folder) ==
  /\ g \notin Groups
  /\ parent # NoRef => parent \in Groups /\ db[parent].folder
  /\ StageTree(s, Tree @@ g :> NewGroup(parent, folder), {})

MoveGroup(s, g, parent) ==
  /\ parent # g
  /\ parent # NoRef => db[parent].folder
  /\ StageTree(s, [Tree EXCEPT ![g].parent = parent], {})

\* A group with groups in it stays a folder.
SetFolder(s, g, folder) ==
  /\ ~folder => Inside(Tree, g) = {}
  /\ StageTree(s, [Tree EXCEPT ![g].folder = folder], {})

\* The foreign key keeps a parent from being deleted.
DeleteGroup(s, g) ==
  Inside(Tree, g) = {} /\ StageTree(s, Restrict(Tree, Groups \ {g}), {g})

\* The starter groups under the first one, which is kept as it is.
SeedDefaults(s) ==
  LET root    == <<"GROUP", 1>>
      missing == Rows("GROUP") \ Groups
  IN StageTree(s, Tree @@ [g \in missing |-> NewGroup(IF g = root THEN NoRef ELSE root, g = root)], {})

-----------------------------------------------------------------------------
(* Sales teams, in tenths of the commission *)

AddToTeam(s, member, share) ==
  /\ Total(Live("SPLIT"), "share") + share <= 10
  /\ Stage(s, member :> [status |-> "LIVE", share |-> share], Nothing, {})

\* Mutant of ChangeShare: the share is compared with the whole alone.
ChangeShareAlone(s, member, share) == Stage(s, member :> [share |-> share], Nothing, {})

ChangeShare(s, member, share) ==
  /\ Total(Live("SPLIT") \ {member}, "share") + share <= 10
  /\ Stage(s, member :> [share |-> share], Nothing, {})

-----------------------------------------------------------------------------
(* Loyalty points: one for each unit of a bill *)

Customer == <<"MEMBER", 1>>
Entries(type) == {p \in Live("POINTS") : Status(p) = type}
PointBalance == Total(Entries("EARN"), "points") - Total(Entries("REDEEM"), "points")

\* Mutant of PointsLock: the customer is read without a lock.
NoPointsLock == {}

PointsLock == {Customer}

\* Only once for a bill; a later cancellation leaves the points.
EarnLoyaltyPoints(s, bill, entry) ==
  /\ Status(bill) \in {"ISSUED", "PAID"}
  /\ db[bill].total > 0
  /\ \A p \in Entries("EARN") : db[p].bill # bill
  /\ Stage(s, entry :> [status |-> "EARN", bill |-> bill, points |-> db[bill].total], Nothing, PointsLock \cup {bill})

\* Without a bill as often as there are points.
RedeemLoyaltyPoints(s, bill, points, entry) ==
  /\ bill # NoRef => \A p \in Entries("REDEEM") : db[p].bill # bill
  /\ points <= PointBalance
  /\ Stage(s, entry :> [status |-> "REDEEM", bill |-> bill, points |-> points], Nothing, PointsLock)

-----------------------------------------------------------------------------
(* Payment terms *)

CreatePaymentTermsTemplate(s, terms, portions) ==
  /\ SumFunction(portions) = 100
  /\ Stage(s, terms :> [status |-> "LIVE", portions |-> portions], Nothing, {})

\* To the nearest unit, a half to the even one.
Rounded(a, b) ==
  LET q == a \div b  r == 2 * (a % b) IN
  IF r < b \/ (r = b /\ q % 2 = 0) THEN q ELSE q + 1

Milestone(i) == <<"MILESTONE", i>>

\* Mutant of Replaced: the milestones of earlier terms stay.
Kept == Nothing

Replaced == [m \in Live("MILESTONE") |-> [status |-> "DELETED"]]

\* No part takes what the rounding leaves.
GeneratePaymentSchedule(s, bill, terms) ==
  LET portions == db[terms].portions
      index(m) == m[2]
      due == {Milestone(i) : i \in DOMAIN portions}
  IN Stage(s,
       [m \in due |-> [status |-> "UNPAID", bill |-> bill,
                       amount |-> Rounded(db[bill].total * portions[index(m)], 100)]] @@ Replaced,
       Nothing, {})

-----------------------------------------------------------------------------
(* The catalogue *)

ItemLedger(item) == <<"SLE", item>>

\* An item is inserted with its level and its opening entry.
NewItem(qty) == [status |-> "LIVE", current |-> qty]

CreateInventoryItem(s, item, qty) ==
  db[item] = NoRow /\ Stage(s, item :> NewItem(qty), ItemLedger(item) :> qty, {})

\* Rows whose code exists, in the catalogue or in the file, are reported.
ImportInventoryItems(s, codes, qty) ==
  LET new == {item \in codes : db[item] = NoRow} IN
  Stage(s, [item \in new |-> NewItem(qty)], [k \in {ItemLedger(item) : item \in new} |-> qty], {})

AdjustStock(s, item, delta) ==
  /\ db[item].current + delta >= 0
  /\ Stage(s, item :> [current |-> db[item].current + delta], ItemLedger(item) :> delta, {})

-----------------------------------------------------------------------------

MasterDataHandlers(s, spent) ==
  \/ \E g \in Rows("GROUP"), parent \in Groups \cup {NoRef}, folder \in BOOLEAN : CreateGroup(s, g, parent, folder)
  \/ \E g \in Groups :
       \/ \E parent \in Groups \cup {NoRef} : MoveGroup(s, g, parent)
       \/ \E folder \in BOOLEAN : SetFolder(s, g, folder)
       \/ DeleteGroup(s, g)
  \/ Rows("GROUP") # {} /\ SeedDefaults(s)
  \/ \E member \in Rows("SPLIT"), share \in {4, 6, 10} :
       (Fresh(member) /\ AddToTeam(s, member, share)) \/ (db[member] # NoRow /\ ChangeShare(s, member, share))
  \/ \E entry \in Rows("POINTS"), bill \in Live("BILL") :
       /\ Fresh(entry)
       /\ \/ EarnLoyaltyPoints(s, bill, entry)
          \/ \E points \in spent : RedeemLoyaltyPoints(s, bill, points, entry) \/ RedeemLoyaltyPoints(s, NoRef, points, entry)
  \/ \E terms \in Rows("TERMS") :
       \/ \E portions \in {<<50, 50>>, <<30, 30, 40>>, <<50, 30>>} :
            Fresh(terms) /\ CreatePaymentTermsTemplate(s, terms, portions)
       \/ \E bill \in Live("BILL") : db[terms] # NoRow /\ GeneratePaymentSchedule(s, bill, terms)
  \/ \E item \in Rows("STOCKED") :
       \/ CreateInventoryItem(s, item, 1)
       \/ \E delta \in {-1, 1} : db[item] # NoRow /\ db[item].current + delta <= 3 /\ AdjustStock(s, item, delta)
  \/ \E codes \in SUBSET Rows("STOCKED") : codes # {} /\ ImportInventoryItems(s, codes, 2)

MasterDataNext(s) == MasterDataHandlers(s, 2..3)

-----------------------------------------------------------------------------
(* Properties *)

\* One request after the other, the bounds of every group enclose exactly
\* the groups under it, after any sequence of moves and deletions, and leave
\* no gap.
BoundsFollowParents ==
  /\ \A g, h \in Groups :
       h \in Reached(Tree, {g}) <=> db[g].left <= db[h].left /\ db[h].right <= db[g].right
  /\ UNION {{db[g].left, db[g].right} : g \in Groups} = 1..(2 * Cardinality(Groups))

\* Overlapping redemptions never spend a point twice, and no bill earns
\* or takes off points twice.
PointsCovered ==
  /\ PointBalance >= 0
  /\ \A p, q \in Live("POINTS") : p # q /\ Status(p) = Status(q) => db[p].bill # db[q].bill \/ db[p].bill = NoRef

\* The milestones of a bill are those of one template: their number and, up
\* to half a unit for each, their sum say so, also after other terms applied.
OneSchedule ==
  LET due == {m \in Live("MILESTONE") : Status(m) = "UNPAID"} IN
  \A bill \in Live("BILL") :
    due # {} =>
      LET off == Total(due, "amount") - db[bill].total IN
      -Cardinality(due) <= 2 * off /\ 2 * off <= Cardinality(due)

SharesWithinWhole == Total(Live("SPLIT"), "share") <= 10

ShelvesFollowLedger == \A item \in Live("STOCKED") : db[item].current = sums[ItemLedger(item)]

\* Records that others are computed from agree with what they were made from.
MasterDataAgrees ==
  BoundsFollowParents /\ PointsCovered /\ OneSchedule /\ SharesWithinWhole /\ ShelvesFollowLedger

PointsRow(row) ==
  {"status", "bill", "points"} \subseteq DOMAIN row /\ row.status \in {"EARN", "REDEEM"} /\ row.points \in Nat

PointsComplete ==
  /\ IsFiniteSet(Rows("POINTS")) /\ \A p \in Live("POINTS") : PointsRow(db[p])
  /\ \A b \in Live("BILL") : {"status", "total"} \subseteq DOMAIN db[b] /\ db[b].total \in Int

\* Any bills and redemptions, requests overlapping as they like.
PointsSpec ==
  /\ PointsComplete /\ PointsCovered /\ \A s \in Sessions : Free(s)
  /\ [][\E s \in Sessions : EndOfRequest(s) \/ MasterDataHandlers(s, Nat)]_vars
=============================================================================
