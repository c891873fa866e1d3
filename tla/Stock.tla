-------------------------------- MODULE Stock --------------------------------
(***************************************************************************)
(* One row of the inventory table - the stock of one product in one        *)
(* warehouse, split into state buckets - and everything that writes it     *)
(* except transfers between warehouses: the state engine                   *)
(* (server/services/inventoryStateService.js), receiving, losses and       *)
(* stocktakes, adjustments, procurement, refunds, the point of sale, and   *)
(* the orders engine (server/services/orderService.js).  An order has one  *)
(* line, for this product.                                                 *)
(*                                                                         *)
(* There are two kinds of writers.  An absolute writer selects the row,    *)
(* computes new values from what it read, and updates the columns it names *)
(* to those values.  A relative writer updates columns by an amount, which *)
(* PostgreSQL applies to the row as it stands when the row lock is got.    *)
(* Transactions are READ COMMITTED: a SELECT is a step, and so is an       *)
(* UPDATE with all that follows it to COMMIT, since the row stays locked.  *)
(* A request that its first read refuses changes nothing and is left out.  *)
(***************************************************************************)
EXTENDS OrderStatus, Integers

CONSTANTS
  Requests,    \* requests that may be in progress at once
  Orders,
  Quantities,  \* units a request may name
  Opening,     \* units in the warehouse at the start
  Operations,  \* the endpoints exercised
  MaxStock     \* bound: a write that leaves -MaxStock..MaxStock is not taken

Buckets == {"hand", "avail", "res", "dam", "exp", "transit"}

\* The absolute writers that move units from one bucket to another, or to and
\* from outside the warehouse ("out"), with the columns their UPDATE names.
ReserveStock == [from |-> "avail", to |-> "res", sets |-> {"avail", "res"}]
ReleaseReservation == [from |-> "res", to |-> "avail", sets |-> {"avail", "res"}]
QuarantineDamaged == [from |-> "avail", to |-> "dam", sets |-> {"avail", "dam"}]
MarkExpired == [from |-> "avail", to |-> "exp", sets |-> {"avail", "exp"}]
WriteOffStock(pool) == [from |-> pool, to |-> "out", sets |-> {"hand", "dam", "exp"}]
RestoreToAvailable(pool) == [from |-> pool, to |-> "avail", sets |-> {"avail", "dam", "exp"}]
ReceiveStock(to) == [from |-> "out", to |-> to, sets |-> {"hand", "avail", "dam"}]
RecordLostStock == [from |-> "avail", to |-> "out", sets |-> {"hand", "avail"}]
RestoreFoundStock == [from |-> "out", to |-> "avail", sets |-> {"hand", "avail"}]
ApproveSupplierReturn(from) == [from |-> from, to |-> "out", sets |-> {"hand", from}]
ApproveRefund == [from |-> "out", to |-> "avail", sets |-> {"hand", "avail"}]

Shifts ==
  [ reserve |-> ReserveStock,                       release |-> ReleaseReservation,
    quarantine |-> QuarantineDamaged,               expire |-> MarkExpired,
    writeOffDamaged |-> WriteOffStock("dam"),       writeOffExpired |-> WriteOffStock("exp"),
    restoreDamaged |-> RestoreToAvailable("dam"),   restoreExpired |-> RestoreToAvailable("exp"),
    receiveGood |-> ReceiveStock("avail"),          receiveDamaged |-> ReceiveStock("dam"),
    lose |-> RecordLostStock,                       find |-> RestoreFoundStock,
    returnGood |-> ApproveSupplierReturn("avail"),  returnDamaged |-> ApproveSupplierReturn("dam"),
    refund |-> ApproveRefund ]

Counts == {"add", "deduct"}   \* adjustments, and the variances of a stocktake
Absolute == DOMAIN Shifts \cup Counts
Relative == {"create", "edit", "transition", "checkout", "exchange"}

ASSUME StockAssumption ==
  /\ MaxStock \in Nat
  /\ Quantities \subseteq Nat \ {0}
  /\ Opening \subseteq 0..MaxStock
  /\ Operations \subseteq Absolute \cup Relative

VARIABLES
  row,     \* bucket -> units
  order,   \* orders.status and inventory_allocated, and its line's quantity
  req      \* the requests in progress

vars == <<row, order, req>>

NoOrder == [status |-> "NONE", allocated |-> FALSE, qty |-> 0]
NoStock == [b \in Buckets |-> 0]
Idle == [pc |-> "idle", op |-> "none", n |-> 0, seen |-> NoStock,
         order |-> "none", was |-> NoOrder, aim |-> "none", qty |-> 0]

Init ==
  /\ \E n \in Opening : row = [NoStock EXCEPT !["hand"] = n, !["avail"] = n]
  /\ order = [o \in Orders |-> NoOrder]
  /\ req = [q \in Requests |-> Idle]

-----------------------------------------------------------------------------
(* The row.                                                                *)

Balanced(r) == r["hand"] = r["avail"] + r["res"] + r["dam"] + r["exp"]

\* assertInventoryInvariant, which throws and so rolls back.
Accepts(r) == Balanced(r) /\ \A b \in Buckets : r[b] >= 0

Within(r) == \A b \in Buckets : r[b] \in -MaxStock..MaxStock

\* Units change bucket; what comes from or goes to outside changes the total.
Moved(r, from, to, n) ==
  [b \in Buckets |->
     r[b] - (IF b = from THEN n ELSE 0) + (IF b = to THEN n ELSE 0)
          + (IF b = "hand" /\ from = "out" THEN n ELSE 0)
          - (IF b = "hand" /\ to = "out" THEN n ELSE 0)]

AtLeastZero(i) == IF i < 0 THEN 0 ELSE i

\* A total corrected by n units: what is available is what the total leaves.
Counted(r, n) ==
  LET hand == AtLeastZero(r["hand"] + n)
  IN [r EXCEPT !["hand"] = hand,
               !["avail"] = AtLeastZero(hand - (r["res"] + r["dam"] + r["exp"]))]

Computed(op, r, n) ==
  CASE op = "add"    -> Counted(r, n)
    [] op = "deduct" -> Counted(r, -n)
    [] OTHER         -> Moved(r, Shifts[op].from, Shifts[op].to, n)

Sets(op) == IF op \in Counts THEN {"hand", "avail"} ELSE Shifts[op].sets

\* The row after an absolute UPDATE: other columns keep what they hold now.
Overwritten(op, new) == [b \in Buckets |-> IF b \in Sets(op) THEN new[b] ELSE row[b]]

\* A bucket a shift takes from holds enough; counts are never refused here.
Suffices(op, r, n) ==
  (op \in DOMAIN Shifts /\ Shifts[op].from # "out") => r[Shifts[op].from] >= n

-----------------------------------------------------------------------------
(* Absolute writers.                                                       *)

At(q, pc) == req[q].pc = pc
End(q) == req' = [req EXCEPT ![q] = Idle]

SelectRow(q, op, n) ==
  /\ At(q, "idle")
  /\ Suffices(op, row, n)
  /\ req' = [req EXCEPT ![q] = [Idle EXCEPT !.pc = "update", !.op = op, !.n = n, !.seen = row]]
  /\ UNCHANGED <<row, order>>

\* Mutant: the computed row is not asserted.
UpdateRowUnasserted(q) ==
  /\ At(q, "update")
  /\ row' = Overwritten(req[q].op, Computed(req[q].op, req[q].seen, req[q].n))
  /\ Within(row')
  /\ End(q)
  /\ UNCHANGED order

\* A refund is the one absolute writer that asserts nothing.
UpdateRow(q) ==
  LET new == Computed(req[q].op, req[q].seen, req[q].n)
  IN /\ At(q, "update")
     /\ req[q].op = "refund" \/ Accepts(new)
     /\ row' = Overwritten(req[q].op, new)
     /\ Within(row')
     /\ End(q)
     /\ UNCHANGED order

-----------------------------------------------------------------------------
(* The point of sale.                                                      *)

\* checkout: one UPDATE guarded by the stock available.
Checkout(q, n) ==
  /\ At(q, "idle")
  /\ row["avail"] >= n
  /\ row' = Moved(row, "avail", "out", n)
  /\ Within(row')
  /\ UNCHANGED <<order, req>>

\* exchange: this product comes back for another one,
TakeBack(q, n) ==
  /\ At(q, "idle")
  /\ row' = Moved(row, "out", "avail", n)
  /\ Within(row')
  /\ UNCHANGED <<order, req>>

\* or is given for another one: checked before the transaction,
CheckExchange(q, n) ==
  /\ At(q, "idle")
  /\ row["avail"] >= n
  /\ req' = [req EXCEPT ![q] = [Idle EXCEPT !.pc = "give", !.op = "exchange", !.n = n]]
  /\ UNCHANGED <<row, order>>

\* and taken in it.
GiveOut(q) ==
  /\ At(q, "give")
  /\ row' = Moved(row, "avail", "out", req[q].n)
  /\ Within(row')
  /\ End(q)
  /\ UNCHANGED order

-----------------------------------------------------------------------------
(* The orders engine.                                                      *)

\* The guarded reservation, whose count of updated rows nobody reads.
Reserved(r, n) == IF r["avail"] >= n THEN Moved(r, "avail", "res", n) ELSE r
Released(r, n) == Moved(r, "res", "avail", n)

CreateOrder(q, o, target, n) ==
  /\ At(q, "idle")
  /\ order[o] = NoOrder
  /\ order' = [order EXCEPT ![o] = [status |-> target, allocated |-> target # "DRAFT", qty |-> n]]
  /\ row' = IF target = "DRAFT" THEN row ELSE Reserved(row, n)
  /\ Within(row')
  /\ UNCHANGED req

\* editOrder reads the order, and refuses it once fulfilment has begun.
ReadForEdit(q, o, n) ==
  /\ At(q, "idle")
  /\ order[o].status \in {"DRAFT", "CONFIRMED"}
  /\ req' = [req EXCEPT ![q] = [Idle EXCEPT !.pc = "items", !.op = "edit", !.n = n,
                                            !.order = o, !.was = order[o]]]
  /\ UNCHANGED <<row, order>>

\* transitionOrderStatus reads the order; a SUPER_ADMIN is not held to the table.
ReadForTransition(q, o, aim, admin) ==
  /\ At(q, "idle")
  /\ order[o] # NoOrder
  /\ admin \/ Allows(order[o].status, aim)
  /\ req' = [req EXCEPT ![q] = [Idle EXCEPT !.pc = "items", !.op = "transition",
                                            !.order = o, !.was = order[o], !.aim = aim]]
  /\ UNCHANGED <<row, order>>

\* The lines are read, before the transaction or, in editOrder, within it.
ReadItems(q) ==
  /\ At(q, "items")
  /\ req' = [req EXCEPT ![q].pc = IF req[q].aim = "READY_FOR_DISPATCH" THEN "verify" ELSE "commit",
                        ![q].qty = order[req[q].order].qty]
  /\ UNCHANGED <<row, order>>

\* Mutant: the stock available is not compared with what the order needs.
VerifyNothing(q) ==
  /\ At(q, "verify")
  /\ req' = [req EXCEPT ![q].pc = "commit"]
  /\ UNCHANGED <<row, order>>

\* READY_FOR_DISPATCH needs enough stock, reserved already or available.
VerifyStock(q) ==
  /\ At(q, "verify")
  /\ IF req[q].was.allocated THEN row["res"] >= req[q].qty ELSE row["avail"] >= req[q].qty
  /\ req' = [req EXCEPT ![q].pc = "commit"]
  /\ UNCHANGED <<row, order>>

\* Mutant: the flag is set from the status the order had when it was read.
AllocatedAfterStale(was, aim, now) ==
  CASE aim = "CANCELLED"                               -> FALSE
    [] aim = "CONFIRMED" \/ was.status = "CONFIRMED"   -> TRUE
    [] OTHER                                           -> now

\* orders.inventory_allocated after a transition.
AllocatedAfter(was, aim, now) ==
  CASE aim = "CANCELLED"                                                     -> FALSE
    [] aim \in {"READY_FOR_DISPATCH", "CONFIRMED"} /\ ~was.allocated         -> TRUE
    [] OTHER                                                                 -> now

\* Mutant: what is dispatched is not added to what is in transit, and a
\* cancelled order is released wherever its units are.
RowAfterForgetful(was, aim, r, k) ==
  CASE aim = "READY_FOR_DISPATCH" /\ ~was.allocated -> Moved(r, "avail", "res", k)
    [] aim = "CONFIRMED" /\ ~was.allocated          -> Reserved(r, k)
    [] aim = "DISPATCHED"                           -> Moved(r, "res", "out", k)
    [] aim = "CANCELLED" /\ was.allocated            -> Released(r, k)
    [] OTHER                                        -> r

\* The inventory row after a transition of an order of k units.
RowAfter(was, aim, r, k) ==
  CASE aim = "READY_FOR_DISPATCH" /\ ~was.allocated -> Moved(r, "avail", "res", k)
    [] aim = "CONFIRMED" /\ ~was.allocated          -> Reserved(r, k)
    [] aim = "DISPATCHED"                           -> [Moved(r, "res", "out", k)
                                                          EXCEPT !["transit"] = @ + k]
    [] aim = "CANCELLED" /\ was.allocated
         /\ was.status \notin {"DISPATCHED", "IN_TRANSIT", "DELIVERED"} -> Released(r, k)
    [] OTHER                                        -> r

CommitTransition(q) ==
  LET o == req[q].order
      was == req[q].was
      aim == req[q].aim
  IN /\ At(q, "commit") /\ req[q].op = "transition"
     /\ row' = RowAfter(was, aim, row, req[q].qty)
     /\ Within(row')
     /\ order' = [order EXCEPT ![o].status = aim,
                               ![o].allocated = AllocatedAfter(was, aim, @)]
     /\ End(q)

\* The old lines are released as the order was read, and the new ones reserved.
CommitEdit(q) ==
  LET o == req[q].order
      was == req[q].was
      freed == IF was.allocated THEN Released(row, req[q].qty) ELSE row
  IN /\ At(q, "commit") /\ req[q].op = "edit"
     /\ row' = IF was.status = "CONFIRMED" THEN Reserved(freed, req[q].n) ELSE freed
     /\ Within(row')
     /\ order' = [order EXCEPT ![o].allocated = (was.status = "CONFIRMED"), ![o].qty = req[q].n]
     /\ End(q)

-----------------------------------------------------------------------------
\* A refusal, an exception or a lost connection: the transaction rolls back.
Abort(q) ==
  /\ ~At(q, "idle")
  /\ End(q)
  /\ UNCHANGED <<row, order>>

PointOfSale(q) ==
  \/ \E n \in Quantities :
       \/ "checkout" \in Operations /\ Checkout(q, n)
       \/ "exchange" \in Operations /\ (TakeBack(q, n) \/ CheckExchange(q, n))
  \/ GiveOut(q)

OrdersEngine(q) ==
  \/ \E o \in Orders :
       \/ \E n \in Quantities, target \in {"DRAFT", "CONFIRMED", "READY_FOR_DISPATCH"} :
            "create" \in Operations /\ CreateOrder(q, o, target, n)
       \/ \E n \in Quantities : "edit" \in Operations /\ ReadForEdit(q, o, n)
       \/ \E aim \in ORDER_STATUSES, admin \in BOOLEAN :
            "transition" \in Operations /\ ReadForTransition(q, o, aim, admin)
  \/ ReadItems(q) \/ VerifyStock(q) \/ CommitTransition(q) \/ CommitEdit(q)

Warehouse(q) ==
  \/ \E op \in Operations \cap Absolute, n \in Quantities : SelectRow(q, op, n)
  \/ UpdateRow(q)

Next == \E q \in Requests : Warehouse(q) \/ PointOfSale(q) \/ OrdersEngine(q) \/ Abort(q)

Spec == Init /\ [][Next]_vars

-----------------------------------------------------------------------------
(* Properties.                                                             *)

Rows == [Buckets -> -MaxStock..MaxStock]
OrderRecords == [status : ORDER_STATUSES \cup {"NONE"}, allocated : BOOLEAN, qty : Quantities \cup {0}]
RequestRecords ==
  [pc : {"idle", "update", "give", "items", "verify", "commit"}, op : Operations \cup {"none"},
   n : Quantities \cup {0}, seen : Rows, order : Orders \cup {"none"}, was : OrderRecords,
   aim : ORDER_STATUSES \cup {"none"}, qty : Quantities \cup {0}]

\* Types of the variables.
TypeOK ==
  /\ row \in Rows
  /\ order \in [Orders -> OrderRecords]
  /\ req \in [Requests -> RequestRecords]

\* Whatever an endpoint does to the buckets, and wherever it fails, what is on
\* hand is what is available, reserved, damaged and expired
\* (assertInventoryInvariant, which only the absolute writers evaluate).
InBalance == Balanced(row)

\* Nobody sells, reserves or writes off stock that is not there: the checks of
\* each endpoint, made at different moments, keep the bucket they take from
\* above zero.
AvailableNotNegative == row["avail"] >= 0

\* "READY_FOR_DISPATCH requires allocated inventory": whatever path brought an
\* order there - creation, the table, a SUPER_ADMIN from any status, after
\* edits and cancellations - its allocation flag is set; and a cancelled order
\* has none, so that no later move releases its units a second time.
ReadyIsAllocated ==
  \A o \in Orders :
    /\ order[o].status = "READY_FOR_DISPATCH" => order[o].allocated
    /\ order[o].status = "CANCELLED" => ~order[o].allocated

\* The orders engine neither makes nor loses units, in any interleaving: what
\* an order takes from the shelf is in transit, everything else stays on hand.
OrdersConserveUnits ==
  [][order' # order => row'["hand"] + row'["transit"] = row["hand"] + row["transit"]]_vars
=============================================================================
