----------------------------- MODULE StockProofs -----------------------------
(***************************************************************************)
(* Proofs about Stock for any requests, orders, quantities and bound.      *)
(* That the buckets stay in balance is proved twice: for one request at a  *)
(* time, whatever it does, and for any number of concurrent requests that  *)
(* only use relative updates.  Neither holds when an absolute writer runs  *)
(* beside another request: its row may be stale when it is written.        *)
(***************************************************************************)
EXTENDS Stock, TLAPS

\* What a request in progress has chosen by the time it needs it.
Chosen(x) ==
  /\ x.pc = "update" => x.op \in Absolute \cap Operations
  /\ x.pc \in {"items", "verify", "commit"} => x.order \in Orders
  /\ x.pc \in {"items", "verify", "commit"} /\ x.op = "transition" => x.aim \in ORDER_STATUSES

TypeInv == TypeOK /\ \A q \in Requests : Chosen(req[q])

IntRows == [Buckets -> Int]
Places == (Buckets \ {"hand", "transit"}) \cup {"out"}

-----------------------------------------------------------------------------
(* The row operators.                                                      *)

LEMMA MovedBalanced ==
  ASSUME NEW r \in IntRows, NEW from \in Places, NEW to \in Places, NEW n \in Int
  PROVE  /\ Moved(r, from, to, n) \in IntRows
         /\ Balanced(r) => Balanced(Moved(r, from, to, n))
         /\ Moved(r, from, to, n)["transit"] = r["transit"]
<1> DEFINE s == Moved(r, from, to, n)
<1>1. s \in IntRows BY DEF Moved, IntRows, Buckets
<1>2. s["transit"] = r["transit"] BY DEF Moved, Places, IntRows, Buckets
<1>3. ASSUME Balanced(r) PROVE Balanced(s)
  <2> DEFINE Change(b) == (IF b = to THEN n ELSE 0) - (IF b = from THEN n ELSE 0)
  <2>1. /\ s["avail"] = r["avail"] + Change("avail")
        /\ s["res"] = r["res"] + Change("res")
        /\ s["dam"] = r["dam"] + Change("dam")
        /\ s["exp"] = r["exp"] + Change("exp")
        /\ s["hand"] = r["hand"] - Change("out")
    BY DEF Moved, Places, IntRows, Buckets
  <2>2. Change("avail") + Change("res") + Change("dam") + Change("exp") + Change("out") = 0
    <3>1. from \in {"avail", "res", "dam", "exp", "out"} /\ to \in {"avail", "res", "dam", "exp", "out"}
      BY DEF Places, Buckets
    <3> QED BY <3>1
  <2>3. /\ r["hand"] \in Int /\ r["avail"] \in Int /\ r["res"] \in Int
        /\ r["dam"] \in Int /\ r["exp"] \in Int
        /\ Change("avail") \in Int /\ Change("res") \in Int /\ Change("dam") \in Int
        /\ Change("exp") \in Int /\ Change("out") \in Int
    BY DEF IntRows, Buckets
  <2> HIDE DEF s, Change
  <2> QED BY <1>3, <2>1, <2>2, <2>3 DEF Balanced
<1> QED BY <1>1, <1>2, <1>3

\* The bucket units leave loses them, and no other bucket but the total does.
LEMMA MovedAvailable ==
  ASSUME NEW r \in IntRows, NEW from \in Places, NEW to \in Places, NEW n \in Nat,
         r["avail"] >= 0, from = "avail" => r["avail"] >= n
  PROVE  Moved(r, from, to, n)["avail"] >= 0
BY DEF Moved, Places, IntRows, Buckets

\* Units that stay inside the warehouse leave the total alone.
LEMMA MovedInside ==
  ASSUME NEW r \in IntRows, NEW from \in Places \ {"out"}, NEW to \in Places \ {"out"}, NEW n \in Int
  PROVE  Moved(r, from, to, n)["hand"] = r["hand"]
BY DEF Moved, Places, IntRows, Buckets

LEMMA ReservedFacts ==
  ASSUME NEW r \in IntRows, NEW n \in Nat
  PROVE  /\ Reserved(r, n) \in IntRows
         /\ Balanced(r) => Balanced(Reserved(r, n))
         /\ Reserved(r, n)["hand"] = r["hand"]
         /\ Reserved(r, n)["transit"] = r["transit"]
         /\ r["avail"] >= 0 => Reserved(r, n)["avail"] >= 0
<1>1. "avail" \in Places \ {"out"} /\ "res" \in Places \ {"out"} BY DEF Places, Buckets
<1> QED BY <1>1, MovedBalanced, MovedAvailable, MovedInside DEF Reserved

LEMMA ReleasedFacts ==
  ASSUME NEW r \in IntRows, NEW n \in Nat
  PROVE  /\ Released(r, n) \in IntRows
         /\ Balanced(r) => Balanced(Released(r, n))
         /\ Released(r, n)["hand"] = r["hand"]
         /\ Released(r, n)["transit"] = r["transit"]
         /\ r["avail"] >= 0 => Released(r, n)["avail"] >= 0
<1>1. "avail" \in Places \ {"out"} /\ "res" \in Places \ {"out"} BY DEF Places, Buckets
<1> QED BY <1>1, MovedBalanced, MovedAvailable, MovedInside DEF Released

\* A transition keeps the balance and the units in the warehouse and on the
\* road; what it takes from available stock it must have found there.
LEMMA RowAfterFacts ==
  ASSUME NEW was \in OrderRecords, NEW aim, NEW r \in IntRows, NEW k \in Nat
  PROVE  /\ RowAfter(was, aim, r, k) \in IntRows
         /\ Balanced(r) => Balanced(RowAfter(was, aim, r, k))
         /\ LET s == RowAfter(was, aim, r, k)
            IN s["hand"] + s["transit"] = r["hand"] + r["transit"]
         /\ /\ r["avail"] >= 0
            /\ aim = "READY_FOR_DISPATCH" /\ ~was.allocated => r["avail"] >= k
            => RowAfter(was, aim, r, k)["avail"] >= 0
<1> DEFINE s == RowAfter(was, aim, r, k)
           Goal == /\ s \in IntRows
                   /\ Balanced(r) => Balanced(s)
                   /\ s["hand"] + s["transit"] = r["hand"] + r["transit"]
                   /\ /\ r["avail"] >= 0
                      /\ aim = "READY_FOR_DISPATCH" /\ ~was.allocated => r["avail"] >= k
                      => s["avail"] >= 0
<1>0. "avail" \in Places \ {"out"} /\ "res" \in Places \ {"out"} /\ r["hand"] \in Int /\ r["transit"] \in Int
  BY DEF Places, Buckets, IntRows
<1>1. CASE aim = "READY_FOR_DISPATCH" /\ ~was.allocated
  <2>1. s = Moved(r, "avail", "res", k) BY <1>1 DEF RowAfter
  <2>2. /\ s \in IntRows
        /\ Balanced(r) => Balanced(s)
        /\ s["hand"] = r["hand"] /\ s["transit"] = r["transit"]
    BY SMTT(30), <1>0, <2>1, MovedBalanced, MovedInside
  <2>3. ASSUME r["avail"] >= k, r["avail"] >= 0 PROVE s["avail"] >= 0
    BY <1>0, <2>1, <2>3, MovedAvailable
  <2>4. Goal BY <1>1, <2>2, <2>3
  <2> QED BY <2>4
<1>2. CASE aim = "CONFIRMED" /\ ~was.allocated
  <2>1. s = Reserved(r, k) BY <1>2 DEF RowAfter
  <2>2. Goal BY <1>0, <1>2, <2>1, ReservedFacts
  <2> QED BY <2>2
<1>3. CASE aim = "DISPATCHED"
  <2>1. s = [Moved(r, "res", "out", k) EXCEPT !["transit"] = @ + k] BY <1>3 DEF RowAfter
  <2>2. s \in IntRows /\ s["hand"] = r["hand"] - k /\ s["transit"] = r["transit"] + k
        /\ s["avail"] = r["avail"] /\ s["res"] = r["res"] - k /\ s["dam"] = r["dam"] /\ s["exp"] = r["exp"]
    BY <2>1 DEF Moved, IntRows, Buckets
  <2>3. Goal BY <2>2, <1>3 DEF Balanced, IntRows, Buckets
  <2> QED BY <2>3
<1>4. CASE aim = "CANCELLED" /\ was.allocated
             /\ was.status \notin {"DISPATCHED", "IN_TRANSIT", "DELIVERED"}
  <2>1. s = Released(r, k) BY <1>4 DEF RowAfter
  <2>2. Goal BY <1>0, <1>4, <2>1, ReleasedFacts
  <2> QED BY <2>2
<1>5. CASE ~(aim = "READY_FOR_DISPATCH" /\ ~was.allocated) /\ ~(aim = "CONFIRMED" /\ ~was.allocated)
           /\ aim # "DISPATCHED"
           /\ ~(aim = "CANCELLED" /\ was.allocated
                 /\ was.status \notin {"DISPATCHED", "IN_TRANSIT", "DELIVERED"})
  <2>1. s = r BY <1>5 DEF RowAfter
  <2>2. Goal BY <1>0, <2>1
  <2> QED BY <2>2
<1> QED BY <1>1, <1>2, <1>3, <1>4, <1>5

-----------------------------------------------------------------------------
(* Type correctness.                                                       *)

LEMMA RowsAreInt == Rows \subseteq IntRows
BY StockAssumption DEF Rows, IntRows

LEMMA WithinRows ==
  ASSUME NEW r \in IntRows, Within(r)
  PROVE  r \in Rows
BY DEF Within, Rows, IntRows

LEMMA IdleChosen == Idle \in RequestRecords /\ Chosen(Idle)
<1>1. 0 \in -MaxStock..MaxStock BY StockAssumption
<1>2. NoStock \in Rows BY <1>1 DEF NoStock, Rows
<1>3. NoOrder \in OrderRecords BY DEF NoOrder, OrderRecords
<1> QED BY <1>2, <1>3 DEF Idle, RequestRecords, Chosen

LEMMA PutRequest ==
  ASSUME TypeInv, NEW q \in Requests, NEW x \in RequestRecords, Chosen(x),
         req' = [req EXCEPT ![q] = x]
  PROVE  req' \in [Requests -> RequestRecords] /\ \A p \in Requests : Chosen(req'[p])
BY DEF TypeInv, TypeOK

\* What an action that ends its request leaves to show.
LEMMA Ended ==
  ASSUME TypeInv, NEW q \in Requests, End(q), row' \in Rows, order' \in [Orders -> OrderRecords]
  PROVE  TypeInv'
<1>1. req' \in [Requests -> RequestRecords] /\ \A p \in Requests : Chosen(req'[p])
  BY IdleChosen, PutRequest DEF End
<1> QED BY <1>1 DEF TypeInv, TypeOK, Chosen

\* Likewise for an action that only moves its request on.
LEMMA MovedOn ==
  ASSUME TypeInv, NEW q \in Requests, NEW x \in RequestRecords, Chosen(x),
         req' = [req EXCEPT ![q] = x], UNCHANGED <<row, order>>
  PROVE  TypeInv'
<1>1. req' \in [Requests -> RequestRecords] /\ \A p \in Requests : Chosen(req'[p])
  BY PutRequest
<1> QED BY <1>1 DEF TypeInv, TypeOK, Chosen

\* What is known of a request in progress.
LEMMA Known ==
  ASSUME TypeInv, NEW q \in Requests
  PROVE  /\ req[q] \in RequestRecords /\ Chosen(req[q])
         /\ row \in Rows /\ row \in IntRows /\ order \in [Orders -> OrderRecords]
         /\ req[q].seen \in IntRows /\ req[q].n \in Nat /\ req[q].qty \in Nat
         /\ req[q].was \in OrderRecords
<1>1. req[q] \in RequestRecords /\ Chosen(req[q]) /\ row \in Rows /\ order \in [Orders -> OrderRecords]
  BY DEF TypeInv, TypeOK
<1>2. req[q].seen \in Rows /\ req[q].n \in Quantities \cup {0} /\ req[q].qty \in Quantities \cup {0}
      /\ req[q].was \in OrderRecords
  BY <1>1 DEF RequestRecords
<1>3. row \in IntRows /\ req[q].seen \in IntRows BY <1>1, <1>2, RowsAreInt
<1>4. req[q].n \in Nat /\ req[q].qty \in Nat
  <2>1. \A m \in Quantities \cup {0} : m \in Nat BY StockAssumption
  <2> QED BY <1>2, <2>1
<1> QED BY <1>1, <1>2, <1>3, <1>4

\* The amounts and places a shift or a count works with.
LEMMA ComputedRow ==
  ASSUME NEW op \in Absolute, NEW r \in IntRows, NEW n \in Nat
  PROVE  Computed(op, r, n) \in IntRows
<1>1. CASE op \in Counts
  <2>1. \A i \in Int : AtLeastZero(i) \in Int BY DEF AtLeastZero
  <2>2. \A i \in Int : Counted(r, i) \in IntRows BY <2>1 DEF Counted, IntRows, Buckets
  <2> QED BY <1>1, <2>2 DEF Computed, Counts
<1>2. CASE op \notin Counts
  <2>1. op \in DOMAIN Shifts BY <1>2 DEF Absolute
  <2>2. Computed(op, r, n) = Moved(r, Shifts[op].from, Shifts[op].to, n) BY <1>2 DEF Computed, Counts
  <2> QED BY <2>2 DEF Moved, IntRows, Buckets
<1> QED BY <1>1, <1>2

LEMMA SelectRowTyped ==
  ASSUME TypeInv, NEW q \in Requests, NEW op \in Operations \cap Absolute, NEW n \in Quantities,
         SelectRow(q, op, n)
  PROVE  TypeInv'
<1> DEFINE x == [Idle EXCEPT !.pc = "update", !.op = op, !.n = n, !.seen = row]
<1>1. row \in Rows BY DEF TypeInv, TypeOK
<1>2. x \in RequestRecords BY <1>1, IdleChosen DEF RequestRecords
<1>3. Chosen(x) BY DEF Chosen, Idle
<1> QED BY <1>2, <1>3, MovedOn DEF SelectRow

LEMMA UpdateRowTyped ==
  ASSUME TypeInv, NEW q \in Requests, UpdateRow(q)
  PROVE  TypeInv'
<1> DEFINE new == Computed(req[q].op, req[q].seen, req[q].n)
<1>1. req[q].op \in Absolute BY Known DEF UpdateRow, At, Chosen
<1>2. new \in IntRows BY <1>1, Known, ComputedRow
<1>3. row' \in IntRows
  <2>1. row' = Overwritten(req[q].op, new) BY DEF UpdateRow
  <2> HIDE DEF new
  <2>2. row \in IntRows BY Known
  <2> QED BY <1>2, <2>1, <2>2 DEF Overwritten, IntRows
<1>4. row' \in Rows BY <1>3, WithinRows DEF UpdateRow
<1> QED BY <1>4, Known, Ended DEF UpdateRow

LEMMA GiveOutTyped ==
  ASSUME TypeInv, NEW q \in Requests, GiveOut(q)
  PROVE  TypeInv'
<1>1. row' \in IntRows BY Known DEF GiveOut, Moved, IntRows, Buckets
<1>2. row' \in Rows BY <1>1, WithinRows DEF GiveOut
<1> QED BY <1>2, Known, Ended DEF GiveOut

LEMMA CheckExchangeTyped ==
  ASSUME TypeInv, NEW q \in Requests, NEW n \in Quantities, "exchange" \in Operations, CheckExchange(q, n)
  PROVE  TypeInv'
<1> DEFINE x == [Idle EXCEPT !.pc = "give", !.op = "exchange", !.n = n]
<1>1. x \in RequestRecords BY IdleChosen DEF RequestRecords
<1>2. Chosen(x) BY DEF Chosen, Idle
<1> QED BY <1>1, <1>2, MovedOn DEF CheckExchange

\* checkout and an exchange's return touch the row alone.
LEMMA CounterTyped ==
  ASSUME TypeInv, NEW q \in Requests, NEW n \in Quantities, Checkout(q, n) \/ TakeBack(q, n)
  PROVE  TypeInv'
<1>1. row' \in IntRows
  BY Known, StockAssumption DEF Checkout, TakeBack, Moved, IntRows, Buckets
<1>2. row' \in Rows BY <1>1, WithinRows DEF Checkout, TakeBack
<1> QED BY <1>2 DEF TypeInv, TypeOK, Checkout, TakeBack, Chosen

LEMMA CreateOrderTyped ==
  ASSUME TypeInv, NEW q \in Requests, NEW o \in Orders, NEW n \in Quantities,
         NEW target \in {"DRAFT", "CONFIRMED", "READY_FOR_DISPATCH"}, CreateOrder(q, o, target, n)
  PROVE  TypeInv'
<1>1. row' \in IntRows
  <2>1. n \in Nat BY StockAssumption
  <2> QED BY <2>1, Known, ReservedFacts DEF CreateOrder
<1>2. row' \in Rows BY <1>1, WithinRows DEF CreateOrder
<1>3. order' \in [Orders -> OrderRecords]
  <2> DEFINE x == [status |-> target, allocated |-> target # "DRAFT", qty |-> n]
  <2>1. (target # "DRAFT") \in BOOLEAN OBVIOUS
  <2>2. target \in ORDER_STATUSES BY DEF ORDER_STATUSES, ALLOWED_TRANSITIONS
  <2>3. x \in OrderRecords BY <2>1, <2>2 DEF OrderRecords
  <2> HIDE DEF x
  <2> QED BY <2>3, Known DEF CreateOrder, x
<1> QED BY <1>2, <1>3 DEF TypeInv, TypeOK, CreateOrder, Chosen

LEMMA ReadForEditTyped ==
  ASSUME TypeInv, NEW q \in Requests, NEW o \in Orders, NEW n \in Quantities, "edit" \in Operations,
         ReadForEdit(q, o, n)
  PROVE  TypeInv'
<1> DEFINE x == [Idle EXCEPT !.pc = "items", !.op = "edit", !.n = n, !.order = o, !.was = order[o]]
<1>1. order[o] \in OrderRecords BY DEF TypeInv, TypeOK
<1>2. x \in RequestRecords BY <1>1, IdleChosen DEF RequestRecords
<1>3. Chosen(x) BY DEF Chosen, Idle
<1> QED BY <1>2, <1>3, MovedOn DEF ReadForEdit

LEMMA ReadForTransitionTyped ==
  ASSUME TypeInv, NEW q \in Requests, NEW o \in Orders, NEW aim \in ORDER_STATUSES,
         NEW admin \in BOOLEAN, "transition" \in Operations, ReadForTransition(q, o, aim, admin)
  PROVE  TypeInv'
<1> DEFINE x == [Idle EXCEPT !.pc = "items", !.op = "transition", !.order = o, !.was = order[o],
                             !.aim = aim]
<1>1. order[o] \in OrderRecords BY DEF TypeInv, TypeOK
<1>2. x \in RequestRecords BY <1>1, IdleChosen DEF RequestRecords
<1>3. Chosen(x) BY DEF Chosen, Idle
<1> QED BY <1>2, <1>3, MovedOn DEF ReadForTransition

LEMMA ReadItemsTyped ==
  ASSUME TypeInv, NEW q \in Requests, ReadItems(q)
  PROVE  TypeInv'
<1> DEFINE x == [req[q] EXCEPT
                   !.pc = IF req[q].aim = "READY_FOR_DISPATCH" THEN "verify" ELSE "commit",
                   !.qty = order[req[q].order].qty]
<1>0. req[q] \in RequestRecords /\ Chosen(req[q]) BY Known
<1>1. req[q].order \in Orders BY <1>0 DEF ReadItems, At, Chosen
<1>2. order[req[q].order].qty \in Quantities \cup {0} BY <1>1, Known DEF OrderRecords
<1>3. x \in RequestRecords BY ZenonT(40), <1>0, <1>2 DEF RequestRecords
<1>4. Chosen(x) BY <1>0, <1>1 DEF ReadItems, At, Chosen, RequestRecords
<1>5. req' = [req EXCEPT ![q] = x] BY DEF ReadItems, TypeInv, TypeOK
<1> HIDE DEF x
<1> QED BY <1>3, <1>4, <1>5, MovedOn DEF ReadItems

LEMMA VerifyStockTyped ==
  ASSUME TypeInv, NEW q \in Requests, VerifyStock(q)
  PROVE  TypeInv'
<1> DEFINE x == [req[q] EXCEPT !.pc = "commit"]
<1>0. req[q] \in RequestRecords /\ Chosen(req[q]) BY Known
<1>1. x \in RequestRecords BY <1>0 DEF RequestRecords
<1>2. Chosen(x) BY <1>0 DEF VerifyStock, At, Chosen, RequestRecords
<1>3. req' = [req EXCEPT ![q] = x] BY DEF VerifyStock, TypeInv, TypeOK
<1> HIDE DEF x
<1> QED BY <1>1, <1>2, <1>3, MovedOn DEF VerifyStock

LEMMA CommitTransitionTyped ==
  ASSUME TypeInv, NEW q \in Requests, CommitTransition(q)
  PROVE  TypeInv'
<1>1. row' \in IntRows BY Known, RowAfterFacts DEF CommitTransition
<1>2. row' \in Rows BY <1>1, WithinRows DEF CommitTransition
<1>3. order' \in [Orders -> OrderRecords]
  <2>1. req[q].order \in Orders /\ req[q].aim \in ORDER_STATUSES
    BY Known DEF CommitTransition, At, Chosen
  <2>2. order \in [Orders -> OrderRecords] BY Known
  <2>3. \A now \in BOOLEAN : AllocatedAfter(req[q].was, req[q].aim, now) \in BOOLEAN
    BY DEF AllocatedAfter
  <2>4. order[req[q].order].allocated \in BOOLEAN BY <2>1, <2>2 DEF OrderRecords
  <2>5. AllocatedAfter(req[q].was, req[q].aim, order[req[q].order].allocated) \in BOOLEAN
    BY <2>3, <2>4
  <2> DEFINE flag == AllocatedAfter(req[q].was, req[q].aim, order[req[q].order].allocated)
  <2>6. order' = [order EXCEPT ![req[q].order].status = req[q].aim, ![req[q].order].allocated = flag]
    BY DEF CommitTransition
  <2> HIDE DEF flag
  <2> QED BY <2>1, <2>2, <2>5, <2>6 DEF OrderRecords, flag
<1> QED BY <1>2, <1>3, Ended DEF CommitTransition

LEMMA CommitEditTyped ==
  ASSUME TypeInv, NEW q \in Requests, CommitEdit(q)
  PROVE  TypeInv'
<1> DEFINE freed == IF req[q].was.allocated THEN Released(row, req[q].qty) ELSE row
<1>1. freed \in IntRows BY Known, ReleasedFacts
<1>2. row' \in IntRows
  <2>1. row' = IF req[q].was.status = "CONFIRMED" THEN Reserved(freed, req[q].n) ELSE freed
    BY DEF CommitEdit
  <2> HIDE DEF freed
  <2> QED BY <1>1, <2>1, Known, ReservedFacts
<1>3. row' \in Rows BY <1>2, WithinRows DEF CommitEdit
<1>4. order' \in [Orders -> OrderRecords]
  <2> DEFINE flag == (req[q].was.status = "CONFIRMED")
  <2>1. req[q].order \in Orders BY Known DEF CommitEdit, At, Chosen
  <2>2. req[q].n \in Quantities \cup {0} BY Known DEF RequestRecords
  <2>3. flag \in BOOLEAN OBVIOUS
  <2>4. order' = [order EXCEPT ![req[q].order].allocated = flag, ![req[q].order].qty = req[q].n]
    BY DEF CommitEdit
  <2> HIDE DEF flag
  <2>5. order \in [Orders -> OrderRecords] BY Known
  <2> QED BY <2>1, <2>2, <2>3, <2>4, <2>5 DEF OrderRecords
<1> QED BY <1>3, <1>4, Ended DEF CommitEdit

LEMMA AbortTyped ==
  ASSUME TypeInv, NEW q \in Requests, Abort(q)
  PROVE  TypeInv'
BY Known, Ended DEF Abort

LEMMA NextTyped ==
  ASSUME TypeInv, Next
  PROVE  TypeInv'
<1>1. PICK q \in Requests : Warehouse(q) \/ PointOfSale(q) \/ OrdersEngine(q) \/ Abort(q)
  BY DEF Next
<1>2. CASE Warehouse(q) BY <1>2, SelectRowTyped, UpdateRowTyped DEF Warehouse
<1>3. CASE PointOfSale(q) BY <1>3, CounterTyped, CheckExchangeTyped, GiveOutTyped DEF PointOfSale
<1>4. CASE OrdersEngine(q)
  BY <1>4, CreateOrderTyped, ReadForEditTyped, ReadForTransitionTyped, ReadItemsTyped,
     VerifyStockTyped, CommitTransitionTyped, CommitEditTyped DEF OrdersEngine
<1>5. CASE Abort(q) BY <1>5, AbortTyped
<1> QED BY <1>1, <1>2, <1>3, <1>4, <1>5

LEMMA InitTyped == Init => TypeInv
<1> SUFFICES ASSUME Init PROVE TypeInv OBVIOUS
<1>1. row \in Rows
  <2>1. PICK n \in Opening : row = [NoStock EXCEPT !["hand"] = n, !["avail"] = n] BY DEF Init
  <2>2. n \in -MaxStock..MaxStock /\ 0 \in -MaxStock..MaxStock BY StockAssumption
  <2> QED BY <2>1, <2>2 DEF NoStock, Rows
<1>2. order \in [Orders -> OrderRecords] BY DEF Init, NoOrder, OrderRecords
<1>3. req \in [Requests -> RequestRecords] /\ \A q \in Requests : Chosen(req[q])
  BY IdleChosen DEF Init
<1> QED BY <1>1, <1>2, <1>3 DEF TypeInv, TypeOK

LEMMA TypeInvariant == Spec => []TypeInv
<1>1. TypeInv /\ [Next]_vars => TypeInv'
  <2>1. ASSUME TypeInv, UNCHANGED vars PROVE TypeInv'
    BY <2>1 DEF vars, TypeInv, TypeOK, Chosen
  <2> QED BY <2>1, NextTyped
<1> QED BY <1>1, InitTyped, PTL DEF Spec

\* Every variable keeps its type, for any constants.
THEOREM TypeCorrect == Spec => []TypeOK
<1>1. TypeInv => TypeOK BY DEF TypeInv
<1> QED BY <1>1, TypeInvariant, PTL

-----------------------------------------------------------------------------
(* Conservation, and balance under relative updates, for any concurrency.  *)

LEMMA RelativeKeepsBalance ==
  ASSUME TypeInv, NEW q \in Requests,
         \/ \E n \in Quantities : Checkout(q, n) \/ TakeBack(q, n)
         \/ GiveOut(q)
         \/ \E o \in Orders, n \in Quantities, target \in {"DRAFT", "CONFIRMED", "READY_FOR_DISPATCH"} :
              CreateOrder(q, o, target, n)
         \/ CommitTransition(q) \/ CommitEdit(q)
  PROVE  InBalance => InBalance'
<1>0. /\ "avail" \in Places /\ "out" \in Places /\ req[q].n \in Int
      /\ \A n \in Quantities : n \in Nat /\ n \in Int
  BY Known, StockAssumption DEF Places, Buckets
<1>1. ASSUME NEW n \in Quantities, Checkout(q, n) PROVE InBalance => InBalance'
  BY <1>0, <1>1, Known, MovedBalanced DEF Checkout, InBalance
<1>2. ASSUME NEW n \in Quantities, TakeBack(q, n) PROVE InBalance => InBalance'
  BY <1>0, <1>2, Known, MovedBalanced DEF TakeBack, InBalance
<1>3. CASE GiveOut(q) BY <1>0, <1>3, Known, MovedBalanced DEF GiveOut, InBalance
<1>4. CASE \E o \in Orders, n \in Quantities, target \in {"DRAFT", "CONFIRMED", "READY_FOR_DISPATCH"} :
              CreateOrder(q, o, target, n)
  BY <1>0, <1>4, Known, ReservedFacts DEF CreateOrder, InBalance
<1>5. CASE CommitTransition(q)
  BY <1>5, Known, RowAfterFacts DEF CommitTransition, InBalance
<1>6. CASE CommitEdit(q)
  <2> DEFINE freed == IF req[q].was.allocated THEN Released(row, req[q].qty) ELSE row
  <2>1. freed \in IntRows /\ (InBalance => Balanced(freed)) BY Known, ReleasedFacts DEF InBalance
  <2>2. row' = IF req[q].was.status = "CONFIRMED" THEN Reserved(freed, req[q].n) ELSE freed
    BY <1>6 DEF CommitEdit
  <2> HIDE DEF freed
  <2> QED BY <2>1, <2>2, Known, ReservedFacts DEF InBalance
<1> QED BY <1>1, <1>2, <1>3, <1>4, <1>5, <1>6

LEMMA NextConserves ==
  ASSUME TypeInv, Next, order' # order
  PROVE  row'["hand"] + row'["transit"] = row["hand"] + row["transit"]
<1>1. PICK q \in Requests : Warehouse(q) \/ PointOfSale(q) \/ OrdersEngine(q) \/ Abort(q)
  BY DEF Next
<1>2. ~Warehouse(q) BY DEF Warehouse, SelectRow, UpdateRow
<1>3. ~PointOfSale(q) BY DEF PointOfSale, Checkout, TakeBack, CheckExchange, GiveOut
<1>4. ~Abort(q) BY DEF Abort
<1>5. CASE \E o \in Orders, n \in Quantities, target \in {"DRAFT", "CONFIRMED", "READY_FOR_DISPATCH"} :
              CreateOrder(q, o, target, n)
  <2>1. \A n \in Quantities : n \in Nat BY StockAssumption
  <2> QED BY <1>5, <2>1, Known, ReservedFacts DEF CreateOrder
<1>6. CASE CommitTransition(q) BY <1>6, Known, RowAfterFacts DEF CommitTransition
<1>7. CASE CommitEdit(q)
  <2> DEFINE freed == IF req[q].was.allocated THEN Released(row, req[q].qty) ELSE row
  <2>1. freed \in IntRows /\ freed["hand"] = row["hand"] /\ freed["transit"] = row["transit"]
    BY Known, ReleasedFacts
  <2>2. row' = IF req[q].was.status = "CONFIRMED" THEN Reserved(freed, req[q].n) ELSE freed
    BY <1>7 DEF CommitEdit
  <2> HIDE DEF freed
  <2> QED BY <2>1, <2>2, Known, ReservedFacts
<1> QED
  BY <1>1, <1>2, <1>3, <1>4, <1>5, <1>6, <1>7
  DEF OrdersEngine, ReadForEdit, ReadForTransition, ReadItems, VerifyStock

\* The orders engine neither makes nor loses units, in any interleaving.
THEOREM OrdersConserve == Spec => OrdersConserveUnits
<1>1. TypeInv /\ [Next]_vars
      => [order' # order => row'["hand"] + row'["transit"] = row["hand"] + row["transit"]]_vars
  BY NextConserves DEF vars
<1> QED BY <1>1, TypeInvariant, PTL DEF Spec, OrdersConserveUnits

OnlyRelative == \A q \in Requests : req[q].pc # "update"

LEMMA RelativeStep ==
  ASSUME Operations \cap Absolute = {}, TypeInv, OnlyRelative, InBalance, Next
  PROVE  OnlyRelative' /\ InBalance'
<1>1. PICK q \in Requests : Warehouse(q) \/ PointOfSale(q) \/ OrdersEngine(q) \/ Abort(q)
  BY DEF Next
<1>2. ~Warehouse(q) BY DEF Warehouse, UpdateRow, At, OnlyRelative
<1>3. OnlyRelative'
  <2>1. \A p \in Requests : req[p].pc # "update" /\ Idle.pc # "update" BY DEF OnlyRelative, Idle
  <2>2. req \in [Requests -> RequestRecords] BY DEF TypeInv, TypeOK
  <2>3. CASE PointOfSale(q)
    BY <2>1, <2>2, <2>3
    DEF PointOfSale, Checkout, TakeBack, CheckExchange, GiveOut, End, OnlyRelative, Idle
  <2>4. CASE OrdersEngine(q)
    <3>1. CASE CommitTransition(q) \/ CommitEdit(q)
      BY <2>1, <2>2, <3>1 DEF CommitTransition, CommitEdit, End, OnlyRelative
    <3>2. CASE ReadItems(q) \/ VerifyStock(q)
      BY <2>1, <2>2, <3>2 DEF ReadItems, VerifyStock, OnlyRelative, RequestRecords
    <3>3. CASE \E o \in Orders, n \in Quantities, target \in {"DRAFT", "CONFIRMED", "READY_FOR_DISPATCH"} :
                  CreateOrder(q, o, target, n)
      BY <2>1, <3>3 DEF CreateOrder, OnlyRelative
    <3>4. CASE \E o \in Orders, n \in Quantities : ReadForEdit(q, o, n)
      BY <2>1, <2>2, <3>4 DEF ReadForEdit, OnlyRelative, Idle
    <3>5. CASE \E o \in Orders, aim \in ORDER_STATUSES, admin \in BOOLEAN :
                  ReadForTransition(q, o, aim, admin)
      BY <2>1, <2>2, <3>5 DEF ReadForTransition, OnlyRelative, Idle
    <3> QED BY <2>4, <3>1, <3>2, <3>3, <3>4, <3>5 DEF OrdersEngine
  <2>5. CASE Abort(q) BY <2>1, <2>2, <2>5 DEF Abort, End, OnlyRelative
  <2> QED BY <1>1, <1>2, <2>3, <2>4, <2>5
<1>4. InBalance'
  <2>1. CASE row' = row BY <2>1 DEF InBalance
  <2>2. CASE row' # row
    <3>2. ~Abort(q) BY <2>2 DEF Abort
    <3>3. CASE PointOfSale(q)
      BY <2>2, <3>3, RelativeKeepsBalance DEF PointOfSale, CheckExchange
    <3>4. CASE OrdersEngine(q)
      BY <2>2, <3>4, RelativeKeepsBalance
      DEF OrdersEngine, ReadForEdit, ReadForTransition, ReadItems, VerifyStock
    <3> QED BY <1>1, <1>2, <3>2, <3>3, <3>4
  <2> QED BY <2>1, <2>2
<1> QED BY <1>3, <1>4

\* Endpoints that only update relatively keep the balance under every
\* interleaving of any number of requests, and wherever they fail.
THEOREM RelativeBalance ==
  ASSUME Operations \cap Absolute = {}
  PROVE  Spec => []InBalance
<1> DEFINE Inv == TypeInv /\ OnlyRelative /\ InBalance
<1>1. Init => Inv
  <2>1. Init => OnlyRelative BY DEF Init, OnlyRelative, Idle
  <2>2. Init => InBalance
    <3> SUFFICES ASSUME Init PROVE InBalance OBVIOUS
    <3>1. PICK n \in Opening : row = [NoStock EXCEPT !["hand"] = n, !["avail"] = n] BY DEF Init
    <3>2. n \in Int BY StockAssumption
    <3> QED BY <3>1, <3>2 DEF InBalance, Balanced, NoStock, Buckets
  <2> QED BY <2>1, <2>2, InitTyped
<1>2. Inv /\ [Next]_vars => Inv'
  <2>1. ASSUME Inv, UNCHANGED vars PROVE Inv'
    BY <2>1 DEF vars, TypeInv, TypeOK, Chosen, OnlyRelative, InBalance
  <2>2. ASSUME Inv, Next PROVE Inv' BY <2>2, NextTyped, RelativeStep
  <2> QED BY <2>1, <2>2
<1> QED BY <1>1, <1>2, PTL DEF Spec

-----------------------------------------------------------------------------
(* One request at a time, absolute writers too: what the request has read  *)
(* still holds when it writes.                                             *)

Fresh(x) ==
  /\ x.pc = "update" => x.seen = row
  /\ x.pc = "give" => row["avail"] >= x.n
  /\ x.pc = "commit" /\ x.op = "transition" /\ x.aim = "READY_FOR_DISPATCH" /\ ~x.was.allocated
       => row["avail"] >= x.qty
  /\ x.pc \in {"items", "verify", "commit"} => x.was = order[x.order]
  /\ x.pc \in {"items", "verify", "commit"} /\ x.op = "edit"
       => x.was.status \in {"DRAFT", "CONFIRMED"} /\ x.aim = "none"

SerialInv ==
  /\ TypeInv
  /\ InBalance /\ AvailableNotNegative /\ ReadyIsAllocated
  /\ \A q \in Requests : Fresh(req[q])

LEMMA ShiftFacts ==
  ASSUME NEW op \in DOMAIN Shifts
  PROVE  /\ Shifts[op].from \in Places /\ Shifts[op].to \in Places
         /\ {Shifts[op].from, Shifts[op].to} \ {"out"} \subseteq Shifts[op].sets
         /\ "out" \in {Shifts[op].from, Shifts[op].to} => "hand" \in Shifts[op].sets
BY DEF Shifts, Places, Buckets, ReserveStock, ReleaseReservation, QuarantineDamaged, MarkExpired, WriteOffStock,
       RestoreToAvailable, ReceiveStock, RecordLostStock, RestoreFoundStock,
       ApproveSupplierReturn, ApproveRefund

\* Over the row it was computed from, an absolute UPDATE stores the whole of
\* what it computed.
LEMMA NothingOverwritten ==
  ASSUME NEW op \in Absolute, NEW n \in Nat, row \in IntRows
  PROVE  Overwritten(op, Computed(op, row, n)) = Computed(op, row, n)
<1> DEFINE new == Computed(op, row, n)
<1>1. new \in IntRows BY ComputedRow
<1>2. \A b \in Buckets : b \notin Sets(op) => new[b] = row[b]
  <2>1. CASE op \in Counts
    <3>1. \A i \in Int : \A b \in Buckets : b \notin {"hand", "avail"} => Counted(row, i)[b] = row[b]
      BY DEF Counted, IntRows, Buckets
    <3> QED BY <2>1, <3>1 DEF Computed, Counts, Sets
  <2>2. CASE op \notin Counts
    <3>1. op \in DOMAIN Shifts BY <2>2 DEF Absolute
    <3>2. new = Moved(row, Shifts[op].from, Shifts[op].to, n) BY <2>2 DEF Computed, Counts
    <3>3. Sets(op) = Shifts[op].sets BY <2>2 DEF Sets
    <3> QED BY <3>1, <3>2, <3>3, ShiftFacts DEF Moved, IntRows, Buckets
  <2> QED BY <2>1, <2>2
<1> HIDE DEF new
<1>3. Overwritten(op, new) = new BY <1>1, <1>2 DEF Overwritten, IntRows
<1> QED BY <1>3 DEF new

LEMMA UpdateRowSerial ==
  ASSUME SerialInv, NEW q \in Requests, UpdateRow(q)
  PROVE  InBalance' /\ AvailableNotNegative'
<1> DEFINE op == req[q].op
           new == Computed(op, row, req[q].n)
<1>1. TypeInv /\ row \in IntRows /\ op \in Absolute /\ req[q].n \in Nat
  <2>1. TypeInv BY DEF SerialInv
  <2> QED BY <2>1, Known DEF UpdateRow, At, Chosen
<1>2. req[q].seen = row BY DEF SerialInv, Fresh, UpdateRow, At
<1>3. row' = new BY <1>1, <1>2, NothingOverwritten DEF UpdateRow
<1>4. CASE Accepts(new) BY <1>3, <1>4 DEF Accepts, InBalance, AvailableNotNegative, Buckets
<1>5. CASE op = "refund"
  <2>1. new = Moved(row, "out", "avail", req[q].n) BY <1>5 DEF Computed, Shifts, ApproveRefund
  <2>2. "out" \in Places /\ "avail" \in Places BY DEF Places, Buckets
  <2>3. Balanced(row) /\ row["avail"] >= 0 BY DEF SerialInv, InBalance, AvailableNotNegative
  <2>4. Balanced(new) BY <1>1, <2>1, <2>2, <2>3, MovedBalanced
  <2>5. new["avail"] >= 0 BY <1>1, <2>1, <2>2, <2>3, MovedAvailable
  <2> HIDE DEF new
  <2> QED BY <1>3, <2>4, <2>5 DEF InBalance, AvailableNotNegative
<1>6. Accepts(new) \/ op = "refund" BY <1>2 DEF UpdateRow
<1> QED BY <1>4, <1>5, <1>6

\* What a step of q has to establish besides types and balance.
Rest(q) == AvailableNotNegative /\ ReadyIsAllocated /\ Fresh(req[q])

LEMMA ReadsSerial ==
  ASSUME SerialInv, NEW q \in Requests,
         \/ \E op \in Operations \cap Absolute, n \in Quantities : SelectRow(q, op, n)
         \/ \E n \in Quantities : CheckExchange(q, n)
         \/ \E o \in Orders, n \in Quantities : ReadForEdit(q, o, n)
         \/ \E o \in Orders, aim \in ORDER_STATUSES, admin \in BOOLEAN :
              ReadForTransition(q, o, aim, admin)
         \/ Abort(q)
  PROVE  InBalance' /\ Rest(q)'
<1>1. UNCHANGED <<row, order>>
  BY DEF SelectRow, CheckExchange, ReadForEdit, ReadForTransition, Abort
<1>2. InBalance' /\ AvailableNotNegative' /\ ReadyIsAllocated'
  BY <1>1 DEF SerialInv, InBalance, AvailableNotNegative, ReadyIsAllocated
<1>3. req \in [Requests -> RequestRecords] BY DEF SerialInv, TypeInv, TypeOK
<1>4. Fresh(req[q])'
  <2>1. CASE \E op \in Operations \cap Absolute, n \in Quantities : SelectRow(q, op, n)
    <3>1. PICK op \in Operations \cap Absolute, n \in Quantities : SelectRow(q, op, n) BY <2>1
    <3> DEFINE x == [Idle EXCEPT !.pc = "update", !.op = op, !.n = n, !.seen = row]
    <3>2. req'[q] = x BY <1>3, <3>1 DEF SelectRow
    <3>3. x.pc = "update" /\ x.seen = row BY DEF Idle
    <3> HIDE DEF x
    <3> QED BY <1>1, <3>2, <3>3 DEF Fresh
  <2>2. CASE \E n \in Quantities : CheckExchange(q, n)
    <3>1. PICK n \in Quantities : CheckExchange(q, n) BY <2>2
    <3> DEFINE x == [Idle EXCEPT !.pc = "give", !.op = "exchange", !.n = n]
    <3>2. req'[q] = x /\ row["avail"] >= n BY <1>3, <3>1 DEF CheckExchange
    <3>3. x.pc = "give" /\ x.n = n BY DEF Idle
    <3> HIDE DEF x
    <3> QED BY <1>1, <3>2, <3>3 DEF Fresh
  <2>3. CASE \E o \in Orders, n \in Quantities : ReadForEdit(q, o, n)
    <3>1. PICK o \in Orders, n \in Quantities : ReadForEdit(q, o, n) BY <2>3
    <3> DEFINE x == [Idle EXCEPT !.pc = "items", !.op = "edit", !.n = n, !.order = o, !.was = order[o]]
    <3>2. req'[q] = x BY <1>3, <3>1 DEF ReadForEdit
    <3>3. /\ x.pc = "items" /\ x.op = "edit" /\ x.order = o /\ x.was = order[o] /\ x.aim = "none"
          /\ order[o].status \in {"DRAFT", "CONFIRMED"}
      BY <3>1 DEF Idle, ReadForEdit
    <3> HIDE DEF x
    <3> QED BY <1>1, <3>2, <3>3 DEF Fresh
  <2>4. CASE \E o \in Orders, aim \in ORDER_STATUSES, admin \in BOOLEAN :
               ReadForTransition(q, o, aim, admin)
    <3>1. PICK o \in Orders, aim \in ORDER_STATUSES, admin \in BOOLEAN :
                ReadForTransition(q, o, aim, admin) BY <2>4
    <3> DEFINE x == [Idle EXCEPT !.pc = "items", !.op = "transition", !.order = o, !.was = order[o],
                                 !.aim = aim]
    <3>2. req'[q] = x BY <1>3, <3>1 DEF ReadForTransition
    <3>3. x.pc = "items" /\ x.op = "transition" /\ x.order = o /\ x.was = order[o] BY DEF Idle
    <3> HIDE DEF x
    <3> QED BY <1>1, <3>2, <3>3 DEF Fresh
  <2>5. CASE Abort(q)
    <3>1. req'[q] = Idle BY <1>3, <2>5 DEF Abort, End
    <3>2. Idle.pc = "idle" BY DEF Idle
    <3> QED BY <3>1, <3>2 DEF Fresh
  <2> QED BY <2>1, <2>2, <2>3, <2>4, <2>5
<1> QED BY <1>2, <1>4 DEF Rest

LEMMA ReadItemsSerial ==
  ASSUME SerialInv, NEW q \in Requests, ReadItems(q)
  PROVE  InBalance' /\ Rest(q)'
<1>1. UNCHANGED <<row, order>> BY DEF ReadItems
<1>2. InBalance' /\ AvailableNotNegative' /\ ReadyIsAllocated'
  BY <1>1 DEF SerialInv, InBalance, AvailableNotNegative, ReadyIsAllocated
<1>3. req \in [Requests -> RequestRecords] BY DEF SerialInv, TypeInv, TypeOK
<1>4. Fresh(req[q]) BY DEF SerialInv
<1>5. Fresh(req[q])' BY <1>1, <1>3, <1>4 DEF ReadItems, At, Fresh, RequestRecords
<1> QED BY <1>2, <1>5 DEF Rest

LEMMA VerifyStockSerial ==
  ASSUME SerialInv, NEW q \in Requests, VerifyStock(q)
  PROVE  InBalance' /\ Rest(q)'
<1>1. UNCHANGED <<row, order>> BY DEF VerifyStock
<1>2. InBalance' /\ AvailableNotNegative' /\ ReadyIsAllocated'
  BY <1>1 DEF SerialInv, InBalance, AvailableNotNegative, ReadyIsAllocated
<1>3. req \in [Requests -> RequestRecords] BY DEF SerialInv, TypeInv, TypeOK
<1>4. Fresh(req[q]) BY DEF SerialInv
<1>5. Fresh(req[q])' BY <1>1, <1>3, <1>4 DEF VerifyStock, At, Fresh, RequestRecords
<1> QED BY <1>2, <1>5 DEF Rest

\* A request that ended holds nothing that could be stale.
LEMMA IdleFresh ==
  ASSUME TypeInv, NEW q \in Requests, req'[q].pc = "idle"
  PROVE  Fresh(req[q])'
BY DEF Fresh

LEMMA WarehouseSerial ==
  ASSUME SerialInv, NEW q \in Requests, UpdateRow(q)
  PROVE  InBalance' /\ Rest(q)'
<1>1. ReadyIsAllocated' BY DEF SerialInv, ReadyIsAllocated, UpdateRow
<1>2. TypeInv /\ req \in [Requests -> RequestRecords] BY DEF SerialInv, TypeInv, TypeOK
<1>3. req'[q].pc = "idle" BY <1>2 DEF UpdateRow, End, Idle
<1> QED BY <1>1, <1>2, <1>3, IdleFresh, UpdateRowSerial DEF Rest

LEMMA PointOfSaleSerial ==
  ASSUME SerialInv, NEW q \in Requests,
         (\E n \in Quantities : Checkout(q, n) \/ TakeBack(q, n)) \/ GiveOut(q)
  PROVE  InBalance' /\ Rest(q)'
<1>1. TypeInv /\ InBalance /\ row \in IntRows /\ row["avail"] >= 0 /\ Fresh(req[q])
      /\ req \in [Requests -> RequestRecords] /\ req[q].n \in Nat
  BY Known DEF SerialInv, AvailableNotNegative, TypeInv, TypeOK
<1>2. InBalance' BY <1>1, RelativeKeepsBalance
<1>3. ReadyIsAllocated' BY DEF SerialInv, ReadyIsAllocated, Checkout, TakeBack, GiveOut
<1>4. "out" \in Places /\ "avail" \in Places /\ \A n \in Quantities : n \in Nat
  BY StockAssumption DEF Places, Buckets
<1>5. AvailableNotNegative'
  <2>1. CASE GiveOut(q)
    <3>1. row["avail"] >= req[q].n BY <1>1, <2>1 DEF Fresh, GiveOut, At
    <3>2. row' = Moved(row, "avail", "out", req[q].n) BY <2>1 DEF GiveOut
    <3> QED BY <1>1, <1>4, <3>1, <3>2, MovedAvailable DEF AvailableNotNegative
  <2>2. CASE \E n \in Quantities : Checkout(q, n)
    BY <1>1, <1>4, <2>2, MovedAvailable DEF Checkout, AvailableNotNegative
  <2>3. CASE \E n \in Quantities : TakeBack(q, n)
    <3>1. PICK n \in Quantities : TakeBack(q, n) BY <2>3
    <3>2. row' = Moved(row, "out", "avail", n) BY <3>1 DEF TakeBack
    <3> QED BY <1>1, <1>4, <3>2, MovedAvailable DEF AvailableNotNegative
  <2> QED BY <2>1, <2>2, <2>3
<1>6. req'[q].pc = "idle" BY <1>1 DEF Checkout, TakeBack, GiveOut, At, End, Idle
<1> QED BY <1>1, <1>2, <1>3, <1>5, <1>6, IdleFresh DEF Rest

LEMMA CreateOrderSerial ==
  ASSUME SerialInv, NEW q \in Requests, NEW o \in Orders, NEW n \in Quantities,
         NEW target \in {"DRAFT", "CONFIRMED", "READY_FOR_DISPATCH"}, CreateOrder(q, o, target, n)
  PROVE  InBalance' /\ Rest(q)'
<1>1. TypeInv /\ InBalance /\ row \in IntRows /\ row["avail"] >= 0 /\ n \in Nat
      /\ order \in [Orders -> OrderRecords]
  BY Known, StockAssumption DEF SerialInv, AvailableNotNegative
<1>2. InBalance' BY <1>1, RelativeKeepsBalance
<1>3. AvailableNotNegative' BY <1>1, ReservedFacts DEF CreateOrder, AvailableNotNegative
<1>4. ReadyIsAllocated'
  <2> SUFFICES ASSUME NEW p \in Orders
               PROVE /\ order'[p].status = "READY_FOR_DISPATCH" => order'[p].allocated
                     /\ order'[p].status = "CANCELLED" => ~order'[p].allocated
    BY DEF ReadyIsAllocated
  <2>1. CASE p # o BY <1>1, <2>1 DEF CreateOrder, SerialInv, ReadyIsAllocated
  <2>2. CASE p = o
    <3>1. order'[o] = [status |-> target, allocated |-> target # "DRAFT", qty |-> n]
      BY <1>1 DEF CreateOrder
    <3>2. order'[o].status = target /\ order'[o].allocated = (target # "DRAFT") BY <3>1
    <3> QED BY <2>2, <3>2
  <2> QED BY <2>1, <2>2
<1>5. req'[q].pc = "idle" BY DEF CreateOrder, At
<1> QED BY <1>1, <1>2, <1>3, <1>4, <1>5, IdleFresh DEF Rest

LEMMA CommitTransitionSerial ==
  ASSUME SerialInv, NEW q \in Requests, CommitTransition(q)
  PROVE  InBalance' /\ Rest(q)'
<1> DEFINE o == req[q].order
           was == req[q].was
           aim == req[q].aim
<1>1. TypeInv /\ InBalance /\ row \in IntRows /\ row["avail"] >= 0 /\ req[q].qty \in Nat
      /\ order \in [Orders -> OrderRecords] /\ req \in [Requests -> RequestRecords]
      /\ Fresh(req[q]) /\ o \in Orders /\ aim \in ORDER_STATUSES /\ was \in OrderRecords
  <2>1. TypeInv BY DEF SerialInv
  <2> QED BY <2>1, Known
      DEF SerialInv, AvailableNotNegative, TypeInv, TypeOK, Chosen, CommitTransition, At
<1>2. InBalance' BY <1>1, RelativeKeepsBalance
<1>3. AvailableNotNegative'
  <2>1. aim = "READY_FOR_DISPATCH" /\ ~was.allocated => row["avail"] >= req[q].qty
    BY <1>1 DEF Fresh, CommitTransition, At
  <2>2. row' = RowAfter(was, aim, row, req[q].qty) BY DEF CommitTransition
  <2> HIDE DEF was, aim
  <2> QED BY <1>1, <2>1, <2>2, RowAfterFacts DEF AvailableNotNegative
<1>4. ReadyIsAllocated'
  <2> SUFFICES ASSUME NEW p \in Orders
               PROVE /\ order'[p].status = "READY_FOR_DISPATCH" => order'[p].allocated
                     /\ order'[p].status = "CANCELLED" => ~order'[p].allocated
    BY DEF ReadyIsAllocated
  <2>1. CASE p # o BY <1>1, <2>1 DEF CommitTransition, SerialInv, ReadyIsAllocated
  <2>2. CASE p = o
    <3>1. was = order[o] BY <1>1 DEF Fresh, CommitTransition, At
    <3>2. order'[o].status = aim BY <1>1 DEF CommitTransition, OrderRecords
    <3>3. order'[o].allocated = AllocatedAfter(was, aim, was.allocated)
      BY <1>1, <3>1 DEF CommitTransition, OrderRecords
    <3> HIDE DEF was, aim, o
    <3>4. CASE aim = "CANCELLED"
      <4>1. ~order'[o].allocated BY <3>3, <3>4 DEF AllocatedAfter
      <4> QED BY <2>2, <3>2, <3>4, <4>1
    <3>5. CASE aim = "READY_FOR_DISPATCH" /\ ~was.allocated
      <4>1. order'[o].allocated BY <3>3, <3>5 DEF AllocatedAfter
      <4> QED BY <2>2, <3>2, <3>5, <4>1
    <3>6. CASE aim = "READY_FOR_DISPATCH" /\ was.allocated
      <4>1. order'[o].allocated BY <3>3, <3>6 DEF AllocatedAfter
      <4> QED BY <2>2, <3>2, <3>6, <4>1
    <3>7. CASE aim \notin {"CANCELLED", "READY_FOR_DISPATCH"} BY <2>2, <3>2, <3>7
    <3> QED BY <3>4, <3>5, <3>6, <3>7
  <2> QED BY <2>1, <2>2
<1>5. req'[q].pc = "idle" BY <1>1 DEF CommitTransition, End, Idle
<1> QED BY <1>1, <1>2, <1>3, <1>4, <1>5, IdleFresh DEF Rest

LEMMA CommitEditSerial ==
  ASSUME SerialInv, NEW q \in Requests, CommitEdit(q)
  PROVE  InBalance' /\ Rest(q)'
<1> DEFINE o == req[q].order
           was == req[q].was
           freed == IF was.allocated THEN Released(row, req[q].qty) ELSE row
<1>1. TypeInv /\ InBalance /\ row \in IntRows /\ row["avail"] >= 0
      /\ req[q].qty \in Nat /\ req[q].n \in Nat
      /\ order \in [Orders -> OrderRecords] /\ req \in [Requests -> RequestRecords]
      /\ Fresh(req[q]) /\ o \in Orders
  <2>1. TypeInv BY DEF SerialInv
  <2> QED BY <2>1, Known
      DEF SerialInv, AvailableNotNegative, TypeInv, TypeOK, Chosen, CommitEdit, At
<1>2. InBalance' BY <1>1, RelativeKeepsBalance
<1>3. AvailableNotNegative'
  <2>1. freed \in IntRows /\ freed["avail"] >= 0 BY <1>1, ReleasedFacts
  <2>2. row' = IF was.status = "CONFIRMED" THEN Reserved(freed, req[q].n) ELSE freed
    BY DEF CommitEdit
  <2> HIDE DEF freed
  <2> QED BY <1>1, <2>1, <2>2, ReservedFacts DEF AvailableNotNegative
<1>4. ReadyIsAllocated'
  <2>1. was = order[o] /\ was.status \in {"DRAFT", "CONFIRMED"}
    BY <1>1 DEF Fresh, CommitEdit, At
  <2>2. order'[o].status = order[o].status BY <1>1 DEF CommitEdit, OrderRecords
  <2>3. \A p \in Orders : p # o => order'[p] = order[p] BY <1>1 DEF CommitEdit
  <2> HIDE DEF was, o
  <2> QED BY <2>1, <2>2, <2>3 DEF SerialInv, ReadyIsAllocated
<1>5. req'[q].pc = "idle" BY <1>1 DEF CommitEdit, End, Idle
<1> QED BY <1>1, <1>2, <1>3, <1>4, <1>5, IdleFresh DEF Rest

LEMMA SerialStep ==
  ASSUME \A p, q \in Requests : p = q, SerialInv, Next
  PROVE  SerialInv'
<1>1. PICK q \in Requests : Warehouse(q) \/ PointOfSale(q) \/ OrdersEngine(q) \/ Abort(q)
  BY DEF Next
<1>2. TypeInv' BY NextTyped DEF SerialInv
<1>3. InBalance' /\ Rest(q)'
  <2>1. CASE Warehouse(q) BY <2>1, ReadsSerial, WarehouseSerial DEF Warehouse
  <2>2. CASE PointOfSale(q) BY <2>2, ReadsSerial, PointOfSaleSerial DEF PointOfSale
  <2>3. CASE OrdersEngine(q)
    BY <2>3, ReadsSerial, ReadItemsSerial, VerifyStockSerial, CreateOrderSerial,
       CommitTransitionSerial, CommitEditSerial DEF OrdersEngine
  <2>4. CASE Abort(q) BY <2>4, ReadsSerial
  <2> QED BY <1>1, <2>1, <2>2, <2>3, <2>4
<1>4. \A p \in Requests : Fresh(req[p])' BY <1>3 DEF Rest
<1> QED BY <1>2, <1>3, <1>4 DEF SerialInv, Rest

LEMMA SerialInvariant ==
  ASSUME \A p, q \in Requests : p = q
  PROVE  Spec => []SerialInv
<1>1. Init => SerialInv
  <2> SUFFICES ASSUME Init PROVE SerialInv OBVIOUS
  <2>1. PICK n \in Opening : row = [NoStock EXCEPT !["hand"] = n, !["avail"] = n] BY DEF Init
  <2>2. n \in Nat BY StockAssumption
  <2>3. InBalance /\ AvailableNotNegative
    BY <2>1, <2>2 DEF InBalance, Balanced, AvailableNotNegative, NoStock, Buckets
  <2>4. ReadyIsAllocated BY DEF Init, NoOrder, ReadyIsAllocated
  <2>5. \A q \in Requests : Fresh(req[q]) BY DEF Init, Idle, Fresh
  <2> QED BY <2>3, <2>4, <2>5, InitTyped DEF SerialInv
<1>2. SerialInv /\ [Next]_vars => SerialInv'
  <2>1. ASSUME SerialInv, UNCHANGED vars PROVE SerialInv'
    BY <2>1 DEF vars, SerialInv, TypeInv, TypeOK, Chosen, Fresh, InBalance,
                AvailableNotNegative, ReadyIsAllocated
  <2> QED BY <2>1, SerialStep
<1> QED BY <1>1, <1>2, PTL DEF Spec

\* One request at a time, every endpoint, any failure: the buckets balance.
THEOREM SerialBalance ==
  ASSUME \A p, q \in Requests : p = q
  PROVE  Spec => []InBalance
<1>1. SerialInv => InBalance BY DEF SerialInv
<1> QED BY <1>1, SerialInvariant, PTL

\* One request at a time, what is available never goes below zero.
THEOREM SerialAvailable ==
  ASSUME \A p, q \in Requests : p = q
  PROVE  Spec => []AvailableNotNegative
<1>1. SerialInv => AvailableNotNegative BY DEF SerialInv
<1> QED BY <1>1, SerialInvariant, PTL

\* One request at a time, an order that is ready is allocated, and a
\* cancelled one is not.
THEOREM SerialAllocation ==
  ASSUME \A p, q \in Requests : p = q
  PROVE  Spec => []ReadyIsAllocated
<1>1. SerialInv => ReadyIsAllocated BY DEF SerialInv
<1> QED BY <1>1, SerialInvariant, PTL
=============================================================================
