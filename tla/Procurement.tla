----------------------------- MODULE Procurement -----------------------------
(***************************************************************************)
(* Buying from suppliers: requisitions, purchase orders, goods received    *)
(* against them, invoices and what is paid on them, and goods sent back    *)
(* (server/services/procurementService.js and routes/procurement.js).      *)
(*                                                                         *)
(* Every handler reads the status it checks before its transaction, or has *)
(* no transaction, and writes by id only.  A receipt adds to the stored    *)
(* quantity of a line; a payment stores the balance it read plus its       *)
(* amount.  What receipts and returns do to the inventory is in Stock.     *)
(***************************************************************************)
EXTENDS Naturals, FiniteSets

CONSTANTS
  Requests,      \* requests that may be in progress at once
  Requisitions, Orders, Invoices, Returns,
  Lines,         \* lines of a purchase order
  Ordered,       \* units ordered on each line
  Total,         \* amount of an invoice
  Deliveries,    \* what may arrive: units of each line
  Amounts,       \* amounts staff pay at a time
  MaxRequests,   \* bound: requests made
  AfterRace      \* bound: new requests once two on one row have overlapped?

ASSUME ProcurementAssumption ==
  /\ Lines # {} /\ Ordered \in [Lines -> Nat \ {0}] /\ Total \in Nat \ {0}
  /\ Deliveries \subseteq [Lines -> Nat] /\ Amounts \subseteq Nat \ {0}
  /\ MaxRequests \in Nat /\ AfterRace \in BOOLEAN

VARIABLES
  requisition,  \* purchase_requisitions.status
  order,        \* purchase_orders.status
  source,       \* purchase_orders.purchase_requisition_id of those the conversion made
  received,     \* purchase_order_items.received_quantity
  receipts,     \* units of the rows of stock_receipt_items, per line
  over,         \* history: orders with a delivery sent with allow_over_receiving
  invoice,      \* supplier_invoices.status
  paid,         \* supplier_invoices.amount_paid
  payments,     \* amounts of the rows of supplier_payments, per invoice
  return,       \* supplier_returns.status
  deducted,     \* times the units of a return were taken from the inventory
  req,          \* the requests in progress
  asked,        \* requests made, for the bound
  contended     \* history: rows on which two requests overlapped

goods == <<received, receipts>>
bills == <<invoice, paid, payments>>
sent == <<return, deducted>>
vars == <<requisition, order, source, goods, over, bills, sent, req, asked, contended>>

REQUISITION_STATUSES == {"NONE", "DRAFT", "SUBMITTED", "APPROVED", "REJECTED", "CONVERTED_TO_PO"}
ORDER_STATUSES == {"NONE", "DRAFT", "APPROVED", "SENT_TO_SUPPLIER", "PARTIALLY_RECEIVED",
                   "FULLY_RECEIVED", "CANCELLED"}

None == [l \in Lines |-> 0]
Idle == [op |-> "none", on |-> "none", pc |-> "idle", aim |-> "none", units |-> None,
         any |-> FALSE, todo |-> {}, line |-> "none", added |-> {}, amount |-> 0, known |-> 0]

Init ==
  /\ requisition = [r \in Requisitions |-> "NONE"]
  /\ order = [o \in Orders |-> "NONE"] /\ source = [o \in Orders |-> "none"]
  /\ received = [o \in Orders |-> None] /\ receipts = [o \in Orders |-> None] /\ over = {}
  /\ invoice = [i \in Invoices |-> "NONE"]
  /\ paid = [i \in Invoices |-> 0] /\ payments = [i \in Invoices |-> 0]
  /\ return = [t \in Returns |-> "NONE"] /\ deducted = [t \in Returns |-> 0]
  /\ req = [q \in Requests |-> Idle] /\ asked = 0 /\ contended = {}

-----------------------------------------------------------------------------
(* Requests.                                                               *)

At(q, op, pc) == req[q].op = op /\ req[q].pc = pc
Become(q, r) == req' = [req EXCEPT ![q] = r] /\ UNCHANGED <<asked, contended>>
End(q) == Become(q, Idle)

\* A request has read the row it is about.
Begin(q, op, x, r) ==
  /\ req[q] = Idle /\ asked < MaxRequests
  /\ AfterRace \/ contended = {}
  /\ req' = [req EXCEPT ![q] = [r EXCEPT !.op = op, !.on = x]] /\ asked' = asked + 1
  /\ contended' = contended \cup {y \in {x} : \E p \in Requests : req[p] # Idle /\ req[p].on = x}
  /\ UNCHANGED <<requisition, order, source, goods, over, bills, sent>>

\* A statement fails, or the stock does not cover a return: the transaction rolls back.
Fail(q) ==
  /\ req[q] # Idle
  /\ End(q)
  /\ UNCHANGED <<requisition, order, source, goods, over, bills, sent>>

-----------------------------------------------------------------------------
(* Requisitions.                                                           *)

CreateRequisition(r) ==
  /\ requisition[r] = "NONE"
  /\ requisition' = [requisition EXCEPT ![r] = "DRAFT"]
  /\ UNCHANGED <<order, source, goods, over, bills, sent, req, asked, contended>>

\* The statuses in which submit, approve, reject and convert-to-po are accepted.
Can(op, status) ==
  CASE op = "submit" -> status = "DRAFT"
    [] op \in {"approve", "reject"} -> status \in {"SUBMITTED", "DRAFT"}
    [] op = "convert" -> status = "APPROVED"
    [] OTHER -> FALSE

ReadRequisition(q, r, op) ==
  /\ Can(op, requisition[r])
  /\ Begin(q, op, r, [Idle EXCEPT !.pc = "write"])

WriteRequisition(q) ==
  /\ \/ At(q, "submit", "write") /\ requisition' = [requisition EXCEPT ![req[q].on] = "SUBMITTED"]
     \/ At(q, "approve", "write") /\ requisition' = [requisition EXCEPT ![req[q].on] = "APPROVED"]
     \/ At(q, "reject", "write") /\ requisition' = [requisition EXCEPT ![req[q].on] = "REJECTED"]
  /\ End(q)
  /\ UNCHANGED <<order, source, goods, over, bills, sent>>

\* POST /requisitions/:id/convert-to-po.
ConvertRequisition(q, o) ==
  /\ At(q, "convert", "write") /\ order[o] = "NONE"
  /\ order' = [order EXCEPT ![o] = "DRAFT"]
  /\ source' = [source EXCEPT ![o] = req[q].on]
  /\ requisition' = [requisition EXCEPT ![req[q].on] = "CONVERTED_TO_PO"]
  /\ End(q)
  /\ UNCHANGED <<goods, over, bills, sent>>

-----------------------------------------------------------------------------
(* Purchase orders.                                                        *)

\* POST /orders without a requisition.
CreatePurchaseOrder(o) ==
  /\ order[o] = "NONE"
  /\ order' = [order EXCEPT ![o] = "DRAFT"]
  /\ UNCHANGED <<requisition, source, goods, over, bills, sent, req, asked, contended>>

\* Mutant: only a complete order cannot be cancelled, and a sent one can be approved again.
MayLoosely(op, status) ==
  CASE op = "approvePO" -> status \in {"DRAFT", "SENT_TO_SUPPLIER"}
    [] op = "send" -> status = "APPROVED"
    [] op = "cancel" -> status \notin {"NONE", "FULLY_RECEIVED"}
    [] OTHER -> FALSE

\* The statuses in which an order may be approved, sent and cancelled.
May(op, status) ==
  CASE op = "approvePO" -> status = "DRAFT"
    [] op = "send" -> status = "APPROVED"
    [] op = "cancel" -> status \notin {"NONE", "PARTIALLY_RECEIVED", "FULLY_RECEIVED"}
    [] OTHER -> FALSE

ReadOrder(q, o, op) ==
  /\ May(op, order[o])
  /\ Begin(q, op, o, [Idle EXCEPT !.pc = "write"])

WriteOrder(q) ==
  /\ \/ At(q, "approvePO", "write") /\ order' = [order EXCEPT ![req[q].on] = "APPROVED"]
     \/ At(q, "send", "write") /\ order' = [order EXCEPT ![req[q].on] = "SENT_TO_SUPPLIER"]
     \/ At(q, "cancel", "write") /\ order' = [order EXCEPT ![req[q].on] = "CANCELLED"]
  /\ End(q)
  /\ UNCHANGED <<requisition, source, goods, over, bills, sent>>

\* receivePurchaseOrderItems: the check of the status, before the transaction.
ReadForReceipt(q, o, units, any) ==
  /\ order[o] \in {"APPROVED", "SENT_TO_SUPPLIER", "PARTIALLY_RECEIVED"}
  /\ units # None
  /\ Begin(q, "receive", o, [Idle EXCEPT !.pc = "check", !.units = units, !.any = any,
                                        !.todo = {l \in Lines : units[l] > 0}])

Fits(o, l, n) == received[o][l] + n <= Ordered[l]

\* The next line: its pending quantity is read in the transaction, without a lock.
CheckLine(q, l) ==
  /\ At(q, "receive", "check") /\ l \in req[q].todo
  /\ req[q].any \/ Fits(req[q].on, l, req[q].units[l])
  /\ Become(q, [req[q] EXCEPT !.pc = "add", !.line = l])
  /\ UNCHANGED <<requisition, order, source, goods, over, bills, sent>>

Locked(o, l) == \E p \in Requests : req[p].op = "receive" /\ req[p].on = o /\ l \in req[p].added

\* The UPDATE of the line waits for a transaction that has added to it.
AddLine(q) ==
  LET l == req[q].line
  IN /\ At(q, "receive", "add") /\ ~Locked(req[q].on, l)
     /\ Become(q, [req[q] EXCEPT !.pc = "check", !.line = "none", !.added = req[q].added \cup {l},
                                 !.todo = req[q].todo \ {l}])
     /\ UNCHANGED <<requisition, order, source, goods, over, bills, sent>>

\* What a statement of this transaction finds on a line.
Seen(q, l) == received[req[q].on][l] + (IF l \in req[q].added THEN req[q].units[l] ELSE 0)

\* Mutant: only the lines of this delivery are looked at.
CompleteDelivered(q) == \A l \in req[q].added : Seen(q, l) >= Ordered[l]

Complete(q) == \A l \in Lines : Seen(q, l) >= Ordered[l]

EvaluateOrder(q) ==
  /\ At(q, "receive", "check") /\ req[q].todo = {}
  /\ Become(q, [req[q] EXCEPT !.pc = "commit",
                  !.aim = IF Complete(q) THEN "FULLY_RECEIVED" ELSE "PARTIALLY_RECEIVED"])
  /\ UNCHANGED <<requisition, order, source, goods, over, bills, sent>>

\* received_quantity = received_quantity + ?
Add(old, n, max) == old + n

CommitReceipt(q) ==
  LET o == req[q].on
      units == req[q].units
  IN /\ At(q, "receive", "commit")
     /\ received' = [received EXCEPT ![o] = [l \in Lines |-> Add(received[o][l], units[l], Ordered[l])]]
     /\ receipts' = [receipts EXCEPT ![o] = [l \in Lines |-> receipts[o][l] + units[l]]]
     /\ over' = IF req[q].any THEN over \cup {o} ELSE over
     /\ order' = [order EXCEPT ![o] = req[q].aim]
     /\ End(q)
     /\ UNCHANGED <<requisition, source, bills, sent>>

-----------------------------------------------------------------------------
(* Invoices and payments.                                                  *)

CreateSupplierInvoice(i) ==
  /\ invoice[i] = "NONE"
  /\ invoice' = [invoice EXCEPT ![i] = "PENDING"]
  /\ UNCHANGED <<requisition, order, source, goods, over, paid, payments, sent, req, asked, contended>>

Due(i) == Total - paid[i]

ReadForPayment(q, i, amount) ==
  /\ invoice[i] \in {"PENDING", "PARTIALLY_PAID"}
  /\ amount <= Due(i)
  /\ Begin(q, "pay", i, [Idle EXCEPT !.pc = "commit", !.amount = amount, !.known = paid[i]])

\* Mutant: the balance becomes what was due.
BalanceFromTotal(known, amount) == Total - amount

Balance(known, amount) == known + amount

Settled(balance) == balance >= Total

RecordSupplierPayment(q) ==
  LET i == req[q].on
      balance == Balance(req[q].known, req[q].amount)
  IN /\ At(q, "pay", "commit")
     /\ payments' = [payments EXCEPT ![i] = payments[i] + req[q].amount]
     /\ paid' = [paid EXCEPT ![i] = balance]
     /\ invoice' = [invoice EXCEPT ![i] = IF Settled(balance) THEN "PAID" ELSE "PARTIALLY_PAID"]
     /\ End(q)
     /\ UNCHANGED <<requisition, order, source, goods, over, sent>>

-----------------------------------------------------------------------------
(* Goods sent back.                                                        *)

CreateSupplierReturn(t) ==
  /\ return[t] = "NONE"
  /\ return' = [return EXCEPT ![t] = "DRAFT"]
  /\ UNCHANGED <<requisition, order, source, goods, over, bills, deducted, req, asked, contended>>

ReadForReturn(q, t) ==
  /\ return[t] = "DRAFT"
  /\ Begin(q, "return", t, [Idle EXCEPT !.pc = "commit"])

\* Mutant: the status of an approved return is not stored.
ApproveSilently(q) ==
  LET t == req[q].on
  IN /\ At(q, "return", "commit")
     /\ deducted' = [deducted EXCEPT ![t] = deducted[t] + 1] /\ UNCHANGED return
     /\ End(q)
     /\ UNCHANGED <<requisition, order, source, goods, over, bills>>

ApproveSupplierReturn(q) ==
  LET t == req[q].on
  IN /\ At(q, "return", "commit")
     /\ deducted' = [deducted EXCEPT ![t] = deducted[t] + 1]
     /\ return' = [return EXCEPT ![t] = "APPROVED"]
     /\ End(q)
     /\ UNCHANGED <<requisition, order, source, goods, over, bills>>

-----------------------------------------------------------------------------
Create ==
  \/ \E r \in Requisitions : CreateRequisition(r)
  \/ \E o \in Orders : CreatePurchaseOrder(o)
  \/ \E i \in Invoices : CreateSupplierInvoice(i)
  \/ \E t \in Returns : CreateSupplierReturn(t)

Ask(q) ==
  \/ \E r \in Requisitions, op \in {"submit", "approve", "reject", "convert"} : ReadRequisition(q, r, op)
  \/ \E o \in Orders, op \in {"approvePO", "send", "cancel"} : ReadOrder(q, o, op)
  \/ \E o \in Orders, units \in Deliveries, any \in BOOLEAN : ReadForReceipt(q, o, units, any)
  \/ \E i \in Invoices, amount \in Amounts : ReadForPayment(q, i, amount)
  \/ \E t \in Returns : ReadForReturn(q, t)

Proceed(q) ==
  \/ Fail(q)
  \/ WriteRequisition(q) \/ \E o \in Orders : ConvertRequisition(q, o)
  \/ WriteOrder(q)
  \/ \E l \in Lines : CheckLine(q, l)
  \/ AddLine(q) \/ EvaluateOrder(q) \/ CommitReceipt(q)
  \/ RecordSupplierPayment(q) \/ ApproveSupplierReturn(q)

Next == Create \/ \E q \in Requests : Ask(q) \/ Proceed(q)

Spec == Init /\ [][Next]_vars

-----------------------------------------------------------------------------
(* Properties.                                                             *)

\* Types of the variables.
TypeOK ==
  /\ requisition \in [Requisitions -> REQUISITION_STATUSES]
  /\ order \in [Orders -> ORDER_STATUSES] /\ source \in [Orders -> Requisitions \cup {"none"}]
  /\ received \in [Orders -> [Lines -> Nat]] /\ receipts \in [Orders -> [Lines -> Nat]]
  /\ over \subseteq Orders
  /\ invoice \in [Invoices -> {"NONE", "PENDING", "PARTIALLY_PAID", "PAID"}]
  /\ paid \in [Invoices -> Nat] /\ payments \in [Invoices -> Nat]
  /\ return \in [Returns -> {"NONE", "DRAFT", "APPROVED"}] /\ deducted \in [Returns -> Nat]
  /\ asked \in Nat /\ contended \subseteq (Requisitions \cup Orders \cup Invoices \cup Returns)

\* The quantity received on a line is the sum of its receipts, however many of
\* them are under way: it is added to where it is stored.
ReceiptsAddUp == received = receipts

\* No line receives more than was ordered, but where the request allows it or two
\* requests overlapped on the order.
WithinOrder ==
  \A o \in Orders, l \in Lines : received[o][l] <= Ordered[l] \/ o \in over \cup contended

Everything(o) == \A l \in Lines : received[o][l] >= Ordered[l]

\* An order is FULLY_RECEIVED only when every line is, whatever overlapped.
FullMeansAll == \A o \in Orders : order[o] = "FULLY_RECEIVED" => Everything(o)

\* And an order that got everything is closed, unless two requests overlapped on
\* it: of two receipts of the last units of different lines neither sees the other.
AllMeansFull == \A o \in Orders : Everything(o) => order[o] = "FULLY_RECEIVED" \/ o \in contended

\* A cancelled order has received nothing, unless a receipt overlapped the cancellation.
CancelledGotNothing ==
  \A o \in Orders : order[o] = "CANCELLED" => received[o] = None \/ o \in contended

\* The status of an order, the quantities on its lines and its receipts agree.
GoodsAgree == ReceiptsAddUp /\ WithinOrder /\ FullMeansAll /\ AllMeansFull /\ CancelledGotNothing

Stage(s) ==
  CASE s = "NONE" -> 0 [] s = "DRAFT" -> 1 [] s = "APPROVED" -> 2 [] s = "SENT_TO_SUPPLIER" -> 3
    [] s = "PARTIALLY_RECEIVED" -> 4 [] s = "FULLY_RECEIVED" -> 5 [] OTHER -> 6

\* An order only moves forward and a cancelled one stays cancelled, unless two
\* requests overlapped on it.
OrdersMoveForward ==
  [][\A o \in Orders : Stage(order'[o]) < Stage(order[o]) => o \in contended]_vars

\* An invoice marked PAID was paid at least its total, however payments overlap:
\* the balance is never higher than what was paid.
PaidIsCovered ==
  \A i \in Invoices : /\ paid[i] <= payments[i]
                      /\ invoice[i] = "PAID" => payments[i] >= Total

\* The balance of an invoice is what was paid on it, and no more than its total,
\* unless two payments overlapped.
BalanceAgrees ==
  \A i \in Invoices : i \in contended \/ (paid[i] = payments[i] /\ payments[i] <= Total)

\* The status of an invoice, its balance and the payments on it agree.
InvoicesAgree == PaidIsCovered /\ BalanceAgrees

\* A requisition becomes one order and stays converted, unless two requests
\* overlapped on it.
ConvertedOnce ==
  \A o \in Orders : source[o] # "none" =>
    \/ source[o] \in contended
    \/ /\ requisition[source[o]] = "CONVERTED_TO_PO"
       /\ \A p \in Orders \ {o} : source[p] # source[o]

\* The goods of a return leave the inventory once, unless two approvals overlapped.
DeductedOnce == \A t \in Returns : deducted[t] <= 1 \/ t \in contended

\* What is done once stays done once, whatever request comes again.
DoneOnce == ConvertedOnce /\ DeductedOnce
=============================================================================
