-------------------------- MODULE ProcurementProofs --------------------------
(***************************************************************************)
(* Proofs about Procurement for any number of requests, requisitions,      *)
(* orders, lines, quantities, invoices and returns.  What is added where   *)
(* it is stored holds however requests interleave; what a handler decides  *)
(* from a row it read holds as long as no other request on that row        *)
(* overlapped it.                                                          *)
(***************************************************************************)
EXTENDS Procurement, TLAPS

RequisitionOps == {"submit", "approve", "reject", "convert"}
OrderOps == {"approvePO", "send", "cancel"}
Rows == Requisitions \cup Orders \cup Invoices \cup Returns

RequestRecords ==
  [op : RequisitionOps \cup OrderOps \cup {"none", "receive", "pay", "return"},
   on : Rows \cup {"none"}, pc : {"idle", "write", "check", "add", "commit"},
   aim : {"none", "PARTIALLY_RECEIVED", "FULLY_RECEIVED"}, units : [Lines -> Nat], any : BOOLEAN,
   todo : SUBSET Lines, line : Lines \cup {"none"}, added : SUBSET Lines,
   amount : Nat, known : Nat]

\* A request is about a row of the table its handler reads.
Chosen(x) ==
  /\ x.op \in RequisitionOps => x.on \in Requisitions
  /\ x.op \in OrderOps \cup {"receive"} => x.on \in Orders
  /\ x.op = "pay" => x.on \in Invoices
  /\ x.op = "return" => x.on \in Returns

\* A receipt has added the lines of its delivery, or still has them to do.
Progress(x) ==
  x.op = "receive" =>
    /\ \A l \in Lines : x.units[l] > 0 => l \in x.todo \cup x.added
    /\ x.pc = "add" => x.line \in x.todo
    /\ x.pc = "commit" => x.todo = {} /\ x.aim \in {"PARTIALLY_RECEIVED", "FULLY_RECEIVED"}

TypeInv ==
  /\ TypeOK
  /\ req \in [Requests -> RequestRecords]
  /\ \A q \in Requests : Chosen(req[q]) /\ Progress(req[q])

\* A receipt that will close its order has found every line complete; a payment
\* starts from a balance that was paid.
Aimed(x) ==
  /\ x.op = "receive" /\ x.pc = "commit" /\ x.aim = "FULLY_RECEIVED"
       => \A l \in Lines : received[x.on][l] + x.units[l] >= Ordered[l]
  /\ x.op = "pay" => x.known <= payments[x.on]

\* What holds however requests overlap.
Books ==
  /\ \A q \in Requests : Aimed(req[q])
  /\ ReceiptsAddUp /\ FullMeansAll /\ PaidIsCovered

\* What a request read of its row is still so.
Current(x) ==
  /\ x.op \in RequisitionOps => Can(x.op, requisition[x.on])
  /\ x.op \in OrderOps => May(x.op, order[x.on])
  /\ x.op = "receive" =>
       /\ order[x.on] \in {"APPROVED", "SENT_TO_SUPPLIER", "PARTIALLY_RECEIVED"}
       /\ \A l \in Lines : ~x.any /\ (l \in x.added \/ (x.pc = "add" /\ l = x.line))
            => received[x.on][l] + x.units[l] <= Ordered[l]
       /\ x.pc = "commit" /\ x.aim = "PARTIALLY_RECEIVED"
            => \E l \in Lines : received[x.on][l] + x.units[l] < Ordered[l]
  /\ x.op = "pay" => x.known = paid[x.on] /\ x.known + x.amount <= Total
  /\ x.op = "return" => return[x.on] = "DRAFT"

Busy(q) == req[q].op # "none"

\* Two requests in progress on one row are contended.
Overlaps ==
  \A p, q \in Requests : p # q /\ Busy(p) /\ Busy(q) /\ req[p].on = req[q].on
    => req[p].on \in contended

\* An order in an early status has received nothing.
EarlyGotNothing ==
  \A o \in Orders \ contended : order[o] \notin {"PARTIALLY_RECEIVED", "FULLY_RECEIVED"}
    => received[o] = None

\* A return that is not approved has taken nothing.
DraftTookNothing ==
  \A t \in Returns \ contended : deducted[t] <= 1 /\ (return[t] # "APPROVED" => deducted[t] = 0)

Agreed ==
  /\ Overlaps
  /\ \A q \in Requests : Busy(q) /\ req[q].on \notin contended => Current(req[q])
  /\ EarlyGotNothing /\ DraftTookNothing
  /\ WithinOrder /\ AllMeansFull /\ BalanceAgrees /\ ConvertedOnce

-----------------------------------------------------------------------------
(* Steps.                                                                  *)

tables == <<requisition, order, source, goods, over, bills, sent>>

\* What Begin leaves in its request.
Started(x) == Chosen(x) /\ Progress(x) /\ x.op # "none" /\ Aimed(x) /\ Current(x)

LEMMA IdleTyped ==
  Idle \in RequestRecords /\ Chosen(Idle) /\ Progress(Idle) /\ Idle.op = "none"
BY DEF Idle, None, RequestRecords, RequisitionOps, OrderOps, Chosen, Progress

\* A step that begins request q.
Begun(q) ==
  /\ UNCHANGED tables /\ ~Busy(q)
  /\ contended \subseteq contended' /\ contended' \subseteq Rows /\ asked' \in Nat
  /\ \E x \in RequestRecords :
       /\ req' = [req EXCEPT ![q] = x] /\ Started(x)
       /\ \A p \in Requests : Busy(p) /\ req[p].on = x.on => x.on \in contended'

LEMMA BeginEffect ==
  ASSUME TypeInv, NEW q \in Requests, NEW op, NEW y \in Rows, NEW r,
         Begin(q, op, y, r), [r EXCEPT !.op = op, !.on = y] \in RequestRecords,
         Started([r EXCEPT !.op = op, !.on = y])
  PROVE  Begun(q)
<1> DEFINE x == [r EXCEPT !.op = op, !.on = y]
<1>1. req' = [req EXCEPT ![q] = x] BY DEF Begin
<1>2. x \in RequestRecords /\ Started(x) OBVIOUS
<1>3. x.on = y BY <1>2 DEF RequestRecords
<1>4. \A p \in Requests : Busy(p) /\ req[p].on = y => y \in contended'
  BY IdleTyped DEF Begin, Busy
<1>5. UNCHANGED tables BY DEF Begin, tables, goods, bills, sent
<1>6. ~Busy(q) BY IdleTyped DEF Begin, Busy
<1>7. contended \subseteq contended' /\ contended' \subseteq Rows /\ asked' \in Nat
  BY DEF Begin, TypeInv, TypeOK, Rows
<1> HIDE DEF x
<1> QED BY <1>1, <1>2, <1>3, <1>4, <1>5, <1>6, <1>7 DEF Begun

LEMMA AskEffect ==
  ASSUME TypeInv, Books, NEW q \in Requests, Ask(q)
  PROVE  Begun(q)
<1>1. ASSUME NEW r \in Requisitions, NEW op \in RequisitionOps, ReadRequisition(q, r, op)
      PROVE  Begun(q)
  <2> DEFINE x == [[Idle EXCEPT !.pc = "write"] EXCEPT !.op = op, !.on = r]
  <2>1. x \in RequestRecords /\ x.op = op /\ x.on = r
    BY <1>1 DEF Idle, None, RequestRecords, Rows
  <2>2. Can(op, requisition[r]) BY <1>1 DEF ReadRequisition
  <2> HIDE DEF x
  <2>3. Started(x)
    BY <1>1, <2>1, <2>2 DEF Started, Chosen, Progress, Aimed, Current, RequisitionOps, OrderOps
  <2> QED BY <1>1, <2>1, <2>3, BeginEffect DEF ReadRequisition, x, Rows
<1>2. ASSUME NEW o \in Orders, NEW op \in OrderOps, ReadOrder(q, o, op)
      PROVE  Begun(q)
  <2> DEFINE x == [[Idle EXCEPT !.pc = "write"] EXCEPT !.op = op, !.on = o]
  <2>1. x \in RequestRecords /\ x.op = op /\ x.on = o
    BY <1>2 DEF Idle, None, RequestRecords, Rows
  <2>2. May(op, order[o]) BY <1>2 DEF ReadOrder
  <2> HIDE DEF x
  <2>3. Started(x)
    BY <1>2, <2>1, <2>2 DEF Started, Chosen, Progress, Aimed, Current, RequisitionOps, OrderOps
  <2> QED BY <1>2, <2>1, <2>3, BeginEffect DEF ReadOrder, x, Rows
<1>3. ASSUME NEW o \in Orders, NEW units \in Deliveries, NEW any \in BOOLEAN,
             ReadForReceipt(q, o, units, any)
      PROVE  Begun(q)
  <2> DEFINE todo == {l \in Lines : units[l] > 0}
             x == [[Idle EXCEPT !.pc = "check", !.units = units, !.any = any, !.todo = todo]
                     EXCEPT !.op = "receive", !.on = o]
  <2>1. /\ x \in RequestRecords /\ x.op = "receive" /\ x.on = o /\ x.pc = "check"
        /\ x.units = units /\ x.todo = todo /\ x.added = {}
    BY ProcurementAssumption DEF Idle, None, RequestRecords, Rows
  <2>2. order[o] \in {"APPROVED", "SENT_TO_SUPPLIER", "PARTIALLY_RECEIVED"}
    BY <1>3 DEF ReadForReceipt
  <2>3. Begin(q, "receive", o, [Idle EXCEPT !.pc = "check", !.units = units, !.any = any, !.todo = todo])
    BY <1>3 DEF ReadForReceipt
  <2> HIDE DEF x
  <2>4. Started(x)
    BY <2>1, <2>2 DEF Started, Chosen, Progress, Aimed, Current, RequisitionOps, OrderOps
  <2> QED BY <2>1, <2>3, <2>4, BeginEffect DEF x, Rows
<1>4. ASSUME NEW i \in Invoices, NEW amount \in Amounts, ReadForPayment(q, i, amount)
      PROVE  Begun(q)
  <2> DEFINE x == [[Idle EXCEPT !.pc = "commit", !.amount = amount, !.known = paid[i]]
                     EXCEPT !.op = "pay", !.on = i]
  <2>0. amount \in Nat /\ Total \in Nat /\ paid[i] \in Nat /\ payments[i] \in Nat
    BY ProcurementAssumption DEF TypeInv, TypeOK
  <2>1. /\ x \in RequestRecords /\ x.op = "pay" /\ x.on = i
        /\ x.amount = amount /\ x.known = paid[i]
    BY <2>0 DEF Idle, None, RequestRecords, Rows
  <2>2. amount <= Total - paid[i] BY <1>4 DEF ReadForPayment, Due
  <2>3. paid[i] <= payments[i] BY DEF Books, PaidIsCovered
  <2> HIDE DEF x
  <2>4. x.known + x.amount <= Total BY <2>0, <2>1, <2>2
  <2>5. Started(x)
    BY <2>1, <2>3, <2>4 DEF Started, Chosen, Progress, Aimed, Current, RequisitionOps, OrderOps
  <2> QED BY <1>4, <2>1, <2>5, BeginEffect DEF ReadForPayment, x, Rows
<1>5. ASSUME NEW t \in Returns, ReadForReturn(q, t)
      PROVE  Begun(q)
  <2> DEFINE x == [[Idle EXCEPT !.pc = "commit"] EXCEPT !.op = "return", !.on = t]
  <2>1. x \in RequestRecords /\ x.op = "return" /\ x.on = t
    BY DEF Idle, None, RequestRecords, Rows
  <2>2. return[t] = "DRAFT" BY <1>5 DEF ReadForReturn
  <2> HIDE DEF x
  <2>3. Started(x)
    BY <2>1, <2>2 DEF Started, Chosen, Progress, Aimed, Current, RequisitionOps, OrderOps
  <2> QED BY <1>5, <2>1, <2>3, BeginEffect DEF ReadForReturn, x, Rows
<1> QED BY <1>1, <1>2, <1>3, <1>4, <1>5 DEF Ask, RequisitionOps, OrderOps

\* A step inside a receipt.
Worked(q) ==
  /\ UNCHANGED <<tables, asked, contended>>
  /\ At(q, "receive", "check") \/ At(q, "receive", "add")
  /\ \E x \in RequestRecords :
       /\ req' = [req EXCEPT ![q] = x]
       /\ x.op = "receive" /\ x.on = req[q].on /\ x.units = req[q].units /\ x.any = req[q].any
       /\ Progress(x) /\ Aimed(x) /\ (Current(req[q]) => Current(x))

LEMMA WorkEffect ==
  ASSUME TypeInv, NEW q \in Requests,
         (\E l \in Lines : CheckLine(q, l)) \/ AddLine(q) \/ EvaluateOrder(q)
  PROVE  Worked(q)
<1>0. req[q] \in RequestRecords /\ Progress(req[q]) /\ req[q].op = "receive" /\ req[q].on \in Orders
  BY DEF TypeInv, CheckLine, AddLine, EvaluateOrder, At, Chosen
<1>1. ASSUME NEW l \in Lines, CheckLine(q, l) PROVE Worked(q)
  <2> DEFINE x == [req[q] EXCEPT !.pc = "add", !.line = l]
  <2>1. /\ x \in RequestRecords /\ x.op = "receive" /\ x.on = req[q].on /\ x.units = req[q].units
        /\ x.any = req[q].any /\ x.pc = "add" /\ x.line = l
        /\ x.todo = req[q].todo /\ x.added = req[q].added
    BY <1>0 DEF RequestRecords
  <2>2. At(q, "receive", "check") /\ l \in req[q].todo BY <1>1 DEF CheckLine
  <2>3. ~req[q].any => received[req[q].on][l] + req[q].units[l] <= Ordered[l]
    BY <1>1 DEF CheckLine, Fits
  <2>4. req' = [req EXCEPT ![q] = x] /\ UNCHANGED <<tables, asked, contended>>
    BY <1>1 DEF CheckLine, Become, tables, goods, bills, sent
  <2> HIDE DEF x
  <2>5. Progress(x) BY <1>0, <2>1, <2>2 DEF Progress, At
  <2>6. Aimed(x) BY <2>1 DEF Aimed
  <2>7. Current(req[q]) => Current(x)
    BY <1>0, <2>1, <2>2, <2>3 DEF Current, At, RequisitionOps, OrderOps
  <2> QED BY <2>1, <2>2, <2>4, <2>5, <2>6, <2>7 DEF Worked
<1>2. CASE AddLine(q)
  <2> DEFINE l == req[q].line
             x == [req[q] EXCEPT !.pc = "check", !.line = "none", !.added = req[q].added \cup {l},
                                 !.todo = req[q].todo \ {l}]
  <2>1. At(q, "receive", "add") BY <1>2 DEF AddLine
  <2>2. l \in Lines BY <1>0, <2>1 DEF Progress, At, RequestRecords
  <2>3. /\ x \in RequestRecords /\ x.op = "receive" /\ x.on = req[q].on /\ x.units = req[q].units
        /\ x.any = req[q].any /\ x.pc = "check"
        /\ x.todo = req[q].todo \ {l} /\ x.added = req[q].added \cup {l}
    BY <1>0, <2>2 DEF RequestRecords
  <2>4. req' = [req EXCEPT ![q] = x] /\ UNCHANGED <<tables, asked, contended>>
    BY <1>2 DEF AddLine, Become, tables, goods, bills, sent
  <2> HIDE DEF x
  <2>5. Progress(x) BY <1>0, <2>1, <2>3 DEF Progress, At
  <2>6. Aimed(x) BY <2>3 DEF Aimed
  <2>7. Current(req[q]) => Current(x)
    BY <1>0, <2>1, <2>3 DEF Current, At, RequisitionOps, OrderOps
  <2> QED BY <2>1, <2>3, <2>4, <2>5, <2>6, <2>7 DEF Worked
<1>3. CASE EvaluateOrder(q)
  <2> DEFINE aim == IF Complete(q) THEN "FULLY_RECEIVED" ELSE "PARTIALLY_RECEIVED"
             x == [req[q] EXCEPT !.pc = "commit", !.aim = aim]
  <2>1. At(q, "receive", "check") /\ req[q].todo = {} BY <1>3 DEF EvaluateOrder
  <2>2. /\ x \in RequestRecords /\ x.op = "receive" /\ x.on = req[q].on /\ x.units = req[q].units
        /\ x.any = req[q].any /\ x.pc = "commit" /\ x.aim = aim
        /\ x.todo = req[q].todo /\ x.added = req[q].added
    BY <1>0 DEF RequestRecords
  <2>3. req' = [req EXCEPT ![q] = x] /\ UNCHANGED <<tables, asked, contended>>
    BY <1>3 DEF EvaluateOrder, Become, tables, goods, bills, sent
  <2>4. \A l \in Lines : Seen(q, l) = received[req[q].on][l] + req[q].units[l]
    <3> SUFFICES ASSUME NEW l \in Lines PROVE Seen(q, l) = received[req[q].on][l] + req[q].units[l]
      OBVIOUS
    <3>1. req[q].units[l] \in Nat /\ received[req[q].on][l] \in Nat
      BY <1>0 DEF RequestRecords, TypeInv, TypeOK
    <3>2. l \notin req[q].added => req[q].units[l] = 0 BY <1>0, <2>1, <3>1 DEF Progress
    <3> QED BY <3>1, <3>2 DEF Seen
  <2>5. Complete(q) <=> \A l \in Lines : received[req[q].on][l] + req[q].units[l] >= Ordered[l]
    BY <2>4 DEF Complete
  <2>6. \A l \in Lines : /\ received[req[q].on][l] \in Nat /\ req[q].units[l] \in Nat
                         /\ Ordered[l] \in Nat
    BY <1>0, ProcurementAssumption DEF RequestRecords, TypeInv, TypeOK
  <2> HIDE DEF x
  <2>7. Progress(x) BY <1>0, <2>1, <2>2 DEF Progress, At
  <2>8. Aimed(x) BY <2>2, <2>5 DEF Aimed
  <2>9. Current(req[q]) => Current(x)
    BY <1>0, <2>1, <2>2, <2>5, <2>6 DEF Current, At, RequisitionOps, OrderOps
  <2> QED BY <2>1, <2>2, <2>3, <2>7, <2>8, <2>9 DEF Worked
<1> QED BY <1>1, <1>2, <1>3

-----------------------------------------------------------------------------
(* The books: unconditional.                                               *)

LEMMA EndTyped ==
  ASSUME TypeInv, NEW q \in Requests, End(q)
  PROVE  /\ req' = [req EXCEPT ![q] = Idle] /\ req' \in [Requests -> RequestRecords]
         /\ \A p \in Requests : Chosen(req'[p]) /\ Progress(req'[p])
         /\ UNCHANGED <<asked, contended>>
BY IdleTyped DEF End, Become, TypeInv

\* What a commit adds to the lines of its order.
LEMMA ReceiptEffect ==
  ASSUME TypeInv, NEW q \in Requests, CommitReceipt(q)
  PROVE  LET o == req[q].on
             units == req[q].units
         IN /\ At(q, "receive", "commit") /\ Progress(req[q]) /\ req[q] \in RequestRecords
            /\ o \in Orders /\ units \in [Lines -> Nat]
            /\ received' \in [Orders -> [Lines -> Nat]] /\ receipts' \in [Orders -> [Lines -> Nat]]
            /\ \A l \in Lines : /\ received'[o][l] = received[o][l] + units[l]
                                /\ receipts'[o][l] = receipts[o][l] + units[l]
            /\ \A p \in Orders \ {o} : received'[p] = received[p] /\ receipts'[p] = receipts[p]
            /\ req[q].aim \in {"PARTIALLY_RECEIVED", "FULLY_RECEIVED"}
            /\ order' = [order EXCEPT ![o] = req[q].aim]
            /\ over' = (IF req[q].any THEN over \cup {o} ELSE over)
<1> DEFINE o == req[q].on
           units == req[q].units
<1>1. /\ At(q, "receive", "commit") /\ o \in Orders /\ units \in [Lines -> Nat] /\ Progress(req[q])
      /\ req[q] \in RequestRecords
  BY DEF CommitReceipt, TypeInv, At, Chosen, RequestRecords
<1>2. req[q].aim \in {"PARTIALLY_RECEIVED", "FULLY_RECEIVED"} BY <1>1 DEF Progress, At
<1>3. /\ received' = [received EXCEPT ![o] = [l \in Lines |-> received[o][l] + units[l]]]
      /\ receipts' = [receipts EXCEPT ![o] = [l \in Lines |-> receipts[o][l] + units[l]]]
      /\ order' = [order EXCEPT ![o] = req[q].aim]
      /\ over' = (IF req[q].any THEN over \cup {o} ELSE over)
  BY DEF CommitReceipt, Add
<1>4. received \in [Orders -> [Lines -> Nat]] /\ receipts \in [Orders -> [Lines -> Nat]]
  BY DEF TypeInv, TypeOK
<1>5. /\ [l \in Lines |-> received[o][l] + units[l]] \in [Lines -> Nat]
      /\ [l \in Lines |-> receipts[o][l] + units[l]] \in [Lines -> Nat]
  BY <1>1, <1>4
<1> HIDE DEF o, units
<1>6. received' \in [Orders -> [Lines -> Nat]] /\ receipts' \in [Orders -> [Lines -> Nat]]
  BY <1>1, <1>3, <1>4, <1>5
<1>7. /\ \A l \in Lines : /\ received'[o][l] = received[o][l] + units[l]
                          /\ receipts'[o][l] = receipts[o][l] + units[l]
      /\ \A p \in Orders \ {o} : received'[p] = received[p] /\ receipts'[p] = receipts[p]
  BY <1>1, <1>3, <1>4
<1> QED BY <1>1, <1>2, <1>3, <1>6, <1>7 DEF o, units

\* What a payment makes of its invoice.
LEMMA PaymentEffect ==
  ASSUME TypeInv, NEW q \in Requests, RecordSupplierPayment(q)
  PROVE  LET i == req[q].on
             balance == req[q].known + req[q].amount
         IN /\ req[q].op = "pay" /\ i \in Invoices /\ balance \in Nat
            /\ req[q].known \in Nat /\ req[q].amount \in Nat
            /\ payments' = [payments EXCEPT ![i] = payments[i] + req[q].amount]
            /\ paid' = [paid EXCEPT ![i] = balance]
            /\ invoice' = [invoice EXCEPT ![i] = IF balance >= Total THEN "PAID" ELSE "PARTIALLY_PAID"]
            /\ paid' \in [Invoices -> Nat] /\ payments' \in [Invoices -> Nat]
<1> DEFINE i == req[q].on
           balance == req[q].known + req[q].amount
<1>1. req[q].op = "pay" /\ i \in Invoices /\ req[q].known \in Nat /\ req[q].amount \in Nat
  BY DEF RecordSupplierPayment, TypeInv, At, Chosen, RequestRecords
<1>2. balance \in Nat BY <1>1
<1>3. /\ payments' = [payments EXCEPT ![i] = payments[i] + req[q].amount]
      /\ paid' = [paid EXCEPT ![i] = balance]
      /\ invoice' = [invoice EXCEPT ![i] = IF balance >= Total THEN "PAID" ELSE "PARTIALLY_PAID"]
  BY DEF RecordSupplierPayment, Balance, Settled
<1>4. paid \in [Invoices -> Nat] /\ payments \in [Invoices -> Nat] BY DEF TypeInv, TypeOK
<1>5. paid' \in [Invoices -> Nat] /\ payments' \in [Invoices -> Nat]
  BY <1>1, <1>2, <1>3, <1>4
<1> QED BY <1>1, <1>2, <1>3, <1>5

LEMMA TypeStep ==
  ASSUME TypeInv, Books, [Next]_vars
  PROVE  TypeInv'
<1>1. CASE UNCHANGED vars
  BY <1>1 DEF vars, goods, bills, sent, TypeInv, TypeOK, Chosen, Progress
<1>2. CASE Create
  <2>1. UNCHANGED req
    BY <1>2 DEF Create, CreateRequisition, CreatePurchaseOrder, CreateSupplierInvoice,
                CreateSupplierReturn
  <2>2. TypeOK'
    <3>1. ASSUME NEW r \in Requisitions, CreateRequisition(r) PROVE TypeOK'
      BY <3>1 DEF CreateRequisition, goods, bills, sent, TypeInv, TypeOK, REQUISITION_STATUSES
    <3>2. ASSUME NEW o \in Orders, CreatePurchaseOrder(o) PROVE TypeOK'
      BY <3>2 DEF CreatePurchaseOrder, goods, bills, sent, TypeInv, TypeOK, ORDER_STATUSES
    <3>3. ASSUME NEW i \in Invoices, CreateSupplierInvoice(i) PROVE TypeOK'
      BY <3>3 DEF CreateSupplierInvoice, goods, sent, TypeInv, TypeOK
    <3>4. ASSUME NEW t \in Returns, CreateSupplierReturn(t) PROVE TypeOK'
      BY <3>4 DEF CreateSupplierReturn, goods, bills, TypeInv, TypeOK
    <3> QED BY <1>2, <3>1, <3>2, <3>3, <3>4 DEF Create
  <2> QED BY <2>1, <2>2 DEF TypeInv, Chosen, Progress
<1>3. ASSUME NEW q \in Requests, Begun(q) PROVE TypeInv'
  <2>1. PICK x \in RequestRecords : req' = [req EXCEPT ![q] = x] /\ Started(x) BY <1>3 DEF Begun
  <2>2. req' \in [Requests -> RequestRecords] BY <2>1 DEF TypeInv
  <2>3. \A p \in Requests : Chosen(req'[p]) /\ Progress(req'[p])
    BY <2>1 DEF TypeInv, Started
  <2>4. TypeOK' BY <1>3 DEF Begun, tables, goods, bills, sent, Rows, TypeInv, TypeOK
  <2> QED BY <2>2, <2>3, <2>4 DEF TypeInv, Chosen, Progress
<1>4. ASSUME NEW q \in Requests, Worked(q) PROVE TypeInv'
  <2>1. PICK x \in RequestRecords :
          req' = [req EXCEPT ![q] = x] /\ Progress(x) /\ x.op = "receive" /\ x.on = req[q].on
    BY <1>4 DEF Worked
  <2>2. req' \in [Requests -> RequestRecords] BY <2>1 DEF TypeInv
  <2>3. req[q].on \in Orders BY <1>4 DEF Worked, At, TypeInv, Chosen
  <2>4. Chosen(x) BY <2>1, <2>3 DEF Chosen, RequisitionOps
  <2>5. \A p \in Requests : Chosen(req'[p]) /\ Progress(req'[p])
    BY <2>1, <2>4 DEF TypeInv
  <2>6. TypeOK' BY <1>4 DEF Worked, tables, goods, bills, sent, TypeInv, TypeOK
  <2> QED BY <2>2, <2>5, <2>6 DEF TypeInv, Chosen, Progress
<1>5. ASSUME NEW q \in Requests, End(q),
             \/ Fail(q) \/ WriteRequisition(q) \/ \E o \in Orders : ConvertRequisition(q, o)
             \/ WriteOrder(q) \/ CommitReceipt(q) \/ RecordSupplierPayment(q)
             \/ ApproveSupplierReturn(q)
      PROVE  TypeInv'
  <2>1. TypeOK'
    <3>1. UNCHANGED <<asked, contended>> BY <1>5, EndTyped
    <3>2. CASE Fail(q) BY <3>1, <3>2 DEF Fail, goods, bills, sent, TypeInv, TypeOK
    <3>3. CASE WriteRequisition(q)
      BY <3>1, <3>3 DEF WriteRequisition, goods, bills, sent, TypeInv, TypeOK, REQUISITION_STATUSES
    <3>4. ASSUME NEW o \in Orders, ConvertRequisition(q, o) PROVE TypeOK'
      <4>1. req[q].on \in Requisitions
        BY <3>4 DEF ConvertRequisition, At, TypeInv, Chosen, RequisitionOps
      <4> QED BY <3>1, <3>4, <4>1 DEF ConvertRequisition, goods, bills, sent, TypeInv, TypeOK,
                                      REQUISITION_STATUSES, ORDER_STATUSES
    <3>5. CASE WriteOrder(q)
      BY <3>1, <3>5 DEF WriteOrder, goods, bills, sent, TypeInv, TypeOK, ORDER_STATUSES
    <3>6. CASE CommitReceipt(q)
      <4>0. /\ req[q].on \in Orders
            /\ req[q].aim \in {"PARTIALLY_RECEIVED", "FULLY_RECEIVED"}
            /\ order' = [order EXCEPT ![req[q].on] = req[q].aim]
            /\ over' = (IF req[q].any THEN over \cup {req[q].on} ELSE over)
        BY <3>6, ReceiptEffect
      <4>1. order' \in [Orders -> ORDER_STATUSES] /\ over' \subseteq Orders
        BY <4>0 DEF TypeInv, TypeOK, ORDER_STATUSES
      <4> QED BY <3>1, <3>6, <4>1, ReceiptEffect DEF CommitReceipt, bills, sent, TypeInv, TypeOK
    <3>7. CASE RecordSupplierPayment(q)
      BY <3>1, <3>7, PaymentEffect DEF RecordSupplierPayment, goods, sent, TypeInv, TypeOK
    <3>8. CASE ApproveSupplierReturn(q)
      <4>1. deducted' \in [Returns -> Nat] /\ return' \in [Returns -> {"NONE", "DRAFT", "APPROVED"}]
        BY <3>8 DEF ApproveSupplierReturn, TypeInv, TypeOK, At, Chosen
      <4> QED BY <3>1, <3>8, <4>1 DEF ApproveSupplierReturn, goods, bills, TypeInv, TypeOK
    <3> QED BY <1>5, <3>2, <3>3, <3>4, <3>5, <3>6, <3>7, <3>8
  <2> QED BY <1>5, <2>1, EndTyped DEF TypeInv, Chosen, Progress
<1>6. \A q \in Requests : Ask(q) => Begun(q) BY AskEffect
<1>7. \A q \in Requests :
        (\E l \in Lines : CheckLine(q, l)) \/ AddLine(q) \/ EvaluateOrder(q) => Worked(q)
  BY WorkEffect
<1>8. \A q \in Requests :
        /\ Fail(q) => End(q)
        /\ WriteRequisition(q) => End(q)
        /\ \A o \in Orders : ConvertRequisition(q, o) => End(q)
        /\ WriteOrder(q) => End(q)
        /\ CommitReceipt(q) => End(q)
        /\ RecordSupplierPayment(q) => End(q)
        /\ ApproveSupplierReturn(q) => End(q)
  BY DEF Fail, WriteRequisition, ConvertRequisition, WriteOrder, CommitReceipt,
         RecordSupplierPayment, ApproveSupplierReturn
<1> QED BY <1>1, <1>2, <1>3, <1>4, <1>5, <1>6, <1>7, <1>8 DEF Next, Proceed

\* A step that adds to no book and closes no order or invoice.
QuietForBooks ==
  /\ UNCHANGED <<received, receipts, paid, payments>>
  /\ \A o \in Orders : order'[o] = "FULLY_RECEIVED" => order[o] = "FULLY_RECEIVED"
  /\ \A i \in Invoices : invoice'[i] = "PAID" => invoice[i] = "PAID"
  /\ \A q \in Requests : Aimed(req[q]) => Aimed(req'[q])

LEMMA QuietKeepsBooks ==
  ASSUME Books, QuietForBooks
  PROVE  Books'
<1>1. \A q \in Requests : Aimed(req[q])'
  BY DEF QuietForBooks, Books, Aimed
<1>2. (ReceiptsAddUp /\ FullMeansAll /\ PaidIsCovered)'
  BY DEF QuietForBooks, Books, ReceiptsAddUp, FullMeansAll, Everything, PaidIsCovered
<1> QED BY <1>1, <1>2 DEF Books, Aimed

LEMMA EndAims ==
  ASSUME TypeInv, NEW q \in Requests, End(q)
  PROVE  \A p \in Requests : Aimed(req[p]) => Aimed(req'[p])
<1>1. Aimed(Idle) BY DEF Aimed, Idle
<1> QED BY <1>1, EndTyped DEF TypeInv

\* What a receipt that waits to commit expects still holds when another one commits.
LEMMA ReceiptBooks ==
  ASSUME TypeInv, Books, NEW q \in Requests, CommitReceipt(q)
  PROVE  Books'
<1> DEFINE o == req[q].on
           units == req[q].units
           aim == req[q].aim
<1>0. /\ At(q, "receive", "commit") /\ o \in Orders /\ units \in [Lines -> Nat]
      /\ \A l \in Lines : /\ received'[o][l] = received[o][l] + units[l]
                          /\ receipts'[o][l] = receipts[o][l] + units[l]
      /\ \A p \in Orders \ {o} : received'[p] = received[p] /\ receipts'[p] = receipts[p]
      /\ received' \in [Orders -> [Lines -> Nat]] /\ receipts' \in [Orders -> [Lines -> Nat]]
      /\ order' = [order EXCEPT ![o] = aim]
  BY ReceiptEffect
<1>1. received \in [Orders -> [Lines -> Nat]] /\ receipts \in [Orders -> [Lines -> Nat]]
      /\ order \in [Orders -> ORDER_STATUSES]
  BY DEF TypeInv, TypeOK
<1>2. \A p \in Orders, l \in Lines : received'[p][l] >= received[p][l]
  <2> TAKE p \in Orders, l \in Lines
  <2>1. received[p][l] \in Nat /\ units[l] \in Nat BY <1>0, <1>1
  <2> HIDE DEF o, units
  <2>2. CASE p = o BY <1>0, <2>1, <2>2
  <2>3. CASE p # o BY <1>0, <2>1, <2>3
  <2> QED BY <2>2, <2>3
<1>3. UNCHANGED <<paid, payments, invoice>> /\ req' = [req EXCEPT ![q] = Idle]
  BY EndTyped DEF CommitReceipt, bills
<1>4. \A l \in Lines : Ordered[l] \in Nat BY ProcurementAssumption
<1>5. ReceiptsAddUp'
  <2>1. \A p \in Orders : \A l \in Lines : received'[p][l] = receipts'[p][l]
    BY <1>0, <1>1 DEF Books, ReceiptsAddUp
  <2>2. \A p \in Orders : received'[p] = receipts'[p] BY <1>0, <2>1
  <2> QED BY <1>0, <2>2 DEF ReceiptsAddUp
<1>6. FullMeansAll'
  <2> SUFFICES ASSUME NEW p \in Orders, order'[p] = "FULLY_RECEIVED", NEW l \in Lines
               PROVE  received'[p][l] >= Ordered[l]
    BY DEF FullMeansAll, Everything
  <2>0. received'[p][l] \in Nat /\ received[p][l] \in Nat /\ Ordered[l] \in Nat
    BY <1>0, <1>1, <1>4
  <2>1. CASE p = o
    <3>1. aim = "FULLY_RECEIVED" BY <1>0, <1>1, <2>1
    <3>2. received[o][l] + units[l] >= Ordered[l]
      BY <1>0, <3>1 DEF Books, Aimed, At
    <3> QED BY <1>0, <2>1, <3>2
  <2>2. CASE p # o
    <3>1. order[p] = "FULLY_RECEIVED" BY <1>0, <1>1, <2>2
    <3>2. received[p][l] >= Ordered[l] BY <3>1 DEF Books, FullMeansAll, Everything
    <3> QED BY <1>0, <2>2, <3>2
  <2> QED BY <2>1, <2>2
<1>7. \A r \in Requests : Aimed(req[r])'
  <2> SUFFICES ASSUME NEW r \in Requests, r # q PROVE Aimed(req[r])'
    <3>1. Aimed(req[q])' BY <1>3 DEF Aimed, Idle, TypeInv
    <3> QED BY <3>1
  <2>0. req'[r] = req[r] BY <1>3
  <2>1. ASSUME At(r, "receive", "commit"), req[r].aim = "FULLY_RECEIVED", NEW l \in Lines
        PROVE  received'[req[r].on][l] + req[r].units[l] >= Ordered[l]
    <3>1. req[r].on \in Orders /\ req[r].units[l] \in Nat
      BY <2>1 DEF TypeInv, Chosen, At, RequestRecords
    <3>2. received[req[r].on][l] + req[r].units[l] >= Ordered[l]
      BY <2>1 DEF Books, Aimed, At
    <3>3. received'[req[r].on][l] \in Nat /\ received[req[r].on][l] \in Nat /\ Ordered[l] \in Nat
      BY <1>0, <1>1, <1>4, <3>1
    <3>4. received'[req[r].on][l] >= received[req[r].on][l] BY <1>2, <3>1
    <3> QED BY <3>1, <3>2, <3>3, <3>4
  <2>2. req[r].op = "pay" => req[r].known <= payments[req[r].on] BY DEF Books, Aimed
  <2> QED BY <1>3, <2>0, <2>1, <2>2 DEF Aimed, At
<1>8. PaidIsCovered' BY <1>3 DEF Books, PaidIsCovered
<1> QED BY <1>5, <1>6, <1>7, <1>8 DEF Books, Aimed

LEMMA PaymentBooks ==
  ASSUME TypeInv, Books, NEW q \in Requests, RecordSupplierPayment(q)
  PROVE  Books'
<1> DEFINE i == req[q].on
           balance == req[q].known + req[q].amount
<1>0. /\ req[q].op = "pay" /\ i \in Invoices /\ balance \in Nat
      /\ req[q].known \in Nat /\ req[q].amount \in Nat
      /\ payments' = [payments EXCEPT ![i] = payments[i] + req[q].amount]
      /\ paid' = [paid EXCEPT ![i] = balance]
      /\ invoice' = [invoice EXCEPT ![i] = IF balance >= Total THEN "PAID" ELSE "PARTIALLY_PAID"]
  BY PaymentEffect
<1>1. /\ paid \in [Invoices -> Nat] /\ payments \in [Invoices -> Nat] /\ Total \in Nat
      /\ invoice \in [Invoices -> {"NONE", "PENDING", "PARTIALLY_PAID", "PAID"}]
  BY ProcurementAssumption DEF TypeInv, TypeOK
<1>2. UNCHANGED <<received, receipts, order>> /\ req' = [req EXCEPT ![q] = Idle]
  BY EndTyped DEF RecordSupplierPayment, goods
<1>3. req[q].known <= payments[i] BY <1>0 DEF Books, Aimed
<1>4. payments'[i] = payments[i] + req[q].amount /\ paid'[i] = balance
  BY <1>0, <1>1
<1>5. payments'[i] >= balance BY <1>0, <1>1, <1>3, <1>4
<1>6. \A j \in Invoices : payments'[j] >= payments[j] /\ payments'[j] \in Nat
  BY <1>0, <1>1, <1>4
<1>7. PaidIsCovered'
  <2> SUFFICES ASSUME NEW j \in Invoices
               PROVE  /\ paid'[j] <= payments'[j]
                      /\ invoice'[j] = "PAID" => payments'[j] >= Total
    BY DEF PaidIsCovered
  <2>1. CASE j = i
    <3>1. invoice'[i] = "PAID" => balance >= Total BY <1>0, <1>1
    <3>2. payments'[i] \in Nat /\ Total \in Nat BY <1>0, <1>1, <1>6
    <3> HIDE DEF i, balance
    <3> QED BY <1>0, <1>4, <1>5, <2>1, <3>1, <3>2
  <2>2. CASE j # i
    BY <1>0, <1>1, <2>2 DEF Books, PaidIsCovered
  <2> QED BY <2>1, <2>2
<1>8. \A r \in Requests : Aimed(req[r])'
  <2> SUFFICES ASSUME NEW r \in Requests, r # q PROVE Aimed(req[r])'
    <3>1. Aimed(req[q])' BY <1>2 DEF Aimed, Idle, TypeInv
    <3> QED BY <3>1
  <2>0. req'[r] = req[r] BY <1>2
  <2>1. ASSUME req[r].op = "pay" PROVE req[r].known <= payments'[req[r].on]
    <3>1. req[r].on \in Invoices /\ req[r].known \in Nat
      BY <2>1 DEF TypeInv, Chosen, RequestRecords
    <3>2. req[r].known <= payments[req[r].on] BY <2>1 DEF Books, Aimed
    <3>3. payments[req[r].on] \in Nat BY <1>1, <3>1
    <3> QED BY <1>6, <3>1, <3>2, <3>3
  <2>2. Aimed(req[r]) BY DEF Books
  <2> QED BY <1>2, <2>0, <2>1, <2>2 DEF Aimed
<1>9. (ReceiptsAddUp /\ FullMeansAll)'
  BY <1>2 DEF Books, ReceiptsAddUp, FullMeansAll, Everything
<1> QED BY <1>7, <1>8, <1>9 DEF Books, Aimed

LEMMA BooksStep ==
  ASSUME TypeInv, Books, [Next]_vars
  PROVE  Books'
<1>1. CASE UNCHANGED vars
  BY <1>1, QuietKeepsBooks DEF vars, goods, bills, sent, QuietForBooks
<1>2. CASE Create
  <2>1. QuietForBooks
    BY <1>2 DEF Create, CreateRequisition, CreatePurchaseOrder, CreateSupplierInvoice,
                CreateSupplierReturn, goods, bills, sent, TypeInv, TypeOK, QuietForBooks
  <2> QED BY <2>1, QuietKeepsBooks
<1>3. ASSUME NEW q \in Requests, Ask(q) PROVE Books'
  <2>0. Begun(q) BY <1>3, AskEffect
  <2>1. PICK x \in RequestRecords : req' = [req EXCEPT ![q] = x] /\ Aimed(x)
    BY <2>0 DEF Begun, Started
  <2>2. \A p \in Requests : Aimed(req[p]) => Aimed(req'[p]) BY <2>1 DEF TypeInv
  <2> QED BY <2>0, <2>2, QuietKeepsBooks DEF Begun, tables, goods, bills, QuietForBooks
<1>4. ASSUME NEW q \in Requests,
             (\E l \in Lines : CheckLine(q, l)) \/ AddLine(q) \/ EvaluateOrder(q)
      PROVE  Books'
  <2>0. Worked(q) BY <1>4, WorkEffect
  <2>1. PICK x \in RequestRecords : req' = [req EXCEPT ![q] = x] /\ Aimed(x)
    BY <2>0 DEF Worked
  <2>2. \A p \in Requests : Aimed(req[p]) => Aimed(req'[p]) BY <2>1 DEF TypeInv
  <2> QED BY <2>0, <2>2, QuietKeepsBooks DEF Worked, tables, goods, bills, QuietForBooks
<1>5. ASSUME NEW q \in Requests,
             \/ Fail(q) \/ WriteRequisition(q) \/ \E o \in Orders : ConvertRequisition(q, o)
             \/ WriteOrder(q) \/ ApproveSupplierReturn(q)
      PROVE  Books'
  <2>1. End(q) BY <1>5 DEF Fail, WriteRequisition, ConvertRequisition, WriteOrder, ApproveSupplierReturn
  <2>2. \A p \in Requests : Aimed(req[p]) => Aimed(req'[p]) BY <2>1, EndAims
  <2>3. /\ UNCHANGED <<received, receipts, paid, payments, invoice>>
        /\ \A o \in Orders : order'[o] = "FULLY_RECEIVED" => order[o] = "FULLY_RECEIVED"
    BY <1>5 DEF Fail, WriteRequisition, ConvertRequisition, WriteOrder, ApproveSupplierReturn,
                goods, bills, TypeInv, TypeOK
  <2> QED BY <2>2, <2>3, QuietKeepsBooks DEF QuietForBooks
<1>6. ASSUME NEW q \in Requests, CommitReceipt(q) PROVE Books' BY <1>6, ReceiptBooks
<1>7. ASSUME NEW q \in Requests, RecordSupplierPayment(q) PROVE Books' BY <1>7, PaymentBooks
<1> QED BY <1>1, <1>2, <1>3, <1>4, <1>5, <1>6, <1>7 DEF Next, Proceed

\* Types, and what holds whatever requests overlap.
BooksInv == TypeInv /\ Books

LEMMA BooksInit ==
  ASSUME Init
  PROVE  BooksInv
<1>1. None \in [Lines -> Nat] BY DEF None
<1>2. \A q \in Requests : req[q] = Idle BY DEF Init
<1>3. TypeOK BY <1>1 DEF Init, TypeOK, REQUISITION_STATUSES, ORDER_STATUSES
<1>4. TypeInv BY <1>2, <1>3, IdleTyped DEF Init, TypeInv
<1>5. \A q \in Requests : Aimed(req[q]) BY <1>2 DEF Aimed, Idle
<1>6. ReceiptsAddUp /\ FullMeansAll /\ PaidIsCovered
  BY DEF Init, ReceiptsAddUp, FullMeansAll, PaidIsCovered
<1> QED BY <1>4, <1>5, <1>6 DEF BooksInv, Books

THEOREM BooksInvariance == Spec => []BooksInv
<1>1. Init => BooksInv BY BooksInit
<1>2. BooksInv /\ [Next]_vars => BooksInv' BY TypeStep, BooksStep DEF BooksInv
<1> QED BY <1>1, <1>2, PTL DEF Spec

\* Every table and column keeps its type.
THEOREM TypeCorrect == Spec => []TypeOK
<1>1. BooksInv => TypeOK BY DEF BooksInv, TypeInv
<1> QED BY <1>1, BooksInvariance, PTL

\* The stored quantity received on a line is the sum of its receipts, whatever
\* overlaps: it is added to where it is stored.
THEOREM LinesAddUp == Spec => []ReceiptsAddUp
<1>1. BooksInv => ReceiptsAddUp BY DEF BooksInv, Books
<1> QED BY <1>1, BooksInvariance, PTL

\* An order is FULLY_RECEIVED only when every line is, whatever overlaps.
THEOREM FullOrdersAreComplete == Spec => []FullMeansAll
<1>1. BooksInv => FullMeansAll BY DEF BooksInv, Books
<1> QED BY <1>1, BooksInvariance, PTL

\* The balance of an invoice never exceeds what was paid on it, whatever overlaps.
THEOREM PaidInvoicesAreCovered == Spec => []PaidIsCovered
<1>1. BooksInv => PaidIsCovered BY DEF BooksInv, Books
<1> QED BY <1>1, BooksInvariance, PTL

-----------------------------------------------------------------------------
(* Rows no two requests overlapped on.                                     *)

\* Rows other than y are as they were, or new.
OnlyRow(y) ==
  /\ \A r \in Requisitions \ {y} : requisition'[r] = requisition[r] \/ requisition[r] = "NONE"
  /\ \A o \in Orders \ {y} : /\ order'[o] = order[o] \/ order[o] = "NONE"
                             /\ received'[o] = received[o]
  /\ \A i \in Invoices \ {y} : paid'[i] = paid[i]
  /\ \A t \in Returns \ {y} : return'[t] = return[t] \/ return[t] = "NONE"

LEMMA CurrentElsewhere ==
  ASSUME NEW y, NEW x \in RequestRecords, x.on # y, Chosen(x), Current(x), OnlyRow(y)
  PROVE  Current(x)'
<1>1. x.op \in RequisitionOps => Can(x.op, requisition'[x.on])
  BY DEF Chosen, Current, OnlyRow, Can
<1>2. x.op \in OrderOps => May(x.op, order'[x.on])
  BY DEF Chosen, Current, OnlyRow, May, OrderOps
<1>3. x.op = "receive" => order'[x.on] = order[x.on] /\ received'[x.on] = received[x.on]
  BY DEF Chosen, Current, OnlyRow
<1>4. x.op = "pay" => paid'[x.on] = paid[x.on] BY DEF Chosen, OnlyRow
<1>5. x.op = "return" => return'[x.on] = return[x.on] BY DEF Chosen, Current, OnlyRow
<1> QED BY <1>1, <1>2, <1>3, <1>4, <1>5 DEF Current

RequestsAgree ==
  /\ Overlaps
  /\ \A q \in Requests : Busy(q) /\ req[q].on \notin contended => Current(req[q])

LEMMA EndAgrees ==
  ASSUME TypeInv, Agreed, NEW q \in Requests, Busy(q), End(q), OnlyRow(req[q].on)
  PROVE  RequestsAgree'
<1>1. /\ req' = [req EXCEPT ![q] = Idle] /\ UNCHANGED contended /\ Idle.op = "none"
  BY EndTyped, IdleTyped
<1>2. \A p \in Requests : req'[p].op # "none" => p # q /\ req'[p] = req[p] /\ Busy(p)
  BY <1>1 DEF TypeInv, Busy
<1>3. Overlaps' BY <1>1, <1>2 DEF Agreed, Overlaps, Busy
<1>4. ASSUME NEW p \in Requests, Busy(p)', (req[p].on \notin contended)'
      PROVE  Current(req[p])'
  <2>1. p # q /\ req'[p] = req[p] /\ Busy(p) /\ req[p].on \notin contended
    BY <1>1, <1>2, <1>4 DEF Busy
  <2>2. req[p].on # req[q].on BY <2>1 DEF Agreed, Overlaps
  <2>3. PICK x : x = req[p] OBVIOUS
  <2>4. PICK y : y = req[q].on OBVIOUS
  <2>5. x \in RequestRecords /\ Chosen(x) /\ Current(x) /\ x.on # y /\ OnlyRow(y)
    BY <2>1, <2>2, <2>3, <2>4 DEF TypeInv, Agreed
  <2>6. Current(x)' BY <2>5, CurrentElsewhere
  <2>7. x = req'[p] BY <2>1, <2>3
  <2> QED BY <2>6, <2>7 DEF Current
<1> QED BY <1>3, <1>4 DEF RequestsAgree

LEMMA RequestsStep ==
  ASSUME TypeInv, Books, Agreed, [Next]_vars
  PROVE  RequestsAgree'
<1>0. RequestsAgree BY DEF Agreed, RequestsAgree
<1>1. CASE UNCHANGED vars
  BY <1>0, <1>1 DEF vars, goods, bills, sent, RequestsAgree, Overlaps, Busy, Current
<1>2. CASE Create
  <2>1. UNCHANGED <<req, contended>>
    BY <1>2 DEF Create, CreateRequisition, CreatePurchaseOrder, CreateSupplierInvoice,
                CreateSupplierReturn
  <2>2. \A y : OnlyRow(y)
    BY <1>2 DEF Create, CreateRequisition, CreatePurchaseOrder, CreateSupplierInvoice,
                CreateSupplierReturn, goods, bills, sent, TypeInv, TypeOK, OnlyRow
  <2>3. ASSUME NEW p \in Requests, Busy(p), req[p].on \notin contended PROVE Current(req[p])'
    <3>1. PICK x : x = req[p] OBVIOUS
    <3>2. PICK y \in {0, 1} : y # x.on OBVIOUS
    <3>3. x \in RequestRecords /\ Chosen(x) /\ Current(x) /\ OnlyRow(y)
      BY <1>0, <2>2, <2>3, <3>1 DEF TypeInv, RequestsAgree
    <3>4. Current(x)' BY <3>2, <3>3, CurrentElsewhere
    <3>5. x = req'[p] BY <2>1, <3>1
    <3> QED BY <3>4, <3>5 DEF Current
  <2> QED BY <1>0, <2>1, <2>3 DEF RequestsAgree, Overlaps, Busy
<1>3. ASSUME NEW q \in Requests, Ask(q) PROVE RequestsAgree'
  <2>0. Begun(q) BY <1>3, AskEffect
  <2>1. PICK x \in RequestRecords :
          /\ req' = [req EXCEPT ![q] = x] /\ Started(x)
          /\ \A p \in Requests : Busy(p) /\ req[p].on = x.on => x.on \in contended'
    BY <2>0 DEF Begun
  <2>2. /\ contended \subseteq contended' /\ req'[q] = x
        /\ \A p \in Requests \ {q} : req'[p] = req[p]
    BY <2>0, <2>1 DEF Begun, TypeInv
  <2>3. Overlaps' BY <1>0, <2>1, <2>2 DEF RequestsAgree, Overlaps, Busy
  <2>4. ASSUME NEW p \in Requests, Busy(p)', (req[p].on \notin contended)'
        PROVE  Current(req[p])'
    <3>1. UNCHANGED tables BY <2>0 DEF Begun
    <3>2. Current(req'[p])
      BY <1>0, <2>1, <2>2, <2>4 DEF Started, RequestsAgree, Busy
    <3> QED BY <3>1, <3>2 DEF Current, tables, goods, bills, sent
  <2> QED BY <2>3, <2>4 DEF RequestsAgree
<1>4. ASSUME NEW q \in Requests,
             (\E l \in Lines : CheckLine(q, l)) \/ AddLine(q) \/ EvaluateOrder(q)
      PROVE  RequestsAgree'
  <2>0. Worked(q) BY <1>4, WorkEffect
  <2>1. PICK x \in RequestRecords :
          /\ req' = [req EXCEPT ![q] = x] /\ x.op = "receive" /\ x.on = req[q].on
          /\ Current(req[q]) => Current(x)
    BY <2>0 DEF Worked
  <2>2. /\ UNCHANGED contended /\ req'[q] = x /\ Busy(q)
        /\ \A p \in Requests \ {q} : req'[p] = req[p]
    BY <2>0, <2>1 DEF Worked, TypeInv, Busy, At
  <2>3. Overlaps' BY <1>0, <2>1, <2>2 DEF RequestsAgree, Overlaps, Busy
  <2>4. ASSUME NEW p \in Requests, Busy(p)', (req[p].on \notin contended)'
        PROVE  Current(req[p])'
    <3>1. UNCHANGED tables BY <2>0 DEF Worked
    <3>2. Current(req'[p])
      BY <1>0, <2>1, <2>2, <2>4 DEF RequestsAgree, Busy
    <3> QED BY <3>1, <3>2 DEF Current, tables, goods, bills, sent
  <2> QED BY <2>3, <2>4 DEF RequestsAgree
<1>5. ASSUME NEW q \in Requests, Fail(q) PROVE RequestsAgree'
  <2>1. End(q) /\ UNCHANGED tables BY <1>5 DEF Fail, tables, goods, bills, sent
  <2>2. req' = [req EXCEPT ![q] = Idle] /\ UNCHANGED contended /\ Idle.op = "none"
    BY <2>1, EndTyped, IdleTyped
  <2>3. \A p \in Requests : req'[p].op # "none" => req'[p] = req[p]
    BY <2>2 DEF TypeInv
  <2> QED BY <1>0, <2>1, <2>2, <2>3 DEF RequestsAgree, Overlaps, Busy, Current, tables, goods, bills, sent
<1>6. ASSUME NEW q \in Requests, NEW y, y = req[q].on,
             \/ WriteRequisition(q) \/ \E o \in Orders : ConvertRequisition(q, o)
             \/ WriteOrder(q) \/ ApproveSupplierReturn(q)
      PROVE  RequestsAgree'
  <2>1. End(q) /\ Busy(q)
    BY <1>6 DEF WriteRequisition, ConvertRequisition, WriteOrder, ApproveSupplierReturn, At, Busy
  <2>2. OnlyRow(y)
    BY <1>6 DEF WriteRequisition, ConvertRequisition, WriteOrder, ApproveSupplierReturn, goods, bills,
                sent, TypeInv, TypeOK, OnlyRow
  <2> QED BY <1>6, <2>1, <2>2, EndAgrees
<1>7. ASSUME NEW q \in Requests, CommitReceipt(q) PROVE RequestsAgree'
  <2>1. End(q) /\ Busy(q) BY <1>7 DEF CommitReceipt, At, Busy
  <2>2. UNCHANGED <<requisition, paid, return>> BY <1>7 DEF CommitReceipt, bills, sent
  <2>3. \A o \in Orders \ {req[q].on} : order'[o] = order[o] /\ received'[o] = received[o]
    BY <1>7, ReceiptEffect DEF TypeInv, TypeOK
  <2>4. OnlyRow(req[q].on) BY <2>2, <2>3 DEF OnlyRow
  <2> QED BY <2>1, <2>4, EndAgrees
<1>8. ASSUME NEW q \in Requests, RecordSupplierPayment(q) PROVE RequestsAgree'
  <2>1. End(q) /\ Busy(q) BY <1>8 DEF RecordSupplierPayment, At, Busy
  <2>2. UNCHANGED <<requisition, order, received, return>>
    BY <1>8 DEF RecordSupplierPayment, goods, sent
  <2>3. \A i \in Invoices \ {req[q].on} : paid'[i] = paid[i]
    BY <1>8, PaymentEffect DEF TypeInv, TypeOK
  <2>4. OnlyRow(req[q].on) BY <2>2, <2>3 DEF OnlyRow
  <2> QED BY <2>1, <2>4, EndAgrees
<1> QED BY <1>1, <1>2, <1>3, <1>4, <1>5, <1>6, <1>7, <1>8 DEF Next, Proceed

\* What holds of an order no two requests overlapped on.
OrderAgrees(o) ==
  /\ order[o] \notin {"PARTIALLY_RECEIVED", "FULLY_RECEIVED"} => received[o] = None
  /\ o \in over \/ \A l \in Lines : received[o][l] <= Ordered[l]
  /\ Everything(o) => order[o] = "FULLY_RECEIVED"

LEMMA OrdersAgree ==
  EarlyGotNothing /\ WithinOrder /\ AllMeansFull <=> \A o \in Orders \ contended : OrderAgrees(o)
BY DEF EarlyGotNothing, WithinOrder, AllMeansFull, OrderAgrees

LEMMA NothingIsNotAll ==
  ASSUME NEW o \in Orders, received[o] = None
  PROVE  ~Everything(o) /\ \A l \in Lines : received[o][l] <= Ordered[l]
BY ProcurementAssumption DEF None, Everything

\* A receipt that commits on an order nobody else worked on.
LEMMA ReceiptAgrees ==
  ASSUME TypeInv, Agreed, NEW q \in Requests, CommitReceipt(q),
         NEW o \in Orders \ contended, o = req[q].on
  PROVE  OrderAgrees(o)'
<1> DEFINE units == req[q].units
           aim == req[q].aim
<1>0. /\ At(q, "receive", "commit") /\ o \in Orders /\ units \in [Lines -> Nat] /\ Progress(req[q])
      /\ \A l \in Lines : received'[o][l] = received[o][l] + units[l]
      /\ order' = [order EXCEPT ![o] = aim] /\ aim \in {"PARTIALLY_RECEIVED", "FULLY_RECEIVED"}
      /\ over' = (IF req[q].any THEN over \cup {o} ELSE over)
      /\ req[q] \in RequestRecords
  BY ReceiptEffect
<1>1. Current(req[q]) BY <1>0 DEF Agreed, Busy, At
<1>2. received \in [Orders -> [Lines -> Nat]] /\ order \in [Orders -> ORDER_STATUSES]
  BY DEF TypeInv, TypeOK
<1>3. \A l \in Lines : received[o][l] \in Nat /\ units[l] \in Nat /\ Ordered[l] \in Nat
  BY <1>0, <1>2, ProcurementAssumption
<1>4. order'[o] = aim BY <1>0, <1>2
<1>5. ASSUME o \notin over', NEW l \in Lines PROVE received'[o][l] <= Ordered[l]
  <2>1. ~req[q].any /\ o \notin over BY <1>0, <1>5
  <2>2. received[o][l] <= Ordered[l] BY <1>0, <2>1, OrdersAgree DEF Agreed, OrderAgrees
  <2>3. l \in req[q].added \/ units[l] = 0 BY <1>0, <1>3 DEF Progress, At
  <2>4. l \in req[q].added => received[o][l] + units[l] <= Ordered[l]
    BY <1>0, <1>1, <2>1 DEF Current, At
  <2> HIDE DEF units
  <2> QED BY <1>0, <1>3, <2>2, <2>3, <2>4
<1>6. ASSUME \A l \in Lines : received'[o][l] >= Ordered[l] PROVE aim = "FULLY_RECEIVED"
  <2> SUFFICES ASSUME aim = "PARTIALLY_RECEIVED" PROVE FALSE BY <1>0
  <2>1. PICK l \in Lines : received[o][l] + units[l] < Ordered[l]
    BY <1>0, <1>1 DEF Current, At
  <2> HIDE DEF units
  <2> QED BY <1>0, <1>3, <1>6, <2>1
<1> HIDE DEF aim
<1> QED BY <1>0, <1>4, <1>5, <1>6 DEF OrderAgrees, Everything

LEMMA OrdersStep ==
  ASSUME TypeInv, Books, Agreed, [Next]_vars
  PROVE  (EarlyGotNothing /\ WithinOrder /\ AllMeansFull)'
<1> SUFFICES \A o \in Orders \ contended' : OrderAgrees(o)'
  <2>1. (\A o \in Orders \ contended : OrderAgrees(o))'
        => (EarlyGotNothing /\ WithinOrder /\ AllMeansFull)'
    BY DEF EarlyGotNothing, WithinOrder, AllMeansFull, OrderAgrees, Everything
  <2> QED BY <2>1 DEF OrderAgrees
<1> TAKE o \in Orders \ contended'
<1>0. UNCHANGED vars \/ Create \/ \E q \in Requests : Ask(q) \/ Proceed(q) BY DEF Next
<1>1. contended \subseteq contended'
  <2>1. CASE UNCHANGED vars BY <2>1 DEF vars
  <2>2. CASE Create
    BY <2>2 DEF Create, CreateRequisition, CreatePurchaseOrder, CreateSupplierInvoice, CreateSupplierReturn
  <2>3. ASSUME NEW q \in Requests, Ask(q) PROVE contended \subseteq contended'
    BY SMTT(40), <2>3, AskEffect DEF Begun
  <2>4. ASSUME NEW q \in Requests, Proceed(q) PROVE contended \subseteq contended'
    BY <2>4 DEF Proceed, Fail, WriteRequisition, ConvertRequisition, WriteOrder, CheckLine, AddLine,
                EvaluateOrder, CommitReceipt, RecordSupplierPayment, ApproveSupplierReturn, End, Become
  <2> QED BY <1>0, <2>1, <2>2, <2>3, <2>4
<1>2. OrderAgrees(o) BY <1>1, OrdersAgree DEF Agreed
<1>3. ASSUME UNCHANGED <<received, over>>, order'[o] = order[o] PROVE OrderAgrees(o)'
  BY <1>2, <1>3 DEF OrderAgrees, Everything
<1>4. ASSUME UNCHANGED <<received, over>>,
             order[o] \notin {"PARTIALLY_RECEIVED", "FULLY_RECEIVED"}
      PROVE  OrderAgrees(o)'
  <2>1. received[o] = None BY <1>2, <1>4 DEF OrderAgrees
  <2>2. ~Everything(o) /\ \A l \in Lines : received[o][l] <= Ordered[l] BY <2>1, NothingIsNotAll
  <2> QED BY <1>4, <2>1, <2>2 DEF OrderAgrees, Everything
<1>5. CASE UNCHANGED vars BY <1>3, <1>5 DEF vars, goods
<1>6. CASE Create
  <2>1. UNCHANGED <<received, over>>
    BY <1>6 DEF Create, CreateRequisition, CreatePurchaseOrder, CreateSupplierInvoice,
                CreateSupplierReturn, goods
  <2>2. order'[o] = order[o] \/ order[o] = "NONE"
    BY <1>6 DEF Create, CreateRequisition, CreatePurchaseOrder, CreateSupplierInvoice,
                CreateSupplierReturn, TypeInv, TypeOK
  <2> QED BY <1>3, <1>4, <2>1, <2>2
<1>7. ASSUME NEW q \in Requests, Ask(q) PROVE OrderAgrees(o)'
  BY <1>3, <1>7, AskEffect DEF Begun, tables, goods
<1>8. ASSUME NEW q \in Requests, Proceed(q) PROVE OrderAgrees(o)'
  <2>1. CASE \/ Fail(q) \/ WriteRequisition(q) \/ AddLine(q) \/ EvaluateOrder(q)
             \/ \E l \in Lines : CheckLine(q, l)
             \/ RecordSupplierPayment(q) \/ ApproveSupplierReturn(q)
    BY <1>3, <2>1 DEF Fail, WriteRequisition, CheckLine, AddLine, EvaluateOrder,
                      RecordSupplierPayment, ApproveSupplierReturn, goods
  <2>2. ASSUME NEW p \in Orders, ConvertRequisition(q, p) PROVE OrderAgrees(o)'
    <3>1. UNCHANGED <<received, over>> BY <2>2 DEF ConvertRequisition, goods
    <3>2. order'[o] = order[o] \/ order[o] = "NONE"
      BY <2>2 DEF ConvertRequisition, TypeInv, TypeOK
    <3> QED BY <1>3, <1>4, <3>1, <3>2
  <2>3. CASE WriteOrder(q)
    <3>1. UNCHANGED <<received, over>> BY <2>3 DEF WriteOrder, goods
    <3>2. req[q].op \in OrderOps /\ Busy(q) BY <2>3 DEF WriteOrder, At, OrderOps, Busy
    <3>3. CASE req[q].on = o
      <4>1. May(req[q].op, order[o]) BY <1>1, <3>2, <3>3 DEF Agreed, Current
      <4>2. order[o] \notin {"PARTIALLY_RECEIVED", "FULLY_RECEIVED"}
        BY <4>1 DEF May
      <4> QED BY <1>4, <3>1, <4>2
    <3>4. CASE req[q].on # o
      <4>1. order'[o] = order[o] BY <2>3, <3>4 DEF WriteOrder, TypeInv, TypeOK
      <4> QED BY <1>3, <3>1, <4>1
    <3> QED BY <3>3, <3>4
  <2>4. CASE CommitReceipt(q)
    <3>1. CASE req[q].on = o BY <1>1, <2>4, <3>1, ReceiptAgrees
    <3>2. CASE req[q].on # o
      <4>1. /\ received'[o] = received[o] /\ order'[o] = order[o] /\ over \subseteq over'
        BY <2>4, <3>2, ReceiptEffect DEF TypeInv, TypeOK
      <4> QED BY <1>2, <4>1 DEF OrderAgrees, Everything
    <3> QED BY <3>1, <3>2
  <2> QED BY <1>8, <2>1, <2>2, <2>3, <2>4 DEF Proceed
<1> QED BY <1>0, <1>5, <1>6, <1>7, <1>8

LEMMA ContendedGrows ==
  ASSUME TypeInv, Books, [Next]_vars
  PROVE  contended \subseteq contended'
<1>1. CASE UNCHANGED vars BY <1>1 DEF vars
<1>2. CASE Create
  BY <1>2 DEF Create, CreateRequisition, CreatePurchaseOrder, CreateSupplierInvoice, CreateSupplierReturn
<1>3. ASSUME NEW q \in Requests, Ask(q) PROVE contended \subseteq contended'
  BY <1>3, AskEffect DEF Begun
<1>4. ASSUME NEW q \in Requests, Proceed(q) PROVE contended \subseteq contended'
  BY <1>4 DEF Proceed, Fail, WriteRequisition, ConvertRequisition, WriteOrder, CheckLine, AddLine,
              EvaluateOrder, CommitReceipt, RecordSupplierPayment, ApproveSupplierReturn, End, Become
<1> QED BY <1>1, <1>2, <1>3, <1>4 DEF Next

LEMMA BalanceStep ==
  ASSUME TypeInv, Books, Agreed, [Next]_vars
  PROVE  BalanceAgrees'
<1>1. contended \subseteq contended' BY ContendedGrows
<1>2. CASE UNCHANGED <<paid, payments>> BY <1>1, <1>2 DEF Agreed, BalanceAgrees
<1>3. ASSUME NEW q \in Requests, RecordSupplierPayment(q) PROVE BalanceAgrees'
  <2> SUFFICES ASSUME NEW i \in Invoices, i \notin contended'
               PROVE  paid'[i] = payments'[i] /\ payments'[i] <= Total
    BY DEF BalanceAgrees
  <2>1. paid[i] = payments[i] /\ payments[i] <= Total BY <1>1 DEF Agreed, BalanceAgrees
  <2>2. /\ paid \in [Invoices -> Nat] /\ payments \in [Invoices -> Nat] /\ Total \in Nat
    BY ProcurementAssumption DEF TypeInv, TypeOK
  <2>3. /\ req[q].op = "pay" /\ Busy(q) /\ req[q].known \in Nat /\ req[q].amount \in Nat
        /\ payments' = [payments EXCEPT ![req[q].on] = payments[req[q].on] + req[q].amount]
        /\ paid' = [paid EXCEPT ![req[q].on] = req[q].known + req[q].amount]
    BY <1>3, PaymentEffect DEF Busy
  <2>4. CASE req[q].on = i
    <3>1. req[q].known = paid[i] /\ req[q].known + req[q].amount <= Total
      BY <1>1, <2>3, <2>4 DEF Agreed, Current
    <3>2. payments'[i] = payments[i] + req[q].amount /\ paid'[i] = req[q].known + req[q].amount
      BY <2>2, <2>3, <2>4
    <3> QED BY <2>1, <3>1, <3>2
  <2>5. CASE req[q].on # i BY <2>1, <2>2, <2>3, <2>5
  <2> QED BY <2>4, <2>5
<1>4. UNCHANGED <<paid, payments>> \/ \E q \in Requests : RecordSupplierPayment(q)
  <2>1. CASE UNCHANGED vars BY <2>1 DEF vars, bills
  <2>2. CASE Create
    BY <2>2 DEF Create, CreateRequisition, CreatePurchaseOrder, CreateSupplierInvoice,
                CreateSupplierReturn, bills
  <2>3. ASSUME NEW q \in Requests, Ask(q) PROVE UNCHANGED <<paid, payments>>
    BY <2>3, AskEffect DEF Begun, tables, bills
  <2>4. ASSUME NEW q \in Requests, Proceed(q), ~RecordSupplierPayment(q)
        PROVE  UNCHANGED <<paid, payments>>
    BY <2>4 DEF Proceed, Fail, WriteRequisition, ConvertRequisition, WriteOrder, CheckLine, AddLine,
                EvaluateOrder, CommitReceipt, ApproveSupplierReturn, bills
  <2> QED BY <2>1, <2>2, <2>3, <2>4 DEF Next
<1> QED BY <1>2, <1>3, <1>4

LEMMA ReturnStep ==
  ASSUME TypeInv, Books, Agreed, [Next]_vars
  PROVE  DraftTookNothing'
<1>1. contended \subseteq contended' BY ContendedGrows
<1>2. CASE UNCHANGED sent BY <1>1, <1>2 DEF Agreed, DraftTookNothing, sent
<1>3. ASSUME NEW t \in Returns, CreateSupplierReturn(t) PROVE DraftTookNothing'
  BY <1>1, <1>3 DEF CreateSupplierReturn, Agreed, DraftTookNothing, TypeInv, TypeOK
<1>4. ASSUME NEW q \in Requests, ApproveSupplierReturn(q) PROVE DraftTookNothing'
  <2> SUFFICES ASSUME NEW t \in Returns, t \notin contended'
               PROVE  deducted'[t] <= 1 /\ (return'[t] # "APPROVED" => deducted'[t] = 0)
    BY DEF DraftTookNothing
  <2>1. deducted[t] <= 1 /\ (return[t] # "APPROVED" => deducted[t] = 0)
    BY <1>1 DEF Agreed, DraftTookNothing
  <2>2. /\ req[q].op = "return" /\ Busy(q)
        /\ deducted' = [deducted EXCEPT ![req[q].on] = deducted[req[q].on] + 1]
        /\ return' = [return EXCEPT ![req[q].on] = "APPROVED"]
    BY <1>4 DEF ApproveSupplierReturn, At, Busy
  <2>3. deducted \in [Returns -> Nat] /\ DOMAIN return = Returns BY DEF TypeInv, TypeOK
  <2>4. CASE req[q].on = t
    <3>1. return[t] = "DRAFT" BY <1>1, <2>2, <2>4 DEF Agreed, Current
    <3>2. deducted[t] = 0 BY <2>1, <3>1
    <3>3. deducted'[t] = 1 /\ return'[t] = "APPROVED" BY <2>2, <2>3, <2>4, <3>2
    <3> QED BY <3>3
  <2>5. CASE req[q].on # t BY <2>1, <2>2, <2>3, <2>5
  <2> QED BY <2>4, <2>5
<1>5. \/ UNCHANGED sent \/ \E t \in Returns : CreateSupplierReturn(t)
      \/ \E q \in Requests : ApproveSupplierReturn(q)
  <2>1. CASE UNCHANGED vars BY <2>1 DEF vars
  <2>2. CASE Create
    BY <2>2 DEF Create, CreateRequisition, CreatePurchaseOrder, CreateSupplierInvoice, sent
  <2>3. ASSUME NEW q \in Requests, Ask(q) PROVE UNCHANGED sent
    BY SMTT(40), <2>3, AskEffect DEF Begun, tables
  <2>4. ASSUME NEW q \in Requests, Proceed(q), ~ApproveSupplierReturn(q) PROVE UNCHANGED sent
    BY <2>4 DEF Proceed, Fail, WriteRequisition, ConvertRequisition, WriteOrder, CheckLine, AddLine,
                EvaluateOrder, CommitReceipt, RecordSupplierPayment
  <2> QED BY <2>1, <2>2, <2>3, <2>4 DEF Next
<1> QED BY <1>2, <1>3, <1>4, <1>5

LEMMA ConversionStep ==
  ASSUME TypeInv, Books, Agreed, [Next]_vars
  PROVE  ConvertedOnce'
<1>1. contended \subseteq contended' BY ContendedGrows
<1>2. CASE UNCHANGED <<requisition, source>> BY <1>1, <1>2 DEF Agreed, ConvertedOnce
<1>0. /\ requisition \in [Requisitions -> REQUISITION_STATUSES]
      /\ source \in [Orders -> Requisitions \cup {"none"}]
  BY DEF TypeInv, TypeOK
<1>3. ASSUME NEW r \in Requisitions, CreateRequisition(r) PROVE ConvertedOnce'
  <2>1. UNCHANGED source /\ requisition[r] = "NONE" /\ requisition' = [requisition EXCEPT ![r] = "DRAFT"]
    BY <1>3 DEF CreateRequisition
  <2> QED BY <1>0, <1>1, <2>1 DEF Agreed, ConvertedOnce
<1>4. ASSUME NEW q \in Requests, WriteRequisition(q) PROVE ConvertedOnce'
  <2>1. UNCHANGED source /\ Busy(q) /\ req[q].op \in {"submit", "approve", "reject"}
    BY <1>4 DEF WriteRequisition, At, Busy
  <2>2. \A r \in Requisitions \ {req[q].on} : requisition'[r] = requisition[r]
    BY <1>0, <1>4 DEF WriteRequisition
  <2>3. req[q].on \notin contended => requisition[req[q].on] # "CONVERTED_TO_PO"
    <3>1. req[q].on \notin contended => Can(req[q].op, requisition[req[q].on])
      BY <2>1 DEF Agreed, Current, RequisitionOps
    <3> QED BY <2>1, <3>1 DEF Can
  <2> QED BY <1>0, <1>1, <2>1, <2>2, <2>3 DEF Agreed, ConvertedOnce
<1>5. ASSUME NEW q \in Requests, NEW o \in Orders, ConvertRequisition(q, o) PROVE ConvertedOnce'
  <2>1. /\ Busy(q) /\ req[q].op = "convert" /\ req[q].on \in Requisitions
        /\ source' = [source EXCEPT ![o] = req[q].on]
        /\ requisition' = [requisition EXCEPT ![req[q].on] = "CONVERTED_TO_PO"]
    BY <1>5 DEF ConvertRequisition, At, Busy, TypeInv, Chosen, RequisitionOps
  <2>2. req[q].on \notin contended => requisition[req[q].on] # "CONVERTED_TO_PO"
    <3>1. req[q].on \notin contended => Can("convert", requisition[req[q].on])
      BY <2>1 DEF Agreed, Current, RequisitionOps
    <3> QED BY <3>1 DEF Can
  <2>3. req[q].on \notin contended /\ req[q].on # "none" => \A p \in Orders : source[p] # req[q].on
    BY <2>2 DEF Agreed, ConvertedOnce
  <2> SUFFICES ASSUME NEW p \in Orders, source'[p] # "none", source'[p] \notin contended'
               PROVE  /\ requisition'[source'[p]] = "CONVERTED_TO_PO"
                      /\ \A x \in Orders \ {p} : source'[x] # source'[p]
    BY DEF ConvertedOnce
  <2>4. CASE p = o BY <1>0, <1>1, <2>1, <2>3, <2>4
  <2>5. CASE p # o BY <1>0, <1>1, <2>1, <2>3, <2>5 DEF Agreed, ConvertedOnce
  <2> QED BY <2>4, <2>5
<1>6. \/ UNCHANGED <<requisition, source>> \/ \E r \in Requisitions : CreateRequisition(r)
      \/ \E q \in Requests : WriteRequisition(q) \/ \E o \in Orders : ConvertRequisition(q, o)
  <2>1. CASE UNCHANGED vars BY <2>1 DEF vars
  <2>2. CASE Create
    BY <2>2 DEF Create, CreatePurchaseOrder, CreateSupplierInvoice, CreateSupplierReturn
  <2>3. ASSUME NEW q \in Requests, Ask(q) PROVE UNCHANGED <<requisition, source>>
    BY SMTT(40), <2>3, AskEffect DEF Begun, tables
  <2>4. ASSUME NEW q \in Requests, Proceed(q), ~WriteRequisition(q),
               ~\E o \in Orders : ConvertRequisition(q, o)
        PROVE  UNCHANGED <<requisition, source>>
    BY <2>4 DEF Proceed, Fail, WriteOrder, CheckLine, AddLine, EvaluateOrder, CommitReceipt,
                RecordSupplierPayment, ApproveSupplierReturn
  <2> QED BY <2>1, <2>2, <2>3, <2>4 DEF Next
<1> QED BY <1>2, <1>3, <1>4, <1>5, <1>6

AgreedInv == BooksInv /\ Agreed

THEOREM AgreedInvariance == Spec => []AgreedInv
<1>1. Init => AgreedInv
  <2> SUFFICES ASSUME Init PROVE AgreedInv OBVIOUS
  <2>1. \A q \in Requests : ~Busy(q) BY IdleTyped DEF Init, Busy
  <2>2. \A o \in Orders : OrderAgrees(o)
    <3> TAKE o \in Orders
    <3>1. received[o] = None BY DEF Init
    <3> QED BY <3>1, NothingIsNotAll DEF OrderAgrees
  <2>3. BalanceAgrees BY ProcurementAssumption DEF Init, BalanceAgrees
  <2>4. ConvertedOnce BY DEF Init, ConvertedOnce
  <2>5. DraftTookNothing BY DEF Init, DraftTookNothing
  <2> QED BY <2>1, <2>2, <2>3, <2>4, <2>5, BooksInit, OrdersAgree DEF AgreedInv, Agreed, Overlaps
<1>2. AgreedInv /\ [Next]_vars => AgreedInv'
  BY TypeStep, BooksStep, RequestsStep, OrdersStep, BalanceStep, ReturnStep, ConversionStep
     DEF AgreedInv, BooksInv, Agreed, RequestsAgree
<1> QED BY <1>1, <1>2, PTL DEF Spec

\* No line receives more than was ordered, but where the request allows it or two
\* requests overlapped on the order.
THEOREM NothingBeyondOrder == Spec => []WithinOrder
<1>1. AgreedInv => WithinOrder BY DEF AgreedInv, Agreed
<1> QED BY <1>1, AgreedInvariance, PTL

\* An order that got everything is closed, where no two requests overlapped on it.
THEOREM CompleteOrdersClose == Spec => []AllMeansFull
<1>1. AgreedInv => AllMeansFull BY DEF AgreedInv, Agreed
<1> QED BY <1>1, AgreedInvariance, PTL

\* A cancelled order has received nothing, where no two requests overlapped on it.
THEOREM CancelledOrdersAreEmpty == Spec => []CancelledGotNothing
<1>1. AgreedInv => CancelledGotNothing
  BY DEF AgreedInv, Agreed, EarlyGotNothing, CancelledGotNothing
<1> QED BY <1>1, AgreedInvariance, PTL

\* The balance of an invoice is what was paid on it, where no two payments overlapped.
THEOREM BalancesAgree == Spec => []BalanceAgrees
<1>1. AgreedInv => BalanceAgrees BY DEF AgreedInv, Agreed
<1> QED BY <1>1, AgreedInvariance, PTL

\* A requisition becomes one order, where no two requests overlapped on it.
THEOREM RequisitionsConvertOnce == Spec => []ConvertedOnce
<1>1. AgreedInv => ConvertedOnce BY DEF AgreedInv, Agreed
<1> QED BY <1>1, AgreedInvariance, PTL

\* The goods of a return leave the inventory once, where no two approvals overlapped.
THEOREM ReturnsDeductOnce == Spec => []DeductedOnce
<1>1. AgreedInv => DeductedOnce BY DEF AgreedInv, Agreed, DraftTookNothing, DeductedOnce
<1> QED BY <1>1, AgreedInvariance, PTL

-----------------------------------------------------------------------------
(* Orders move forward.                                                    *)

LEMMA ForwardStep ==
  ASSUME AgreedInv, [Next]_vars
  PROVE  [\A o \in Orders : Stage(order'[o]) < Stage(order[o]) => o \in contended]_vars
<1> SUFFICES ASSUME Next, NEW o \in Orders \ contended
             PROVE  ~(Stage(order'[o]) < Stage(order[o]))
  BY DEF AgreedInv
<1>0. TypeInv /\ Books /\ Agreed BY DEF AgreedInv, BooksInv
<1>1. \A s \in ORDER_STATUSES : Stage(s) \in Nat BY DEF ORDER_STATUSES, Stage
<1>2. order \in [Orders -> ORDER_STATUSES] BY <1>0 DEF TypeInv, TypeOK
<1>3. CASE order'[o] = order[o] BY <1>1, <1>2, <1>3
<1>4. CASE order[o] = "NONE" /\ order'[o] = "DRAFT" BY <1>4 DEF Stage
<1>5. CASE Create
  <2>1. order'[o] = order[o] \/ (order[o] = "NONE" /\ order'[o] = "DRAFT")
    BY <1>2, <1>5 DEF Create, CreateRequisition, CreatePurchaseOrder, CreateSupplierInvoice,
                      CreateSupplierReturn
  <2> QED BY <1>3, <1>4, <2>1
<1>6. ASSUME NEW q \in Requests, Ask(q) PROVE order'[o] = order[o]
  BY <1>0, <1>6, AskEffect DEF Begun, tables
<1>7. ASSUME NEW q \in Requests, Proceed(q) PROVE ~(Stage(order'[o]) < Stage(order[o]))
  <2>1. CASE \/ Fail(q) \/ WriteRequisition(q) \/ AddLine(q) \/ EvaluateOrder(q)
             \/ \E l \in Lines : CheckLine(q, l)
             \/ RecordSupplierPayment(q) \/ ApproveSupplierReturn(q)
    BY <1>3, <2>1 DEF Fail, WriteRequisition, CheckLine, AddLine, EvaluateOrder,
                      RecordSupplierPayment, ApproveSupplierReturn
  <2>2. ASSUME NEW p \in Orders, ConvertRequisition(q, p)
        PROVE  order'[o] = order[o] \/ (order[o] = "NONE" /\ order'[o] = "DRAFT")
    BY <1>2, <2>2 DEF ConvertRequisition
  <2>3. CASE WriteOrder(q)
    <3>1. req[q].op \in OrderOps /\ Busy(q) BY <2>3 DEF WriteOrder, At, OrderOps, Busy
    <3>2. CASE req[q].on = o
      <4>1. May(req[q].op, order[o]) BY <1>0, <3>1, <3>2 DEF Agreed, Current
      <4>2. \/ req[q].op = "approvePO" /\ order'[o] = "APPROVED"
            \/ req[q].op = "send" /\ order'[o] = "SENT_TO_SUPPLIER"
            \/ req[q].op = "cancel" /\ order'[o] = "CANCELLED"
        BY <1>2, <2>3, <3>2 DEF WriteOrder, At
      <4>3. CASE req[q].op = "approvePO" /\ order'[o] = "APPROVED"
        <5>1. order[o] = "DRAFT" BY <4>1, <4>3 DEF May
        <5> QED BY <4>3, <5>1 DEF Stage
      <4>4. CASE req[q].op = "send" /\ order'[o] = "SENT_TO_SUPPLIER"
        <5>1. order[o] = "APPROVED" BY <4>1, <4>4 DEF May
        <5> QED BY <4>4, <5>1 DEF Stage
      <4>5. CASE order'[o] = "CANCELLED"
        <5>1. Stage(order[o]) <= 6 BY <1>2 DEF ORDER_STATUSES, Stage
        <5>2. Stage(order'[o]) = 6 BY <4>5 DEF Stage
        <5>3. Stage(order[o]) \in Nat BY <1>1, <1>2
        <5> QED BY <5>1, <5>2, <5>3
      <4> QED BY <4>2, <4>3, <4>4, <4>5
    <3>3. CASE req[q].on # o
      BY <1>2, <1>3, <2>3, <3>3 DEF WriteOrder
    <3> QED BY <3>2, <3>3
  <2>4. CASE CommitReceipt(q)
    <3>1. /\ req[q].op = "receive" /\ Busy(q)
          /\ req[q].aim \in {"PARTIALLY_RECEIVED", "FULLY_RECEIVED"}
          /\ order' = [order EXCEPT ![req[q].on] = req[q].aim]
      BY <1>0, <2>4, ReceiptEffect DEF At, Busy
    <3>2. CASE req[q].on = o
      <4>1. order[o] \in {"APPROVED", "SENT_TO_SUPPLIER", "PARTIALLY_RECEIVED"}
        BY <1>0, <3>1, <3>2 DEF Agreed, Current
      <4>2. order'[o] \in {"PARTIALLY_RECEIVED", "FULLY_RECEIVED"} BY <1>2, <3>1, <3>2
      <4> QED BY <4>1, <4>2 DEF Stage
    <3>3. CASE req[q].on # o BY <1>2, <1>3, <3>1, <3>3
    <3> QED BY <3>2, <3>3
  <2> QED BY <1>3, <1>4, <1>7, <2>1, <2>2, <2>3, <2>4 DEF Proceed
<1> QED BY <1>3, <1>5, <1>6, <1>7 DEF Next

\* An order only moves forward, where no two requests overlapped on it.
THEOREM ForwardOnly == Spec => OrdersMoveForward
<1>1. AgreedInv /\ [Next]_vars
        => [\A o \in Orders : Stage(order'[o]) < Stage(order[o]) => o \in contended]_vars
  BY ForwardStep
<1> QED BY <1>1, AgreedInvariance, PTL DEF Spec, OrdersMoveForward
\* Orders, their lines and their receipts agree for any constants.
THEOREM GoodsAllAgree == Spec => []GoodsAgree
  BY LinesAddUp, NothingBeyondOrder, FullOrdersAreComplete, CompleteOrdersClose,
     CancelledOrdersAreEmpty, PTL DEF GoodsAgree

\* Invoices and payments agree for any constants.
THEOREM InvoicesAllAgree == Spec => []InvoicesAgree
  BY PaidInvoicesAreCovered, BalancesAgree, PTL DEF InvoicesAgree

\* Conversions and returns take effect once, for any constants.
THEOREM EverythingDoneOnce == Spec => []DoneOnce
  BY RequisitionsConvertOnce, ReturnsDeductOnce, PTL DEF DoneOnce
=============================================================================
