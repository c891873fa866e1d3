---------------------------- MODULE PaymentsProofs ----------------------------
(***************************************************************************)
(* Proofs about Payments for any requests, intents, orders, references,    *)
(* amounts and faults.  What a request read is as good as new as long as   *)
(* no other request on the same intent, or settlement of the same order,   *)
(* overlapped it; the callback row and the provider's answer need no such  *)
(* condition.                                                              *)
(***************************************************************************)
EXTENDS Payments, SequenceTheorems, WellFoundedInduction, NaturalsInduction, TLAPS

\* What a request in progress has chosen by the time it needs it.
Chosen(x) ==
  /\ x.pc \in {"push", "mark", "refused"} => x.op = "process" /\ x.intent \in Intents
  /\ x.pc = "ask" => x.op = "query" /\ x.intent \in Intents /\ x.ref \in Refs
  /\ x.pc = "write" => /\ x.op \in {"cancel", "process", "callback", "query", "refund"}
                       /\ x.op # "callback" => x.intent \in Intents
                       /\ x.op = "process" => x.intent \notin MpesaIntents
  /\ x.pc = "sync" => /\ x.op \in {"process", "callback", "query"}
                      /\ x.intent \in Intents
                      /\ x.op = "process" => x.intent \notin MpesaIntents
                      /\ x.was \in ORDER_STATUSES
  /\ x.pc \in {"write", "sync"} /\ x.op \in {"callback", "query"} => x.ref \in Refs

\* A refund names a payment of its intent.
RefundChosen ==
  \A q \in Requests : At(q, "write") /\ req[q].op = "refund"
    => /\ req[q].payment \in 1..Len(payments)
       /\ payments[req[q].payment].intent = req[q].intent

TypeInv == TypeOK /\ (\A q \in Requests : Chosen(req[q])) /\ RefundChosen

\* Requests that overlap on an intent, or settle the same order, are contended.
Overlaps ==
  /\ \A p, q \in Requests :
       p # q /\ ~At(p, "idle") /\ ~At(q, "idle") /\ req[p].intent = req[q].intent
             /\ req[p].intent \in Intents
         => req[p].intent \in contended
  /\ \A p, q \in Requests :
       p # q /\ Settling(p) /\ Settling(q) /\ OrderOf[req[p].intent] = OrderOf[req[q].intent]
         => OrderOf[req[p].intent] \in contended

\* The row of a callback that settles is its own and not yet committed.
CallbackInv ==
  /\ \A k \in 1..Len(payments) : payments[k].by = "callback" => payments[k].ref \in callbacks
  /\ \A q \in Requests : Settling(q) /\ req[q].op = "callback" => req[q].ref \notin callbacks
  /\ \A p, q \in Requests :
       Settling(p) /\ Settling(q) /\ req[p].op = "callback" /\ req[q].op = "callback"
           /\ req[p].ref = req[q].ref
         => p = q
  /\ OneSettlementPerCallback

\* A settlement in progress is of money the provider collected.
CreditInv ==
  /\ \A q \in Requests :
       /\ req[q].pc \in {"write", "sync"} /\ req[q].op = "query"
            => push[req[q].ref] = "paid" \/ req[q].ref \in invented
       /\ Settling(q) /\ req[q].op = "callback" => push[req[q].ref] = "paid"
  /\ CreditedWasCharged

\* The order read by a settlement has not moved since.
WasInv ==
  \A q \in Requests :
    Settling(q) /\ OrderOf[req[q].intent] \notin contended
      => req[q].was = order[OrderOf[req[q].intent]].status

\* A payment nobody refunded has given nothing back; a refund in progress is
\* of such a payment.
RefundInv ==
  /\ \A k \in 1..Len(payments) : payments[k].status = "COMPLETED" => payments[k].back = 0
  /\ \A q \in Requests :
       At(q, "write") /\ req[q].op = "refund" /\ req[q].intent \notin contended
         => payments[req[q].payment].status = "COMPLETED"
  /\ RefundsWithinPayment

Done(i) == intent[i].status = "SUCCESS"

\* What the request read of its intent still decides whether it is SUCCESS.
Current(x) ==
  /\ x.op \in {"cancel", "process"} => ~Done(x.intent)
  /\ x.op = "query" /\ x.pc = "ask" => (Done(x.intent) <=> x.seen = "SUCCESS")
  /\ x.op = "query" /\ x.pc # "ask" => ~Done(x.intent)
  /\ x.op = "callback" /\ x.pc = "write" => (Done(x.intent) <=> x.seen = "SUCCESS")
  /\ x.op = "callback" /\ x.pc # "write" => ~Done(x.intent)

SuccessInv ==
  /\ \A q \in Requests :
       ~At(q, "idle") /\ req[q].intent \in Intents \ contended => Current(req[q])
  /\ SuccessIsSettled

-----------------------------------------------------------------------------
(* Types.                                                                  *)

\* A step of one request leaves the requests typed.
LEMMA RequestTyped ==
  ASSUME TypeInv, NEW q \in Requests, NEW x \in RequestRecords, Chosen(x),
         req' = [req EXCEPT ![q] = x]
  PROVE  req' \in [Requests -> RequestRecords] /\ \A p \in Requests : Chosen(req'[p])
BY DEF TypeInv, TypeOK

LEMMA IdleTyped == Idle \in RequestRecords /\ Chosen(Idle)
BY DEF Idle, RequestRecords, Chosen

LEMMA EndTyped ==
  ASSUME TypeInv, NEW q \in Requests, End(q)
  PROVE  req' \in [Requests -> RequestRecords] /\ \A p \in Requests : Chosen(req'[p])
BY IdleTyped, RequestTyped DEF End

\* What a handler that has read its intent looks like.
LEMMA ReadTyped ==
  ASSUME TypeInv, NEW q \in Requests, NEW i \in Intents, NEW op \in {"cancel", "process", "query"},
         NEW pc \in {"push", "write", "ask"}, Read(q, op, i, pc),
         pc = "push" => op = "process",
         pc = "ask" <=> op = "query",
         op = "query" => intent[i].ref # NoRef,
         op = "process" /\ pc = "write" => i \notin MpesaIntents
  PROVE  /\ req' \in [Requests -> RequestRecords]
         /\ \A p \in Requests : Chosen(req'[p])
         /\ contended' \subseteq Intents \cup Orders
<1> DEFINE x == [Idle EXCEPT !.pc = pc, !.op = op, !.intent = i,
                             !.seen = IF op = "query" THEN intent[i].status ELSE "none",
                             !.ref = IF op = "query" THEN intent[i].ref ELSE NoRef]
<1>1. req' = [req EXCEPT ![q] = x] BY DEF Read
<1>2. /\ x.pc = pc /\ x.op = op /\ x.intent = i /\ x.was = "none"
      /\ x.ref = IF op = "query" THEN intent[i].ref ELSE NoRef
  BY DEF Idle
<1>3. x \in RequestRecords BY DEF TypeInv, TypeOK, Idle, RequestRecords
<1>4. op = "query" => x.ref \in Refs BY <1>2 DEF TypeInv, TypeOK
<1> HIDE DEF x
<1>5. Chosen(x) BY <1>2, <1>4 DEF Chosen
<1>6. contended' \subseteq Intents \cup Orders BY DEF Read, Contend, TypeInv, TypeOK
<1> QED BY <1>1, <1>3, <1>5, <1>6, RequestTyped

LEMMA StatusTyped ==
  ASSUME TypeInv, NEW q \in Requests, NEW i \in Intents, NEW status \in PAYMENT_STATUSES,
         SetStatus(q, i, status)
  PROVE  /\ intent' \in [Intents -> [status : PAYMENT_STATUSES \cup {"NONE"}, ref : Refs \cup {NoRef}]]
         /\ req' \in [Requests -> RequestRecords]
         /\ \A p \in Requests : Chosen(req'[p])
<1>1. intent' \in [Intents -> [status : PAYMENT_STATUSES \cup {"NONE"}, ref : Refs \cup {NoRef}]]
  BY DEF SetStatus, TypeInv, TypeOK
<1>2. End(q) BY DEF SetStatus
<1> QED BY <1>1, <1>2, EndTyped

LEMMA PushTyped ==
  ASSUME TypeInv, NEW q \in Requests, InitiateStkPush(q)
  PROVE  TypeOK' /\ \A p \in Requests : Chosen(req'[p])
<1>0. /\ At(q, "push") /\ req[q].op = "process" /\ req[q].intent \in Intents
      /\ req[q] \in RequestRecords
  BY DEF InitiateStkPush, TypeInv, TypeOK, At, Chosen
<1>1. push' \in [Refs -> Outcomes \cup {"unused", "prompted", "simulated"}]
  BY DEF InitiateStkPush, TypeInv, TypeOK
<1>2. /\ req' \in [Requests -> RequestRecords]
      /\ \A p \in Requests : Chosen(req'[p])
  <2>1. ASSUME NEW r \in Refs, req' = [req EXCEPT ![q].pc = "mark", ![q].ref = r]
        PROVE  /\ req' \in [Requests -> RequestRecords]
               /\ \A p \in Requests : Chosen(req'[p])
    <3> DEFINE x == [req[q] EXCEPT !.pc = "mark", !.ref = r]
    <3>1. req' = [req EXCEPT ![q] = x] BY <2>1 DEF TypeInv, TypeOK
    <3>2. x \in RequestRecords /\ x.pc = "mark" /\ x.op = "process" /\ x.intent \in Intents
      BY <1>0 DEF RequestRecords
    <3> HIDE DEF x
    <3>3. Chosen(x) BY <3>2 DEF Chosen
    <3> QED BY <3>1, <3>2, <3>3, RequestTyped
  <2>2. ASSUME Goto(q, "refused")
        PROVE  /\ req' \in [Requests -> RequestRecords]
               /\ \A p \in Requests : Chosen(req'[p])
    <3> DEFINE x == [req[q] EXCEPT !.pc = "refused"]
    <3>1. req' = [req EXCEPT ![q] = x] BY <2>2 DEF TypeInv, TypeOK, Goto
    <3>2. x \in RequestRecords /\ x.pc = "refused" /\ x.op = "process" /\ x.intent \in Intents
      BY <1>0 DEF RequestRecords
    <3> HIDE DEF x
    <3>3. Chosen(x) BY <3>2 DEF Chosen
    <3> QED BY <3>1, <3>2, <3>3, RequestTyped
  <2> QED BY <2>1, <2>2 DEF InitiateStkPush
<1> QED BY <1>1, <1>2 DEF InitiateStkPush, TypeInv, TypeOK, history

LEMMA ReadCallbackTyped ==
  ASSUME TypeInv, NEW q \in Requests, NEW r \in Refs, ReadCallback(q, r)
  PROVE  TypeOK' /\ \A p \in Requests : Chosen(req'[p])
<1>1. /\ req' \in [Requests -> RequestRecords]
      /\ \A p \in Requests : Chosen(req'[p])
  <2>1. ASSUME NEW x, x.pc = "write", x.op = "callback", x.ref = r, x \in RequestRecords,
               req' = [req EXCEPT ![q] = x]
        PROVE  /\ req' \in [Requests -> RequestRecords]
               /\ \A p \in Requests : Chosen(req'[p])
    <3>1. Chosen(x) BY <2>1 DEF Chosen
    <3> QED BY <2>1, <3>1, RequestTyped
  <2> DEFINE y == [Idle EXCEPT !.pc = "write", !.op = "callback", !.ref = r]
             z(i) == [Idle EXCEPT !.pc = "write", !.op = "callback", !.ref = r,
                                  !.intent = i, !.seen = intent[i].status]
  <2>2. y.pc = "write" /\ y.op = "callback" /\ y.ref = r /\ y \in RequestRecords
    BY DEF Idle, RequestRecords
  <2>3. \A i \in Intents : /\ z(i).pc = "write" /\ z(i).op = "callback" /\ z(i).ref = r
                           /\ z(i) \in RequestRecords
    BY DEF Idle, RequestRecords, TypeInv, TypeOK
  <2>4. req' = [req EXCEPT ![q] = y] \/ \E i \in Intents : req' = [req EXCEPT ![q] = z(i)]
    BY DEF ReadCallback, Named
  <2> HIDE DEF y, z
  <2> QED BY <2>1, <2>2, <2>3, <2>4
<1>2. contended' \subseteq Intents \cup Orders
  BY DEF ReadCallback, Contend, Named, TypeInv, TypeOK
<1> QED BY <1>1, <1>2 DEF ReadCallback, TypeInv, TypeOK

LEMMA RecordCallbackTyped ==
  ASSUME TypeInv, NEW q \in Requests, RecordCallback(q)
  PROVE  TypeOK' /\ \A p \in Requests : Chosen(req'[p])
<1>0. req[q].ref \in Refs /\ req[q] \in RequestRecords
  BY DEF RecordCallback, TypeInv, TypeOK, At, Chosen
<1>1. callbacks' \subseteq Refs /\ orphans' \subseteq Refs
  BY <1>0 DEF RecordCallback, TypeInv, TypeOK
<1>2. End(q) BY DEF RecordCallback, SetStatus
<1>3. intent' \in [Intents -> [status : PAYMENT_STATUSES \cup {"NONE"}, ref : Refs \cup {NoRef}]]
  <2>1. CASE UNCHANGED intent BY <2>1 DEF TypeInv, TypeOK
  <2>2. ASSUME NEW status \in {"FAILED", "TIMEOUT"}, req[q].intent # "none",
               SetStatus(q, req[q].intent, status)
        PROVE  intent' \in [Intents -> [status : PAYMENT_STATUSES \cup {"NONE"}, ref : Refs \cup {NoRef}]]
    <3>1. req[q].intent \in Intents BY <1>0, <2>2 DEF RequestRecords
    <3> QED BY <2>2, <3>1, StatusTyped DEF PAYMENT_STATUSES
  <2> QED BY <2>1, <2>2 DEF RecordCallback
<1> QED BY <1>1, <1>2, <1>3, EndTyped DEF RecordCallback, TypeInv, TypeOK

LEMMA SettleTyped ==
  ASSUME TypeInv, NEW q \in Requests, Settle(q)
  PROVE  TypeOK' /\ \A p \in Requests : Chosen(req'[p])
<1> DEFINE i == req[q].intent
           o == OrderOf[i]
           c == Cover(o, Amount[i])
           x == [req[q] EXCEPT !.pc = "sync", !.was = order[o].status, !.cover = c]
<1>0. /\ req[q] \in RequestRecords /\ At(q, "write") /\ Chosen(req[q])
      /\ req[q].op \in {"process", "callback", "query"}
      /\ i \in Intents /\ o \in Orders
  <2>1. /\ req[q] \in RequestRecords /\ At(q, "write") /\ Chosen(req[q])
        /\ req[q].op \in {"process", "callback", "query"}
        /\ req[q].op = "callback" => i # "none"
    BY DEF Settle, Settles, TypeInv, TypeOK
  <2>2. i \in Intents BY <2>1 DEF At, Chosen, RequestRecords
  <2> QED BY <2>1, <2>2, PaymentsAssumption
<1>1. c \in {"full", "part"} BY DEF Cover
<1>2. req' = [req EXCEPT ![q] = x] BY DEF Settle, TypeInv, TypeOK
<1>3. order[o].status \in ORDER_STATUSES BY <1>0 DEF TypeInv, TypeOK
<1> HIDE DEF c
<1>4. /\ x \in RequestRecords /\ x.pc = "sync" /\ x.op = req[q].op /\ x.intent = i /\ x.ref = req[q].ref
      /\ x.was \in ORDER_STATUSES
  BY <1>0, <1>1, <1>3 DEF RequestRecords
<1> HIDE DEF x
<1>5. Chosen(x) BY <1>0, <1>4 DEF Chosen, At
<1>6. /\ req' \in [Requests -> RequestRecords]
      /\ \A p \in Requests : Chosen(req'[p])
  BY <1>2, <1>4, <1>5, RequestTyped
<1>7. contended' \subseteq Intents \cup Orders
  BY <1>0 DEF Settle, ContendOrder, TypeInv, TypeOK
<1> QED BY <1>6, <1>7 DEF Settle, TypeInv, TypeOK

\* What a commit adds to the ledger and makes of the order.
LEMMA CommitEffect ==
  ASSUME TypeInv, NEW q \in Requests, CommitSettlement(q)
  PROVE  LET i == req[q].intent
             p == [intent |-> i, ref |-> req[q].ref, by |-> req[q].op,
                   status |-> "COMPLETED", back |-> 0]
         IN /\ i \in Intents /\ OrderOf[i] \in Orders
            /\ p \in PaymentRecords
            /\ payments' \in Seq(PaymentRecords)
            /\ Len(payments') = Len(payments) + 1
            /\ \A k \in 1..Len(payments) : payments'[k] = payments[k]
            /\ payments'[Len(payments) + 1] = p
            /\ Len(payments) \in Nat
<1> DEFINE i == req[q].intent
           p == [intent |-> i, ref |-> req[q].ref, by |-> req[q].op,
                 status |-> "COMPLETED", back |-> 0]
<1>1. /\ i \in Intents /\ req[q].op \in {"process", "callback", "query"}
      /\ req[q].ref \in Refs \cup {NoRef}
  BY DEF CommitSettlement, Settling, TypeInv, TypeOK, At, Chosen, RequestRecords
<1>2. p \in PaymentRecords BY <1>1 DEF PaymentRecords
<1>3. payments' = Append(payments, p) /\ payments \in Seq(PaymentRecords)
  BY DEF CommitSettlement, TypeInv, TypeOK
<1>4. OrderOf[i] \in Orders BY <1>1, PaymentsAssumption
<1> HIDE DEF p
<1>5. /\ payments' \in Seq(PaymentRecords)
      /\ Len(payments') = Len(payments) + 1
      /\ \A k \in 1..Len(payments) : payments'[k] = payments[k]
      /\ payments'[Len(payments) + 1] = p
      /\ Len(payments) \in Nat
  BY <1>2, <1>3
<1> QED BY <1>1, <1>2, <1>4, <1>5 DEF p

LEMMA SyncedTyped ==
  ASSUME TypeInv, NEW q \in Requests, Settling(q), NEW o \in Orders
  PROVE  Synced(o, q) \in [status : ORDER_STATUSES, payment : {"UNPAID", "PARTIAL", "PAID"}]
<1>1. "PAID" \in ORDER_STATUSES BY DEF ORDER_STATUSES, ALLOWED_TRANSITIONS
<1>2. order[o] \in [status : ORDER_STATUSES, payment : {"UNPAID", "PARTIAL", "PAID"}]
  BY DEF TypeInv, TypeOK
<1> QED BY <1>1, <1>2 DEF Synced

LEMMA CommitTyped ==
  ASSUME TypeInv, NEW q \in Requests, CommitSettlement(q)
  PROVE  TypeOK' /\ \A p \in Requests : Chosen(req'[p])
<1> DEFINE i == req[q].intent
<1>1. i \in Intents /\ OrderOf[i] \in Orders /\ payments' \in Seq(PaymentRecords)
  BY CommitEffect
<1>2. order' \in [Orders -> [status : ORDER_STATUSES, payment : {"UNPAID", "PARTIAL", "PAID"}]]
  <2>1. Synced(OrderOf[i], q) \in [status : ORDER_STATUSES, payment : {"UNPAID", "PARTIAL", "PAID"}]
    BY <1>1, SyncedTyped DEF CommitSettlement
  <2> QED BY <1>1, <2>1 DEF CommitSettlement, TypeInv, TypeOK
<1>3. intent' \in [Intents -> [status : PAYMENT_STATUSES \cup {"NONE"}, ref : Refs \cup {NoRef}]]
  BY SMTT(40), <1>1 DEF CommitSettlement, PAYMENT_STATUSES, TypeInv, TypeOK
<1>4. callbacks' \subseteq Refs
  <2>1. req[q].op = "callback" => req[q].ref \in Refs
    BY DEF CommitSettlement, Settling, TypeInv, At, Chosen
  <2> QED BY <2>1 DEF CommitSettlement, TypeInv, TypeOK
<1>5. /\ req' \in [Requests -> RequestRecords]
      /\ \A p \in Requests : Chosen(req'[p])
  BY EndTyped DEF CommitSettlement
<1> QED BY <1>1, <1>2, <1>3, <1>4, <1>5 DEF CommitSettlement, history, TypeInv, TypeOK

LEMMA RefundedFacts ==
  ASSUME NEW p \in PaymentRecords, NEW n \in Nat
  PROVE  LET r == Refunded(p, n)
         IN /\ r \in PaymentRecords /\ r.status = "REFUNDED" /\ r.back = p.back + n
            /\ r.intent = p.intent /\ r.ref = p.ref /\ r.by = p.by
<1> DEFINE r == Refunded(p, n)
<1>1. p.back + n \in Nat BY DEF PaymentRecords
<1>2. /\ r.status = "REFUNDED" /\ r.back = p.back + n
      /\ r.intent = p.intent /\ r.ref = p.ref /\ r.by = p.by
  BY DEF Refunded, PaymentRecords
<1>3. r \in PaymentRecords BY <1>1 DEF Refunded, PaymentRecords
<1> QED BY <1>2, <1>3

\* What a refund makes of the payment it names.
LEMMA RefundEffect ==
  ASSUME TypeInv, NEW q \in Requests, RefundPayment(q)
  PROVE  LET k == req[q].payment
         IN /\ req[q].intent \in Intents /\ k \in 1..Len(payments)
            /\ payments[k].intent = req[q].intent
            /\ payments' \in Seq(PaymentRecords) /\ Len(payments') = Len(payments)
            /\ \A j \in 1..Len(payments) : j # k => payments'[j] = payments[j]
            /\ payments'[k].intent = payments[k].intent /\ payments'[k].ref = payments[k].ref
            /\ payments'[k].by = payments[k].by /\ payments'[k].status = "REFUNDED"
            /\ \E n \in 1..Amount[req[q].intent] : payments'[k].back = payments[k].back + n
<1> DEFINE k == req[q].payment
           i == req[q].intent
<1>1. i \in Intents /\ k \in 1..Len(payments) /\ payments[k].intent = i
  BY DEF RefundPayment, TypeInv, RefundChosen, At, Chosen
<1>2. PICK n \in 1..Amount[i] : payments' = [payments EXCEPT ![k] = Refunded(payments[k], n)]
  BY DEF RefundPayment
<1>3. payments \in Seq(PaymentRecords) /\ payments[k] \in PaymentRecords /\ n \in Nat
  <2>1. payments \in Seq(PaymentRecords) BY DEF TypeInv, TypeOK
  <2>2. payments[k] \in PaymentRecords BY <1>1, <2>1
  <2>3. Amount[i] \in Nat BY <1>1, PaymentsAssumption
  <2> QED BY <2>1, <2>2, <2>3
<1> DEFINE p == Refunded(payments[k], n)
<1>4. /\ p \in PaymentRecords /\ p.status = "REFUNDED" /\ p.back = payments[k].back + n
      /\ p.intent = payments[k].intent /\ p.ref = payments[k].ref /\ p.by = payments[k].by
  BY <1>3, RefundedFacts
<1> HIDE DEF p
<1>5. payments' \in Seq(PaymentRecords) /\ Len(payments') = Len(payments)
  BY <1>1, <1>2, <1>3, <1>4, ExceptSeq DEF p
<1>6. payments'[k] = p /\ \A j \in 1..Len(payments) : j # k => payments'[j] = payments[j]
  BY <1>1, <1>2, <1>3, <1>4, ExceptSeq DEF p
<1> QED BY <1>1, <1>4, <1>5, <1>6

LEMMA RefundTyped ==
  ASSUME TypeInv, NEW q \in Requests, RefundPayment(q)
  PROVE  TypeOK' /\ \A p \in Requests : Chosen(req'[p])
<1>1. req[q].intent \in Intents /\ payments' \in Seq(PaymentRecords) BY RefundEffect
<1>2. "REFUNDED" \in PAYMENT_STATUSES /\ SetStatus(q, req[q].intent, "REFUNDED")
  BY DEF PAYMENT_STATUSES, RefundPayment
<1>3. /\ intent' \in [Intents -> [status : PAYMENT_STATUSES \cup {"NONE"}, ref : Refs \cup {NoRef}]]
      /\ req' \in [Requests -> RequestRecords]
      /\ \A p \in Requests : Chosen(req'[p])
  BY <1>1, <1>2, StatusTyped
<1>4. contended' \subseteq Intents \cup Orders
  BY <1>1, PaymentsAssumption DEF RefundPayment, ContendOrder, TypeInv, TypeOK
<1> QED BY <1>1, <1>3, <1>4 DEF RefundPayment, TypeInv, TypeOK

LEMMA InitType == Init => TypeInv
<1> SUFFICES ASSUME Init PROVE TypeInv OBVIOUS
<1>1. payments \in Seq(PaymentRecords) BY DEF Init
<1>2. req \in [Requests -> RequestRecords] /\ \A q \in Requests : req[q] = Idle
  BY IdleTyped DEF Init
<1>3. "CONFIRMED" \in ORDER_STATUSES BY DEF ORDER_STATUSES, ALLOWED_TRANSITIONS
<1>4. TypeOK BY <1>1, <1>2, <1>3 DEF Init, TypeOK, Outcomes
<1>5. \A q \in Requests : Chosen(req[q]) BY <1>2, IdleTyped
<1>6. RefundChosen BY <1>2 DEF RefundChosen, At, Idle
<1> QED BY <1>4, <1>5, <1>6 DEF TypeInv

\* The steps that leave the ledger alone: the refunds in progress keep theirs.
LEMMA RefundChosenFrame ==
  ASSUME TypeInv, NEW q \in Requests, UNCHANGED payments,
         req' \in [Requests -> RequestRecords],
         \A p \in Requests \ {q} : req'[p] = req[p],
         req'[q].pc # "write" \/ req'[q].op # "refund"
  PROVE  RefundChosen'
BY DEF TypeInv, RefundChosen, At

LEMMA EndFrame ==
  ASSUME TypeInv, NEW q \in Requests, End(q)
  PROVE  /\ \A p \in Requests \ {q} : req'[p] = req[p]
         /\ req'[q] = Idle /\ req'[q].pc = "idle" /\ req'[q].op = "none"
BY DEF TypeInv, TypeOK, End, Idle

LEMMA ReadFrame ==
  ASSUME TypeInv, NEW q \in Requests, NEW op, NEW i \in Intents, NEW pc, Read(q, op, i, pc)
  PROVE  /\ \A p \in Requests \ {q} : req'[p] = req[p]
         /\ At(q, "idle")
         /\ req'[q].pc = pc /\ req'[q].op = op /\ req'[q].intent = i
         /\ op = "query" => req'[q].seen = intent[i].status /\ req'[q].ref = intent[i].ref
         /\ contended' = contended \cup (IF Busy(i, q) THEN {i} ELSE {})
         /\ UNCHANGED <<intent, payments, order, callbacks, push, orphans, dropped, invented>>
<1> DEFINE x == [Idle EXCEPT !.pc = pc, !.op = op, !.intent = i,
                             !.seen = IF op = "query" THEN intent[i].status ELSE "none",
                             !.ref = IF op = "query" THEN intent[i].ref ELSE NoRef]
<1>1. req' = [req EXCEPT ![q] = x] BY DEF Read
<1>2. /\ x.pc = pc /\ x.op = op /\ x.intent = i
      /\ op = "query" => x.seen = intent[i].status /\ x.ref = intent[i].ref
  BY DEF Idle
<1>3. /\ \A p \in Requests \ {q} : req'[p] = req[p]
      /\ req'[q] = x
  <2> HIDE DEF x
  <2> QED BY <1>1 DEF TypeInv, TypeOK
<1> QED BY <1>2, <1>3 DEF Read, Contend

\* The three handlers that read an intent.
Reads(q, op, i, pc) ==
  /\ Read(q, op, i, pc)
  /\ op \in {"cancel", "process", "query"} /\ pc \in {"push", "write", "ask"}
  /\ pc = "push" => op = "process"
  /\ pc = "ask" <=> op = "query"
  /\ op = "query" => intent[i].ref # NoRef
  /\ op = "process" /\ pc = "write" => i \notin MpesaIntents
  /\ op \in {"cancel", "process"} => intent[i].status # "SUCCESS"

LEMMA ReadsCases ==
  ASSUME NEW q \in Requests, NEW i \in Intents,
         ReadForCancel(q, i) \/ ReadForProcess(q, i) \/ ReadForQuery(q, i)
  PROVE  \E op \in {"cancel", "process", "query"}, pc \in {"push", "write", "ask"} : Reads(q, op, i, pc)
BY DEF ReadForCancel, ReadForProcess, ReadForQuery, Reads

\* What a refund that has been asked for looks like.
LEMMA ReadForRefundFrame ==
  ASSUME TypeInv, NEW q \in Requests, NEW k \in 1..Len(payments), ReadForRefund(q, k)
  PROVE  /\ \A p \in Requests \ {q} : req'[p] = req[p]
         /\ At(q, "idle") /\ payments[k] \in PaymentRecords /\ payments[k].status = "COMPLETED"
         /\ req'[q] \in RequestRecords /\ Chosen(req'[q])
         /\ req'[q].pc = "write" /\ req'[q].op = "refund"
         /\ req'[q].payment = k /\ req'[q].intent = payments[k].intent
         /\ contended' = contended \cup (IF Busy(payments[k].intent, q) THEN {payments[k].intent} ELSE {})
         /\ UNCHANGED <<intent, payments, order, callbacks, push, orphans, dropped, invented>>
<1> DEFINE x == [Idle EXCEPT !.pc = "write", !.op = "refund", !.payment = k,
                             !.intent = payments[k].intent]
<1>1. req' = [req EXCEPT ![q] = x] BY DEF ReadForRefund
<1>2. payments[k] \in PaymentRecords /\ payments[k].status = "COMPLETED" /\ k \in Nat
  <2>1. payments \in Seq(PaymentRecords) BY DEF TypeInv, TypeOK
  <2>2. payments[k] \in PaymentRecords /\ k \in Nat BY <2>1
  <2> QED BY <2>2 DEF ReadForRefund, PaymentRecords
<1>3. /\ x.pc = "write" /\ x.op = "refund" /\ x.payment = k /\ x.intent = payments[k].intent
      /\ x \in RequestRecords
  <2>1. payments[k].intent \in Intents BY <1>2 DEF PaymentRecords
  <2> QED BY <1>2, <2>1 DEF Idle, RequestRecords
<1>4. Chosen(x)
  <2> HIDE DEF x
  <2> QED BY <1>2, <1>3 DEF Chosen, PaymentRecords
<1>5. /\ \A p \in Requests \ {q} : req'[p] = req[p]
      /\ req'[q] = x
  <2> HIDE DEF x
  <2> QED BY <1>1 DEF TypeInv, TypeOK
<1> QED BY <1>2, <1>3, <1>4, <1>5 DEF ReadForRefund, Contend

LEMMA PushFrame ==
  ASSUME TypeInv, NEW q \in Requests, InitiateStkPush(q)
  PROVE  /\ \A p \in Requests \ {q} : req'[p] = req[p]
         /\ At(q, "push") /\ req[q].op = "process" /\ req[q].intent \in Intents
         /\ req'[q].pc \in {"mark", "refused"} /\ req'[q].op = req[q].op
         /\ req'[q].intent = req[q].intent
         /\ UNCHANGED <<intent, payments, order, callbacks, history>>
         /\ \A r \in Refs : push[r] = "paid" => push'[r] = "paid"
<1>1. /\ At(q, "push") /\ req[q].op = "process" /\ req[q].intent \in Intents
      /\ req[q] \in RequestRecords /\ req \in [Requests -> RequestRecords]
      /\ push \in [Refs -> Outcomes \cup {"unused", "prompted", "simulated"}]
  BY DEF InitiateStkPush, TypeInv, TypeOK, At, Chosen
<1>2. \/ \E r \in Refs : req' = [req EXCEPT ![q].pc = "mark", ![q].ref = r]
      \/ req' = [req EXCEPT ![q].pc = "refused"]
  BY DEF InitiateStkPush, Goto
<1>3. /\ \A p \in Requests \ {q} : req'[p] = req[p]
      /\ req'[q].pc \in {"mark", "refused"} /\ req'[q].op = req[q].op
      /\ req'[q].intent = req[q].intent
  BY <1>1, <1>2 DEF RequestRecords
<1>4. \A r \in Refs : push[r] = "paid" => push'[r] = "paid"
  BY <1>1 DEF InitiateStkPush
<1> QED BY <1>1, <1>3, <1>4 DEF InitiateStkPush

LEMMA QueryFrame ==
  ASSUME TypeInv, NEW q \in Requests, QueryStkStatus(q)
  PROVE  /\ \A p \in Requests \ {q} : req'[p] = req[p]
         /\ At(q, "ask") /\ req[q].op = "query" /\ req[q].intent \in Intents /\ req[q].ref \in Refs
         /\ \/ req'[q] = Idle
            \/ /\ req'[q].pc = "write" /\ req'[q].op = "query"
               /\ req'[q].intent = req[q].intent /\ req'[q].ref = req[q].ref
               /\ req[q].seen # "SUCCESS"
               /\ push[req[q].ref] = "paid" \/ req[q].ref \in invented'
         /\ req'[q] \in RequestRecords /\ Chosen(req'[q])
         /\ invented \subseteq invented' /\ invented' \subseteq Refs
         /\ UNCHANGED <<intent, payments, order, callbacks, push, orphans, dropped, contended>>
<1>1. /\ At(q, "ask") /\ req[q].op = "query" /\ req[q].intent \in Intents /\ req[q].ref \in Refs
      /\ req[q] \in RequestRecords /\ req \in [Requests -> RequestRecords]
  BY DEF QueryStkStatus, TypeInv, TypeOK, At, Chosen
<1>2. \/ req' = [req EXCEPT ![q] = Idle]
      \/ /\ req' = [req EXCEPT ![q].pc = "write"]
         /\ req[q].seen # "SUCCESS"
         /\ push[req[q].ref] = "paid" \/ req[q].ref \in invented'
  BY DEF QueryStkStatus, Goto, End
<1>3. \A p \in Requests \ {q} : req'[p] = req[p] BY <1>1, <1>2
<1>4. \/ req'[q] = Idle
      \/ /\ req'[q].pc = "write" /\ req'[q].op = "query"
         /\ req'[q].intent = req[q].intent /\ req'[q].ref = req[q].ref
         /\ req'[q] \in RequestRecords
         /\ req[q].seen # "SUCCESS"
         /\ push[req[q].ref] = "paid" \/ req[q].ref \in invented'
  BY <1>1, <1>2 DEF RequestRecords
<1>5. req'[q] \in RequestRecords /\ Chosen(req'[q])
  BY <1>1, <1>4, IdleTyped DEF Chosen
<1>6. invented \subseteq invented' /\ invented' \subseteq Refs
  BY <1>1 DEF QueryStkStatus, TypeInv, TypeOK
<1> QED BY <1>1, <1>3, <1>4, <1>5, <1>6 DEF QueryStkStatus

LEMMA SettleFrame ==
  ASSUME TypeInv, NEW q \in Requests, Settle(q)
  PROVE  /\ \A p \in Requests \ {q} : req'[p] = req[p]
         /\ At(q, "write") /\ req[q].op \in {"process", "callback", "query"}
         /\ req[q].intent \in Intents /\ OrderOf[req[q].intent] \in Orders
         /\ req'[q].pc = "sync" /\ req'[q].op = req[q].op /\ req'[q].intent = req[q].intent
         /\ req'[q].ref = req[q].ref /\ req'[q].seen = req[q].seen
         /\ req'[q].was = order[OrderOf[req[q].intent]].status
         /\ req'[q].cover = Cover(OrderOf[req[q].intent], Amount[req[q].intent])
         /\ req[q].op = "callback"
              => Inserts(q) /\ push[req[q].ref] = "paid" /\ req[q].seen # "SUCCESS"
         /\ ContendOrder(OrderOf[req[q].intent], q)
         /\ UNCHANGED <<intent, payments, order, callbacks, push, orphans, dropped, invented>>
<1> DEFINE i == req[q].intent
           c == Cover(OrderOf[i], Amount[i])
           w == order[OrderOf[i]].status
<1>1. /\ req[q] \in RequestRecords /\ req \in [Requests -> RequestRecords]
      /\ At(q, "write") /\ Chosen(req[q])
      /\ req[q].op \in {"process", "callback", "query"}
      /\ req[q].op = "callback" => i # "none"
  BY DEF Settle, Settles, TypeInv, TypeOK
<1>2. i \in Intents BY <1>1 DEF At, Chosen, RequestRecords
<1>3. OrderOf[i] \in Orders BY <1>2, PaymentsAssumption
<1>4. req' = [req EXCEPT ![q].pc = "sync", ![q].was = w, ![q].cover = c] BY DEF Settle
<1>5. /\ \A p \in Requests \ {q} : req'[p] = req[p]
      /\ req'[q].pc = "sync" /\ req'[q].op = req[q].op /\ req'[q].intent = req[q].intent
      /\ req'[q].ref = req[q].ref /\ req'[q].seen = req[q].seen /\ req'[q].was = w
      /\ req'[q].cover = c
  <2> HIDE DEF c, w, i
  <2> QED BY <1>1, <1>4 DEF RequestRecords
<1>6. req[q].op = "callback"
        => Inserts(q) /\ push[req[q].ref] = "paid" /\ req[q].seen # "SUCCESS"
  BY DEF Settle, Settles
<1> QED BY <1>1, <1>2, <1>3, <1>5, <1>6 DEF Settle

LEMMA ReadCallbackFrame ==
  ASSUME TypeInv, NEW q \in Requests, NEW r \in Refs, ReadCallback(q, r)
  PROVE  /\ \A p \in Requests \ {q} : req'[p] = req[p]
         /\ At(q, "idle")
         /\ req'[q].pc = "write" /\ req'[q].op = "callback" /\ req'[q].ref = r
         /\ \/ req'[q].intent = "none" /\ UNCHANGED contended
            \/ /\ req'[q].intent \in Intents /\ req'[q].seen = intent[req'[q].intent].status
               /\ contended' = contended \cup (IF Busy(req'[q].intent, q) THEN {req'[q].intent} ELSE {})
         /\ UNCHANGED <<intent, payments, order, callbacks, push, orphans, dropped, invented>>
<1>1. CASE req' = [req EXCEPT ![q] = [Idle EXCEPT !.pc = "write", !.op = "callback", !.ref = r]]
           /\ UNCHANGED contended
  <2> DEFINE x == [Idle EXCEPT !.pc = "write", !.op = "callback", !.ref = r]
  <2>1. x.pc = "write" /\ x.op = "callback" /\ x.ref = r /\ x.intent = "none" BY DEF Idle
  <2>2. req' = [req EXCEPT ![q] = x] BY <1>1
  <2> HIDE DEF x
  <2>3. req'[q] = x /\ \A p \in Requests \ {q} : req'[p] = req[p] BY <2>2 DEF TypeInv, TypeOK
  <2> QED BY <1>1, <2>1, <2>3 DEF ReadCallback
<1>2. ASSUME NEW i \in Intents, Contend(i, q),
             req' = [req EXCEPT ![q] = [Idle EXCEPT !.pc = "write", !.op = "callback", !.ref = r,
                                                    !.intent = i, !.seen = intent[i].status]]
      PROVE  /\ \A p \in Requests \ {q} : req'[p] = req[p]
             /\ req'[q].pc = "write" /\ req'[q].op = "callback" /\ req'[q].ref = r
             /\ req'[q].intent = i /\ req'[q].seen = intent[i].status
  <2> DEFINE x == [Idle EXCEPT !.pc = "write", !.op = "callback", !.ref = r,
                               !.intent = i, !.seen = intent[i].status]
  <2>1. /\ x.pc = "write" /\ x.op = "callback" /\ x.ref = r /\ x.intent = i
        /\ x.seen = intent[i].status
    BY DEF Idle
  <2>2. req' = [req EXCEPT ![q] = x] BY <1>2
  <2> HIDE DEF x
  <2>3. req'[q] = x /\ \A p \in Requests \ {q} : req'[p] = req[p] BY <2>2 DEF TypeInv, TypeOK
  <2> QED BY <2>1, <2>3
<1>3. \/ /\ req' = [req EXCEPT ![q] = [Idle EXCEPT !.pc = "write", !.op = "callback", !.ref = r]]
         /\ UNCHANGED contended
      \/ \E i \in Intents :
           /\ req' = [req EXCEPT ![q] = [Idle EXCEPT !.pc = "write", !.op = "callback", !.ref = r,
                                                     !.intent = i, !.seen = intent[i].status]]
           /\ Contend(i, q)
  BY DEF ReadCallback, Named
<1>4. /\ At(q, "idle")
      /\ UNCHANGED <<intent, payments, order, callbacks, push, orphans, dropped, invented>>
  BY DEF ReadCallback
<1> QED BY <1>1, <1>2, <1>3, <1>4 DEF Contend

LEMMA TypeStep == TypeInv /\ [Next]_vars => TypeInv'
<1> SUFFICES ASSUME TypeInv, [Next]_vars PROVE TypeInv' OBVIOUS
<1>1. ASSUME NEW i \in Intents, CreatePaymentIntent(i) PROVE TypeInv'
  BY <1>1 DEF CreatePaymentIntent, history, TypeInv, TypeOK, PAYMENT_STATUSES, RefundChosen, At
<1>2. ASSUME NEW q \in Requests, NEW i \in Intents,
             ReadForCancel(q, i) \/ ReadForProcess(q, i) \/ ReadForQuery(q, i)
      PROVE  TypeInv'
  <2>1. PICK op \in {"cancel", "process", "query"}, pc \in {"push", "write", "ask"} : Reads(q, op, i, pc)
    BY <1>2, ReadsCases
  <2>2. /\ req' \in [Requests -> RequestRecords]
        /\ \A p \in Requests : Chosen(req'[p])
        /\ contended' \subseteq Intents \cup Orders
    BY <2>1, ReadTyped DEF Reads
  <2>3. /\ \A p \in Requests \ {q} : req'[p] = req[p]
        /\ req'[q].op = op
        /\ UNCHANGED <<intent, payments, order, callbacks, push, orphans, dropped, invented>>
    BY <2>1, ReadFrame DEF Reads
  <2>4. TypeOK' BY <2>2, <2>3 DEF TypeInv, TypeOK
  <2> QED BY <2>2, <2>3, <2>4, RefundChosenFrame DEF TypeInv
<1>3. ASSUME NEW q \in Requests, NEW r \in Refs, ReadCallback(q, r) PROVE TypeInv'
  <2>1. TypeOK' /\ \A p \in Requests : Chosen(req'[p]) BY <1>3, ReadCallbackTyped
  <2>2. /\ \A p \in Requests \ {q} : req'[p] = req[p]
        /\ req'[q].op = "callback" /\ UNCHANGED payments
    BY <1>3, ReadCallbackFrame
  <2> QED BY <2>1, <2>2, RefundChosenFrame DEF TypeInv, TypeOK
<1>4. ASSUME NEW q \in Requests, NEW k \in 1..Len(payments), ReadForRefund(q, k) PROVE TypeInv'
  <2>1. /\ \A p \in Requests \ {q} : req'[p] = req[p]
        /\ req'[q] \in RequestRecords /\ Chosen(req'[q])
        /\ req'[q].payment = k /\ req'[q].intent = payments[k].intent
        /\ payments[k] \in PaymentRecords
        /\ contended' = contended \cup (IF Busy(payments[k].intent, q) THEN {payments[k].intent} ELSE {})
        /\ UNCHANGED <<intent, payments, order, callbacks, push, orphans, dropped, invented>>
    BY <1>4, ReadForRefundFrame
  <2>2. req' \in [Requests -> RequestRecords]
    <3>1. req' = [req EXCEPT ![q] = req'[q]] BY <1>4 DEF ReadForRefund, TypeInv, TypeOK
    <3> QED BY <2>1, <3>1, RequestTyped
  <2>3. payments[k].intent \in Intents BY <2>1 DEF PaymentRecords
  <2>4. contended' \subseteq Intents \cup Orders BY <2>1, <2>3 DEF TypeInv, TypeOK
  <2>5. TypeOK' BY <2>1, <2>2, <2>4 DEF TypeInv, TypeOK
  <2>6. \A p \in Requests : Chosen(req'[p]) BY <2>1 DEF TypeInv
  <2>7. RefundChosen' BY <2>1 DEF TypeInv, RefundChosen, At
  <2> QED BY <2>5, <2>6, <2>7 DEF TypeInv
<1>5. ASSUME NEW q \in Requests, CancelPaymentIntent(q) PROVE TypeInv'
  <2>1. req[q].intent \in Intents /\ "CANCELLED" \in PAYMENT_STATUSES
    BY <1>5 DEF CancelPaymentIntent, TypeInv, At, Chosen, PAYMENT_STATUSES
  <2>2. SetStatus(q, req[q].intent, "CANCELLED") /\ End(q) BY <1>5 DEF CancelPaymentIntent, SetStatus
  <2>3. TypeOK' /\ \A p \in Requests : Chosen(req'[p])
    BY <1>5, <2>1, <2>2, StatusTyped DEF CancelPaymentIntent, history, TypeInv, TypeOK
  <2> QED BY <1>5, <2>2, <2>3, EndFrame, RefundChosenFrame DEF CancelPaymentIntent, TypeInv, TypeOK
<1>6. ASSUME NEW q \in Requests, InitiateStkPush(q) PROVE TypeInv'
  BY <1>6, PushTyped, PushFrame, RefundChosenFrame DEF TypeInv, TypeOK
<1>7. ASSUME NEW q \in Requests, MarkRefused(q) PROVE TypeInv'
  <2>1. req[q].intent \in Intents /\ "FAILED" \in PAYMENT_STATUSES
    BY <1>7 DEF MarkRefused, TypeInv, At, Chosen, PAYMENT_STATUSES
  <2>2. SetStatus(q, req[q].intent, "FAILED") /\ End(q) BY <1>7 DEF MarkRefused, SetStatus
  <2>3. TypeOK' /\ \A p \in Requests : Chosen(req'[p])
    BY <1>7, <2>1, <2>2, StatusTyped DEF MarkRefused, history, TypeInv, TypeOK
  <2> QED BY <1>7, <2>2, <2>3, EndFrame, RefundChosenFrame DEF MarkRefused, TypeInv, TypeOK
<1>8. ASSUME NEW q \in Requests, MarkProcessing(q) PROVE TypeInv'
  <2>1. /\ req[q].intent \in Intents /\ req[q].ref \in Refs \cup {NoRef}
    BY <1>8 DEF MarkProcessing, TypeInv, TypeOK, At, Chosen, RequestRecords
  <2>2. intent' \in [Intents -> [status : PAYMENT_STATUSES \cup {"NONE"}, ref : Refs \cup {NoRef}]]
    BY <1>8, <2>1 DEF MarkProcessing, TypeInv, TypeOK, PAYMENT_STATUSES
  <2>3. End(q) BY <1>8 DEF MarkProcessing
  <2>4. TypeOK' /\ \A p \in Requests : Chosen(req'[p])
    BY <1>8, <2>2, <2>3, EndTyped DEF MarkProcessing, history, TypeInv, TypeOK
  <2> QED BY <1>8, <2>3, <2>4, EndFrame, RefundChosenFrame DEF MarkProcessing, TypeInv, TypeOK
<1>9. ASSUME NEW q \in Requests, RecordCallback(q) PROVE TypeInv'
  <2>1. End(q) /\ UNCHANGED payments BY <1>9 DEF RecordCallback, SetStatus
  <2>2. TypeOK' /\ \A p \in Requests : Chosen(req'[p]) BY <1>9, RecordCallbackTyped
  <2> QED BY <2>1, <2>2, EndFrame, RefundChosenFrame DEF TypeInv, TypeOK
<1>10. ASSUME NEW q \in Requests, RefuseCallback(q) PROVE TypeInv'
  <2>1. End(q) /\ UNCHANGED payments BY <1>10 DEF RefuseCallback
  <2>2. TypeOK' /\ \A p \in Requests : Chosen(req'[p])
    BY <1>10, <2>1, EndTyped DEF RefuseCallback, history, TypeInv, TypeOK
  <2> QED BY <2>1, <2>2, EndFrame, RefundChosenFrame DEF TypeInv, TypeOK
<1>11. ASSUME NEW q \in Requests, QueryStkStatus(q) PROVE TypeInv'
  <2>1. /\ \A p \in Requests \ {q} : req'[p] = req[p]
        /\ req'[q] \in RequestRecords /\ Chosen(req'[q])
        /\ req'[q].pc # "write" \/ req'[q].op # "refund"
        /\ invented' \subseteq Refs
        /\ UNCHANGED <<intent, payments, order, callbacks, push, orphans, dropped, contended>>
    BY <1>11, QueryFrame DEF Idle
  <2>2. req' = [req EXCEPT ![q] = req'[q]]
    BY <1>11 DEF QueryStkStatus, End, Goto, TypeInv, TypeOK
  <2>3. req' \in [Requests -> RequestRecords] /\ \A p \in Requests : Chosen(req'[p])
    BY <2>1, <2>2, RequestTyped
  <2>4. TypeOK' BY <2>1, <2>3 DEF TypeInv, TypeOK
  <2> QED BY <2>1, <2>3, <2>4, RefundChosenFrame DEF TypeInv
<1>12. ASSUME NEW q \in Requests, Settle(q) PROVE TypeInv'
  BY <1>12, SettleTyped, SettleFrame, RefundChosenFrame DEF TypeInv, TypeOK
<1>13. ASSUME NEW q \in Requests, CommitSettlement(q) PROVE TypeInv'
  <2>1. TypeOK' /\ \A p \in Requests : Chosen(req'[p]) BY <1>13, CommitTyped
  <2>2. /\ \A p \in Requests \ {q} : req'[p] = req[p]
        /\ req'[q].op = "none"
    BY <1>13, EndFrame DEF CommitSettlement
  <2>3. /\ Len(payments') = Len(payments) + 1 /\ Len(payments) \in Nat
        /\ \A k \in 1..Len(payments) : payments'[k] = payments[k]
    BY <1>13, CommitEffect
  <2>4. RefundChosen' BY <2>2, <2>3 DEF TypeInv, RefundChosen, At
  <2> QED BY <2>1, <2>4 DEF TypeInv
<1>14. ASSUME NEW q \in Requests, RefundPayment(q) PROVE TypeInv'
  <2>1. TypeOK' /\ \A p \in Requests : Chosen(req'[p]) BY <1>14, RefundTyped
  <2>2. /\ \A p \in Requests \ {q} : req'[p] = req[p]
        /\ req'[q].op = "none"
    BY <1>14, EndFrame DEF RefundPayment, SetStatus
  <2>3. /\ Len(payments') = Len(payments)
        /\ \A j \in 1..Len(payments) : payments'[j].intent = payments[j].intent
    BY <1>14, RefundEffect
  <2>4. RefundChosen' BY <2>2, <2>3 DEF TypeInv, RefundChosen, At
  <2> QED BY <2>1, <2>4 DEF TypeInv
<1>15. ASSUME NEW q \in Requests, Fail(q) PROVE TypeInv'
  <2>1. End(q) /\ UNCHANGED payments BY <1>15 DEF Fail
  <2>2. dropped' \subseteq Refs
    <3>1. req[q] \in RequestRecords /\ Chosen(req[q]) /\ ~At(q, "idle") BY <1>15 DEF Fail, TypeInv, TypeOK
    <3>2. req[q].op = "callback" => req[q].ref \in Refs BY <3>1 DEF At, Chosen, RequestRecords
    <3> QED BY <1>15, <3>2 DEF Fail, TypeInv, TypeOK
  <2>3. TypeOK' /\ \A p \in Requests : Chosen(req'[p])
    BY <1>15, <2>1, <2>2, EndTyped DEF Fail, TypeInv, TypeOK
  <2> QED BY <2>1, <2>3, EndFrame, RefundChosenFrame DEF TypeInv, TypeOK
<1>16. ASSUME NEW r \in Refs, AnswerPrompt(r) PROVE TypeInv'
  BY <1>16 DEF AnswerPrompt, history, TypeInv, TypeOK, RefundChosen, At
<1>17. ASSUME NEW o \in Orders, NEW to \in StaffTargets, TransitionOrder(o, to) PROVE TypeInv'
  <2>1. order' \in [Orders -> [status : ORDER_STATUSES, payment : {"UNPAID", "PARTIAL", "PAID"}]]
    BY <1>17, PaymentsAssumption DEF TransitionOrder, TypeInv, TypeOK
  <2> QED BY <1>17, <2>1 DEF TransitionOrder, TypeInv, TypeOK, RefundChosen, At
<1>18. CASE UNCHANGED vars
  BY <1>18 DEF vars, history, TypeInv, TypeOK, RefundChosen, At
<1> QED BY <1>1, <1>2, <1>3, <1>4, <1>5, <1>6, <1>7, <1>8, <1>9, <1>10, <1>11, <1>12, <1>13,
           <1>14, <1>15, <1>16, <1>17, <1>18 DEF Next, Proceed

-----------------------------------------------------------------------------
(* Overlapping requests.                                                   *)

\* What a step does to the requests: one begins, goes on, settles or ends, or
\* none moves.
Begins(q) ==
  /\ At(q, "idle") /\ req'[q].pc # "sync"
  /\ \/ req'[q].intent \notin Intents
     \/ contended' = contended \cup (IF Busy(req'[q].intent, q) THEN {req'[q].intent} ELSE {})
GoesOn(q) == ~At(q, "idle") /\ req'[q].pc # "sync" /\ req'[q].intent = req[q].intent
StartsSettling(q) ==
  /\ ~At(q, "idle") /\ req'[q].intent = req[q].intent
  /\ ContendOrder(OrderOf[req[q].intent], q)
Moves(q) ==
  /\ \A p \in Requests \ {q} : req'[p] = req[p]
  /\ contended \subseteq contended'
  /\ Begins(q) \/ GoesOn(q) \/ StartsSettling(q) \/ req'[q] = Idle

LEMMA StepMoves ==
  ASSUME TypeInv, [Next]_vars
  PROVE  (UNCHANGED req /\ contended \subseteq contended') \/ \E q \in Requests : Moves(q)
<1> DEFINE Goal == (UNCHANGED req /\ contended \subseteq contended') \/ \E q \in Requests : Moves(q)
<1>1. ASSUME NEW i \in Intents, CreatePaymentIntent(i) PROVE Goal
  BY <1>1 DEF CreatePaymentIntent, history
<1>2. ASSUME NEW q \in Requests, NEW i \in Intents,
             ReadForCancel(q, i) \/ ReadForProcess(q, i) \/ ReadForQuery(q, i)
      PROVE  Goal
  <2>1. PICK op \in {"cancel", "process", "query"}, pc \in {"push", "write", "ask"} : Reads(q, op, i, pc)
    BY <1>2, ReadsCases
  <2>2. /\ \A p \in Requests \ {q} : req'[p] = req[p]
        /\ At(q, "idle") /\ req'[q].pc = pc /\ req'[q].intent = i
        /\ contended' = contended \cup (IF Busy(i, q) THEN {i} ELSE {})
    BY ZenonT(60), <2>1, ReadFrame DEF Reads
  <2>3. contended \subseteq contended' BY <2>2
  <2>4. Begins(q) BY <2>2 DEF Begins
  <2> QED BY <2>2, <2>3, <2>4 DEF Moves
<1>3. ASSUME NEW q \in Requests, NEW r \in Refs, ReadCallback(q, r) PROVE Goal
  <2>1. Moves(q) BY <1>3, ReadCallbackFrame, PaymentsAssumption DEF Moves, Begins
  <2> QED BY <2>1
<1>4. ASSUME NEW q \in Requests, NEW k \in 1..Len(payments), ReadForRefund(q, k) PROVE Goal
  <2>1. Moves(q) BY <1>4, ReadForRefundFrame DEF Moves, Begins
  <2> QED BY <2>1
<1>5. ASSUME NEW q \in Requests, End(q), contended \subseteq contended' PROVE Goal
  <2>1. Moves(q) BY <1>5, EndFrame DEF Moves
  <2> QED BY <2>1
<1>6. ASSUME NEW q \in Requests, InitiateStkPush(q) PROVE Goal
  <2>1. Moves(q) BY <1>6, PushFrame DEF Moves, GoesOn, At, history
  <2> QED BY <2>1
<1>7. ASSUME NEW q \in Requests,
             CancelPaymentIntent(q) \/ MarkRefused(q) \/ MarkProcessing(q) \/ RecordCallback(q)
               \/ RefuseCallback(q) \/ CommitSettlement(q) \/ RefundPayment(q) \/ Fail(q)
      PROVE  Goal
  <2>1. End(q)
    BY <1>7 DEF CancelPaymentIntent, MarkRefused, MarkProcessing, RecordCallback, RefuseCallback,
                CommitSettlement, RefundPayment, Fail, SetStatus
  <2>2. contended \subseteq contended'
    BY <1>7 DEF CancelPaymentIntent, MarkRefused, MarkProcessing, RecordCallback, RefuseCallback,
                CommitSettlement, RefundPayment, Fail, ContendOrder, history
  <2> QED BY <1>5, <2>1, <2>2
<1>8. ASSUME NEW q \in Requests, QueryStkStatus(q) PROVE Goal
  <2>1. Moves(q) BY <1>8, QueryFrame DEF Moves, GoesOn, At
  <2> QED BY <2>1
<1>9. ASSUME NEW q \in Requests, Settle(q) PROVE Goal
  <2>1. contended \subseteq contended' BY <1>9 DEF Settle, ContendOrder
  <2>2. Moves(q) BY <1>9, <2>1, SettleFrame DEF Moves, StartsSettling, At
  <2> QED BY <2>2
<1>10. ASSUME NEW r \in Refs, AnswerPrompt(r) PROVE Goal
  BY <1>10 DEF AnswerPrompt, history
<1>11. ASSUME NEW o \in Orders, NEW to \in StaffTargets, TransitionOrder(o, to) PROVE Goal
  BY <1>11 DEF TransitionOrder
<1>12. CASE UNCHANGED vars BY <1>12 DEF vars, history
<1> QED BY <1>1, <1>2, <1>3, <1>4, <1>6, <1>7, <1>8, <1>9, <1>10, <1>11, <1>12 DEF Next, Proceed

LEMMA OverlapsStep ==
  ASSUME TypeInv, Overlaps, [Next]_vars
  PROVE  Overlaps'
<1>0. req \in [Requests -> RequestRecords] BY DEF TypeInv, TypeOK
<1>1. CASE UNCHANGED req /\ contended \subseteq contended'
  BY <1>1 DEF Overlaps, At, Settling
<1>2. ASSUME NEW q \in Requests, Moves(q) PROVE Overlaps'
  <2>0. contended \subseteq contended' /\ \A p \in Requests \ {q} : req'[p] = req[p]
    BY <1>2 DEF Moves
  <2>1. CASE Begins(q)
    BY <2>0, <2>1 DEF Begins, Overlaps, At, Settling, Busy
  <2>2. CASE GoesOn(q)
    BY <2>0, <2>2 DEF GoesOn, Overlaps, At, Settling
  <2>3. CASE StartsSettling(q)
    <3>1. ASSUME NEW p \in Requests, p # q, Settling(p),
                 OrderOf[req[p].intent] = OrderOf[req[q].intent]
          PROVE  OrderOf[req[q].intent] \in contended'
      BY <2>3, <3>1 DEF StartsSettling, ContendOrder, OrderBusy
    <3>2. \A p \in Requests :
            /\ At(p, "idle") => At(p, "idle")'
            /\ req'[p].intent = req[p].intent
            /\ p # q => (Settling(p)' <=> Settling(p))
      BY <2>0, <2>3 DEF StartsSettling, At, Settling
    <3> QED BY <2>0, <3>1, <3>2 DEF Overlaps
  <2>4. CASE req'[q] = Idle
    <3>1. req'[q].pc = "idle" BY <2>4 DEF Idle
    <3> QED BY <2>0, <3>1 DEF Overlaps, At, Settling
  <2> QED BY <1>2, <2>1, <2>2, <2>3, <2>4 DEF Moves
<1> QED BY <1>1, <1>2, StepMoves

\* While no other request overlaps it, a request is alone on its intent, and a
\* settlement on its order.
LEMMA AloneOnIntent ==
  ASSUME Overlaps, NEW p \in Requests, NEW q \in Requests, p # q, ~At(p, "idle"), ~At(q, "idle"),
         req[p].intent = req[q].intent, req[q].intent \in Intents
  PROVE  req[q].intent \in contended
BY DEF Overlaps

LEMMA AloneOnOrder ==
  ASSUME Overlaps, NEW p \in Requests, NEW q \in Requests, p # q, Settling(p), Settling(q),
         OrderOf[req[p].intent] = OrderOf[req[q].intent]
  PROVE  OrderOf[req[q].intent] \in contended
BY DEF Overlaps

-----------------------------------------------------------------------------
(* The steps in three kinds: those no request takes, those that neither     *)
(* settle nor touch the ledger, and the four that remain.                   *)

Elsewhere ==
  \/ \E i \in Intents : CreatePaymentIntent(i)
  \/ \E r \in Refs : AnswerPrompt(r)
  \/ \E o \in Orders, to \in StaffTargets : TransitionOrder(o, to)
  \/ UNCHANGED vars

QuietStep(q) ==
  \/ \E i \in Intents : ReadForCancel(q, i) \/ ReadForProcess(q, i) \/ ReadForQuery(q, i)
  \/ \E r \in Refs : ReadCallback(q, r)
  \/ \E k \in 1..Len(payments) : ReadForRefund(q, k)
  \/ CancelPaymentIntent(q) \/ InitiateStkPush(q) \/ MarkRefused(q) \/ MarkProcessing(q)
  \/ RefuseCallback(q) \/ QueryStkStatus(q) \/ Fail(q)

LEMMA StepKinds ==
  ASSUME [Next]_vars
  PROVE  \/ Elsewhere
         \/ \E q \in Requests : \/ QuietStep(q) \/ RecordCallback(q) \/ Settle(q)
                                \/ CommitSettlement(q) \/ RefundPayment(q)
BY DEF Next, Proceed, Elsewhere, QuietStep

\* What the provider has collected, and what the simulator invented, stands.
MoneyStands ==
  /\ invented \subseteq invented' /\ contended \subseteq contended'
  /\ \A r \in Refs : push[r] = "paid" => push'[r] = "paid"

LEMMA ElsewhereFrame ==
  ASSUME TypeInv, Elsewhere
  PROVE  UNCHANGED <<req, payments, callbacks>> /\ MoneyStands
<1>1. ASSUME NEW r \in Refs, AnswerPrompt(r)
      PROVE  UNCHANGED <<req, payments, callbacks>> /\ MoneyStands
  BY <1>1 DEF AnswerPrompt, history, MoneyStands, TypeInv, TypeOK
<1>2. ASSUME NEW o \in Orders, NEW to \in StaffTargets, TransitionOrder(o, to)
      PROVE  UNCHANGED <<req, payments, callbacks>> /\ MoneyStands
  BY <1>2 DEF TransitionOrder, MoneyStands
<1>3. ASSUME NEW i \in Intents, CreatePaymentIntent(i)
      PROVE  UNCHANGED <<req, payments, callbacks>> /\ MoneyStands
  BY <1>3 DEF CreatePaymentIntent, history, MoneyStands
<1>4. CASE UNCHANGED vars BY <1>4 DEF vars, history, MoneyStands
<1> QED BY <1>1, <1>2, <1>3, <1>4 DEF Elsewhere

Quiet(q) ==
  /\ \A p \in Requests \ {q} : req'[p] = req[p]
  /\ req'[q].pc # "sync"
  /\ UNCHANGED <<payments, callbacks, order>> /\ MoneyStands
  /\ req'[q].pc = "write" /\ req'[q].op = "query"
       => push[req'[q].ref] = "paid" \/ req'[q].ref \in invented'
  /\ req'[q].pc = "write" /\ req'[q].op = "refund"
       => payments[req'[q].payment].status = "COMPLETED"

LEMMA QuietFrame ==
  ASSUME TypeInv, NEW q \in Requests, QuietStep(q)
  PROVE  Quiet(q)
<1>1. ASSUME NEW i \in Intents, ReadForCancel(q, i) \/ ReadForProcess(q, i) \/ ReadForQuery(q, i)
      PROVE  Quiet(q)
  <2>1. PICK op \in {"cancel", "process", "query"}, pc \in {"push", "write", "ask"} : Reads(q, op, i, pc)
    BY <1>1, ReadsCases
  <2>2. /\ \A p \in Requests \ {q} : req'[p] = req[p]
        /\ req'[q].pc = pc /\ req'[q].op = op
        /\ contended' = contended \cup (IF Busy(i, q) THEN {i} ELSE {})
        /\ UNCHANGED <<intent, payments, order, callbacks, push, orphans, dropped, invented>>
    <3>1. Read(q, op, i, pc) BY <2>1 DEF Reads
    <3> QED BY <3>1, ReadFrame
  <2>3. pc = "ask" <=> op = "query" BY <2>1 DEF Reads
  <2>4. MoneyStands BY <2>2 DEF MoneyStands
  <2> QED BY <2>2, <2>3, <2>4 DEF Quiet
<1>2. ASSUME NEW r \in Refs, ReadCallback(q, r) PROVE Quiet(q)
  <2>1. MoneyStands BY <1>2, ReadCallbackFrame DEF MoneyStands
  <2> QED BY <1>2, <2>1, ReadCallbackFrame DEF Quiet
<1>3. ASSUME NEW k \in 1..Len(payments), ReadForRefund(q, k) PROVE Quiet(q)
  <2>1. MoneyStands BY <1>3, ReadForRefundFrame DEF MoneyStands
  <2> QED BY <1>3, <2>1, ReadForRefundFrame DEF Quiet
<1>4. ASSUME CancelPaymentIntent(q) \/ MarkRefused(q) \/ MarkProcessing(q) \/ RefuseCallback(q) \/ Fail(q)
      PROVE  Quiet(q)
  <2>1. End(q)
    BY <1>4 DEF CancelPaymentIntent, MarkRefused, MarkProcessing, RefuseCallback, Fail, SetStatus
  <2>2. UNCHANGED <<payments, callbacks, order, push, invented, contended>>
    BY <1>4 DEF CancelPaymentIntent, MarkRefused, MarkProcessing, RefuseCallback, Fail, history
  <2> QED BY <2>1, <2>2, EndFrame DEF Quiet, MoneyStands
<1>5. CASE InitiateStkPush(q)
  <2>1. MoneyStands BY <1>5, PushFrame DEF MoneyStands, history
  <2> QED BY <1>5, <2>1, PushFrame DEF Quiet
<1>6. CASE QueryStkStatus(q)
  <2>1. MoneyStands BY <1>6, QueryFrame DEF MoneyStands
  <2>2. req'[q].pc # "sync" /\ req'[q].op # "refund" BY <1>6, QueryFrame DEF Idle
  <2>3. req'[q].pc = "write" => push[req'[q].ref] = "paid" \/ req'[q].ref \in invented'
    BY <1>6, QueryFrame DEF Idle
  <2> QED BY <1>6, <2>1, <2>2, <2>3, QueryFrame DEF Quiet
<1> QED BY <1>1, <1>2, <1>3, <1>4, <1>5, <1>6 DEF QuietStep

LEMMA RecordFrame ==
  ASSUME TypeInv, NEW q \in Requests, RecordCallback(q)
  PROVE  /\ \A p \in Requests \ {q} : req'[p] = req[p]
         /\ At(q, "write") /\ req[q].op = "callback" /\ Inserts(q) /\ req'[q] = Idle
         /\ callbacks' = callbacks \cup {req[q].ref}
         /\ UNCHANGED <<payments, order, push, dropped, invented, contended>>
<1>1. End(q) BY DEF RecordCallback, SetStatus
<1> QED BY <1>1, EndFrame DEF RecordCallback

-----------------------------------------------------------------------------
(* One settlement per callback.                                            *)

LEMMA CallbackStep ==
  ASSUME TypeInv, CallbackInv, [Next]_vars
  PROVE  CallbackInv'
<1>0. Len(payments) \in Nat BY DEF TypeInv, TypeOK
<1>1. CASE Elsewhere
  BY <1>1, ElsewhereFrame DEF CallbackInv, OneSettlementPerCallback, Settling, At
<1>2. ASSUME NEW q \in Requests, QuietStep(q) PROVE CallbackInv'
  <2>1. Quiet(q) BY <1>2, QuietFrame
  <2> QED BY <2>1 DEF Quiet, CallbackInv, OneSettlementPerCallback, Settling, At
<1>3. ASSUME NEW q \in Requests, RecordCallback(q) PROVE CallbackInv'
  <2>1. \A p \in Requests : Settling(p)' => p # q /\ Settling(p) /\ req'[p] = req[p]
    BY <1>3, RecordFrame DEF Settling, At, Idle
  <2>2. \A p \in Requests : Settling(p) /\ req[p].op = "callback" => req[p].ref # req[q].ref
    BY <1>3, RecordFrame DEF Inserts, CallbackLocked
  <2> QED BY <1>3, <2>1, <2>2, RecordFrame DEF CallbackInv, OneSettlementPerCallback
<1>4. ASSUME NEW q \in Requests, Settle(q) PROVE CallbackInv'
  <2>1. /\ UNCHANGED <<payments, callbacks>>
        /\ \A p \in Requests \ {q} : req'[p] = req[p]
        /\ req'[q].op = req[q].op /\ req'[q].ref = req[q].ref
        /\ req[q].op = "callback" => Inserts(q)
    BY <1>4, SettleFrame
  <2>2. req[q].op = "callback" =>
          /\ req[q].ref \notin callbacks
          /\ \A p \in Requests : Settling(p) /\ req[p].op = "callback" => req[p].ref # req[q].ref
    BY <2>1 DEF Inserts, CallbackLocked
  <2> QED BY <2>1, <2>2 DEF CallbackInv, OneSettlementPerCallback, Settling, At
<1>5. ASSUME NEW q \in Requests, CommitSettlement(q) PROVE CallbackInv'
  <2> DEFINE n == Len(payments)
  <2>1. /\ Len(payments') = n + 1
        /\ \A k \in 1..n : payments'[k] = payments[k]
        /\ payments'[n + 1].by = req[q].op /\ payments'[n + 1].ref = req[q].ref
    <3>1. payments'[n + 1] = [intent |-> req[q].intent, ref |-> req[q].ref, by |-> req[q].op,
                              status |-> "COMPLETED", back |-> 0]
      BY <1>5, CommitEffect
    <3>2. payments'[n + 1].by = req[q].op /\ payments'[n + 1].ref = req[q].ref BY <3>1
    <3> QED BY <1>5, <3>2, CommitEffect
  <2>2. \A p \in Requests : Settling(p)' => p # q /\ Settling(p) /\ req'[p] = req[p]
    BY <1>5, EndFrame DEF CommitSettlement, Settling, At
  <2>3. /\ Settling(q)
        /\ callbacks' = callbacks \cup (IF req[q].op = "callback" THEN {req[q].ref} ELSE {})
    BY <1>5 DEF CommitSettlement
  <2>4. \A k \in 1..n : payments[k].by = "callback" /\ req[q].op = "callback"
                          => payments[k].ref # req[q].ref
    BY <2>3 DEF CallbackInv
  <2>5. \A k \in 1..(n + 1) : k \in 1..n \/ k = n + 1 BY <1>0
  <2>6. (\A k \in 1..Len(payments) : payments[k].by = "callback" => payments[k].ref \in callbacks)'
    BY <2>1, <2>3, <2>5 DEF CallbackInv
  <2>7. OneSettlementPerCallback'
    BY <2>1, <2>4, <2>5 DEF CallbackInv, OneSettlementPerCallback
  <2>8. \A p \in Requests : Settling(p)' /\ req'[p].op = "callback" => req'[p].ref \notin callbacks'
    BY <2>2, <2>3 DEF CallbackInv
  <2>9. \A p, r \in Requests :
          Settling(p)' /\ Settling(r)' /\ req'[p].op = "callback" /\ req'[r].op = "callback"
              /\ req'[p].ref = req'[r].ref
            => p = r
    BY <2>2 DEF CallbackInv
  <2> QED BY <2>6, <2>7, <2>8, <2>9 DEF CallbackInv
<1>6. ASSUME NEW q \in Requests, RefundPayment(q) PROVE CallbackInv'
  <2>1. /\ Len(payments') = Len(payments)
        /\ \A k \in 1..Len(payments) :
             payments'[k].by = payments[k].by /\ payments'[k].ref = payments[k].ref
    BY <1>6, RefundEffect
  <2>2. \A p \in Requests : Settling(p)' => Settling(p) /\ req'[p] = req[p]
    BY <1>6, EndFrame DEF RefundPayment, SetStatus, Settling, At
  <2>3. UNCHANGED callbacks BY <1>6 DEF RefundPayment
  <2> QED BY <2>1, <2>2, <2>3 DEF CallbackInv, OneSettlementPerCallback
<1> QED BY <1>1, <1>2, <1>3, <1>4, <1>5, <1>6, StepKinds

\* The payment a commit appends, field by field.
LEMMA CommitAppends ==
  ASSUME TypeInv, NEW q \in Requests, CommitSettlement(q)
  PROVE  /\ Settling(q) /\ req[q].intent \in Intents /\ OrderOf[req[q].intent] \in Orders
         /\ Len(payments) \in Nat /\ Len(payments') = Len(payments) + 1
         /\ \A k \in 1..Len(payments) : payments'[k] = payments[k]
         /\ payments'[Len(payments) + 1].intent = req[q].intent
         /\ payments'[Len(payments) + 1].ref = req[q].ref
         /\ payments'[Len(payments) + 1].by = req[q].op
         /\ payments'[Len(payments) + 1].status = "COMPLETED"
         /\ payments'[Len(payments) + 1].back = 0
         /\ \A k \in 1..Len(payments') : k \in 1..Len(payments) \/ k = Len(payments) + 1
         /\ req'[q] = Idle /\ \A p \in Requests \ {q} : req'[p] = req[p]
<1>1. payments'[Len(payments) + 1] = [intent |-> req[q].intent, ref |-> req[q].ref, by |-> req[q].op,
                                      status |-> "COMPLETED", back |-> 0]
  BY CommitEffect
<1>2. /\ payments'[Len(payments) + 1].intent = req[q].intent
      /\ payments'[Len(payments) + 1].ref = req[q].ref
      /\ payments'[Len(payments) + 1].by = req[q].op
      /\ payments'[Len(payments) + 1].status = "COMPLETED"
      /\ payments'[Len(payments) + 1].back = 0
  BY <1>1
<1>3. /\ req[q].intent \in Intents /\ OrderOf[req[q].intent] \in Orders
      /\ Len(payments) \in Nat /\ Len(payments') = Len(payments) + 1
      /\ \A k \in 1..Len(payments) : payments'[k] = payments[k]
  BY CommitEffect
<1>4. \A k \in 1..Len(payments') : k \in 1..Len(payments) \/ k = Len(payments) + 1
  BY <1>3
<1>5. Settling(q) /\ End(q) BY DEF CommitSettlement
<1> QED BY <1>2, <1>3, <1>4, <1>5, EndFrame

-----------------------------------------------------------------------------
(* What is credited was charged.                                           *)

LEMMA CreditStep ==
  ASSUME TypeInv, TypeInv', CreditInv, [Next]_vars
  PROVE  CreditInv'
<1> DEFINE Paid(r) == push[r] = "paid"
<1>0. /\ \A p \in Requests : /\ req[p].pc \in {"write", "sync"} /\ req[p].op \in {"callback", "query"}
                                  => req[p].ref \in Refs
      /\ Len(payments) \in Nat
  BY DEF TypeInv, TypeOK, Chosen
<1>1. ASSUME MoneyStands, UNCHANGED payments PROVE CreditedWasCharged'
  BY <1>1 DEF MoneyStands, CreditInv, CreditedWasCharged
<1>2. ASSUME NEW p \in Requests, MoneyStands, req'[p] = req[p]
      PROVE  /\ req'[p].pc \in {"write", "sync"} /\ req'[p].op = "query"
                  => push'[req'[p].ref] = "paid" \/ req'[p].ref \in invented'
             /\ Settling(p)' /\ req'[p].op = "callback" => push'[req'[p].ref] = "paid"
  BY <1>0, <1>2 DEF MoneyStands, CreditInv, Settling, At
<1>3. CASE Elsewhere
  BY <1>1, <1>2, <1>3, ElsewhereFrame DEF CreditInv
<1>4. ASSUME NEW q \in Requests, QuietStep(q) PROVE CreditInv'
  <2>1. Quiet(q) BY <1>4, QuietFrame
  <2>2. req'[q].pc = "write" /\ req'[q].op = "query" => req'[q].ref \in Refs
    BY DEF TypeInv, Chosen
  <2>3. /\ req'[q].pc \in {"write", "sync"} /\ req'[q].op = "query"
             => push'[req'[q].ref] = "paid" \/ req'[q].ref \in invented'
        /\ ~Settling(q)'
    BY <2>1, <2>2 DEF Quiet, MoneyStands, Settling, At
  <2> QED BY <1>1, <1>2, <2>1, <2>3 DEF Quiet, CreditInv
<1>5. ASSUME NEW q \in Requests, RecordCallback(q) PROVE CreditInv'
  <2>1. MoneyStands /\ UNCHANGED payments BY <1>5, RecordFrame DEF MoneyStands
  <2>2. req'[q].op = "none" BY <1>5, RecordFrame DEF Idle
  <2> QED BY <1>1, <1>2, <1>5, <2>1, <2>2, RecordFrame DEF CreditInv
<1>6. ASSUME NEW q \in Requests, Settle(q) PROVE CreditInv'
  <2>1. /\ MoneyStands /\ UNCHANGED <<payments, push, invented>>
        /\ \A p \in Requests \ {q} : req'[p] = req[p]
    BY <1>6, SettleFrame DEF MoneyStands, ContendOrder
  <2>2. /\ req'[q].op = req[q].op /\ req'[q].ref = req[q].ref /\ req[q].pc = "write"
        /\ req[q].op = "callback" => push[req[q].ref] = "paid"
    BY <1>6, SettleFrame DEF At
  <2>3. /\ req'[q].op = "query" => push'[req'[q].ref] = "paid" \/ req'[q].ref \in invented'
        /\ req'[q].op = "callback" => push'[req'[q].ref] = "paid"
    BY <2>1, <2>2 DEF CreditInv
  <2> QED BY <1>1, <1>2, <2>1, <2>3 DEF CreditInv
<1>7. ASSUME NEW q \in Requests, CommitSettlement(q) PROVE CreditInv'
  <2>1. MoneyStands /\ UNCHANGED <<push, invented>>
    BY <1>7 DEF CommitSettlement, history, MoneyStands
  <2>2. /\ req[q].pc = "sync" /\ req[q].op \in {"process", "callback", "query"}
        /\ req[q].op = "process" => req[q].intent \notin MpesaIntents
    BY <1>7 DEF CommitSettlement, Settling, At, TypeInv, Chosen
  <2>3. req[q].op # "process" =>
          req[q].ref \in Refs /\ (push[req[q].ref] = "paid" \/ req[q].ref \in invented)
    BY <1>0, <2>2 DEF CreditInv, Settling, At
  <2>4. CreditedWasCharged'
    <3> SUFFICES ASSUME NEW k \in 1..Len(payments'), payments'[k].intent \in MpesaIntents
                 PROVE  \/ payments'[k].ref \in invented'
                        \/ payments'[k].ref \in Refs /\ push'[payments'[k].ref] = "paid"
      BY DEF CreditedWasCharged
    <3>1. CASE k \in 1..Len(payments)
      BY <1>7, <2>1, <3>1, CommitAppends DEF CreditInv, CreditedWasCharged
    <3>2. CASE k = Len(payments) + 1
      BY <1>7, <2>1, <2>2, <2>3, <3>2, CommitAppends
    <3> QED BY <1>7, <3>1, <3>2, CommitAppends
  <2>5. req'[q].op = "none" BY <1>7, CommitAppends DEF Idle
  <2> QED BY <1>2, <1>7, <2>1, <2>4, <2>5, CommitAppends DEF CreditInv
<1>8. ASSUME NEW q \in Requests, RefundPayment(q) PROVE CreditInv'
  <2>1. MoneyStands /\ UNCHANGED <<push, invented>>
    BY <1>8 DEF RefundPayment, ContendOrder, MoneyStands
  <2>2. /\ Len(payments') = Len(payments)
        /\ \A k \in 1..Len(payments) :
             payments'[k].intent = payments[k].intent /\ payments'[k].ref = payments[k].ref
    BY <1>8, RefundEffect
  <2>3. CreditedWasCharged' BY <2>1, <2>2 DEF CreditInv, CreditedWasCharged
  <2>4. req'[q].op = "none" /\ \A p \in Requests \ {q} : req'[p] = req[p]
    BY <1>8, EndFrame DEF RefundPayment, SetStatus
  <2> QED BY <1>2, <2>1, <2>3, <2>4 DEF CreditInv
<1> QED BY <1>3, <1>4, <1>5, <1>6, <1>7, <1>8, StepKinds

-----------------------------------------------------------------------------
(* The order a settlement read.                                            *)

LEMMA WasStep ==
  ASSUME TypeInv, Overlaps, WasInv, [Next]_vars
  PROVE  WasInv'
<1>1. ASSUME NEW p \in Requests, req'[p] = req[p], UNCHANGED order, contended \subseteq contended'
      PROVE  Settling(p)' /\ OrderOf[req'[p].intent] \notin contended'
               => req'[p].was = order'[OrderOf[req'[p].intent]].status
  BY <1>1 DEF WasInv, Settling, At
<1>2. CASE Elsewhere
  <2>1. ASSUME NEW o \in Orders, NEW to \in StaffTargets, TransitionOrder(o, to) PROVE WasInv'
    <3>1. \A p \in Requests : Settling(p) /\ OrderOf[req[p].intent] \notin contended'
                                => OrderOf[req[p].intent] # o
      BY <2>1 DEF TransitionOrder
    <3>2. /\ UNCHANGED req /\ contended \subseteq contended'
          /\ \A v \in Orders : v # o => order'[v] = order[v]
      BY <2>1 DEF TransitionOrder, TypeInv, TypeOK
    <3>3. \A p \in Requests : Settling(p) => OrderOf[req[p].intent] \in Orders
      BY PaymentsAssumption DEF Settling, At, TypeInv, Chosen
    <3> QED BY <3>1, <3>2, <3>3 DEF WasInv, Settling, At
  <2>2. ASSUME UNCHANGED order PROVE WasInv'
    BY <1>1, <1>2, <2>2, ElsewhereFrame DEF WasInv, MoneyStands
  <2> QED BY <1>2, <2>1, <2>2 DEF Elsewhere, CreatePaymentIntent, AnswerPrompt, vars
<1>3. ASSUME NEW q \in Requests, QuietStep(q) PROVE WasInv'
  <2>1. Quiet(q) BY <1>3, QuietFrame
  <2> QED BY <1>1, <2>1 DEF Quiet, MoneyStands, WasInv, Settling, At
<1>4. ASSUME NEW q \in Requests, RecordCallback(q) PROVE WasInv'
  BY <1>1, <1>4, RecordFrame DEF WasInv, Settling, At, Idle
<1>5. ASSUME NEW q \in Requests, Settle(q) PROVE WasInv'
  <2>1. /\ UNCHANGED order /\ contended \subseteq contended'
        /\ \A p \in Requests \ {q} : req'[p] = req[p]
        /\ req'[q].intent = req[q].intent /\ req'[q].was = order[OrderOf[req[q].intent]].status
    BY <1>5, SettleFrame DEF ContendOrder
  <2> QED BY <1>1, <2>1 DEF WasInv
<1>6. ASSUME NEW q \in Requests, CommitSettlement(q) PROVE WasInv'
  <2> DEFINE o == OrderOf[req[q].intent]
  <2>1. /\ UNCHANGED contended /\ order' = [order EXCEPT ![o] = Synced(o, q)]
    BY <1>6 DEF CommitSettlement, history
  <2>2. \A v \in Orders : v # o => order'[v] = order[v] BY <2>1 DEF TypeInv, TypeOK
  <2>3. \A p \in Requests : p # q /\ Settling(p) /\ OrderOf[req[p].intent] \notin contended
                              => OrderOf[req[p].intent] # o
    BY <1>6, CommitAppends, AloneOnOrder
  <2>4. \A p \in Requests : Settling(p) => OrderOf[req[p].intent] \in Orders
    BY PaymentsAssumption DEF Settling, At, TypeInv, Chosen
  <2>5. \A p \in Requests : Settling(p)' => p # q /\ Settling(p) /\ req'[p] = req[p]
    BY <1>6, CommitAppends DEF Settling, At, Idle
  <2> QED BY <2>1, <2>2, <2>3, <2>4, <2>5 DEF WasInv
<1>7. ASSUME NEW q \in Requests, RefundPayment(q) PROVE WasInv'
  <2>1. /\ UNCHANGED order /\ contended \subseteq contended'
        /\ req'[q].pc = "idle" /\ \A p \in Requests \ {q} : req'[p] = req[p]
    BY <1>7, EndFrame DEF RefundPayment, SetStatus, ContendOrder
  <2> QED BY <1>1, <2>1 DEF WasInv, Settling, At
<1> QED BY <1>2, <1>3, <1>4, <1>5, <1>6, <1>7, StepKinds

\* A settlement moves its order from CONFIRMED to PAID or not at all.
LEMMA MovesConfirmedStep ==
  ASSUME TypeInv, WasInv, [Next]_vars, NEW o \in Orders \ contended,
         payments' # payments, order'[o].status # order[o].status
  PROVE  order[o].status = "CONFIRMED" /\ order'[o].status = "PAID"
<1>0. order \in [Orders -> [status : ORDER_STATUSES, payment : {"UNPAID", "PARTIAL", "PAID"}]]
  BY DEF TypeInv, TypeOK
<1>1. ~Elsewhere BY ElsewhereFrame
<1>2. \A q \in Requests : ~QuietStep(q) BY QuietFrame DEF Quiet
<1>3. \A q \in Requests : ~RecordCallback(q) /\ ~Settle(q) /\ ~RefundPayment(q)
  BY RecordFrame, SettleFrame DEF RefundPayment
<1>4. PICK q \in Requests : CommitSettlement(q) BY <1>1, <1>2, <1>3, StepKinds
<1> DEFINE v == OrderOf[req[q].intent]
<1>5. order' = [order EXCEPT ![v] = Synced(v, q)] /\ Settling(q) BY <1>4 DEF CommitSettlement
<1>6. v = o BY <1>0, <1>5
<1>7. order'[o] = Synced(o, q) /\ req[q].was = order[o].status
  BY <1>0, <1>5, <1>6 DEF WasInv
<1> QED BY <1>0, <1>7 DEF Synced

-----------------------------------------------------------------------------
(* Refunds.                                                                *)

LEMMA RefundStep ==
  ASSUME TypeInv, TypeInv', Overlaps, RefundInv, [Next]_vars
  PROVE  RefundInv'
<1>1. ASSUME UNCHANGED payments, contended \subseteq contended' PROVE RefundsWithinPayment'
  BY <1>1 DEF RefundInv, RefundsWithinPayment
<1>2. ASSUME UNCHANGED payments, contended \subseteq contended', NEW q \in Requests,
             \A p \in Requests \ {q} : req'[p] = req[p],
             req'[q].pc = "write" /\ req'[q].op = "refund"
               => payments[req'[q].payment].status = "COMPLETED"
      PROVE  RefundInv'
  BY <1>1, <1>2 DEF RefundInv, At
<1>3. CASE Elsewhere
  BY <1>1, <1>3, ElsewhereFrame DEF RefundInv, At, MoneyStands
<1>4. ASSUME NEW q \in Requests, QuietStep(q) PROVE RefundInv'
  <2>1. Quiet(q) BY <1>4, QuietFrame
  <2> QED BY <1>2, <2>1 DEF Quiet, MoneyStands
<1>5. ASSUME NEW q \in Requests, RecordCallback(q) PROVE RefundInv'
  <2>1. req'[q].pc = "idle" BY <1>5, RecordFrame DEF Idle
  <2> QED BY <1>2, <1>5, <2>1, RecordFrame
<1>6. ASSUME NEW q \in Requests, Settle(q) PROVE RefundInv'
  <2>1. contended \subseteq contended' BY <1>6 DEF Settle, ContendOrder
  <2> QED BY <1>2, <1>6, <2>1, SettleFrame
<1>7. ASSUME NEW q \in Requests, CommitSettlement(q) PROVE RefundInv'
  <2> DEFINE n == Len(payments)
  <2>1. UNCHANGED contended BY <1>7 DEF CommitSettlement, history
  <2>2. req'[q].pc = "idle" BY <1>7, CommitAppends DEF Idle
  <2>3. \A k \in 1..Len(payments') : payments'[k].status = "COMPLETED" => payments'[k].back = 0
    BY <1>7, CommitAppends DEF RefundInv
  <2>4. RefundsWithinPayment'
    <3>1. Amount[req[q].intent] \in Nat BY <1>7, CommitAppends, PaymentsAssumption
    <3> QED BY <1>7, <2>1, <3>1, CommitAppends DEF RefundInv, RefundsWithinPayment
  <2>5. \A p \in Requests : At(p, "write")' /\ req'[p].op = "refund"
                              => /\ At(p, "write") /\ req'[p] = req[p]
                                 /\ payments'[req[p].payment] = payments[req[p].payment]
    BY <1>7, <2>2, CommitAppends DEF At, TypeInv, RefundChosen
  <2> QED BY <2>1, <2>3, <2>4, <2>5 DEF RefundInv
<1>8. ASSUME NEW q \in Requests, RefundPayment(q) PROVE RefundInv'
  <2> DEFINE k == req[q].payment
             i == req[q].intent
  <2>1. /\ At(q, "write") /\ req[q].op = "refund" /\ contended \subseteq contended'
        /\ req'[q].pc = "idle" /\ \A p \in Requests \ {q} : req'[p] = req[p]
    BY <1>8, EndFrame DEF RefundPayment, SetStatus, ContendOrder
  <2>2. /\ i \in Intents /\ k \in 1..Len(payments) /\ payments[k].intent = i
        /\ Len(payments') = Len(payments)
        /\ \A j \in 1..Len(payments) : j # k => payments'[j] = payments[j]
        /\ payments'[k].intent = i /\ payments'[k].status = "REFUNDED"
    BY <1>8, RefundEffect
  <2>3. PICK n \in 1..Amount[i] : payments'[k].back = payments[k].back + n
    BY <1>8, RefundEffect
  <2>4. \A j \in 1..Len(payments') : payments'[j].status = "COMPLETED" => payments'[j].back = 0
    BY <2>2 DEF RefundInv
  <2>5. RefundsWithinPayment'
    <3>1. ASSUME i \notin contended' PROVE payments'[k].back <= Amount[i]
      <4>1. payments[k].back = 0 BY <2>1, <2>2, <3>1 DEF RefundInv
      <4>2. Amount[i] \in Nat BY <2>2, PaymentsAssumption
      <4> QED BY <2>3, <4>1, <4>2
    <3> QED BY <2>1, <2>2, <3>1 DEF RefundInv, RefundsWithinPayment
  <2>6. ASSUME NEW p \in Requests, At(p, "write")', req'[p].op = "refund", req'[p].intent \notin contended'
        PROVE  payments'[req'[p].payment].status = "COMPLETED"
    <3>1. /\ p # q /\ At(p, "write") /\ req'[p] = req[p] /\ req[p].op = "refund"
          /\ req[p].intent \notin contended
      BY <2>1, <2>6 DEF At
    <3>2. payments[req[p].payment].status = "COMPLETED" BY <3>1 DEF RefundInv
    <3>3. req[p].payment \in 1..Len(payments) /\ payments[req[p].payment].intent = req[p].intent
      BY <3>1 DEF TypeInv, RefundChosen
    <3>4. req[p].payment # k
      <4>1. req[p].intent # i \/ i \in contended
        BY <2>1, <2>2, <3>1, AloneOnIntent DEF At
      <4> QED BY <2>2, <3>1, <3>3, <4>1
    <3> QED BY <2>2, <3>1, <3>2, <3>3, <3>4
  <2> QED BY <2>4, <2>5, <2>6 DEF RefundInv
<1> QED BY <1>3, <1>4, <1>5, <1>6, <1>7, <1>8, StepKinds

-----------------------------------------------------------------------------
(* An intent is SUCCESS when and only when a payment of it stands.          *)

\* Every step but a settlement and a refund leaves alone which intents are SUCCESS.
LEMMA DoneStays ==
  ASSUME TypeInv, SuccessInv, [Next]_vars,
         \A q \in Requests : ~CommitSettlement(q) /\ ~RefundPayment(q),
         NEW i \in Intents \ contended
  PROVE  UNCHANGED payments /\ (Done(i)' <=> Done(i))
<1>0. intent \in [Intents -> [status : PAYMENT_STATUSES \cup {"NONE"}, ref : Refs \cup {NoRef}]]
  BY DEF TypeInv, TypeOK
<1>1. UNCHANGED payments
  BY StepKinds, ElsewhereFrame, QuietFrame, RecordFrame, SettleFrame DEF Quiet
<1>2. CASE UNCHANGED intent BY <1>1, <1>2 DEF Done
<1>3. ASSUME NEW j \in Intents, CreatePaymentIntent(j) PROVE Done(i)' <=> Done(i)
  BY <1>0, <1>3 DEF CreatePaymentIntent, Done
<1>4. ASSUME NEW q \in Requests, NEW status \in {"CANCELLED", "FAILED"}, SetStatus(q, req[q].intent, status),
             ~At(q, "idle"), req[q].op \in {"cancel", "process"}
      PROVE  Done(i)' <=> Done(i)
  <2>1. intent' = [intent EXCEPT ![req[q].intent].status = status] BY <1>4 DEF SetStatus
  <2>2. req[q].intent = i => ~Done(i) BY <1>4 DEF SuccessInv, Current, Done
  <2>3. Done(i)' => Done(i) BY <1>0, <1>4, <2>1 DEF Done
  <2>4. Done(i) => Done(i)' BY <1>0, <2>1, <2>2 DEF Done
  <2> QED BY <2>3, <2>4
<1>5. ASSUME NEW q \in Requests, CancelPaymentIntent(q) \/ MarkRefused(q) PROVE Done(i)' <=> Done(i)
  <2>1. ~At(q, "idle") /\ req[q].op \in {"cancel", "process"}
    BY <1>5 DEF CancelPaymentIntent, MarkRefused, TypeInv, Chosen, At
  <2> QED BY <1>4, <1>5, <2>1 DEF CancelPaymentIntent, MarkRefused
<1>6. ASSUME NEW q \in Requests, MarkProcessing(q) PROVE Done(i)' <=> Done(i)
  <2>1. ~At(q, "idle") /\ req[q].op = "process" BY <1>6 DEF MarkProcessing, TypeInv, Chosen, At
  <2> QED BY <1>0, <1>6, <2>1 DEF MarkProcessing, Done, SuccessInv, Current
<1>7. ASSUME NEW q \in Requests, RecordCallback(q) PROVE Done(i)' <=> Done(i)
  <2>1. CASE UNCHANGED intent BY <2>1 DEF Done
  <2>2. ASSUME NEW status \in {"FAILED", "TIMEOUT"}, SetStatus(q, req[q].intent, status),
               req[q].seen # "SUCCESS"
        PROVE  Done(i)' <=> Done(i)
    <3>1. ~At(q, "idle") /\ req[q].pc = "write" /\ req[q].op = "callback"
      BY <1>7 DEF RecordCallback, At
    <3> QED BY <1>0, <2>2, <3>1 DEF SetStatus, Done, SuccessInv, Current
  <2> QED BY <1>7, <2>1, <2>2 DEF RecordCallback
<1>8. UNCHANGED intent
        \/ (\E j \in Intents : CreatePaymentIntent(j))
        \/ \E q \in Requests : \/ CancelPaymentIntent(q) \/ MarkRefused(q)
                               \/ MarkProcessing(q) \/ RecordCallback(q)
  <2>1. ASSUME Elsewhere PROVE UNCHANGED intent \/ \E j \in Intents : CreatePaymentIntent(j)
    BY SMTT(40), <2>1 DEF Elsewhere, AnswerPrompt, TransitionOrder, vars
  <2>2. ASSUME NEW q \in Requests, QuietStep(q)
        PROVE  UNCHANGED intent \/ CancelPaymentIntent(q) \/ MarkRefused(q) \/ MarkProcessing(q)
    BY <2>2 DEF QuietStep, ReadForCancel, ReadForProcess, ReadForQuery, Read, ReadCallback,
                ReadForRefund, InitiateStkPush, RefuseCallback, QueryStkStatus, Fail
  <2>3. ASSUME NEW q \in Requests, Settle(q) PROVE UNCHANGED intent BY <2>3 DEF Settle
  <2> QED BY <2>1, <2>2, <2>3, StepKinds
<1> QED BY <1>1, <1>2, <1>3, <1>5, <1>6, <1>7, <1>8

\* What a request that has just moved reads of its intent.
LEMMA MovedIsCurrent ==
  ASSUME TypeInv, Overlaps, SuccessInv, [Next]_vars,
         \A q \in Requests : ~CommitSettlement(q) /\ ~RefundPayment(q),
         NEW p \in Requests, ~At(p, "idle")', req'[p].intent \in Intents \ contended'
  PROVE  Current(req[p])'
<1>i. PICK i \in Intents \ contended' : i = req'[p].intent OBVIOUS
<1>0. contended \subseteq contended' BY StepMoves DEF Moves
<1>1. UNCHANGED payments /\ (Done(i)' <=> Done(i)) BY <1>0, <1>i, DoneStays
<1>2. CASE req'[p] = req[p]
  <2>1. ~At(p, "idle") /\ req[p].intent = i /\ i \in Intents \ contended BY <1>0, <1>2, <1>i DEF At
  <2>2. Current(req[p]) BY <2>1 DEF SuccessInv
  <2> QED BY <1>1, <1>2, <1>i, <2>1, <2>2 DEF Current, Done
<1>3. ASSUME NEW j \in Intents, ReadForCancel(p, j) \/ ReadForProcess(p, j) \/ ReadForQuery(p, j)
      PROVE  Current(req[p])'
  <2>1. PICK op \in {"cancel", "process", "query"}, pc \in {"push", "write", "ask"} : Reads(p, op, j, pc)
    BY <1>3, ReadsCases
  <2>2. Read(p, op, j, pc) BY <2>1 DEF Reads
  <2>3. /\ req'[p].pc = pc /\ req'[p].op = op /\ req'[p].intent = j
        /\ op = "query" => req'[p].seen = intent[j].status
    BY <2>2, ReadFrame
  <2>4. /\ pc = "ask" <=> op = "query"
        /\ op \in {"cancel", "process"} => intent[j].status # "SUCCESS"
    BY <2>1 DEF Reads
  <2> QED BY <1>1, <1>i, <2>3, <2>4 DEF Current, Done
<1>4. ASSUME NEW r \in Refs, ReadCallback(p, r) PROVE Current(req[p])'
  <2>1. req'[p].pc = "write" /\ req'[p].op = "callback" /\ req'[p].seen = intent[i].status
    BY <1>4, <1>i, ReadCallbackFrame, PaymentsAssumption
  <2> QED BY <1>1, <1>i, <2>1 DEF Current, Done
<1>5. ASSUME NEW k \in 1..Len(payments), ReadForRefund(p, k) PROVE Current(req[p])'
  <2>1. req'[p].op = "refund" BY <1>5, ReadForRefundFrame
  <2> QED BY <2>1 DEF Current
<1>6. CASE InitiateStkPush(p)
  <2>1. /\ ~At(p, "idle") /\ req[p].op = "process" /\ req'[p].op = "process" /\ req[p].intent = i
    BY <1>6, <1>i, PushFrame DEF At
  <2>2. Current(req[p]) BY <1>0, <2>1 DEF SuccessInv
  <2> QED BY <1>1, <1>i, <2>1, <2>2 DEF Current, Done
<1>7. CASE QueryStkStatus(p)
  <2>1. /\ ~At(p, "idle") /\ req[p].pc = "ask" /\ req[p].op = "query" /\ req[p].intent = i
        /\ req[p].seen # "SUCCESS" /\ req'[p].pc = "write" /\ req'[p].op = "query"
    BY <1>7, <1>i, QueryFrame DEF At, Idle
  <2>2. Current(req[p]) BY <1>0, <2>1 DEF SuccessInv
  <2> QED BY <1>1, <1>i, <2>1, <2>2 DEF Current, Done
<1>8. CASE Settle(p)
  <2>1. /\ ~At(p, "idle") /\ req[p].pc = "write" /\ req[p].intent = i
        /\ req[p].op \in {"process", "callback", "query"}
        /\ req[p].op = "callback" => req[p].seen # "SUCCESS"
        /\ req'[p].pc = "sync" /\ req'[p].op = req[p].op
    BY <1>8, <1>i, SettleFrame DEF At
  <2>2. Current(req[p]) BY <1>0, <2>1 DEF SuccessInv
  <2> QED BY <1>1, <1>i, <2>1, <2>2 DEF Current, Done
<1>9. CASE req'[p] = Idle BY <1>9 DEF At, Idle
<1>10. \/ req'[p] = req[p] \/ req'[p] = Idle
       \/ \E j \in Intents : ReadForCancel(p, j) \/ ReadForProcess(p, j) \/ ReadForQuery(p, j)
       \/ \E r \in Refs : ReadCallback(p, r)
       \/ \E k \in 1..Len(payments) : ReadForRefund(p, k)
       \/ InitiateStkPush(p) \/ QueryStkStatus(p) \/ Settle(p)
  <2>1. ASSUME Elsewhere PROVE req'[p] = req[p] BY <2>1, ElsewhereFrame
  <2>2. ASSUME NEW q \in Requests, q # p,
               QuietStep(q) \/ RecordCallback(q) \/ Settle(q)
        PROVE  req'[p] = req[p]
    BY <2>2, QuietFrame, RecordFrame, SettleFrame DEF Quiet
  <2>3. ASSUME CancelPaymentIntent(p) \/ MarkRefused(p) \/ MarkProcessing(p) \/ RefuseCallback(p)
                 \/ Fail(p) \/ RecordCallback(p)
        PROVE  req'[p] = Idle
    <3>1. End(p)
      BY <2>3 DEF CancelPaymentIntent, MarkRefused, MarkProcessing, RefuseCallback, Fail,
                  RecordCallback, SetStatus
    <3> QED BY <3>1, EndFrame
  <2> QED BY <2>1, <2>2, <2>3, StepKinds DEF QuietStep
<1> QED BY <1>2, <1>3, <1>4, <1>5, <1>6, <1>7, <1>8, <1>9, <1>10

LEMMA SuccessStep ==
  ASSUME TypeInv, TypeInv', Overlaps, RefundInv, SuccessInv, [Next]_vars
  PROVE  SuccessInv'
<1> DEFINE Settled(i) == /\ Done(i) <=> Live(i) # {}
                         /\ \A j, k \in Live(i) : j = k
<1>0. \A i \in Intents \ contended : Settled(i) BY DEF SuccessInv, SuccessIsSettled, Done
<1>1. CASE \A q \in Requests : ~CommitSettlement(q) /\ ~RefundPayment(q)
  <2>1. contended \subseteq contended' BY StepMoves DEF Moves
  <2>2. ASSUME NEW i \in Intents \ contended' PROVE Settled(i)'
    <3>1. UNCHANGED payments /\ (Done(i)' <=> Done(i)) BY <1>1, <2>1, <2>2, DoneStays
    <3>2. Live(i)' = Live(i) BY <3>1 DEF Live
    <3> QED BY <1>0, <2>1, <2>2, <3>1, <3>2
  <2>3. SuccessIsSettled' BY <2>2 DEF SuccessIsSettled, Done
  <2> QED BY <1>1, <2>3, MovedIsCurrent DEF SuccessInv
<1>2. ASSUME NEW q \in Requests, CommitSettlement(q) PROVE SuccessInv'
  <2>i. PICK n, i : n = Len(payments) /\ i = req[q].intent OBVIOUS
  <2>1. /\ UNCHANGED contended /\ intent' = [intent EXCEPT ![i].status = "SUCCESS"]
    BY <1>2, <2>i DEF CommitSettlement, history
  <2>2. /\ i \in Intents /\ n \in Nat /\ Len(payments') = n + 1
        /\ \A k \in 1..n : payments'[k] = payments[k]
        /\ payments'[n + 1].intent = i /\ payments'[n + 1].status = "COMPLETED"
        /\ req'[q] = Idle /\ \A p \in Requests \ {q} : req'[p] = req[p]
        /\ ~At(q, "idle") /\ req[q].pc = "sync" /\ req[q].op \in {"process", "callback", "query"}
    BY <1>2, <2>i, CommitAppends DEF Settling, At, TypeInv, Chosen
  <2>3. \A j \in Intents : j # i => intent'[j] = intent[j]
    BY <2>1 DEF TypeInv, TypeOK
  <2>4. Done(i)' BY <2>1, <2>2 DEF Done, TypeInv, TypeOK
  <2>5. \A j \in Intents : j # i => Live(j)' = Live(j)
    <3>1. 1..(n + 1) = 1..n \cup {n + 1} BY <2>2, <2>i
    <3> QED BY <2>2, <2>i, <3>1 DEF Live
  <2>6. ASSUME i \notin contended PROVE Settled(i)'
    <3>1. ~Done(i) BY <2>2, <2>6, <2>i DEF SuccessInv, Current, Done
    <3>2. Live(i) = {} BY <1>0, <2>2, <2>6, <3>1
    <3>3. \A k \in 1..(n + 1) : k \in 1..n \/ k = n + 1 BY <2>2, <2>i
    <3>4. n + 1 \in 1..(n + 1) BY <2>2, <2>i
    <3>5. Live(i)' = {n + 1} BY <2>2, <3>2, <3>3, <3>4, <2>i DEF Live
    <3> QED BY <2>4, <3>5
  <2>7. SuccessIsSettled'
    <3>1. ASSUME NEW j \in Intents \ contended', j # i PROVE Settled(j)'
      BY <1>0, <2>1, <2>3, <2>5, <3>1 DEF Done
    <3> QED BY <2>1, <2>6, <3>1 DEF SuccessIsSettled, Done
  <2>8. ASSUME NEW p \in Requests, ~At(p, "idle")', req'[p].intent \in Intents \ contended'
        PROVE  Current(req[p])'
    <3>1. /\ p # q /\ req'[p] = req[p] /\ ~At(p, "idle") /\ req[p].intent \in Intents \ contended
      BY <2>1, <2>2, <2>8 DEF At, Idle
    <3>2. req[p].intent # i BY <2>2, <2>i, <3>1, AloneOnIntent
    <3>3. Current(req[p]) BY <3>1 DEF SuccessInv
    <3> QED BY <2>3, <3>1, <3>2, <3>3 DEF Current, Done
  <2> QED BY <2>7, <2>8 DEF SuccessInv
<1>3. ASSUME NEW q \in Requests, RefundPayment(q) PROVE SuccessInv'
  <2>i. PICK k, i : k = req[q].payment /\ i = req[q].intent OBVIOUS
  <2>1. /\ At(q, "write") /\ req[q].op = "refund" /\ contended \subseteq contended'
        /\ intent' = [intent EXCEPT ![i].status = "REFUNDED"]
        /\ req'[q] = Idle /\ \A p \in Requests \ {q} : req'[p] = req[p]
    BY <1>3, <2>i, EndFrame DEF RefundPayment, SetStatus, ContendOrder
  <2>2. /\ i \in Intents /\ k \in 1..Len(payments) /\ payments[k].intent = i
        /\ Len(payments') = Len(payments)
        /\ \A j \in 1..Len(payments) : j # k => payments'[j] = payments[j]
        /\ payments'[k].intent = i /\ payments'[k].status = "REFUNDED"
    BY <1>3, <2>i, RefundEffect
  <2>3. \A j \in Intents : j # i => intent'[j] = intent[j]
    BY <2>1 DEF TypeInv, TypeOK
  <2>4. ~Done(i)' BY <2>1, <2>2 DEF Done, TypeInv, TypeOK
  <2>5. \A j \in Intents : j # i => Live(j)' = Live(j) BY <2>2, <2>i DEF Live
  <2>6. ASSUME i \notin contended' PROVE Settled(i)'
    <3>1. payments[k].status = "COMPLETED" BY <2>1, <2>6, <2>i DEF RefundInv
    <3>2. k \in Live(i) BY <2>2, <2>i, <3>1 DEF Live
    <3>3. \A j \in Live(i) : j = k BY <1>0, <2>1, <2>2, <2>6, <3>2
    <3>4. Live(i)' = {} BY <2>2, <2>i, <3>3 DEF Live
    <3> QED BY <2>4, <3>4
  <2>7. SuccessIsSettled'
    <3>1. ASSUME NEW j \in Intents \ contended', j # i PROVE Settled(j)'
      BY <1>0, <2>1, <2>3, <2>5, <3>1 DEF Done
    <3> QED BY <2>1, <2>6, <3>1 DEF SuccessIsSettled, Done
  <2>8. ASSUME NEW p \in Requests, ~At(p, "idle")', req'[p].intent \in Intents \ contended'
        PROVE  Current(req[p])'
    <3>1. /\ p # q /\ req'[p] = req[p] /\ ~At(p, "idle") /\ req[p].intent \in Intents \ contended
      BY <2>1, <2>8 DEF At, Idle
    <3>2. req[p].intent # i BY <2>1, <2>2, <2>i, <3>1, AloneOnIntent DEF At
    <3>3. Current(req[p]) BY <3>1 DEF SuccessInv
    <3> QED BY <2>3, <3>1, <3>2, <3>3 DEF Current, Done
  <2> QED BY <2>7, <2>8 DEF SuccessInv
<1> QED BY <1>1, <1>2, <1>3

-----------------------------------------------------------------------------
(* What the payments of an order come to.  The sum is a recursive function *)
(* of the prefixes of the ledger; what is needed of it is compared prefix  *)
(* by prefix.                                                              *)

\* Induction over a set of numbers: the least number outside it has a
\* predecessor inside it.
LEMMA Induction ==
  ASSUME NEW S \in SUBSET Nat, 0 \in S, \A n \in S : n + 1 \in S
  PROVE  S = Nat
<1> SUFFICES ASSUME Nat \ S # {} PROVE FALSE OBVIOUS
<1>1. PICK n \in Nat \ S : \A m \in Nat \ S : ~(<<m, n>> \in OpToRel(<, Nat))
  BY WFMin, NatLessThanWellFounded, Zenon
<1>2. n # 0 OBVIOUS
<1>3. n - 1 \in Nat /\ n - 1 < n /\ (n - 1) + 1 = n BY <1>2
<1>4. <<n - 1, n>> \in OpToRel(<, Nat) BY <1>3, Zenon DEF OpToRel
<1>5. n - 1 \in S BY <1>1, <1>3, <1>4
<1> QED BY <1>3, <1>5

\* f[k] is the sum of the first k of the n weights w.
IsSum(f, w, n) == f = [k \in 0..n |-> IF k = 0 THEN 0 ELSE f[k - 1] + w[k]]

LEMMA SumUnfold ==
  ASSUME NEW n \in Nat, NEW w, NEW f
  PROVE  IsSum(f, w, n) <=>
           /\ f = [k \in 0..n |-> f[k]]
           /\ f[0] = 0 /\ \A k \in 0..n : k # 0 => f[k] = f[k - 1] + w[k]
<1>1. ASSUME IsSum(f, w, n)
      PROVE  /\ f = [k \in 0..n |-> f[k]]
             /\ f[0] = 0 /\ \A k \in 0..n : k # 0 => f[k] = f[k - 1] + w[k]
  BY <1>1 DEF IsSum
<1>2. ASSUME f = [k \in 0..n |-> f[k]],
             f[0] = 0, \A k \in 0..n : k # 0 => f[k] = f[k - 1] + w[k]
      PROVE  IsSum(f, w, n)
  BY <1>2 DEF IsSum
<1> QED BY <1>1, <1>2

LEMMA SumExists ==
  ASSUME NEW n \in Nat, NEW w \in [1..n -> Nat]
  PROVE  \E f \in [0..n -> Nat] : IsSum(f, w, n)
<1> DEFINE Good(m) == \E f \in [0..m -> Nat] :
                        f[0] = 0 /\ \A k \in 1..m : f[k] = f[k - 1] + w[k]
           S == {m \in Nat : m <= n => Good(m)}
<1>1. Good(0)
  <2> DEFINE f == [k \in 0..0 |-> 0]
  <2>1. f \in [0..0 -> Nat] OBVIOUS
  <2>2. f[0] = 0 /\ \A k \in 1..0 : f[k] = f[k - 1] + w[k] OBVIOUS
  <2> HIDE DEF f
  <2> QED BY <2>1, <2>2
<1>2. ASSUME NEW m \in Nat, m + 1 <= n, Good(m) PROVE Good(m + 1)
  <2>1. PICK f \in [0..m -> Nat] : f[0] = 0 /\ \A k \in 1..m : f[k] = f[k - 1] + w[k]
    BY <1>2
  <2>2. w[m + 1] \in Nat /\ f[m] \in Nat BY <1>2, <2>1
  <2> DEFINE g == [k \in 0..(m + 1) |-> IF k = m + 1 THEN f[m] + w[m + 1] ELSE f[k]]
  <2>3. /\ g[m + 1] = f[m] + w[m + 1]
        /\ \A k \in 0..m : g[k] = f[k]
    BY <1>2
  <2>4. g \in [0..(m + 1) -> Nat] BY <1>2, <2>2
  <2> HIDE DEF g
  <2>5. g[0] = 0 BY <2>1, <2>3
  <2>6. ASSUME NEW k \in 1..(m + 1) PROVE g[k] = g[k - 1] + w[k]
    <3>1. CASE k = m + 1 BY <2>3, <3>1
    <3>2. CASE k # m + 1
      <4>1. k \in 1..m /\ k \in 0..m /\ k - 1 \in 0..m BY <3>2
      <4> QED BY <2>1, <2>3, <4>1
    <3> QED BY <3>1, <3>2
  <2> QED BY <2>4, <2>5, <2>6
<1> HIDE DEF Good
<1>3. S = Nat
  <2>1. 0 \in S BY <1>1
  <2>2. ASSUME NEW m \in S PROVE m + 1 \in S
    <3>1. m \in Nat /\ m + 1 \in Nat /\ (m + 1 <= n => m <= n) OBVIOUS
    <3> QED BY <1>2, <3>1
  <2>3. S \in SUBSET Nat OBVIOUS
  <2> HIDE DEF S
  <2> QED BY <2>1, <2>2, <2>3, Induction
<1>4. Good(n) BY <1>3
<1>5. PICK f \in [0..n -> Nat] : f[0] = 0 /\ \A k \in 1..n : f[k] = f[k - 1] + w[k]
  BY <1>4 DEF Good
<1>6. IsSum(f, w, n)
  <2>1. \A k \in 0..n : k # 0 => k \in 1..n OBVIOUS
  <2> QED BY <1>5, <2>1, SumUnfold
<1> QED BY <1>6

\* f and g sum w and v at least up to l, where w is no greater than v.
Comparable(f, w, n, g, v, m, l) ==
  /\ n \in Nat /\ m \in Nat /\ l \in Nat /\ l <= n /\ l <= m
  /\ w \in [1..n -> Nat] /\ v \in [1..m -> Nat]
  /\ \A k \in 1..l : w[k] <= v[k]
  /\ IsSum(f, w, n) /\ IsSum(g, v, m)

\* Sums of weights that are no greater are no greater, as far as both go.
LEMMA SumsCompare ==
  ASSUME NEW f, NEW w, NEW n, NEW g, NEW v, NEW m, NEW l, Comparable(f, w, n, g, v, m, l)
  PROVE  \A k \in 0..l : f[k] \in Nat /\ g[k] \in Nat /\ f[k] <= g[k]
<1> USE DEF Comparable
<1> DEFINE S == {k \in Nat : k <= l => f[k] \in Nat /\ g[k] \in Nat /\ f[k] <= g[k]}
<1>1. f[0] = 0 /\ g[0] = 0 BY SumUnfold
<1>2. ASSUME NEW k \in Nat, k + 1 <= l, f[k] \in Nat, g[k] \in Nat, f[k] <= g[k]
      PROVE  f[k + 1] \in Nat /\ g[k + 1] \in Nat /\ f[k + 1] <= g[k + 1]
  <2>1. k + 1 \in 0..n /\ k + 1 \in 0..m /\ k + 1 # 0 /\ (k + 1) - 1 = k BY <1>2
  <2>2. f[k + 1] = f[k] + w[k + 1] /\ g[k + 1] = g[k] + v[k + 1] BY <2>1, SumUnfold
  <2>3. w[k + 1] \in Nat /\ v[k + 1] \in Nat /\ w[k + 1] <= v[k + 1] BY <1>2
  <2> QED BY SMTT(40), <1>2, <2>2, <2>3
<1>3. S = Nat
  <2>1. 0 \in S BY <1>1
  <2>2. ASSUME NEW k \in S PROVE k + 1 \in S
    <3>1. k \in Nat /\ k + 1 \in Nat /\ (k + 1 <= l => k <= l) OBVIOUS
    <3> QED BY <1>2, <3>1
  <2>3. S \in SUBSET Nat OBVIOUS
  <2> HIDE DEF S
  <2> QED BY <2>1, <2>2, <2>3, Induction
<1> QED BY <1>3

\* The weights of a ledger, and what they come to.
Weights(s, o, statuses) == [k \in 1..Len(s) |-> Credit(s[k], o, statuses)]

LEMMA WeightsTyped ==
  ASSUME NEW s \in Seq(PaymentRecords), NEW o, NEW statuses
  PROVE  Len(s) \in Nat /\ Weights(s, o, statuses) \in [1..Len(s) -> Nat]
<1>1. \A k \in 1..Len(s) : s[k] \in PaymentRecords OBVIOUS
<1>2. \A k \in 1..Len(s) : s[k].intent \in Intents BY <1>1 DEF PaymentRecords
<1>3. \A i \in Intents : Amount[i] \in Nat BY PaymentsAssumption
<1>4. \A k \in 1..Len(s) : Credit(s[k], o, statuses) \in Nat BY <1>2, <1>3 DEF Credit
<1> QED BY <1>4 DEF Weights

WorthIn(s, o, statuses) ==
  LET sum[n \in 0..Len(s)] ==
        IF n = 0 THEN 0 ELSE sum[n - 1] + Credit(s[n], o, statuses)
  IN sum[Len(s)]

LEMMA WorthIsSum ==
  ASSUME NEW s \in Seq(PaymentRecords), NEW o, NEW statuses
  PROVE  \E f : IsSum(f, Weights(s, o, statuses), Len(s)) /\ WorthIn(s, o, statuses) = f[Len(s)]
<1> DEFINE Is(f) == f = [n \in 0..Len(s) |-> IF n = 0 THEN 0
                                             ELSE f[n - 1] + Credit(s[n], o, statuses)]
           sum == CHOOSE f : Is(f)
<1>1. \A n \in 0..Len(s) : n # 0 => Weights(s, o, statuses)[n] = Credit(s[n], o, statuses)
  BY WeightsTyped DEF Weights
<1>2. ASSUME NEW f PROVE Is(f) <=> IsSum(f, Weights(s, o, statuses), Len(s))
  <2>1. [n \in 0..Len(s) |-> IF n = 0 THEN 0 ELSE f[n - 1] + Credit(s[n], o, statuses)]
          = [n \in 0..Len(s) |-> IF n = 0 THEN 0 ELSE f[n - 1] + Weights(s, o, statuses)[n]]
    BY <1>1
  <2> QED BY <2>1 DEF IsSum
<1>3. \E f : Is(f) BY <1>2, WeightsTyped, SumExists
<1>4. Is(sum) BY <1>3
<1>5. WorthIn(s, o, statuses) = sum[Len(s)] BY DEF WorthIn
<1> QED BY <1>2, <1>4, <1>5

LEMMA WorthCompare ==
  ASSUME NEW s \in Seq(PaymentRecords), NEW t \in Seq(PaymentRecords), Len(s) = Len(t),
         NEW o, NEW statuses, NEW others,
         \A k \in 1..Len(s) : Credit(s[k], o, statuses) <= Credit(t[k], o, others)
  PROVE  /\ WorthIn(s, o, statuses) \in Nat /\ WorthIn(t, o, others) \in Nat
         /\ WorthIn(s, o, statuses) <= WorthIn(t, o, others)
<1> DEFINE w == Weights(s, o, statuses)
           v == Weights(t, o, others)
<1>1. Len(s) \in Nat /\ w \in [1..Len(s) -> Nat] /\ v \in [1..Len(s) -> Nat] BY WeightsTyped
<1>2. \A k \in 1..Len(s) : w[k] <= v[k] BY DEF Weights
<1>3. PICK f : IsSum(f, w, Len(s)) /\ WorthIn(s, o, statuses) = f[Len(s)] BY WorthIsSum
<1>4. PICK g : IsSum(g, v, Len(s)) /\ WorthIn(t, o, others) = g[Len(s)] BY WorthIsSum
<1> HIDE DEF w, v
<1>5. Comparable(f, w, Len(s), g, v, Len(s), Len(s))
  BY <1>1, <1>2, <1>3, <1>4 DEF Comparable
<1>6. \A k \in 0..Len(s) : f[k] \in Nat /\ g[k] \in Nat /\ f[k] <= g[k]
  BY <1>5, SumsCompare
<1> QED BY <1>1, <1>3, <1>4, <1>6

LEMMA WorthAppend ==
  ASSUME NEW s \in Seq(PaymentRecords), NEW t \in Seq(PaymentRecords), Len(t) = Len(s) + 1,
         \A k \in 1..Len(s) : t[k] = s[k],
         NEW o, NEW statuses
  PROVE  /\ WorthIn(s, o, statuses) \in Nat
         /\ WorthIn(t, o, statuses) = WorthIn(s, o, statuses) + Credit(t[Len(t)], o, statuses)
<1> DEFINE n == Len(s)
           w == Weights(s, o, statuses)
           v == Weights(t, o, statuses)
<1>1. n \in Nat /\ n + 1 \in Nat /\ w \in [1..n -> Nat] /\ v \in [1..(n + 1) -> Nat]
  BY WeightsTyped
<1>2. \A k \in 1..n : w[k] = v[k] /\ w[k] \in Nat /\ k \in 1..(n + 1) BY <1>1 DEF Weights
<1>3. v[n + 1] = Credit(t[n + 1], o, statuses) BY <1>1 DEF Weights
<1>4. PICK f : IsSum(f, w, n) /\ WorthIn(s, o, statuses) = f[n] BY WorthIsSum
<1>5. PICK g : IsSum(g, v, n + 1) /\ WorthIn(t, o, statuses) = g[n + 1] BY WorthIsSum
<1> HIDE DEF n, w, v
<1>6. n <= n + 1 /\ \A k \in 1..n : w[k] <= v[k] /\ v[k] <= w[k] BY <1>1, <1>2
<1>7. \A k \in 0..n : f[k] \in Nat /\ g[k] \in Nat /\ f[k] <= g[k]
  <2>1. Comparable(f, w, n, g, v, n + 1, n) BY <1>1, <1>4, <1>5, <1>6 DEF Comparable
  <2> QED BY <2>1, SumsCompare
<1>8. \A k \in 0..n : g[k] <= f[k]
  <2>1. Comparable(g, v, n + 1, f, w, n, n) BY <1>1, <1>4, <1>5, <1>6 DEF Comparable
  <2> QED BY <2>1, SumsCompare
<1>9. n \in 0..n /\ f[n] = g[n] /\ f[n] \in Nat
  <2>1. n \in 0..n BY <1>1
  <2> QED BY <1>7, <1>8, <2>1
<1>10. g[n + 1] = g[n] + v[n + 1]
  <2>1. n + 1 \in 0..(n + 1) /\ n + 1 # 0 /\ (n + 1) - 1 = n BY <1>1
  <2> QED BY <1>1, <1>5, <2>1, SumUnfold
<1> QED BY <1>1, <1>3, <1>4, <1>5, <1>9, <1>10 DEF n

\* What a state's payments come to, a step that leaves them alone, a commit and
\* a refund.
LEMMA WorthTyped ==
  ASSUME TypeInv, NEW o, NEW statuses
  PROVE  Worth(o, statuses) \in Nat
<1>1. payments \in Seq(PaymentRecords) BY DEF TypeInv, TypeOK
<1>2. \A k \in 1..Len(payments) : Credit(payments[k], o, statuses) \in Nat
  BY <1>1, WeightsTyped DEF Weights
<1>3. \A k \in 1..Len(payments) : Credit(payments[k], o, statuses) <= Credit(payments[k], o, statuses)
  BY <1>2
<1>4. WorthIn(payments, o, statuses) \in Nat BY <1>1, <1>3, WorthCompare
<1> QED BY <1>4 DEF Worth, WorthIn

LEMMA StandingWasPaid ==
  ASSUME TypeInv, NEW o
  PROVE  /\ Worth(o, {"COMPLETED"}) \in Nat /\ Worth(o, {"COMPLETED", "REFUNDED"}) \in Nat
         /\ Worth(o, {"COMPLETED"}) <= Worth(o, {"COMPLETED", "REFUNDED"})
<1> DEFINE any == {"COMPLETED", "REFUNDED"}
           standing == {"COMPLETED"}
<1>1. payments \in Seq(PaymentRecords) BY DEF TypeInv, TypeOK
<1>2. \A k \in 1..Len(payments) : Amount[payments[k].intent] \in Nat
  <2>1. \A k \in 1..Len(payments) : payments[k] \in PaymentRecords BY <1>1
  <2> QED BY <2>1, PaymentsAssumption DEF PaymentRecords
<1>3. \A k \in 1..Len(payments) : Credit(payments[k], o, standing) <= Credit(payments[k], o, any)
  BY <1>2 DEF Credit
<1> HIDE DEF any, standing
<1>4. /\ WorthIn(payments, o, standing) <= WorthIn(payments, o, any)
      /\ WorthIn(payments, o, standing) \in Nat /\ WorthIn(payments, o, any) \in Nat
  BY <1>1, <1>3, WorthCompare
<1> QED BY <1>4 DEF Worth, WorthIn, any, standing

LEMMA WorthCommits ==
  ASSUME TypeInv, NEW q \in Requests, CommitSettlement(q), NEW o, NEW statuses, "COMPLETED" \in statuses
  PROVE  Worth(o, statuses)' = Worth(o, statuses)
                               + (IF OrderOf[req[q].intent] = o THEN Amount[req[q].intent] ELSE 0)
<1> DEFINE n == Len(payments)
<1>1. /\ payments \in Seq(PaymentRecords) /\ payments' \in Seq(PaymentRecords)
      /\ Len(payments') = n + 1 /\ \A k \in 1..n : payments'[k] = payments[k]
  BY CommitEffect DEF TypeInv, TypeOK
<1>2. WorthIn(payments', o, statuses)
        = WorthIn(payments, o, statuses) + Credit(payments'[n + 1], o, statuses)
  <2>1. PICK t : t = payments' OBVIOUS
  <2>2. WorthIn(t, o, statuses) = WorthIn(payments, o, statuses) + Credit(t[Len(t)], o, statuses)
    BY <1>1, <2>1, WorthAppend
  <2> QED BY <1>1, <2>1, <2>2
<1>3. /\ payments'[n + 1].intent = req[q].intent
      /\ payments'[n + 1].status = "COMPLETED"
  BY CommitAppends
<1>4. Credit(payments'[n + 1], o, statuses)
        = IF OrderOf[req[q].intent] = o THEN Amount[req[q].intent] ELSE 0
  BY <1>3 DEF Credit
<1>5. Worth(o, statuses)' = WorthIn(payments', o, statuses) /\ Worth(o, statuses) = WorthIn(payments, o, statuses)
  BY DEF Worth, WorthIn
<1> QED BY <1>2, <1>4, <1>5

\* A refund takes its payment out of the standing ones of its order, changes
\* nothing for the others, and leaves what was ever completed alone.
LEMMA WorthRefunds ==
  ASSUME TypeInv, NEW q \in Requests, RefundPayment(q), NEW o
  PROVE  /\ Worth(o, {"COMPLETED", "REFUNDED"})' = Worth(o, {"COMPLETED", "REFUNDED"})
         /\ Worth(o, {"COMPLETED"})' <= Worth(o, {"COMPLETED"})
         /\ OrderOf[req[q].intent] # o => Worth(o, {"COMPLETED"})' = Worth(o, {"COMPLETED"})
         /\ Worth(o, {"COMPLETED"})' \in Nat
<1> DEFINE k == req[q].payment
           any == {"COMPLETED", "REFUNDED"}
           standing == {"COMPLETED"}
<1>1. /\ payments \in Seq(PaymentRecords) /\ payments' \in Seq(PaymentRecords)
      /\ Len(payments') = Len(payments) /\ k \in 1..Len(payments)
      /\ \A j \in 1..Len(payments) : j # k => payments'[j] = payments[j]
      /\ payments[k].intent = req[q].intent /\ payments'[k].intent = payments[k].intent
      /\ payments'[k].status = "REFUNDED"
      /\ req[q].intent \in Intents
  BY RefundEffect DEF TypeInv, TypeOK
<1>2. PICK t : t = payments' OBVIOUS
<1>3. payments[k].status \in any /\ Amount[payments[k].intent] \in Nat
  <2>1. payments[k] \in PaymentRecords BY <1>1
  <2> QED BY <2>1, <1>1, PaymentsAssumption DEF PaymentRecords
<1>4. ASSUME NEW j \in 1..Len(payments)
      PROVE  /\ Credit(payments[j], o, any) = Credit(t[j], o, any)
             /\ Credit(payments[j], o, any) \in Nat
             /\ Credit(payments[j], o, standing) \in Nat /\ Credit(t[j], o, standing) \in Nat
             /\ Credit(t[j], o, standing) <= Credit(payments[j], o, standing)
             /\ OrderOf[req[q].intent] # o => Credit(t[j], o, standing) = Credit(payments[j], o, standing)
  <2>1. CASE j # k
    <3>1. payments[j] \in PaymentRecords BY <1>1
    <3>2. Amount[payments[j].intent] \in Nat BY <3>1, PaymentsAssumption DEF PaymentRecords
    <3>3. t[j] = payments[j] BY <1>1, <1>2, <2>1
    <3> QED BY <3>2, <3>3 DEF Credit
  <2>2. CASE j = k
    <3>1. /\ t[j].intent = payments[j].intent /\ t[j].status = "REFUNDED"
          /\ payments[j].status \in any /\ Amount[payments[j].intent] \in Nat
          /\ payments[j].intent = req[q].intent
      BY <1>1, <1>2, <1>3, <2>2
    <3> QED BY <3>1 DEF Credit
  <2> QED BY <2>1, <2>2
<1> HIDE DEF any, standing
<1>5. WorthIn(t, o, any) = WorthIn(payments, o, any)
  <2>1. /\ WorthIn(t, o, any) <= WorthIn(payments, o, any)
        /\ WorthIn(t, o, any) \in Nat /\ WorthIn(payments, o, any) \in Nat
    <3>1. \A j \in 1..Len(payments) : Credit(t[j], o, any) <= Credit(payments[j], o, any) BY <1>4
    <3> QED BY <1>1, <1>2, <3>1, WorthCompare
  <2>2. WorthIn(payments, o, any) <= WorthIn(t, o, any)
    <3>1. \A j \in 1..Len(payments) : Credit(payments[j], o, any) <= Credit(t[j], o, any) BY <1>4
    <3> QED BY <1>1, <1>2, <3>1, WorthCompare
  <2> QED BY <2>1, <2>2
<1>6. /\ WorthIn(t, o, standing) <= WorthIn(payments, o, standing)
      /\ WorthIn(t, o, standing) \in Nat /\ WorthIn(payments, o, standing) \in Nat
  BY <1>1, <1>2, <1>4, WorthCompare
<1>7. ASSUME OrderOf[req[q].intent] # o
      PROVE  WorthIn(payments, o, standing) <= WorthIn(t, o, standing)
  <2>1. \A j \in 1..Len(payments) : Credit(payments[j], o, standing) <= Credit(t[j], o, standing)
    BY <1>4, <1>7
  <2> QED BY <1>1, <1>2, <2>1, WorthCompare
<1>8. \A statuses : /\ Worth(o, statuses)' = WorthIn(t, o, statuses)
                    /\ Worth(o, statuses) = WorthIn(payments, o, statuses)
  BY <1>2 DEF Worth, WorthIn
<1> QED BY <1>5, <1>6, <1>7, <1>8 DEF any, standing

-----------------------------------------------------------------------------
(* An order is PAID when and only when the customer has paid it.           *)

Paid(o) == Worth(o, {"COMPLETED", "REFUNDED"})
Standing(o) == Worth(o, {"COMPLETED"})

\* A settlement that will mark its order PAID brings it to its total: what it
\* read may have been refunded since, and more may have been paid.
CoveredInv ==
  /\ \A q \in Requests : Settling(q) /\ req[q].cover = "full"
       => LET o == OrderOf[req[q].intent] IN Paid(o) + Amount[req[q].intent] >= Total[o]
  /\ PaidWasCovered

\* The sum a settlement read is still the one it commits against.
CoverInv ==
  /\ \A q \in Requests : Settling(q) /\ OrderOf[req[q].intent] \notin contended
       => LET o == OrderOf[req[q].intent]
          IN req[q].cover = "full" <=> Standing(o) + Amount[req[q].intent] >= Total[o]
  /\ CoveredIsPaid

LEMMA SettlingTyped ==
  ASSUME TypeInv, NEW q \in Requests, Settling(q)
  PROVE  /\ req[q].intent \in Intents /\ OrderOf[req[q].intent] \in Orders
         /\ Amount[req[q].intent] \in Nat /\ Total[OrderOf[req[q].intent]] \in Nat
BY PaymentsAssumption DEF Settling, At, TypeInv, Chosen

\* What was ever completed only grows, by what the commits bring.
LEMMA CoveredStep ==
  ASSUME TypeInv, TypeInv', CoveredInv, [Next]_vars
  PROVE  CoveredInv'
<1> DEFINE Full(q) == Settling(q) /\ req[q].cover = "full"
<1>1. ASSUME UNCHANGED <<payments>>, \A o \in Orders : order'[o].payment = order[o].payment,
             \A q \in Requests : Full(q)' => Full(q) /\ req'[q] = req[q]
      PROVE  CoveredInv'
  <2>1. \A o : Paid(o)' = Paid(o) BY <1>1 DEF Paid, Worth
  <2> QED BY <1>1, <2>1 DEF CoveredInv, PaidWasCovered, Paid
<1>2. CASE Elsewhere
  <2>1. UNCHANGED <<req, payments>> BY <1>2, ElsewhereFrame
  <2>2. \A o \in Orders : order'[o].payment = order[o].payment
    BY <1>2 DEF Elsewhere, TransitionOrder, CreatePaymentIntent, AnswerPrompt, vars, TypeInv, TypeOK
  <2> QED BY <1>1, <2>1, <2>2 DEF Settling, At
<1>3. ASSUME NEW q \in Requests, QuietStep(q) PROVE CoveredInv'
  <2>1. Quiet(q) BY <1>3, QuietFrame
  <2> QED BY <1>1, <2>1 DEF Quiet, Settling, At
<1>4. ASSUME NEW q \in Requests, RecordCallback(q) PROVE CoveredInv'
  BY <1>1, <1>4, RecordFrame DEF Settling, At, Idle
<1>5. ASSUME NEW q \in Requests, Settle(q) PROVE CoveredInv'
  <2> DEFINE o == OrderOf[req[q].intent]
             n == Amount[req[q].intent]
  <2>1. /\ UNCHANGED <<payments, order>> /\ o \in Orders
        /\ \A p \in Requests \ {q} : req'[p] = req[p]
        /\ req'[q].intent = req[q].intent /\ req'[q].cover = Cover(o, n)
        /\ n \in Nat /\ Total[o] \in Nat
    BY <1>5, SettleFrame, PaymentsAssumption
  <2>2. \A v : Paid(v)' = Paid(v) BY <2>1 DEF Paid, Worth
  <2>3. Cover(o, n) = "full" => Paid(o) + n >= Total[o]
    BY <2>1, StandingWasPaid DEF Cover, Paid
  <2>4. PaidWasCovered' BY <2>1, <2>2 DEF CoveredInv, PaidWasCovered, Paid
  <2>5. ASSUME NEW p \in Requests, Settling(p)', req'[p].cover = "full"
        PROVE  Paid(OrderOf[req'[p].intent]) + Amount[req'[p].intent] >= Total[OrderOf[req'[p].intent]]
    <3>1. CASE p = q BY <2>1, <2>3, <2>5, <3>1
    <3>2. CASE p # q BY <2>1, <2>5, <3>2 DEF CoveredInv, Settling, At
    <3> QED BY <3>1, <3>2
  <2> QED BY <2>2, <2>4, <2>5 DEF CoveredInv
<1>6. ASSUME NEW q \in Requests, CommitSettlement(q) PROVE CoveredInv'
  <2> DEFINE o == OrderOf[req[q].intent]
             n == Amount[req[q].intent]
  <2>1. /\ order' = [order EXCEPT ![o] = Synced(o, q)] /\ Settling(q)
        /\ \A p \in Requests : Settling(p)' => Settling(p) /\ req'[p] = req[p]
    <3>1. order' = [order EXCEPT ![o] = Synced(o, q)] /\ Settling(q) BY <1>6 DEF CommitSettlement
    <3>2. req'[q].pc = "idle" /\ \A p \in Requests \ {q} : req'[p] = req[p]
      BY <1>6, CommitAppends DEF Idle
    <3> QED BY <3>1, <3>2 DEF Settling, At
  <2>2. ASSUME NEW v \in Orders
        PROVE  /\ Paid(v) \in Nat /\ Paid(v)' = Paid(v) + (IF o = v THEN n ELSE 0)
               /\ Total[v] \in Nat /\ n \in Nat
    BY <1>6, <2>1, WorthCommits, WorthTyped, SettlingTyped, PaymentsAssumption DEF Paid
  <2>3. \A v \in Orders : Paid(v)' >= Paid(v) BY <2>2
  <2>4. ASSUME NEW p \in Requests, Settling(p)', req'[p].cover = "full"
        PROVE  (Paid(OrderOf[req[p].intent]) + Amount[req[p].intent] >= Total[OrderOf[req[p].intent]])'
    <3> DEFINE v == OrderOf[req[p].intent]
    <3>1. req'[p] = req[p] /\ v \in Orders /\ Amount[req[p].intent] \in Nat
      BY <2>1, <2>4, SettlingTyped
    <3>2. Paid(v) + Amount[req[p].intent] >= Total[v] BY <2>1, <2>4, <3>1 DEF CoveredInv
    <3>3. Paid(v)' \in Nat /\ Paid(v) \in Nat /\ Paid(v)' >= Paid(v) /\ Total[v] \in Nat
      BY <2>2, <2>3, <3>1
    <3> HIDE DEF v
    <3>4. Paid(v)' + Amount[req[p].intent] >= Total[v] BY <3>1, <3>2, <3>3
    <3> QED BY <3>1, <3>4 DEF v, Paid, Worth
  <2>5. ASSUME NEW v \in Orders, order'[v].payment = "PAID" PROVE Paid(v)' >= Total[v]
    <3>1. CASE v = o
      <4>1. order'[o] = Synced(o, q) BY <2>1, <2>5, <3>1 DEF TypeInv, TypeOK
      <4>2. req[q].cover = "full" BY <2>5, <3>1, <4>1 DEF Synced, TypeInv, TypeOK
      <4>3. Paid(o) + n >= Total[o] BY <2>1, <4>2 DEF CoveredInv
      <4> QED BY <2>2, <3>1, <4>3
    <3>2. CASE v # o
      <4>1. order[v].payment = "PAID" BY <2>1, <2>5, <3>2 DEF TypeInv, TypeOK
      <4>2. Paid(v) >= Total[v] BY <4>1 DEF CoveredInv, PaidWasCovered, Paid
      <4> QED BY <2>2, <2>3, <4>2
    <3> QED BY <3>1, <3>2
  <2>6. PaidWasCovered' BY <2>5 DEF PaidWasCovered, Paid
  <2> QED BY <2>4, <2>6 DEF CoveredInv
<1>7. ASSUME NEW q \in Requests, RefundPayment(q) PROVE CoveredInv'
  <2>1. \A v : Paid(v)' = Paid(v) BY <1>7, WorthRefunds DEF Paid
  <2>2. \A p \in Requests : Settling(p)' => Settling(p) /\ req'[p] = req[p]
    BY <1>7, EndFrame DEF RefundPayment, SetStatus, Settling, At
  <2>3. UNCHANGED order BY <1>7 DEF RefundPayment
  <2> QED BY <2>1, <2>2, <2>3 DEF CoveredInv, PaidWasCovered, Paid
<1> QED BY <1>2, <1>3, <1>4, <1>5, <1>6, <1>7, StepKinds

\* A settlement of an order nobody else is settling or refunding commits against
\* the sum it read.
LEMMA CoverStep ==
  ASSUME TypeInv, TypeInv', Overlaps, CoverInv, [Next]_vars
  PROVE  CoverInv'
<1> DEFINE Fresh(p) == Settling(p) /\ OrderOf[req[p].intent] \notin contended
           Kept(p) == LET o == OrderOf[req[p].intent]
                      IN req[p].cover = "full" <=> Standing(o) + Amount[req[p].intent] >= Total[o]
<1>1. ASSUME UNCHANGED payments, \A o \in Orders : order'[o].payment = order[o].payment,
             contended \subseteq contended',
             \A q \in Requests : Settling(q)' => Settling(q) /\ req'[q] = req[q]
      PROVE  CoverInv'
  <2>1. \A o : Standing(o)' = Standing(o) BY <1>1 DEF Standing, Worth
  <2> QED BY <1>1, <2>1 DEF CoverInv, CoveredIsPaid, Standing
<1>2. CASE Elsewhere
  <2>1. UNCHANGED <<req, payments>> /\ contended \subseteq contended'
    BY <1>2, ElsewhereFrame DEF MoneyStands
  <2>2. \A o \in Orders : order'[o].payment = order[o].payment
    BY <1>2 DEF Elsewhere, TransitionOrder, CreatePaymentIntent, AnswerPrompt, vars, TypeInv, TypeOK
  <2> QED BY <1>1, <2>1, <2>2 DEF Settling, At
<1>3. ASSUME NEW q \in Requests, QuietStep(q) PROVE CoverInv'
  <2>1. Quiet(q) BY <1>3, QuietFrame
  <2> QED BY <1>1, <2>1 DEF Quiet, MoneyStands, Settling, At
<1>4. ASSUME NEW q \in Requests, RecordCallback(q) PROVE CoverInv'
  BY <1>1, <1>4, RecordFrame DEF Settling, At, Idle
<1>5. ASSUME NEW q \in Requests, Settle(q) PROVE CoverInv'
  <2> DEFINE o == OrderOf[req[q].intent]
             n == Amount[req[q].intent]
  <2>1. /\ UNCHANGED <<payments, order>> /\ contended \subseteq contended'
        /\ \A p \in Requests \ {q} : req'[p] = req[p]
        /\ req'[q].intent = req[q].intent /\ req'[q].cover = Cover(o, n)
    BY <1>5, SettleFrame DEF ContendOrder
  <2>2. \A v : Standing(v)' = Standing(v) BY <2>1 DEF Standing, Worth
  <2>3. Cover(o, n) = "full" <=> Standing(o) + n >= Total[o] BY DEF Cover, Standing
  <2>4. CoveredIsPaid' BY <2>1, <2>2 DEF CoverInv, CoveredIsPaid, Standing
  <2>5. ASSUME NEW p \in Requests, Fresh(p)' PROVE Kept(p)'
    <3>1. CASE p = q BY <2>1, <2>2, <2>3, <3>1
    <3>2. CASE p # q
      <4>1. req'[p] = req[p] /\ Fresh(p) BY <2>1, <2>5, <3>2 DEF Settling, At
      <4>2. Kept(p) BY <4>1 DEF CoverInv
      <4> QED BY <2>2, <4>1, <4>2
    <3> QED BY <3>1, <3>2
  <2> QED BY <2>4, <2>5 DEF CoverInv
<1>6. ASSUME NEW q \in Requests, CommitSettlement(q) PROVE CoverInv'
  <2> DEFINE o == OrderOf[req[q].intent]
             n == Amount[req[q].intent]
  <2>1. /\ order' = [order EXCEPT ![o] = Synced(o, q)] /\ Settling(q) /\ UNCHANGED contended
        /\ \A p \in Requests : Settling(p)' => p # q /\ Settling(p) /\ req'[p] = req[p]
    <3>1. order' = [order EXCEPT ![o] = Synced(o, q)] /\ Settling(q) /\ UNCHANGED contended
      BY <1>6 DEF CommitSettlement, history
    <3>2. req'[q].pc = "idle" /\ \A p \in Requests \ {q} : req'[p] = req[p]
      BY <1>6, CommitAppends DEF Idle
    <3> QED BY <3>1, <3>2 DEF Settling, At
  <2>2. ASSUME NEW v \in Orders
        PROVE  /\ Standing(v) \in Nat /\ Standing(v)' = Standing(v) + (IF o = v THEN n ELSE 0)
               /\ Total[v] \in Nat /\ n \in Nat
    BY <1>6, <2>1, WorthCommits, WorthTyped, SettlingTyped, PaymentsAssumption DEF Standing
  <2>3. ASSUME NEW p \in Requests, Fresh(p)' PROVE Kept(p)'
    <3>1. p # q /\ req'[p] = req[p] /\ Fresh(p) /\ OrderOf[req[p].intent] \in Orders
      BY <2>1, <2>3, SettlingTyped
    <3>2. OrderOf[req[p].intent] # o BY <2>1, <3>1, AloneOnOrder
    <3>3. Standing(OrderOf[req[p].intent])' = Standing(OrderOf[req[p].intent])
      <4>1. PICK v \in Orders : v = OrderOf[req[p].intent] BY <3>1
      <4>2. Standing(v)' = Standing(v) BY <2>2, <3>2, <4>1
      <4> QED BY <3>1, <4>1, <4>2 DEF Standing, Worth
    <3>4. Kept(p) BY <3>1 DEF CoverInv
    <3> QED BY <3>1, <3>3, <3>4
  <2>4. ASSUME NEW v \in Orders \ contended, Standing(v)' >= Total[v]
        PROVE  order'[v].payment = "PAID"
    <3>1. CASE v = o
      <4>1. Standing(o) + n >= Total[o] BY <2>2, <2>4, <3>1
      <4>2. req[q].cover = "full" BY <2>1, <3>1, <4>1 DEF CoverInv
      <4>3. order'[o] = Synced(o, q) BY <2>1, <3>1 DEF TypeInv, TypeOK
      <4> QED BY <3>1, <4>2, <4>3 DEF Synced
    <3>2. CASE v # o
      <4>1. Standing(v) >= Total[v] BY <2>2, <2>4, <3>2
      <4>2. order[v].payment = "PAID" BY <4>1 DEF CoverInv, CoveredIsPaid, Standing
      <4> QED BY <2>1, <3>2, <4>2 DEF TypeInv, TypeOK
    <3> QED BY <3>1, <3>2
  <2>5. CoveredIsPaid' BY <2>1, <2>4 DEF CoveredIsPaid, Standing
  <2> QED BY <2>3, <2>5 DEF CoverInv
<1>7. ASSUME NEW q \in Requests, RefundPayment(q) PROVE CoverInv'
  <2> DEFINE o == OrderOf[req[q].intent]
  <2>1. /\ UNCHANGED order /\ contended \subseteq contended'
        /\ \A p \in Requests : Settling(p) /\ p # q /\ OrderOf[req[p].intent] = o => o \in contended'
    BY <1>7 DEF RefundPayment, ContendOrder, OrderBusy
  <2>2. \A p \in Requests : Settling(p)' => p # q /\ Settling(p) /\ req'[p] = req[p]
    BY <1>7, EndFrame DEF RefundPayment, SetStatus, Settling, At
  <2>3. ASSUME NEW p \in Requests, Fresh(p)' PROVE Kept(p)'
    <3>1. p # q /\ req'[p] = req[p] /\ Fresh(p) BY <2>1, <2>2, <2>3
    <3>2. OrderOf[req[p].intent] # o BY <2>1, <2>3, <3>1
    <3>3. \A v : v # o => Standing(v)' = Standing(v) BY <1>7, WorthRefunds DEF Standing
    <3>4. Kept(p) BY <3>1 DEF CoverInv
    <3> QED BY <3>1, <3>2, <3>3, <3>4
  <2>4. ASSUME NEW v \in Orders \ contended', Standing(v)' >= Total[v]
        PROVE  order'[v].payment = "PAID"
    <3>1. /\ Standing(v)' \in Nat /\ Standing(v) \in Nat /\ Standing(v)' <= Standing(v)
          /\ Total[v] \in Nat
      BY <1>7, WorthRefunds, WorthTyped, PaymentsAssumption DEF Standing
    <3>2. Standing(v) >= Total[v] BY <2>4, <3>1
    <3> QED BY <2>1, <3>2 DEF CoverInv, CoveredIsPaid, Standing
  <2>5. CoveredIsPaid' BY <2>4 DEF CoveredIsPaid, Standing
  <2> QED BY <2>3, <2>5 DEF CoverInv
<1> QED BY <1>2, <1>3, <1>4, <1>5, <1>6, <1>7, StepKinds

-----------------------------------------------------------------------------
(* The theorems.                                                           *)

IInv ==
  /\ TypeInv /\ Overlaps
  /\ CallbackInv /\ CreditInv /\ WasInv /\ RefundInv /\ SuccessInv
  /\ CoveredInv /\ CoverInv

LEMMA InitInv == Init => IInv
<1> SUFFICES ASSUME Init PROVE IInv OBVIOUS
<1>1. TypeInv BY InitType
<1>2. payments = <<>> /\ 1..Len(payments) = {} BY DEF Init
<1>3. \A q \in Requests : req[q].pc = "idle" BY DEF Init, Idle
<1>4. Overlaps /\ CallbackInv /\ CreditInv /\ WasInv /\ RefundInv
  BY <1>2, <1>3 DEF Overlaps, CallbackInv, OneSettlementPerCallback, CreditInv, CreditedWasCharged,
                    WasInv, RefundInv, RefundsWithinPayment, At, Settling
<1>5. SuccessInv
  <2>1. \A i \in Intents : Live(i) = {} /\ intent[i].status = "NONE" BY <1>2 DEF Live, Init
  <2> QED BY <1>3, <2>1 DEF SuccessInv, SuccessIsSettled, At
<1>6. CoveredInv /\ CoverInv
  <2>1. ASSUME NEW o, NEW statuses PROVE Worth(o, statuses) = 0
    <3>0. payments \in Seq(PaymentRecords) /\ Len(payments) = 0 BY <1>1, <1>2 DEF TypeInv, TypeOK
    <3>1. PICK f : /\ IsSum(f, Weights(payments, o, statuses), Len(payments))
                   /\ WorthIn(payments, o, statuses) = f[Len(payments)]
      BY <3>0, WorthIsSum
    <3>2. f[Len(payments)] = 0 BY <3>0, <3>1, SumUnfold
    <3> QED BY <3>1, <3>2 DEF Worth, WorthIn
  <2>2. \A o \in Orders : order[o].payment = "UNPAID" /\ Total[o] \in Nat /\ ~(0 >= Total[o])
    BY PaymentsAssumption DEF Init
  <2>3. PaidWasCovered BY <2>2 DEF PaidWasCovered
  <2>4. CoveredIsPaid BY <2>1, <2>2 DEF CoveredIsPaid
  <2> QED BY <1>3, <2>3, <2>4 DEF CoveredInv, CoverInv, Settling, At
<1> QED BY <1>1, <1>4, <1>5, <1>6 DEF IInv

LEMMA StepInv == IInv /\ [Next]_vars => IInv'
BY TypeStep, OverlapsStep, CallbackStep, CreditStep, WasStep, RefundStep, SuccessStep,
   CoveredStep, CoverStep DEF IInv

THEOREM Invariance == Spec => []IInv
BY InitInv, StepInv, PTL DEF Spec

\* The state is typed: in particular payment_status takes the three values of
\* the settlement and an intent those of its CHECK constraint.
THEOREM Typed == Spec => []TypeOK
<1>1. IInv => TypeOK BY DEF IInv, TypeInv
<1> QED BY <1>1, Invariance, PTL

\* Duplicate callback protection holds whatever overlaps.
THEOREM SettledOncePerCallback == Spec => []OneSettlementPerCallback
<1>1. IInv => OneSettlementPerCallback BY DEF IInv, CallbackInv
<1> QED BY <1>1, Invariance, PTL

\* Every M-Pesa payment in the ledger is money the customer paid or a status
\* query of the simulator called paid, whatever overlaps.
THEOREM Charged == Spec => []CreditedWasCharged
<1>1. IInv => CreditedWasCharged BY DEF IInv, CreditInv
<1> QED BY <1>1, Invariance, PTL

\* The ledger credits what was charged, once per callback, whatever overlaps.
THEOREM CreditsAlwaysStand == Spec => []CreditsStand
  BY SettledOncePerCallback, Charged, PTL DEF CreditsStand

\* The intents and the ledger agree as long as requests on an intent do not
\* overlap.
THEOREM SuccessSettled == Spec => []SuccessIsSettled
<1>1. IInv => SuccessIsSettled BY DEF IInv, SuccessInv
<1> QED BY <1>1, Invariance, PTL

\* A refund stays within its payment as long as requests on an intent do not
\* overlap.
THEOREM RefundsWithin == Spec => []RefundsWithinPayment
<1>1. IInv => RefundsWithinPayment BY DEF IInv, RefundInv
<1> QED BY <1>1, Invariance, PTL

\* A settlement moves an order from CONFIRMED to PAID and nowhere else, unless
\* the order was written between its read and its commit.
THEOREM MovesConfirmed == Spec => PaymentMovesConfirmed
<1>1. IInv /\ [Next]_vars =>
        [\A o \in Orders \ contended :
           payments' # payments /\ order'[o].status # order[o].status
             => order[o].status = "CONFIRMED" /\ order'[o].status = "PAID"]_vars
  BY MovesConfirmedStep DEF IInv
<1> QED BY <1>1, Invariance, PTL DEF Spec, PaymentMovesConfirmed

\* Intents, payments and refunds agree for any constants.
THEOREM LedgersAgree == Spec => []LedgerAgrees
  BY SuccessSettled, RefundsWithin, PTL DEF LedgerAgrees

\* An order is PAID only when its payments came to its total, and whenever those
\* that stand do, unless settlements or refunds of it overlapped.
THEOREM PaidWhenCovered == Spec => []PaidIffCovered
<1>1. IInv => PaidIffCovered BY DEF IInv, CoveredInv, CoverInv, PaidIffCovered
<1> QED BY <1>1, Invariance, PTL
=============================================================================
