------------------------------ MODULE Payments ------------------------------
(***************************************************************************)
(* The payments engine (server/services/paymentService.js): intents, the   *)
(* payments ledger, refunds and the order an intent pays for, with M-Pesa  *)
(* behind it (server/services/darajaService.js): push prompts, the         *)
(* customer who answers them, the webhook and the status query.            *)
(*                                                                         *)
(* Every handler reads the intent before its transaction and updates it by *)
(* id alone, so the reads, the calls to the provider and the transactions  *)
(* of concurrent requests interleave.  Transactions are READ COMMITTED:    *)
(* what one has written is invisible until it commits, and the intent row  *)
(* it updated, like the unique callback row it inserted, is locked.        *)
(* Card and bank tenders are settled as cash is.                           *)
(***************************************************************************)
EXTENDS OrderStatus, Naturals, Sequences

CONSTANTS
  Requests,      \* requests that may be in progress at once
  Intents,       \* one per idempotency key
  Orders,
  Refs,          \* bound: the CheckoutRequestIDs ever issued
  NoRef,
  MpesaIntents,  \* the intents whose method is MPESA
  OrderOf,       \* intent -> the order it pays for
  Amount,        \* intent -> its amount
  Total,         \* order -> its total_amount
  StaffTargets,  \* statuses staff may move an order to meanwhile
  Faults,        \* "network": a call to Daraja throws; "webhook", "staff": a
                 \* callback, or another request, dies
  MaxPayments,   \* bound: staff ask for nothing more once there are so many payments,
  AfterRace      \* bound: and, unless this is TRUE, once two requests have overlapped

ASSUME PaymentsAssumption ==
  /\ MpesaIntents \subseteq Intents
  /\ OrderOf \in [Intents -> Orders]
  /\ Amount \in [Intents -> Nat \ {0}]
  /\ Total \in [Orders -> Nat \ {0}]
  /\ StaffTargets \subseteq ORDER_STATUSES
  /\ NoRef \notin Refs /\ "none" \notin Intents

VARIABLES
  intent,     \* payment_intents: status and provider_reference
  payments,   \* payments, in the order their transactions committed
  order,      \* orders: status and payment_status
  callbacks,  \* payment_callbacks: the references recorded
  push,       \* what became of each prompt, as the provider knows it
  req,        \* the requests in progress
  orphans,    \* history: callbacks recorded that named no intent
  dropped,    \* history: callbacks whose handler died; the answer was 200
  invented,   \* history: references a simulated status query called paid
  contended   \* history: intents and orders on which two requests overlapped

history == <<orphans, dropped, invented, contended>>
vars == <<intent, payments, order, callbacks, push, req, history>>

PAYMENT_STATUSES == {"PENDING", "PROCESSING", "SUCCESS", "FAILED", "TIMEOUT", "CANCELLED", "REFUNDED"}

Outcomes == {"paid", "declined"}

Idle == [pc |-> "idle", op |-> "none", intent |-> "none", seen |-> "none", ref |-> NoRef,
         payment |-> 0, cover |-> "none", was |-> "none"]

Init ==
  /\ intent = [i \in Intents |-> [status |-> "NONE", ref |-> NoRef]]
  /\ payments = <<>>
  /\ order = [o \in Orders |-> [status |-> "CONFIRMED", payment |-> "UNPAID"]]
  /\ callbacks = {} /\ orphans = {} /\ dropped = {} /\ invented = {} /\ contended = {}
  /\ push = [r \in Refs |-> "unused"]
  /\ req = [q \in Requests |-> Idle]

-----------------------------------------------------------------------------
(* Requests, locks, history.                                               *)

At(q, pc) == req[q].pc = pc
End(q) == req' = [req EXCEPT ![q] = Idle]
Goto(q, pc) == req' = [req EXCEPT ![q].pc = pc]

\* Settling transactions that have written and not committed.
Settling(q) == At(q, "sync")
IntentLocked(i) == \E p \in Requests : Settling(p) /\ req[p].intent = i
CallbackLocked(r) ==
  \E p \in Requests : Settling(p) /\ req[p].op = "callback" /\ req[p].ref = r
OrderBusy(o, q) == \E p \in Requests \ {q} : Settling(p) /\ OrderOf[req[p].intent] = o

Busy(i, q) == \E p \in Requests \ {q} : ~At(p, "idle") /\ req[p].intent = i
Contend(i, q) == contended' = contended \cup (IF Busy(i, q) THEN {i} ELSE {})
ContendOrder(o, q) == contended' = contended \cup (IF OrderBusy(o, q) THEN {o} ELSE {})

MayAsk == Len(payments) < MaxPayments /\ (AfterRace \/ contended = {})

\* A handler reads its intent; the guard is evaluated on what it reads.
Read(q, op, i, pc) ==
  /\ At(q, "idle")
  /\ MayAsk
  /\ req' = [req EXCEPT ![q] = [Idle EXCEPT !.pc = pc, !.op = op, !.intent = i,
                                            !.seen = IF op = "query" THEN intent[i].status ELSE "none",
                                            !.ref = IF op = "query" THEN intent[i].ref ELSE NoRef]]
  /\ Contend(i, q)
  /\ UNCHANGED <<intent, payments, order, callbacks, push, orphans, dropped, invented>>

SetStatus(q, i, status) ==
  /\ ~IntentLocked(i)
  /\ intent' = [intent EXCEPT ![i].status = status]
  /\ End(q)

-----------------------------------------------------------------------------
(* createPaymentIntent, cancelPaymentIntent, processIntent.                *)

\* A key that exists is answered with its intent; of two concurrent inserts the
\* UNIQUE key lets one through.
CreatePaymentIntent(i) ==
  /\ intent[i].status = "NONE"
  /\ intent' = [intent EXCEPT ![i].status = "PENDING"]
  /\ UNCHANGED <<payments, order, callbacks, push, req, history>>

ReadForCancel(q, i) ==
  /\ intent[i].status \notin {"NONE", "SUCCESS", "REFUNDED"}
  /\ Read(q, "cancel", i, "write")

CancelPaymentIntent(q) ==
  /\ At(q, "write") /\ req[q].op = "cancel"
  /\ SetStatus(q, req[q].intent, "CANCELLED")
  /\ UNCHANGED <<payments, order, callbacks, push, history>>

\* Mutant: the status of the intent is not checked.
ReadForProcessAny(q, i) ==
  /\ intent[i].status # "NONE"
  /\ Read(q, "process", i, IF i \in MpesaIntents THEN "push" ELSE "write")

ReadForProcess(q, i) ==
  /\ intent[i].status \in {"PENDING", "FAILED", "TIMEOUT"}
  /\ Read(q, "process", i, IF i \in MpesaIntents THEN "push" ELSE "write")

\* initiateStkPush: accepted, refused, or the call throws and the simulator
\* answers instead - whether or not the request had reached the provider.
InitiateStkPush(q) ==
  /\ At(q, "push")
  /\ \/ \E r \in Refs :
          /\ push[r] = "unused"
          /\ push' = [push EXCEPT ![r] = "prompted"]
          /\ req' = [req EXCEPT ![q].pc = "mark", ![q].ref = r]
     \/ \E r \in Refs, reached \in SUBSET Refs :
          /\ "network" \in Faults
          /\ push[r] = "unused" /\ r \notin reached
          /\ \A s \in reached : push[s] = "unused" /\ \A t \in reached : s = t
          /\ push' = [s \in Refs |-> CASE s = r       -> "simulated"
                                       [] s \in reached -> "prompted"
                                       [] OTHER         -> push[s]]
          /\ req' = [req EXCEPT ![q].pc = "mark", ![q].ref = r]
     \/ Goto(q, "refused") /\ UNCHANGED push
  /\ UNCHANGED <<intent, payments, order, callbacks, history>>

MarkRefused(q) ==
  /\ At(q, "refused")
  /\ SetStatus(q, req[q].intent, "FAILED")
  /\ UNCHANGED <<payments, order, callbacks, push, history>>

MarkProcessing(q) ==
  LET i == req[q].intent
  IN /\ At(q, "mark")
     /\ ~IntentLocked(i)
     /\ intent' = [intent EXCEPT ![i] = [status |-> "PROCESSING", ref |-> req[q].ref]]
     /\ End(q)
     /\ UNCHANGED <<payments, order, callbacks, push, history>>

-----------------------------------------------------------------------------
(* The provider and its webhook.                                           *)

\* The customer pays, or declines, or cannot be reached (code 1037, TIMEOUT).
AnswerPrompt(r) ==
  /\ push[r] = "prompted"
  /\ \E outcome \in Outcomes : push' = [push EXCEPT ![r] = outcome]
  /\ UNCHANGED <<intent, payments, order, callbacks, req, history>>

Named(r) == {i \in Intents : intent[i].ref = r}

\* handleMpesaCallback, called at any time after the outcome, any number of
\* times: a reference recorded already is ignored; the intent is looked up.
ReadCallback(q, r) ==
  /\ At(q, "idle")
  /\ push[r] \in Outcomes
  /\ r \notin callbacks \cup dropped
  /\ \/ /\ Named(r) = {}
        /\ req' = [req EXCEPT ![q] = [Idle EXCEPT !.pc = "write", !.op = "callback", !.ref = r]]
        /\ UNCHANGED contended
     \/ \E i \in Named(r) :
          /\ req' = [req EXCEPT ![q] = [Idle EXCEPT !.pc = "write", !.op = "callback", !.ref = r,
                                                    !.intent = i, !.seen = intent[i].status]]
          /\ Contend(i, q)
  /\ UNCHANGED <<intent, payments, order, callbacks, push, orphans, dropped, invented>>

\* The INSERT into payment_callbacks, whose reference is unique.
Inserts(q) == ~CallbackLocked(req[q].ref) /\ req[q].ref \notin callbacks

\* Mutant: a callback for an intent that staff cancelled is ignored.
RecordCallbackIgnoring(q) ==
  LET r == req[q].ref
      i == req[q].intent
  IN /\ At(q, "write") /\ req[q].op = "callback"
     /\ Inserts(q)
     /\ i # "none" /\ req[q].seen \in {"SUCCESS", "CANCELLED"}
     /\ callbacks' = callbacks \cup {r}
     /\ End(q)
     /\ UNCHANGED <<intent, payments, order, push, history>>

\* The transaction ends here unless the callback reports a payment to settle.
RecordCallback(q) ==
  LET r == req[q].ref
      i == req[q].intent
  IN /\ At(q, "write") /\ req[q].op = "callback"
     /\ Inserts(q)
     /\ callbacks' = callbacks \cup {r}
     /\ \/ i = "none" /\ orphans' = orphans \cup {r} /\ UNCHANGED intent /\ End(q)
        \/ i # "none" /\ req[q].seen = "SUCCESS" /\ UNCHANGED <<intent, orphans>> /\ End(q)
        \/ /\ i # "none" /\ req[q].seen # "SUCCESS" /\ push[r] # "paid"
           /\ \E status \in {"FAILED", "TIMEOUT"} : SetStatus(q, i, status)
           /\ UNCHANGED orphans
     /\ UNCHANGED <<payments, order, push, dropped, invented, contended>>

\* The row is there by now: the INSERT throws.
RefuseCallback(q) ==
  /\ At(q, "write") /\ req[q].op = "callback"
  /\ req[q].ref \in callbacks
  /\ End(q)
  /\ UNCHANGED <<intent, payments, order, callbacks, push, history>>

-----------------------------------------------------------------------------
(* queryPaymentStatus.                                                     *)

ReadForQuery(q, i) ==
  /\ i \in MpesaIntents /\ intent[i].ref # NoRef
  /\ Read(q, "query", i, "ask")

\* queryStkStatus: when the call throws, the simulator answers "processed".
QueryStkStatus(q) ==
  /\ At(q, "ask")
  /\ \/ push[req[q].ref] = "paid" /\ UNCHANGED invented
        /\ IF req[q].seen = "SUCCESS" THEN End(q) ELSE Goto(q, "write")
     \/ push[req[q].ref] # "paid" /\ End(q) /\ UNCHANGED invented
     \/ /\ "network" \in Faults
        /\ invented' = invented \cup {req[q].ref}
        /\ IF req[q].seen = "SUCCESS" THEN End(q) ELSE Goto(q, "write")
  /\ UNCHANGED <<intent, payments, order, callbacks, push, orphans, dropped, contended>>

-----------------------------------------------------------------------------
(* settleSuccessfulPayment, inside the transaction of its caller.          *)

\* What a payment is worth to an order, if it has one of these statuses.
Credit(p, o, statuses) ==
  IF OrderOf[p.intent] = o /\ p.status \in statuses THEN Amount[p.intent] ELSE 0

\* The sum of the payments of an order.
Worth(o, statuses) ==
  LET sum[n \in 0..Len(payments)] ==
        IF n = 0 THEN 0 ELSE sum[n - 1] + Credit(payments[n], o, statuses)
  IN sum[Len(payments)]

\* Mutant: the last instalment is compared with the total, not the sum.
CoverByLast(o, n) == IF n >= Total[o] THEN "full" ELSE "part"

\* Do the payments that stand, with one of n more, reach the total?
Cover(o, n) == IF Worth(o, {"COMPLETED"}) + n >= Total[o] THEN "full" ELSE "part"

Settles(q) ==
  /\ At(q, "write")
  /\ \/ req[q].op \in {"process", "query"}
     \/ /\ req[q].op = "callback" /\ req[q].intent # "none"
        /\ req[q].seen # "SUCCESS" /\ push[req[q].ref] = "paid"

\* Mutant: the callback row is inserted without looking whether it exists.
SettleRepeated(q) ==
  LET i == req[q].intent
      o == OrderOf[i]
  IN /\ Settles(q)
     /\ ~IntentLocked(i)
     /\ req' = [req EXCEPT ![q].pc = "sync", ![q].was = order[o].status,
                           ![q].cover = Cover(o, Amount[i])]
     /\ ContendOrder(o, q)
     /\ UNCHANGED <<intent, payments, order, callbacks, push, orphans, dropped, invented>>

\* The intent and the callback row are written, the order and the sum of its
\* completed payments read.
Settle(q) ==
  LET i == req[q].intent
      o == OrderOf[i]
  IN /\ Settles(q)
     /\ ~IntentLocked(i)
     /\ req[q].op = "callback" => Inserts(q)
     /\ req' = [req EXCEPT ![q].pc = "sync", ![q].was = order[o].status,
                           ![q].cover = Cover(o, Amount[i])]
     /\ ContendOrder(o, q)
     /\ UNCHANGED <<intent, payments, order, callbacks, push, orphans, dropped, invented>>

\* Mutant: the order becomes PAID wherever it was.
SyncedAnywhere(o, q) ==
  IF req[q].cover = "full" THEN [status |-> "PAID", payment |-> "PAID"]
  ELSE [order[o] EXCEPT !.payment = "PARTIAL"]

\* The order after the payment, by what the transaction read of it.
Synced(o, q) ==
  IF req[q].cover = "full"
  THEN [status |-> IF req[q].was = "CONFIRMED" THEN "PAID" ELSE order[o].status, payment |-> "PAID"]
  ELSE [order[o] EXCEPT !.payment = "PARTIAL"]

CommitSettlement(q) ==
  LET i == req[q].intent
      o == OrderOf[i]
  IN /\ Settling(q)
     /\ intent' = [intent EXCEPT ![i].status = "SUCCESS"]
     /\ payments' = Append(payments, [intent |-> i, ref |-> req[q].ref, by |-> req[q].op,
                                      status |-> "COMPLETED", back |-> 0])
     /\ order' = [order EXCEPT ![o] = Synced(o, q)]
     /\ callbacks' = callbacks \cup (IF req[q].op = "callback" THEN {req[q].ref} ELSE {})
     /\ End(q)
     /\ UNCHANGED <<push, history>>

-----------------------------------------------------------------------------
(* refundPayment.                                                          *)

ReadForRefund(q, k) ==
  /\ At(q, "idle")
  /\ MayAsk
  /\ payments[k].status # "REFUNDED"
  /\ req' = [req EXCEPT ![q] = [Idle EXCEPT !.pc = "write", !.op = "refund", !.payment = k,
                                            !.intent = payments[k].intent]]
  /\ Contend(payments[k].intent, q)
  /\ UNCHANGED <<intent, payments, order, callbacks, push, orphans, dropped, invented>>

Refunded(p, n) == [p EXCEPT !.status = "REFUNDED", !.back = p.back + n]

\* Part of the amount or all of it: the payment and the intent are REFUNDED.
RefundPayment(q) ==
  LET k == req[q].payment
      i == req[q].intent
  IN /\ At(q, "write") /\ req[q].op = "refund"
     /\ \E n \in 1..Amount[i] :
          payments' = [payments EXCEPT ![k] = Refunded(payments[k], n)]
     /\ SetStatus(q, i, "REFUNDED")
     /\ ContendOrder(OrderOf[i], q)
     /\ UNCHANGED <<order, callbacks, push, orphans, dropped, invented>>

-----------------------------------------------------------------------------
\* transitionOrderStatus of the orders engine: it writes the status alone.
TransitionOrder(o, to) ==
  /\ Allows(order[o].status, to)
  /\ order' = [order EXCEPT ![o].status = to]
  /\ contended' = contended \cup
       (IF \E p \in Requests : Settling(p) /\ OrderOf[req[p].intent] = o THEN {o} ELSE {})
  /\ UNCHANGED <<intent, payments, callbacks, push, req, orphans, dropped, invented>>

\* An exception, the database or the process: the transaction rolls back.  The
\* webhook answers 200 even then, and the provider does not call again.
Fail(q) ==
  /\ ~At(q, "idle")
  /\ (IF req[q].op = "callback" THEN "webhook" ELSE "staff") \in Faults
  /\ dropped' = dropped \cup (IF req[q].op = "callback" THEN {req[q].ref} ELSE {})
  /\ End(q)
  /\ UNCHANGED <<intent, payments, order, callbacks, push, orphans, invented, contended>>

\* The steps of a request once it has begun.
Proceed(q) ==
  \/ CancelPaymentIntent(q)
  \/ InitiateStkPush(q) \/ MarkRefused(q) \/ MarkProcessing(q)
  \/ RecordCallback(q) \/ RefuseCallback(q)
  \/ QueryStkStatus(q)
  \/ Settle(q) \/ CommitSettlement(q)
  \/ RefundPayment(q)

Next ==
  \/ \E i \in Intents : CreatePaymentIntent(i)
  \/ \E q \in Requests :
       \/ \E i \in Intents : ReadForCancel(q, i) \/ ReadForProcess(q, i) \/ ReadForQuery(q, i)
       \/ \E r \in Refs : ReadCallback(q, r)
       \/ \E k \in 1..Len(payments) : ReadForRefund(q, k)
       \/ Proceed(q) \/ Fail(q)
  \/ \E r \in Refs : AnswerPrompt(r)
  \/ \E o \in Orders, to \in StaffTargets : TransitionOrder(o, to)

Spec == Init /\ [][Next]_vars

\* A handler that can run does, and the provider calls the webhook for every
\* outcome: the server takes its call whenever it can.
Fairness ==
  /\ \A q \in Requests : WF_vars(Proceed(q))
  /\ \A r \in Refs : SF_vars(\E q \in Requests : ReadCallback(q, r))
FairSpec == Spec /\ Fairness

-----------------------------------------------------------------------------
(* Properties.                                                             *)

PaymentRecords ==
  [intent : Intents, ref : Refs \cup {NoRef}, by : {"process", "callback", "query"},
   status : {"COMPLETED", "REFUNDED"}, back : Nat]
RequestRecords ==
  [pc : {"idle", "push", "mark", "refused", "ask", "write", "sync"},
   op : {"none", "cancel", "process", "callback", "query", "refund"},
   intent : Intents \cup {"none"}, seen : PAYMENT_STATUSES \cup {"none", "NONE"},
   ref : Refs \cup {NoRef}, payment : Nat, cover : {"none", "full", "part"}, was : ORDER_STATUSES \cup {"none"}]

\* Types of the variables.
TypeOK ==
  /\ intent \in [Intents -> [status : PAYMENT_STATUSES \cup {"NONE"}, ref : Refs \cup {NoRef}]]
  /\ payments \in Seq(PaymentRecords)
  /\ order \in [Orders -> [status : ORDER_STATUSES, payment : {"UNPAID", "PARTIAL", "PAID"}]]
  /\ push \in [Refs -> Outcomes \cup {"unused", "prompted", "simulated"}]
  /\ callbacks \subseteq Refs /\ orphans \subseteq Refs
  /\ dropped \subseteq Refs /\ invented \subseteq Refs
  /\ contended \subseteq Intents \cup Orders
  /\ req \in [Requests -> RequestRecords]

\* "Strict Duplicate Callback Protection" (paymentService.js:314): whatever is
\* delivered twice, at once or in between, one reference is settled by the
\* webhook once.  The lookup is outside the transaction; the unique row decides.
OneSettlementPerCallback ==
  \A j, k \in 1..Len(payments) :
    payments[j].by = "callback" /\ payments[k].by = "callback" /\ payments[j].ref = payments[k].ref
      => j = k

Live(i) == {k \in 1..Len(payments) : payments[k].intent = i /\ payments[k].status = "COMPLETED"}

\* The status of an intent and the ledger say the same thing - SUCCESS when one
\* payment stands, and otherwise none - through retries with new references,
\* late and missing callbacks, status queries, cancellations, refunds and
\* failures, as long as no two requests on the intent overlapped.
SuccessIsSettled ==
  \A i \in Intents \ contended :
    /\ intent[i].status = "SUCCESS" <=> Live(i) # {}
    /\ \A j, k \in Live(i) : j = k

\* An M-Pesa payment is money the customer paid, unless the status query fell
\* back on the simulator: the reference the callback or the query asked about is
\* one the provider collected on, however old what they read of the intent is.
CreditedWasCharged ==
  \A k \in 1..Len(payments) :
    LET p == payments[k]
    IN p.intent \in MpesaIntents => p.ref \in invented \/ (p.ref \in Refs /\ push[p.ref] = "paid")

\* What is credited was charged, and one callback credits it once.
CreditsStand == OneSettlementPerCallback /\ CreditedWasCharged

\* No order is PAID before its payments, refunded since or not, reach its total,
\* however the instalments interleave.
PaidWasCovered ==
  \A o \in Orders : order[o].payment = "PAID" => Worth(o, {"COMPLETED", "REFUNDED"}) >= Total[o]

\* An order whose standing payments reach its total is PAID, unless settlements
\* or refunds of the same order overlapped.
CoveredIsPaid ==
  \A o \in Orders \ contended : Worth(o, {"COMPLETED"}) >= Total[o] => order[o].payment = "PAID"

\* A payment is refunded at most once, and never for more than its amount.
RefundsWithinPayment ==
  \A k \in 1..Len(payments) :
    payments[k].intent \notin contended => payments[k].back <= Amount[payments[k].intent]

\* The ledger agrees with the intents, and gives back no more than it took.
LedgerAgrees == SuccessIsSettled /\ RefundsWithinPayment

\* An order is PAID when and only when the customer has paid it.
PaidIffCovered == PaidWasCovered /\ CoveredIsPaid

\* A settlement moves an order from CONFIRMED to PAID and nowhere else - it does
\* not bring a cancelled order back - unless staff moved it, or another
\* settlement committed, between its read and its commit.
PaymentMovesConfirmed ==
  [][\A o \in Orders \ contended :
       payments' # payments /\ order'[o].status # order[o].status
         => order[o].status = "CONFIRMED" /\ order'[o].status = "PAID"]_vars

Accounted(r) ==
  r \in orphans \cup dropped \/ \E k \in 1..Len(payments) : payments[k].ref = r

\* Money the customer paid is not forgotten: it becomes a payment, or a callback
\* on record that names no intent, or one whose handler died, unless requests
\* on an intent overlapped: then a second prompt may be paid and ignored.
ChargeIsAccounted ==
  \A r \in Refs : push[r] = "paid" ~> Accounted(r) \/ contended \cap Intents # {}
=============================================================================
