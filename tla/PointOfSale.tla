----------------------------- MODULE PointOfSale -----------------------------
(***************************************************************************)
(* The counter: cashier shifts and their cash drawers, what is sold,       *)
(* booked and exchanged in them, refund requests, and the idempotency keys *)
(* under which a terminal repeats a checkout (server/routes/pos.js and     *)
(* refunds.js, services/posShiftService.js, counterBookingService.js,      *)
(* middleware/idempotency.js).                                             *)
(*                                                                         *)
(* A request looks up the cashier's open shift before its transaction and  *)
(* writes to it by id, whatever its status is then.  What sales and        *)
(* exchanges do to the inventory is in Stock; here their transaction       *)
(* commits, or is refused because something is missing.                    *)
(***************************************************************************)
EXTENDS Integers, FiniteSets

CONSTANTS
  Requests,     \* requests that may be in progress at once
  Cashiers,     \* each at one branch
  Admins,       \* those of role SUPER_ADMIN: a sale opens a shift for them
  MaxShifts,    \* bound: rows of pos_shifts
  Refunds,      \* rows of refund_requests
  Keys,         \* Idempotency-Keys; a terminal sends one with a checkout
  NoKey,
  BodyOf,       \* key -> the checkout it was made for
  Tenders,      \* what is paid: the total, and how much of it in cash
  Payouts,      \* what staff or an exchange take from the drawer
  Floats,       \* cash a shift starts with
  Counts,       \* cash counted when it is closed
  MaxRequests,  \* bound: requests made
  AfterRace     \* bound: new requests once two have raced?

Shifts == 1..MaxShifts

ASSUME PointOfSaleAssumption ==
  /\ MaxShifts \in Nat /\ MaxRequests \in Nat /\ AfterRace \in BOOLEAN
  /\ Admins \subseteq Cashiers
  /\ Tenders \subseteq [total : Nat, cash : Nat]
  /\ Payouts \subseteq Nat \ {0} /\ Floats \subseteq Nat /\ Counts \subseteq Nat
  /\ BodyOf \in [Keys -> [who : Cashiers, tender : Tenders]] /\ NoKey \notin Keys
  /\ Cashiers \cap (Keys \cup Refunds \cup Int) = {}
  /\ Keys \cap (Refunds \cup Int) = {} /\ Refunds \cap Int = {}

VARIABLES
  shift,      \* pos_shifts: status, cashier, totals, expected cash, variance
  drawer,     \* amounts of the rows of cash_drawer_movements, per shift and type
  sales,      \* amounts of the sales and bookings of a shift, and of their cash payments
  moved,      \* amounts staff took from the drawer of a shift
  exchanged,  \* amounts of the REFUNDED payments of the exchanges of a shift
  refund,     \* refund_requests.status
  repaid,     \* rows of refunds, per refund request
  response,   \* idempotency_keys: the response stored for a key
  executed,   \* checkouts committed under a key
  req,        \* the requests in progress
  asked,      \* requests made, for the bound
  contended,  \* history: shifts, cashiers, refunds and keys on which requests raced
  forgotten,  \* history: keys whose response was not stored after the commit, or not found again
  rolled      \* history: shifts with a payout whose exchange rolled back

till == <<shift, drawer, sales, moved, exchanged>>
counter == <<refund, repaid>>
keyed == <<response, executed>>
history == <<contended, forgotten, rolled>>
vars == <<till, counter, keyed, req, asked, history>>

SHIFT_STATUSES == {"NONE", "OPEN", "CLOSED", "RECONCILED"}

NoShift == [status |-> "NONE", by |-> "none", float |-> 0, total |-> 0, cash |-> 0,
            expected |-> 0, counted |-> 0, variance |-> 0]
Idle == [op |-> "none", pc |-> "idle", who |-> "none", key |-> NoKey, shift |-> 0,
         on |-> "none", total |-> 0, cash |-> 0, amount |-> 0, known |-> 0, result |-> "none"]

Init ==
  /\ shift = [s \in Shifts |-> NoShift]
  /\ drawer = [s \in Shifts |-> [in |-> 0, sold |-> 0, out |-> 0]]
  /\ sales = [s \in Shifts |-> [total |-> 0, cash |-> 0]]
  /\ moved = [s \in Shifts |-> 0] /\ exchanged = [s \in Shifts |-> 0]
  /\ refund = [r \in Refunds |-> "NONE"] /\ repaid = [r \in Refunds |-> 0]
  /\ response = [k \in Keys |-> "none"] /\ executed = [k \in Keys |-> 0]
  /\ req = [q \in Requests |-> Idle] /\ asked = 0
  /\ contended = {} /\ forgotten = {} /\ rolled = {}

-----------------------------------------------------------------------------
(* Requests.                                                               *)

At(q, ops, pc) == req[q].op \in ops /\ req[q].pc = pc

Selling == {"checkout", "booking", "exchange"}

\* Two requests race on a shift when one of them closes or reconciles it, on a
\* cashier when both open a shift, on a refund or a key when both are about it.
Races(rq) ==
  {x \in Shifts \cup Cashiers \cup Refunds \cup Keys :
     \E p, q \in Requests :
       /\ p # q
       /\ \/ rq[p].op \in {"close", "reconcile"} /\ rq[p].shift = x /\ rq[q].shift = x
          \/ rq[p].pc = "insert" /\ rq[q].pc = "insert" /\ rq[p].who = x /\ rq[q].who = x
          \/ rq[p].op = "approve" /\ rq[q].op = "approve" /\ rq[p].on = x /\ rq[q].on = x
          \/ x \in Keys /\ rq[p].key = x /\ rq[q].key = x}

Become(q, r) ==
  /\ req' = [req EXCEPT ![q] = r]
  /\ contended' = contended \cup Races(req')
  /\ UNCHANGED asked

Move(q, pc) == Become(q, [req[q] EXCEPT !.pc = pc])
End(q) == Become(q, Idle)

\* A request arrives and has done its first read.
Begin(q, r) ==
  /\ req[q] = Idle /\ asked < MaxRequests
  /\ AfterRace \/ contended = {}
  /\ req' = [req EXCEPT ![q] = r] /\ asked' = asked + 1
  /\ contended' = contended \cup Races(req')

-----------------------------------------------------------------------------
(* Idempotency keys.                                                       *)

\* The answer is on its way; the middleware stores it on its own, if there is a
\* key and the status is below 500.
Answer(q, result) ==
  IF req[q].key = NoKey THEN End(q)
  ELSE Become(q, [req[q] EXCEPT !.pc = "save", !.result = result])

\* INSERT ... ON CONFLICT DO UPDATE: the last response stands.
SaveResponse(q) ==
  /\ req[q].pc = "save"
  /\ response' = [response EXCEPT ![req[q].key] = req[q].result]
  /\ End(q)
  /\ UNCHANGED <<till, counter, executed, forgotten, rolled>>

\* A statement fails, or the process dies: the transaction rolls back, and what a
\* nested one committed stays.
Fail(q) ==
  /\ req[q] # Idle
  /\ rolled' = rolled \cup {s \in {req[q].shift} : At(q, {"exchange"}, "outer")}
  /\ forgotten' = forgotten \cup {k \in {req[q].key} : req[q].pc = "save" /\ req[q].result = "done"}
  /\ End(q)
  /\ UNCHANGED <<till, counter, keyed>>

-----------------------------------------------------------------------------
(* Shifts.                                                                 *)

Open(c) == {s \in Shifts : shift[s].status = "OPEN" /\ shift[s].by = c}

\* Mutant: the cashier's last shift, open or not.
GetLastShift(c, s) ==
  /\ shift[s].by = c
  /\ \A t \in Shifts : shift[t].by = c => t <= s

\* The cashier's open shift; ORDER BY id DESC LIMIT 1.
GetCurrentShift(c, s) == s \in Open(c) /\ \A t \in Open(c) : t <= s

\* POST /shift/open: nothing is done when there is one already.
ReadForOpen(q, c, f) ==
  /\ Open(c) = {}
  /\ Begin(q, [Idle EXCEPT !.op = "open", !.pc = "insert", !.who = c, !.cash = f])
  /\ UNCHANGED <<till, counter, keyed, forgotten, rolled>>

\* A sale of a super admin without a shift opens one, with openShift's own check.
CheckOpen(q) ==
  /\ At(q, Selling, "check")
  /\ Move(q, IF Open(req[q].who) = {} THEN "insert" ELSE "current")
  /\ UNCHANGED <<till, counter, keyed, forgotten, rolled>>

NewShift(c, f) == [status |-> "OPEN", by |-> c, float |-> f, total |-> 0, cash |-> 0,
                   expected |-> f, counted |-> 0, variance |-> 0]

OpenShift(q, f) ==
  /\ req[q].pc = "insert" /\ (req[q].op = "open" => f = req[q].cash)
  /\ \E s \in Shifts :
       /\ shift[s].status = "NONE" /\ \A t \in Shifts : t < s => shift[t].status # "NONE"
       /\ shift' = [shift EXCEPT ![s] = NewShift(req[q].who, f)]
       /\ drawer' = [drawer EXCEPT ![s].in = @ + f]
  /\ IF req[q].op = "open" THEN End(q) ELSE Move(q, "current")
  /\ UNCHANGED <<sales, moved, exchanged, counter, keyed, forgotten, rolled>>

\* What a request does first with its shift.
FirstStep(rq) ==
  CASE rq.op = "close" -> "count"
    [] rq.op = "movement" \/ (rq.op = "exchange" /\ rq.amount > 0) -> "guard"
    [] OTHER -> "commit"

\* The shift a request works on, looked up before anything else is read.
Use(q, s) == Become(q, [req[q] EXCEPT !.shift = s, !.pc = FirstStep(req[q])])

FindShift(q) ==
  /\ req[q].pc = "shift"
  /\ \/ \E s \in Shifts : GetCurrentShift(req[q].who, s) /\ Use(q, s)
     \/ /\ Open(req[q].who) = {}
        /\ IF req[q].op \in Selling /\ req[q].who \in Admins THEN Move(q, "check")
           ELSE Answer(q, "refused")
  /\ UNCHANGED <<till, counter, keyed, forgotten, rolled>>

\* openShift ends with getCurrentShift, which finds nothing if the shift was
\* closed meanwhile: then the sale fails.
UseOpened(q) ==
  /\ req[q].pc = "current"
  /\ \/ \E s \in Shifts : GetCurrentShift(req[q].who, s) /\ Use(q, s)
     \/ Open(req[q].who) = {} /\ End(q)
  /\ UNCHANGED <<till, counter, keyed, forgotten, rolled>>

-----------------------------------------------------------------------------
(* Sales, bookings and exchanges.                                          *)

\* A checkout. With a key for which a response is stored, that is the answer and
\* nothing is done, unless the lookup fails: then the key passes for a new one.
Checkout(q, c, t, k) ==
  /\ k # NoKey => BodyOf[k] = [who |-> c, tender |-> t]
  /\ Begin(q, [Idle EXCEPT !.op = "checkout", !.pc = "shift", !.who = c, !.key = k,
                           !.total = t.total, !.cash = t.cash])
  /\ forgotten' = forgotten \cup {x \in Keys : x = k /\ response[x] # "none"}
  /\ UNCHANGED <<till, counter, keyed, rolled>>

BookCounterShipment(q, c, t) ==
  /\ Begin(q, [Idle EXCEPT !.op = "booking", !.pc = "shift", !.who = c,
                           !.total = t.total, !.cash = t.cash])
  /\ UNCHANGED <<till, counter, keyed, forgotten, rolled>>

\* An exchange: the customer pays the difference, nothing, or is paid a.
Exchange(q, c, t, a) ==
  /\ Begin(q, [Idle EXCEPT !.op = "exchange", !.pc = "shift", !.who = c,
                           !.total = t.total, !.cash = t.cash, !.amount = a])
  /\ UNCHANGED <<till, counter, keyed, forgotten, rolled>>

\* A customer, product or stock is missing: 403, 404 or 409, which is an answer too.
Refuse(q) ==
  /\ At(q, Selling, "commit")
  /\ Answer(q, "refused")
  /\ UNCHANGED <<till, counter, keyed, forgotten, rolled>>

\* Mutant: the totals are computed from the shift as it was looked up.
RecordSaleInShiftStale(q) ==
  LET s == req[q].shift
  IN /\ shift' = [shift EXCEPT ![s].total = @ + req[q].total, ![s].cash = @ + req[q].cash,
                               ![s].expected = shift[s].float + req[q].cash]
     /\ drawer' = [drawer EXCEPT ![s].sold = @ + req[q].cash]

Sold(sh, total, cash) ==
  [sh EXCEPT !.total = @ + total, !.cash = @ + cash, !.expected = @ + cash]

\* Relative to the row, whatever its status.
RecordSaleInShift(q) ==
  LET s == req[q].shift
  IN /\ shift' = [shift EXCEPT ![s] = Sold(@, req[q].total, req[q].cash)]
     /\ drawer' = [drawer EXCEPT ![s].sold = @ + req[q].cash]

\* The sale, its payments and the shift in one transaction.
CommitSale(q) ==
  /\ At(q, Selling, "commit")
  /\ RecordSaleInShift(q)
  /\ sales' = [sales EXCEPT ![req[q].shift] = [total |-> @.total + req[q].total, cash |-> @.cash + req[q].cash]]
  /\ executed' = [k \in Keys |-> executed[k] + IF k = req[q].key THEN 1 ELSE 0]
  /\ Answer(q, "done")
  /\ UNCHANGED <<moved, exchanged, counter, response, forgotten, rolled>>

-----------------------------------------------------------------------------
(* Cash out of the drawer.                                                 *)

\* POST /shift/movement, PAYOUT or DROP_OUT.
RequestMovement(q, c, a) ==
  /\ Begin(q, [Idle EXCEPT !.op = "movement", !.pc = "shift", !.who = c, !.amount = a])
  /\ UNCHANGED <<till, counter, keyed, forgotten, rolled>>

\* recordDrawerMovement looks at the status once more.
GuardMovement(q) ==
  /\ req[q].pc = "guard"
  /\ IF shift[req[q].shift].status = "OPEN" THEN Move(q, "payout") ELSE End(q)
  /\ UNCHANGED <<till, counter, keyed, forgotten, rolled>>

\* Its transaction is its own: an exchange that pays out goes on to its COMMIT.
RecordDrawerMovement(q) ==
  /\ req[q].pc = "payout"
  /\ shift' = [shift EXCEPT ![req[q].shift].expected = @ - req[q].amount]
  /\ drawer' = [drawer EXCEPT ![req[q].shift].out = @ + req[q].amount]
  /\ IF req[q].op = "movement"
       THEN moved' = [moved EXCEPT ![req[q].shift] = @ + req[q].amount] /\ End(q)
       ELSE Move(q, "outer") /\ UNCHANGED moved
  /\ UNCHANGED <<sales, exchanged, counter, keyed, forgotten, rolled>>

CommitExchange(q) ==
  /\ At(q, {"exchange"}, "outer")
  /\ exchanged' = [exchanged EXCEPT ![req[q].shift] = @ + req[q].amount]
  /\ Answer(q, "done")
  /\ UNCHANGED <<shift, drawer, sales, moved, counter, keyed, forgotten, rolled>>

-----------------------------------------------------------------------------
(* Closing and reconciling.                                                *)

RequestClose(q, c, n) ==
  /\ Begin(q, [Idle EXCEPT !.op = "close", !.pc = "shift", !.who = c, !.cash = n])
  /\ UNCHANGED <<till, counter, keyed, forgotten, rolled>>

\* Mutant: closeShift does not ask whether the shift is still open.
ReadForCloseLoosely(q) ==
  /\ req[q].pc = "count"
  /\ IF shift[req[q].shift].status # "NONE"
       THEN Become(q, [req[q] EXCEPT !.pc = "close", !.known = 0])
       ELSE End(q)
  /\ UNCHANGED <<till, counter, keyed, forgotten, rolled>>

ReadForClose(q) ==
  /\ req[q].pc = "count"
  /\ IF shift[req[q].shift].status = "OPEN"
       THEN Become(q, [req[q] EXCEPT !.pc = "close", !.known = shift[req[q].shift].expected])
       ELSE End(q)
  /\ UNCHANGED <<till, counter, keyed, forgotten, rolled>>

CloseShift(q) ==
  /\ req[q].pc = "close"
  /\ shift' = [shift EXCEPT ![req[q].shift] = [@ EXCEPT
                 !.status = "CLOSED", !.counted = req[q].cash, !.variance = req[q].cash - req[q].known]]
  /\ End(q)
  /\ UNCHANGED <<drawer, sales, moved, exchanged, counter, keyed, forgotten, rolled>>

ReadForReconcile(q, s) ==
  /\ shift[s].status = "CLOSED"
  /\ Begin(q, [Idle EXCEPT !.op = "reconcile", !.pc = "reconcile", !.shift = s])
  /\ UNCHANGED <<till, counter, keyed, forgotten, rolled>>

ReconcileShift(q) ==
  /\ req[q].pc = "reconcile"
  /\ shift' = [shift EXCEPT ![req[q].shift] = [@ EXCEPT !.status = "RECONCILED"]]
  /\ End(q)
  /\ UNCHANGED <<drawer, sales, moved, exchanged, counter, keyed, forgotten, rolled>>

-----------------------------------------------------------------------------
(* Refund requests.                                                        *)

RequestRefund(r) ==
  /\ refund[r] = "NONE" /\ \E s \in Shifts : sales[s].total > 0
  /\ refund' = [refund EXCEPT ![r] = "PENDING_APPROVAL"]
  /\ UNCHANGED <<till, repaid, keyed, req, asked, history>>

\* Mutant: a rejected request may still be approved.
ReadForApprovalLoosely(q, r) ==
  /\ refund[r] \in {"PENDING_APPROVAL", "REJECTED"}
  /\ Begin(q, [Idle EXCEPT !.op = "approve", !.pc = "approve", !.on = r])
  /\ UNCHANGED <<till, counter, keyed, forgotten, rolled>>

ReadForApproval(q, r) ==
  /\ refund[r] = "PENDING_APPROVAL"
  /\ Begin(q, [Idle EXCEPT !.op = "approve", !.pc = "approve", !.on = r])
  /\ UNCHANGED <<till, counter, keyed, forgotten, rolled>>

ApproveRefund(q) ==
  /\ req[q].pc = "approve"
  /\ refund' = [refund EXCEPT ![req[q].on] = "APPROVED"]
  /\ repaid' = [repaid EXCEPT ![req[q].on] = @ + 1]
  /\ End(q)
  /\ UNCHANGED <<till, keyed, forgotten, rolled>>

\* Asks only whether the request exists.
RejectRefund(r) ==
  /\ refund[r] # "NONE"
  /\ refund' = [refund EXCEPT ![r] = "REJECTED"]
  /\ UNCHANGED <<till, repaid, keyed, req, asked, history>>

-----------------------------------------------------------------------------
Ask(q) ==
  \/ \E c \in Cashiers :
       \/ \E f \in Floats : ReadForOpen(q, c, f)
       \/ \E t \in Tenders, k \in Keys \cup {NoKey} : Checkout(q, c, t, k)
       \/ \E t \in Tenders : BookCounterShipment(q, c, t) \/ Exchange(q, c, t, 0)
       \/ \E a \in Payouts : RequestMovement(q, c, a) \/ Exchange(q, c, [total |-> 0, cash |-> 0], a)
       \/ \E n \in Counts : RequestClose(q, c, n)
  \/ \E s \in Shifts : ReadForReconcile(q, s)
  \/ \E r \in Refunds : ReadForApproval(q, r)

Proceed(q) ==
  \/ CheckOpen(q) \/ FindShift(q) \/ UseOpened(q) \/ CommitSale(q) \/ Refuse(q)
  \/ \E f \in Floats : OpenShift(q, f)
  \/ GuardMovement(q) \/ RecordDrawerMovement(q) \/ CommitExchange(q)
  \/ ReadForClose(q) \/ CloseShift(q) \/ ReconcileShift(q)
  \/ ApproveRefund(q) \/ SaveResponse(q) \/ Fail(q)

Next ==
  \/ \E q \in Requests : Ask(q) \/ Proceed(q)
  \/ \E r \in Refunds : RequestRefund(r) \/ RejectRefund(r)

Spec == Init /\ [][Next]_vars

-----------------------------------------------------------------------------
(* Properties.                                                             *)

RequestRecords ==
  [op : {"none", "open", "checkout", "booking", "exchange", "movement", "close", "reconcile", "approve"},
   pc : {"idle", "shift", "check", "insert", "current", "commit", "save", "guard", "payout", "outer",
         "count", "close", "reconcile", "approve"},
   who : Cashiers \cup {"none"}, key : Keys \cup {NoKey}, shift : {0} \cup Shifts,
   on : Refunds \cup {"none"}, total : Nat, cash : Nat, amount : Nat, known : Int,
   result : {"none", "done", "refused"}]

ShiftRecords ==
  [status : SHIFT_STATUSES, by : Cashiers \cup {"none"}, float : Nat, total : Nat, cash : Nat,
   expected : Int, counted : Nat, variance : Int]

\* Types of the variables.
TypeOK ==
  /\ shift \in [Shifts -> ShiftRecords]
  /\ drawer \in [Shifts -> [in : Nat, sold : Nat, out : Nat]]
  /\ sales \in [Shifts -> [total : Nat, cash : Nat]]
  /\ moved \in [Shifts -> Nat] /\ exchanged \in [Shifts -> Nat]
  /\ refund \in [Refunds -> {"NONE", "PENDING_APPROVAL", "APPROVED", "REJECTED"}]
  /\ repaid \in [Refunds -> Nat]
  /\ response \in [Keys -> {"none", "done", "refused"}] /\ executed \in [Keys -> Nat]
  /\ req \in [Requests -> RequestRecords]
  /\ asked \in Nat /\ forgotten \subseteq Keys /\ rolled \subseteq Shifts

\* The expected cash of a shift is what the movements of its drawer come to, and
\* its totals are its sales and bookings, whatever overlaps and whenever it is
\* closed.
TotalsAddUp ==
  \A s \in Shifts :
    /\ drawer[s].in = shift[s].float
    /\ shift[s].expected = drawer[s].in + drawer[s].sold - drawer[s].out
    /\ shift[s].cash = drawer[s].sold /\ shift[s].cash = sales[s].cash
    /\ shift[s].total = sales[s].total

\* What left the drawer was taken by staff or belongs to an exchange on record -
\* or is on its way to be, or its exchange rolled back after the drawer had paid.
PayoutsExplained ==
  \A s \in Shifts :
    /\ moved[s] + exchanged[s] <= drawer[s].out
    /\ moved[s] + exchanged[s] < drawer[s].out =>
         s \in rolled \/ \E q \in Requests : At(q, {"exchange"}, "outer") /\ req[q].shift = s

\* The drawer, the shift and the sales tell the same story.
DrawerAgrees == TotalsAddUp /\ PayoutsExplained

\* A cashier has one open shift ("Check if cashier already has an active open
\* shift", posShiftService.js:59), unless two requests opened one at once.
OneOpenShift == \A c \in Cashiers \ contended : \A s, t \in Open(c) : s = t

\* The variance of a closed shift is what was counted less what is expected - no
\* sale is missing from it - unless something else went on while it was closed.
VarianceIsTrue ==
  \A s \in Shifts \ contended :
    shift[s].status \in {"CLOSED", "RECONCILED"} => shift[s].variance = shift[s].counted - shift[s].expected

\* What a shift says of itself is so.
ShiftsAgree == OneOpenShift /\ VarianceIsTrue

Stage(status) ==
  CASE status = "NONE" -> 0 [] status = "OPEN" -> 1 [] status = "CLOSED" -> 2 [] OTHER -> 3

\* A shift moves forward only, and once it is closed nothing is sold in it and
\* nothing leaves its drawer, unless a request overlapped its closing.
ClosedShiftStands ==
  [][\A s \in Shifts \ contended' :
       /\ Stage(shift'[s].status) >= Stage(shift[s].status)
       /\ shift[s].status \in {"CLOSED", "RECONCILED"} => shift'[s].expected = shift[s].expected]_vars

\* A checkout that is sent again under its key is made once, and the answer stored
\* is what happened - unless the second came before the first was answered, or the
\* answer was not stored or not found.
KeyedOnce ==
  \A k \in Keys \ (contended \cup forgotten) :
    /\ executed[k] <= 1
    /\ response[k] = "done" => executed[k] = 1
    /\ response[k] = "refused" => executed[k] = 0

\* A refund request is paid once, and not before it is approved, unless two
\* managers approved it at once; a rejection, which asks for nothing, does not
\* make it payable again.
RefundedOnce ==
  \A r \in Refunds :
    /\ repaid[r] <= 1 \/ r \in contended
    /\ refund[r] = "PENDING_APPROVAL" => repaid[r] = 0
    /\ refund[r] = "APPROVED" => repaid[r] > 0

\* What is done once stays done once, however often it is asked for.
MadeOnce == KeyedOnce /\ RefundedOnce
=============================================================================
