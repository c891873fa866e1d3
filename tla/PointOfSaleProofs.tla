-------------------------- MODULE PointOfSaleProofs --------------------------
(***************************************************************************)
(* Proofs about PointOfSale for any number of requests, cashiers, shifts,  *)
(* refund requests and keys, and any amounts.  The drawer ledger adds up   *)
(* however requests interleave, because every write of it is relative; a   *)
(* closed shift, a key and a refund are what they say as long as nothing   *)
(* raced on them.                                                          *)
(***************************************************************************)
EXTENDS PointOfSale, TLAPS

\* A request that is about a shift, a cashier, a refund or a key has one, and is
\* where its handler can be.
Placed(x) ==
  /\ x.pc \in {"commit", "guard", "payout", "outer", "count", "close", "reconcile"} => x.shift \in Shifts
  /\ x.pc \in {"shift", "check", "insert", "current"} => x.who \in Cashiers /\ x.shift = 0
  /\ x.op = "approve" <=> x.pc = "approve"
  /\ x.op = "approve" => x.on \in Refunds
  /\ x.op = "reconcile" <=> x.pc = "reconcile"
  /\ x.op = "close" => x.pc \in {"shift", "count", "close"}
  /\ x.pc \in {"count", "close"} => x.op = "close"
  /\ x.pc \in {"check", "current", "commit"} => x.op \in Selling
  /\ x.op = "open" => x.pc = "insert"
  /\ x.pc = "insert" => x.op \in Selling \cup {"open"}
  /\ x.pc = "payout" => x.op \in {"movement", "exchange"}
  /\ x.pc = "guard" => x.op \in {"movement", "exchange"}
  /\ x.pc = "outer" => x.op = "exchange"
  /\ x.key # NoKey => /\ x.key \in Keys /\ x.op = "checkout"
                      /\ x.pc \in {"shift", "check", "insert", "current", "commit", "save"}
  /\ x.pc = "save" => x.key # NoKey /\ x.result \in {"done", "refused"}
  /\ x.op = "none" <=> x.pc = "idle"
  /\ x.pc = "idle" => x = Idle

TypeInv == TypeOK /\ \A q \in Requests : Placed(req[q])

\* What request rq has just read when it goes on as x.
Fresh(rq, x) ==
  /\ x.shift \in Shifts => x.shift = rq.shift \/ shift[x.shift].status # "NONE"
  /\ x.pc \in {"commit", "payout"} => shift[x.shift].status = "OPEN"
  /\ x.pc = "close" => shift[x.shift].status = "OPEN" /\ x.known = shift[x.shift].expected
  /\ x.op = "reconcile" => shift[x.shift].status = "CLOSED"
  /\ x.pc = "insert" => Open(x.who) = {}
  /\ x.op = "approve" => refund[x.on] = "PENDING_APPROVAL"
  /\ x.pc = "outer" => rq.pc = "payout"
  /\ x.key # NoKey => x.key = rq.key \/ ((response[x.key] = "none" \/ x.key \in forgotten') /\ x.pc = "shift" /\ rq = Idle)

LEMMA IdleTyped == Idle \in RequestRecords /\ Placed(Idle) /\ \A rq : Fresh(rq, Idle)
BY PointOfSaleAssumption DEF Idle, RequestRecords, Placed, Selling, Shifts, Fresh

-----------------------------------------------------------------------------
(* Types.                                                                  *)

\* The tables keep their types.
TablesTyped ==
  /\ shift \in [Shifts -> ShiftRecords]
  /\ drawer \in [Shifts -> [in : Nat, sold : Nat, out : Nat]]
  /\ sales \in [Shifts -> [total : Nat, cash : Nat]]
  /\ moved \in [Shifts -> Nat] /\ exchanged \in [Shifts -> Nat]
  /\ refund \in [Refunds -> {"NONE", "PENDING_APPROVAL", "APPROVED", "REJECTED"}]
  /\ repaid \in [Refunds -> Nat]
  /\ response \in [Keys -> {"none", "done", "refused"}] /\ executed \in [Keys -> Nat]
  /\ forgotten \subseteq Keys /\ rolled \subseteq Shifts

tables == <<till, counter, keyed, forgotten, rolled>>

\* A request that arrives changes no table; a key it does not find is forgotten.
Kept ==
  /\ UNCHANGED <<till, counter, keyed, rolled>>
  /\ forgotten \subseteq forgotten' /\ forgotten' \subseteq Keys

\* Request q goes on as x, and what races then is noted.
Goes(q, x) ==
  /\ req' = [req EXCEPT ![q] = x] /\ x \in RequestRecords /\ Placed(x) /\ Fresh(req[q], x)
  /\ contended' = contended \cup Races(req')
  /\ asked' \in Nat

LEMMA EndGoes ==
  ASSUME TypeInv, NEW q \in Requests, End(q)
  PROVE  Goes(q, Idle)
BY IdleTyped DEF End, Become, Goes, TypeInv, TypeOK

LEMMA MoveGoes ==
  ASSUME TypeInv, NEW q \in Requests, NEW p, Move(q, p), [req[q] EXCEPT !.pc = p] \in RequestRecords,
         Placed([req[q] EXCEPT !.pc = p]), Fresh(req[q], [req[q] EXCEPT !.pc = p])
  PROVE  Goes(q, [req[q] EXCEPT !.pc = p])
BY DEF Move, Become, Goes, TypeInv, TypeOK

\* What a request that has its answer becomes.
Answered(q, result) ==
  IF req[q].key = NoKey THEN Idle ELSE [req[q] EXCEPT !.pc = "save", !.result = result]

LEMMA AnswerGoes ==
  ASSUME TypeInv, NEW q \in Requests, NEW result \in {"done", "refused"}, Answer(q, result)
  PROVE  Goes(q, Answered(q, result))
<1>1. CASE req[q].key = NoKey BY <1>1, EndGoes DEF Answer, Answered
<1>2. CASE req[q].key # NoKey
  <2> DEFINE x == [req[q] EXCEPT !.pc = "save", !.result = result]
  <2>1. req[q] \in RequestRecords /\ Placed(req[q]) BY DEF TypeInv, TypeOK
  <2>2. x \in RequestRecords BY ZenonT(60), <2>1 DEF RequestRecords
  <2>3. x.op = "checkout" /\ x.key = req[q].key /\ x.pc = "save" /\ x.result = result
        /\ x.shift = req[q].shift
        /\ x.key \in Keys
    BY <1>2, <2>1 DEF RequestRecords, Placed
  <2>4. req' = [req EXCEPT ![q] = x] /\ contended' = contended \cup Races(req') /\ asked' \in Nat
    BY <1>2 DEF Answer, Become, TypeInv, TypeOK
  <2>5. Answered(q, result) = x BY <1>2 DEF Answered
  <2> HIDE DEF x
  <2>6. Placed(x) BY <1>2, <2>3 DEF Placed, Selling
  <2>7. Fresh(req[q], x) BY <2>3 DEF Fresh
  <2> QED BY <2>2, <2>4, <2>5, <2>6, <2>7 DEF Goes
<1> QED BY <1>1, <1>2

LEMMA BeginGoes ==
  ASSUME TypeInv, NEW q \in Requests, NEW x \in RequestRecords, Placed(x), Fresh(Idle, x), Begin(q, x)
  PROVE  Goes(q, x) /\ req[q] = Idle
BY PointOfSaleAssumption DEF Begin, Goes, TypeInv, TypeOK

LEMMA AskGoes ==
  ASSUME TypeInv, NEW q \in Requests, Ask(q)
  PROVE  /\ Kept /\ req[q] = Idle
         /\ \E x \in RequestRecords : Goes(q, x)
<1>1. ASSUME NEW c \in Cashiers, NEW f \in Floats, ReadForOpen(q, c, f)
      PROVE  Kept /\ req[q] = Idle /\ \E x \in RequestRecords : Goes(q, x)
  <2> DEFINE x == [Idle EXCEPT !.op = "open", !.pc = "insert", !.who = c, !.cash = f]
  <2>0. f \in Nat BY PointOfSaleAssumption
  <2>1. x \in RequestRecords BY ZenonT(60), IdleTyped, <2>0 DEF RequestRecords
  <2>2. x.op = "open" /\ x.pc = "insert" /\ x.who = c /\ x.key = NoKey /\ x.shift = 0
    BY DEF Idle
  <2>3. Begin(q, x) /\ Kept BY <1>1 DEF ReadForOpen, tables, Kept, TypeInv, TypeOK
  <2> HIDE DEF x
  <2>4. Placed(x) BY <2>2, PointOfSaleAssumption DEF Placed, Selling
  <2>5. Fresh(Idle, x) BY <1>1, <2>2, PointOfSaleAssumption DEF Fresh, ReadForOpen, Shifts
  <2> QED BY <2>1, <2>3, <2>4, <2>5, BeginGoes
<1>2. ASSUME NEW c \in Cashiers, NEW t \in Tenders, NEW k \in Keys \cup {NoKey}, Checkout(q, c, t, k)
      PROVE  Kept /\ req[q] = Idle /\ \E x \in RequestRecords : Goes(q, x)
  <2> DEFINE x == [Idle EXCEPT !.op = "checkout", !.pc = "shift", !.who = c, !.key = k,
                               !.total = t.total, !.cash = t.cash]
  <2>0. t.total \in Nat /\ t.cash \in Nat BY PointOfSaleAssumption
  <2>1. x \in RequestRecords BY ZenonT(60), IdleTyped, <2>0 DEF RequestRecords
  <2>2. x.op = "checkout" /\ x.pc = "shift" /\ x.who = c /\ x.key = k /\ x.shift = 0 /\ x.amount = 0
    BY DEF Idle
  <2>3. Begin(q, x) /\ Kept BY <1>2 DEF Checkout, Kept, TypeInv, TypeOK
  <2> HIDE DEF x
  <2>4. Placed(x) BY <2>2, PointOfSaleAssumption DEF Placed, Selling
  <2>5. Fresh(Idle, x) BY <1>2, <2>2, PointOfSaleAssumption DEF Fresh, Checkout, Shifts
  <2> QED BY <2>1, <2>3, <2>4, <2>5, BeginGoes
<1>3. ASSUME NEW c \in Cashiers, NEW t \in Tenders, BookCounterShipment(q, c, t)
      PROVE  Kept /\ req[q] = Idle /\ \E x \in RequestRecords : Goes(q, x)
  <2> DEFINE x == [Idle EXCEPT !.op = "booking", !.pc = "shift", !.who = c,
                               !.total = t.total, !.cash = t.cash]
  <2>0. t.total \in Nat /\ t.cash \in Nat BY PointOfSaleAssumption
  <2>1. x \in RequestRecords BY ZenonT(60), IdleTyped, <2>0 DEF RequestRecords
  <2>2. x.op = "booking" /\ x.pc = "shift" /\ x.who = c /\ x.key = NoKey /\ x.shift = 0 /\ x.amount = 0
    BY DEF Idle
  <2>3. Begin(q, x) /\ Kept BY <1>3 DEF BookCounterShipment, tables, Kept, TypeInv, TypeOK
  <2> HIDE DEF x
  <2>4. Placed(x) BY <2>2, PointOfSaleAssumption DEF Placed, Selling
  <2>5. Fresh(Idle, x) BY <1>3, <2>2, PointOfSaleAssumption DEF Fresh, BookCounterShipment, Shifts
  <2> QED BY <2>1, <2>3, <2>4, <2>5, BeginGoes
<1>4. ASSUME NEW c \in Cashiers, NEW t \in [total : Nat, cash : Nat], NEW a \in Nat, Exchange(q, c, t, a)
      PROVE  Kept /\ req[q] = Idle /\ \E x \in RequestRecords : Goes(q, x)
  <2> DEFINE x == [Idle EXCEPT !.op = "exchange", !.pc = "shift", !.who = c,
                               !.total = t.total, !.cash = t.cash, !.amount = a]
  <2>0. t.total \in Nat /\ t.cash \in Nat OBVIOUS
  <2>1. x \in RequestRecords BY ZenonT(60), IdleTyped, <2>0 DEF RequestRecords
  <2>2. x.op = "exchange" /\ x.pc = "shift" /\ x.who = c /\ x.key = NoKey /\ x.shift = 0
    BY DEF Idle
  <2>3. Begin(q, x) /\ Kept BY <1>4 DEF Exchange, tables, Kept, TypeInv, TypeOK
  <2> HIDE DEF x
  <2>4. Placed(x) BY <2>2, PointOfSaleAssumption DEF Placed, Selling
  <2>5. Fresh(Idle, x) BY <1>4, <2>2, PointOfSaleAssumption DEF Fresh, Exchange, Shifts
  <2> QED BY <2>1, <2>3, <2>4, <2>5, BeginGoes
<1>5. ASSUME NEW c \in Cashiers, NEW a \in Payouts, RequestMovement(q, c, a)
      PROVE  Kept /\ req[q] = Idle /\ \E x \in RequestRecords : Goes(q, x)
  <2> DEFINE x == [Idle EXCEPT !.op = "movement", !.pc = "shift", !.who = c, !.amount = a]
  <2>0. a \in Nat BY PointOfSaleAssumption
  <2>1. x \in RequestRecords BY ZenonT(60), IdleTyped, <2>0 DEF RequestRecords
  <2>2. x.op = "movement" /\ x.pc = "shift" /\ x.who = c /\ x.key = NoKey /\ x.shift = 0
    BY DEF Idle
  <2>3. Begin(q, x) /\ Kept BY <1>5 DEF RequestMovement, tables, Kept, TypeInv, TypeOK
  <2> HIDE DEF x
  <2>4. Placed(x) BY <2>2, PointOfSaleAssumption DEF Placed, Selling
  <2>5. Fresh(Idle, x) BY <1>5, <2>2, PointOfSaleAssumption DEF Fresh, RequestMovement, Shifts
  <2> QED BY <2>1, <2>3, <2>4, <2>5, BeginGoes
<1>6. ASSUME NEW c \in Cashiers, NEW n \in Counts, RequestClose(q, c, n)
      PROVE  Kept /\ req[q] = Idle /\ \E x \in RequestRecords : Goes(q, x)
  <2> DEFINE x == [Idle EXCEPT !.op = "close", !.pc = "shift", !.who = c, !.cash = n]
  <2>0. n \in Nat BY PointOfSaleAssumption
  <2>1. x \in RequestRecords BY ZenonT(60), IdleTyped, <2>0 DEF RequestRecords
  <2>2. x.op = "close" /\ x.pc = "shift" /\ x.who = c /\ x.key = NoKey /\ x.shift = 0
    BY DEF Idle
  <2>3. Begin(q, x) /\ Kept BY <1>6 DEF RequestClose, tables, Kept, TypeInv, TypeOK
  <2> HIDE DEF x
  <2>4. Placed(x) BY <2>2, PointOfSaleAssumption DEF Placed, Selling
  <2>5. Fresh(Idle, x) BY <1>6, <2>2, PointOfSaleAssumption DEF Fresh, RequestClose, Shifts
  <2> QED BY <2>1, <2>3, <2>4, <2>5, BeginGoes
<1>7. ASSUME NEW s \in Shifts, ReadForReconcile(q, s)
      PROVE  Kept /\ req[q] = Idle /\ \E x \in RequestRecords : Goes(q, x)
  <2> DEFINE x == [Idle EXCEPT !.op = "reconcile", !.pc = "reconcile", !.shift = s]
  <2>1. x \in RequestRecords BY ZenonT(60), IdleTyped DEF RequestRecords
  <2>2. x.op = "reconcile" /\ x.pc = "reconcile" /\ x.key = NoKey /\ x.shift = s
    BY DEF Idle
  <2>3. Begin(q, x) /\ Kept BY <1>7 DEF ReadForReconcile, tables, Kept, TypeInv, TypeOK
  <2> HIDE DEF x
  <2>4. Placed(x) BY <2>2, PointOfSaleAssumption DEF Placed, Selling
  <2>5. Fresh(Idle, x) BY <1>7, <2>2, PointOfSaleAssumption DEF Fresh, ReadForReconcile, Shifts
  <2> QED BY <2>1, <2>3, <2>4, <2>5, BeginGoes
<1>8. ASSUME NEW r \in Refunds, ReadForApproval(q, r)
      PROVE  Kept /\ req[q] = Idle /\ \E x \in RequestRecords : Goes(q, x)
  <2> DEFINE x == [Idle EXCEPT !.op = "approve", !.pc = "approve", !.on = r]
  <2>1. x \in RequestRecords BY ZenonT(60), IdleTyped DEF RequestRecords
  <2>2. x.op = "approve" /\ x.pc = "approve" /\ x.key = NoKey /\ x.on = r /\ x.shift = 0
    BY DEF Idle
  <2>3. Begin(q, x) /\ Kept BY <1>8 DEF ReadForApproval, tables, Kept, TypeInv, TypeOK
  <2> HIDE DEF x
  <2>4. Placed(x) BY <2>2, PointOfSaleAssumption DEF Placed, Selling
  <2>5. Fresh(Idle, x) BY <1>8, <2>2, PointOfSaleAssumption DEF Fresh, ReadForApproval, Shifts
  <2> QED BY <2>1, <2>3, <2>4, <2>5, BeginGoes
<1>9. [total |-> 0, cash |-> 0] \in [total : Nat, cash : Nat] OBVIOUS
<1> QED BY <1>1, <1>2, <1>3, <1>4, <1>5, <1>6, <1>7, <1>8, <1>9, PointOfSaleAssumption DEF Ask

LEMMA ShiftTyped ==
  ASSUME TypeInv, NEW s \in Shifts
  PROVE  shift[s] \in ShiftRecords /\ shift[s].expected \in Int
<1>1. shift[s] \in ShiftRecords BY DEF TypeInv, TypeOK
<1> QED BY <1>1 DEF ShiftRecords

LEMMA ReqTyped ==
  ASSUME TypeInv, NEW q \in Requests
  PROVE  /\ req[q] \in RequestRecords /\ Placed(req[q])
         /\ req[q].total \in Nat /\ req[q].cash \in Nat /\ req[q].amount \in Nat /\ req[q].known \in Int
<1>1. req[q] \in RequestRecords /\ Placed(req[q]) BY DEF TypeInv, TypeOK
<1> QED BY <1>1 DEF RequestRecords

LEMMA CloseTyped ==
  ASSUME NEW rq \in RequestRecords, NEW e \in Int
  PROVE  [rq EXCEPT !.pc = "close", !.known = e] \in RequestRecords
BY DEF RequestRecords

LEMMA FirstStepPlaced ==
  ASSUME NEW rq \in RequestRecords, rq.op \in Selling \cup {"movement", "close"}
  PROVE  /\ FirstStep(rq) \in {"count", "guard", "commit"}
         /\ FirstStep(rq) = "count" <=> rq.op = "close"
         /\ FirstStep(rq) = "guard" => rq.op \in {"movement", "exchange"}
         /\ FirstStep(rq) = "commit" => rq.op \in Selling
<1>1. CASE rq.op = "close" BY <1>1 DEF FirstStep
<1>2. CASE rq.op = "movement" BY <1>2 DEF FirstStep
<1>3. CASE rq.op = "exchange" /\ rq.amount > 0 BY <1>3 DEF FirstStep, Selling
<1>4. CASE rq.op \in Selling /\ ~(rq.op = "exchange" /\ rq.amount > 0) BY <1>4 DEF FirstStep, Selling
<1> QED BY <1>1, <1>2, <1>3, <1>4

LEMMA UseGoes ==
  ASSUME TypeInv, NEW q \in Requests, NEW s \in Shifts, Use(q, s), s \in Open(req[q].who),
         req[q].pc \in {"shift", "current"}
  PROVE  Goes(q, [req[q] EXCEPT !.shift = s, !.pc = FirstStep(req[q])])
<1> DEFINE p == FirstStep(req[q])
           x == [req[q] EXCEPT !.shift = s, !.pc = p]
<1>1. req[q] \in RequestRecords /\ Placed(req[q]) BY DEF TypeInv, TypeOK
<1>2. req[q].op \in Selling \cup {"movement", "close"}
  BY <1>1 DEF RequestRecords, Placed, Selling
<1>3. /\ p \in {"count", "guard", "commit"} /\ (p = "count" <=> req[q].op = "close")
      /\ (p = "guard" => req[q].op \in {"movement", "exchange"}) /\ (p = "commit" => req[q].op \in Selling)
  BY <1>1, <1>2, FirstStepPlaced
<1>4. req' = [req EXCEPT ![q] = x] /\ contended' = contended \cup Races(req') /\ asked' \in Nat
  BY DEF Use, Become, TypeInv, TypeOK
<1> HIDE DEF p
<1>5. x \in RequestRecords BY <1>1, <1>3 DEF RequestRecords
<1>6. x.pc = p /\ x.shift = s /\ x.op = req[q].op /\ x.key = req[q].key
  BY <1>1 DEF RequestRecords
<1> HIDE DEF x
<1>7. x.key # NoKey => x.key \in Keys /\ x.op = "checkout"
  BY <1>1, <1>6 DEF Placed
<1>8. Placed(x)
  BY <1>2, <1>3, <1>6, <1>7 DEF Placed, Selling
<1>9. Fresh(req[q], x) BY <1>2, <1>3, <1>6 DEF Fresh, Open, Selling
<1> QED BY <1>4, <1>5, <1>8, <1>9 DEF Goes, p, x

\* Every other step of a request: it goes on, or is done.
LEMMA ProceedGoes ==
  ASSUME TypeInv, NEW q \in Requests, Proceed(q)
  PROVE  \E x \in RequestRecords : Goes(q, x)
<1> USE IdleTyped, EndGoes
<1>0. req[q] \in RequestRecords /\ Placed(req[q]) BY DEF TypeInv, TypeOK
<1>1. ASSUME NEW p \in {"check", "insert", "current"}, Move(q, p), req[q].op \in Selling,
             req[q].pc \in {"shift", "check", "insert"}, p = "insert" => Open(req[q].who) = {}
      PROVE  \E x \in RequestRecords : Goes(q, x)
  <2> DEFINE x == [req[q] EXCEPT !.pc = p]
  <2>1. x \in RequestRecords BY <1>0 DEF RequestRecords
  <2>2. x.pc = p /\ x.op = req[q].op /\ x.who = req[q].who /\ x.shift = req[q].shift /\ x.key = req[q].key
    BY <1>0 DEF RequestRecords
  <2> HIDE DEF x
  <2>3. Placed(x) BY <1>0, <1>1, <2>2 DEF Placed, Selling
  <2>4. Fresh(req[q], x) BY <1>1, <2>2 DEF Fresh, Selling
  <2> QED BY <1>1, <2>1, <2>3, <2>4, MoveGoes DEF x
<1>2. ASSUME NEW p \in {"payout", "outer"}, Move(q, p), req[q].pc \in {"guard", "payout"},
             p = "outer" => req[q].op = "exchange" /\ req[q].pc = "payout",
             p = "payout" => shift[req[q].shift].status = "OPEN"
      PROVE  \E x \in RequestRecords : Goes(q, x)
  <2> DEFINE x == [req[q] EXCEPT !.pc = p]
  <2>1. x \in RequestRecords BY <1>0 DEF RequestRecords
  <2>2. x.pc = p /\ x.op = req[q].op /\ x.who = req[q].who /\ x.shift = req[q].shift /\ x.key = req[q].key
    BY <1>0 DEF RequestRecords
  <2> HIDE DEF x
  <2>3. Placed(x) BY <1>0, <1>2, <2>2 DEF Placed, Selling
  <2>4. Fresh(req[q], x) BY <1>0, <1>2, <2>2 DEF Fresh, Placed, Selling
  <2> QED BY <1>2, <2>1, <2>3, <2>4, MoveGoes DEF x
<1>3. ASSUME NEW result \in {"done", "refused"}, Answer(q, result)
      PROVE  \E x \in RequestRecords : Goes(q, x)
  BY <1>3, AnswerGoes DEF Goes
<1>4. ASSUME CheckOpen(q) PROVE \E x \in RequestRecords : Goes(q, x)
  BY <1>1, <1>4 DEF CheckOpen, At
<1>5. ASSUME FindShift(q) PROVE \E x \in RequestRecords : Goes(q, x)
  <2>1. ASSUME NEW s \in Shifts, GetCurrentShift(req[q].who, s), Use(q, s)
        PROVE  \E x \in RequestRecords : Goes(q, x)
    BY <1>5, <2>1, UseGoes DEF FindShift, GetCurrentShift, Goes
  <2> QED BY <1>1, <1>3, <1>5, <2>1 DEF FindShift
<1>6. ASSUME UseOpened(q) PROVE \E x \in RequestRecords : Goes(q, x)
  <2>1. ASSUME NEW s \in Shifts, GetCurrentShift(req[q].who, s), Use(q, s)
        PROVE  \E x \in RequestRecords : Goes(q, x)
    BY <1>6, <2>1, UseGoes DEF UseOpened, GetCurrentShift, Goes
  <2> QED BY <1>6, <2>1 DEF UseOpened
<1>7. ASSUME CommitSale(q) \/ Refuse(q) \/ CommitExchange(q) PROVE \E x \in RequestRecords : Goes(q, x)
  BY <1>3, <1>7 DEF CommitSale, Refuse, CommitExchange
<1>8. ASSUME NEW f \in Floats, OpenShift(q, f) PROVE \E x \in RequestRecords : Goes(q, x)
  <2>1. req[q].pc = "insert" /\ (End(q) \/ (req[q].op # "open" /\ Move(q, "current")))
    BY <1>8 DEF OpenShift
  <2>2. req[q].op # "open" => req[q].op \in Selling BY <1>0, <2>1 DEF Placed
  <2>3. CASE End(q) BY <2>3
  <2>4. CASE req[q].op # "open" /\ Move(q, "current") BY <1>1, <2>1, <2>2, <2>4
  <2> QED BY <2>1, <2>3, <2>4
<1>9. ASSUME GuardMovement(q) PROVE \E x \in RequestRecords : Goes(q, x)
  BY <1>2, <1>9 DEF GuardMovement
<1>10. ASSUME RecordDrawerMovement(q) PROVE \E x \in RequestRecords : Goes(q, x)
  <2>1. req[q].pc = "payout" /\ (End(q) \/ (req[q].op # "movement" /\ Move(q, "outer")))
    BY <1>10 DEF RecordDrawerMovement
  <2>2. req[q].op # "movement" => req[q].op = "exchange" BY <1>0, <2>1 DEF Placed
  <2> QED BY <1>2, <2>1, <2>2
<1>11. ASSUME ReadForClose(q) PROVE \E x \in RequestRecords : Goes(q, x)
  <2>1. CASE End(q) BY <2>1
  <2>2. CASE /\ shift[req[q].shift].status = "OPEN"
             /\ Become(q, [req[q] EXCEPT !.pc = "close", !.known = shift[req[q].shift].expected])
    <3> DEFINE e == shift[req[q].shift].expected
               x == [req[q] EXCEPT !.pc = "close", !.known = e]
    <3>1. req[q].pc = "count" /\ req[q].shift \in Shifts BY <1>0, <1>11 DEF ReadForClose, Placed
    <3>2. e \in Int BY <3>1, ShiftTyped
    <3> HIDE DEF e
    <3>3. x \in RequestRecords BY <1>0, <3>2, CloseTyped
    <3>4. x.pc = "close" /\ x.op = req[q].op /\ x.shift = req[q].shift /\ x.key = req[q].key /\ x.known = e
      BY <1>0 DEF RequestRecords
    <3>5. req' = [req EXCEPT ![q] = x] /\ contended' = contended \cup Races(req') /\ asked' \in Nat
      BY <2>2 DEF Become, TypeInv, TypeOK, e
    <3> HIDE DEF x
    <3>6. Placed(x) BY <1>0, <3>1, <3>4 DEF Placed, Selling
    <3>7. Fresh(req[q], x) BY <1>0, <2>2, <3>1, <3>4 DEF Fresh, Placed, e
    <3> QED BY <3>3, <3>5, <3>6, <3>7 DEF Goes
  <2> QED BY <1>11, <2>1, <2>2 DEF ReadForClose
<1>12. ASSUME CloseShift(q) \/ ReconcileShift(q) \/ ApproveRefund(q) \/ SaveResponse(q) \/ Fail(q)
       PROVE \E x \in RequestRecords : Goes(q, x)
  BY <1>12 DEF CloseShift, ReconcileShift, ApproveRefund, SaveResponse, Fail
<1> QED BY <1>4, <1>5, <1>6, <1>7, <1>8, <1>9, <1>10, <1>11, <1>12 DEF Proceed

LEMMA SoldTyped ==
  ASSUME NEW r \in ShiftRecords, NEW n \in Nat, NEW m \in Nat
  PROVE  Sold(r, n, m) \in ShiftRecords
<1>1. r.total + n \in Nat /\ r.cash + m \in Nat /\ r.expected + m \in Int BY DEF ShiftRecords
<1> QED BY <1>1 DEF Sold, ShiftRecords

\* The requests that touch no table.
Reading(q) ==
  CheckOpen(q) \/ FindShift(q) \/ UseOpened(q) \/ Refuse(q) \/ GuardMovement(q) \/ ReadForClose(q)

LEMMA ReadingLeaves ==
  ASSUME NEW q, Reading(q)
  PROVE  UNCHANGED tables
BY DEF Reading, CheckOpen, FindShift, UseOpened, Refuse, GuardMovement, ReadForClose, tables,
       till, counter, keyed

LEMMA TablesStep ==
  ASSUME TypeInv, Next
  PROVE  TablesTyped'
<1>0. TablesTyped BY DEF TypeInv, TypeOK, TablesTyped
<1>1. CASE UNCHANGED tables BY <1>0, <1>1 DEF TablesTyped, tables, till, counter, keyed
<1>2. ASSUME NEW q \in Requests, NEW f \in Floats, OpenShift(q, f) PROVE TablesTyped'
  <2>1. f \in Nat /\ req[q].who \in Cashiers
    BY <1>2, PointOfSaleAssumption, ReqTyped DEF OpenShift, Placed
  <2> DEFINE x == NewShift(req[q].who, f)
  <2>2. PICK s \in Shifts : shift' = [shift EXCEPT ![s] = x] /\ drawer' = [drawer EXCEPT ![s].in = @ + f]
    BY <1>2 DEF OpenShift
  <2>3. x \in ShiftRecords BY <2>1 DEF NewShift, SHIFT_STATUSES, ShiftRecords
  <2> HIDE DEF x
  <2>4. shift' \in [Shifts -> ShiftRecords] BY <1>0, <2>2, <2>3 DEF TablesTyped
  <2>5. drawer' \in [Shifts -> [in : Nat, sold : Nat, out : Nat]] BY <1>0, <2>1, <2>2 DEF TablesTyped
  <2> QED BY <1>0, <1>2, <2>4, <2>5 DEF TablesTyped, OpenShift, counter, keyed
<1>3. ASSUME NEW q \in Requests, CommitSale(q) PROVE TablesTyped'
  <2> DEFINE s == req[q].shift
  <2>1. s \in Shifts /\ req[q].total \in Nat /\ req[q].cash \in Nat
    BY <1>3, ReqTyped DEF CommitSale, At, Placed
  <2> DEFINE x == Sold(shift[s], req[q].total, req[q].cash)
  <2>6. shift' = [shift EXCEPT ![s] = x] BY <1>3 DEF CommitSale, RecordSaleInShift
  <2>7. x \in ShiftRecords BY <2>1, ShiftTyped, SoldTyped
  <2> HIDE DEF x
  <2>2. shift' \in [Shifts -> ShiftRecords] BY <1>0, <2>6, <2>7 DEF TablesTyped
  <2>8. drawer' = [drawer EXCEPT ![s].sold = @ + req[q].cash] BY <1>3 DEF CommitSale, RecordSaleInShift
  <2>9. drawer[s] \in [in : Nat, sold : Nat, out : Nat] BY <1>0, <2>1 DEF TablesTyped
  <2>10. drawer[s].sold + req[q].cash \in Nat BY <2>1, <2>9
  <2>3. drawer' \in [Shifts -> [in : Nat, sold : Nat, out : Nat]]
    BY <1>0, <2>8, <2>9, <2>10 DEF TablesTyped
  <2>4. sales' \in [Shifts -> [total : Nat, cash : Nat]]
    BY <1>0, <1>3, <2>1 DEF TablesTyped, CommitSale
  <2>5. executed' \in [Keys -> Nat] BY <1>0, <1>3 DEF TablesTyped, CommitSale
  <2> QED BY <1>0, <1>3, <2>2, <2>3, <2>4, <2>5 DEF TablesTyped, CommitSale, counter
<1>4. ASSUME NEW q \in Requests, RecordDrawerMovement(q) PROVE TablesTyped'
  <2> DEFINE s == req[q].shift
  <2>1. s \in Shifts /\ req[q].amount \in Nat
    BY <1>4, ReqTyped DEF RecordDrawerMovement, Placed
  <2> DEFINE x == [shift[s] EXCEPT !.expected = @ - req[q].amount]
  <2>6. shift' = [shift EXCEPT ![s] = x] BY <1>4 DEF RecordDrawerMovement
  <2>7. x \in ShiftRecords
    <3>1. shift[s] \in ShiftRecords BY <2>1, ShiftTyped
    <3>2. shift[s].expected - req[q].amount \in Int BY <2>1, ShiftTyped
    <3> QED BY <3>1, <3>2 DEF ShiftRecords
  <2> HIDE DEF x
  <2>2. shift' \in [Shifts -> ShiftRecords] BY <1>0, <2>6, <2>7 DEF TablesTyped
  <2>8. drawer' = [drawer EXCEPT ![s].out = @ + req[q].amount] BY <1>4 DEF RecordDrawerMovement
  <2>9. drawer[s] \in [in : Nat, sold : Nat, out : Nat] BY <1>0, <2>1 DEF TablesTyped
  <2>3. drawer' \in [Shifts -> [in : Nat, sold : Nat, out : Nat]]
    BY SMTT(40), <1>0, <2>1, <2>8, <2>9 DEF TablesTyped
  <2>10. moved' = moved \/ moved' = [moved EXCEPT ![s] = @ + req[q].amount]
    BY <1>4 DEF RecordDrawerMovement
  <2>4. moved' \in [Shifts -> Nat] BY <1>0, <2>1, <2>10 DEF TablesTyped
  <2> QED BY <1>0, <1>4, <2>2, <2>3, <2>4 DEF TablesTyped, RecordDrawerMovement, counter, keyed
<1>5. ASSUME NEW q \in Requests, CommitExchange(q) PROVE TablesTyped'
  <2>1. req[q].shift \in Shifts /\ req[q].amount \in Nat
    BY <1>5, ReqTyped DEF CommitExchange, At, Placed
  <2>2. exchanged' \in [Shifts -> Nat] BY <1>0, <1>5, <2>1 DEF TablesTyped, CommitExchange
  <2> QED BY <1>0, <1>5, <2>2 DEF TablesTyped, CommitExchange, counter, keyed
<1>6. ASSUME NEW q \in Requests, CloseShift(q) PROVE TablesTyped'
  <2> DEFINE n == req[q].cash
             v == req[q].cash - req[q].known
  <2>1. req[q].shift \in Shifts /\ n \in Nat /\ v \in Int
    BY <1>6, ReqTyped DEF CloseShift, Placed
  <2>2. shift' = [shift EXCEPT ![req[q].shift] = [@ EXCEPT !.status = "CLOSED", !.counted = n, !.variance = v]]
    BY <1>6 DEF CloseShift
  <2> HIDE DEF n, v
  <2> DEFINE x == [shift[req[q].shift] EXCEPT !.status = "CLOSED", !.counted = n, !.variance = v]
  <2>4. x \in ShiftRecords
    BY <2>1, ShiftTyped DEF ShiftRecords, SHIFT_STATUSES
  <2>5. shift' = [shift EXCEPT ![req[q].shift] = x] BY <2>2
  <2> HIDE DEF x
  <2>3. shift' \in [Shifts -> ShiftRecords] BY <1>0, <2>4, <2>5 DEF TablesTyped
  <2> QED BY <1>0, <1>6, <2>3 DEF TablesTyped, CloseShift, counter, keyed
<1>7. ASSUME NEW q \in Requests, ReconcileShift(q) PROVE TablesTyped'
  <2> DEFINE x == [shift[req[q].shift] EXCEPT !.status = "RECONCILED"]
  <2>2. req[q].shift \in Shifts BY <1>7, ReqTyped DEF ReconcileShift, Placed
  <2>3. x \in ShiftRecords BY <2>2, ShiftTyped DEF ShiftRecords, SHIFT_STATUSES
  <2>4. shift' = [shift EXCEPT ![req[q].shift] = x] BY <1>7 DEF ReconcileShift
  <2> HIDE DEF x
  <2>1. shift' \in [Shifts -> ShiftRecords] BY <1>0, <2>3, <2>4 DEF TablesTyped
  <2> QED BY <1>0, <1>7, <2>1 DEF TablesTyped, ReconcileShift, counter, keyed
<1>8. ASSUME NEW q \in Requests, ApproveRefund(q) PROVE TablesTyped'
  <2>1. req[q].on \in Refunds BY <1>8, ReqTyped DEF ApproveRefund, Placed
  <2>2. repaid' \in [Refunds -> Nat] /\ refund' \in [Refunds -> {"NONE", "PENDING_APPROVAL", "APPROVED", "REJECTED"}]
    BY <1>0, <1>8, <2>1 DEF TablesTyped, ApproveRefund
  <2> QED BY <1>0, <1>8, <2>2 DEF TablesTyped, ApproveRefund, till, keyed
<1>9. ASSUME NEW q \in Requests, SaveResponse(q) PROVE TablesTyped'
  <2>1. req[q].result \in {"done", "refused"} BY <1>9, ReqTyped DEF SaveResponse, Placed
  <2> QED BY <1>0, <1>9, <2>1 DEF TablesTyped, SaveResponse, till, counter
<1>10. ASSUME NEW q \in Requests, Fail(q) PROVE TablesTyped'
  <2>1. Placed(req[q]) BY ReqTyped
  <2>2. rolled' \subseteq Shifts /\ forgotten' \subseteq Keys
    BY <1>0, <1>10, <2>1 DEF TablesTyped, Fail, Placed, At
  <2> QED BY <1>0, <1>10, <2>2 DEF TablesTyped, Fail, till, counter, keyed
<1>11. ASSUME NEW r \in Refunds, RequestRefund(r) \/ RejectRefund(r) PROVE TablesTyped'
  BY <1>0, <1>11 DEF TablesTyped, RequestRefund, RejectRefund, till, keyed, history
<1>12. ASSUME NEW q \in Requests, Ask(q) PROVE TablesTyped'
  BY <1>0, <1>12, AskGoes DEF Kept, TablesTyped, till, counter, keyed
<1>13. ASSUME NEW q \in Requests, Proceed(q) PROVE TablesTyped'
  BY <1>1, <1>2, <1>3, <1>4, <1>5, <1>6, <1>7, <1>8, <1>9, <1>10, <1>13, ReadingLeaves
     DEF Proceed, Reading
<1> QED BY <1>1, <1>11, <1>12, <1>13 DEF Next

LEMMA GoesTyped ==
  ASSUME TypeInv, TablesTyped', NEW q \in Requests, NEW x \in RequestRecords, Goes(q, x)
  PROVE  TypeInv'
<1>1. req' = [req EXCEPT ![q] = x] /\ Placed(x) /\ asked' \in Nat BY DEF Goes
<1>2. req' \in [Requests -> RequestRecords] /\ \A p \in Requests : Placed(req'[p])
  BY <1>1 DEF TypeInv, TypeOK
<1> QED BY <1>1, <1>2 DEF TypeInv, TypeOK, TablesTyped

LEMMA TypeStep == TypeInv /\ [Next]_vars => TypeInv'
<1> SUFFICES ASSUME TypeInv, [Next]_vars PROVE TypeInv'
  OBVIOUS
<1>1. CASE UNCHANGED vars
  BY <1>1 DEF TypeInv, TypeOK, vars, till, counter, keyed, history
<1>2. ASSUME NEW q \in Requests, Ask(q) \/ Proceed(q), Next PROVE TypeInv'
  BY <1>2, AskGoes, ProceedGoes, TablesStep, GoesTyped
<1>3. ASSUME NEW r \in Refunds, RequestRefund(r) \/ RejectRefund(r), Next PROVE TypeInv'
  BY <1>3, TablesStep DEF RequestRefund, RejectRefund, TypeInv, TypeOK, TablesTyped, till, keyed, history
<1> QED BY <1>1, <1>2, <1>3 DEF Next

LEMMA TypeStart == Init => TypeInv
<1> SUFFICES ASSUME Init PROVE TypeInv
  OBVIOUS
<1>1. req \in [Requests -> RequestRecords] /\ \A q \in Requests : Placed(req[q])
  BY IdleTyped DEF Init
<1>2. NoShift \in ShiftRecords BY DEF NoShift, SHIFT_STATUSES, ShiftRecords
<1> QED BY <1>1, <1>2 DEF Init, TypeInv, TypeOK

\* The variables keep their types, and a request is always where its handler can
\* be, with the shift, the refund or the key it works on (posShiftService.js,
\* pos.js, refunds.js).
THEOREM TypeCorrect == Spec => []TypeOK
<1>1. TypeInv => TypeOK BY DEF TypeInv
<1> QED BY <1>1, TypeStart, TypeStep, PTL DEF Spec

-----------------------------------------------------------------------------
(* The rows of shifts and drawers, step by step.                           *)

Sums(s) ==
  /\ drawer[s].in = shift[s].float
  /\ shift[s].expected = drawer[s].in + drawer[s].sold - drawer[s].out
  /\ shift[s].cash = drawer[s].sold /\ shift[s].cash = sales[s].cash
  /\ shift[s].total = sales[s].total

\* A shift that was not opened has nothing in its drawer.
Blank(s) ==
  shift[s].status = "NONE" =>
    drawer[s].in = 0 /\ drawer[s].sold = 0 /\ drawer[s].out = 0 /\ sales[s].total = 0 /\ sales[s].cash = 0

\* Requests work on shifts that were opened.
InUse == \A q \in Requests : req[q].shift \in Shifts => shift[req[q].shift].status # "NONE"

BooksInv == TypeInv /\ InUse /\ \A s \in Shifts : Sums(s) /\ Blank(s)

\* The steps that write to a row of pos_shifts.
WritesShift(q) ==
  \/ \E f \in Floats : OpenShift(q, f)
  \/ CommitSale(q) \/ RecordDrawerMovement(q) \/ CloseShift(q) \/ ReconcileShift(q)

\* The others leave the shifts, their drawers and their sales alone.
LEMMA OthersLeave ==
  ASSUME TypeInv, Next
  PROVE  UNCHANGED <<shift, drawer, sales>> \/ \E q \in Requests : WritesShift(q)
<1>1. ASSUME NEW q \in Requests, Ask(q) PROVE UNCHANGED <<shift, drawer, sales>>
  BY <1>1, AskGoes DEF Kept, till
<1>2. ASSUME NEW q \in Requests, Reading(q) PROVE UNCHANGED <<shift, drawer, sales>>
  BY <1>2, ReadingLeaves DEF tables, till
<1>3. ASSUME NEW q \in Requests, CommitExchange(q) \/ ApproveRefund(q) \/ SaveResponse(q) \/ Fail(q)
      PROVE  UNCHANGED <<shift, drawer, sales>>
  BY <1>3 DEF CommitExchange, ApproveRefund, SaveResponse, Fail, till
<1>4. ASSUME NEW r \in Refunds, RequestRefund(r) \/ RejectRefund(r)
      PROVE  UNCHANGED <<shift, drawer, sales>>
  BY <1>4 DEF RequestRefund, RejectRefund, till
<1> QED BY <1>1, <1>2, <1>3, <1>4 DEF Next, Proceed, Reading, WritesShift

LEMMA Opening ==
  ASSUME TypeInv, NEW q \in Requests, NEW f \in Floats, OpenShift(q, f)
  PROVE  \E s \in Shifts :
           /\ shift[s].status = "NONE" /\ shift'[s] = NewShift(req[q].who, f)
           /\ drawer'[s].in = drawer[s].in + f /\ drawer'[s].sold = drawer[s].sold /\ drawer'[s].out = drawer[s].out
           /\ \A t \in Shifts \ {s} : shift'[t] = shift[t] /\ drawer'[t] = drawer[t]
           /\ sales' = sales /\ f \in Nat
<1>1. PICK s \in Shifts : shift[s].status = "NONE" /\ shift' = [shift EXCEPT ![s] = NewShift(req[q].who, f)]
                          /\ drawer' = [drawer EXCEPT ![s].in = @ + f]
  BY DEF OpenShift
<1>2. shift \in [Shifts -> ShiftRecords] /\ drawer \in [Shifts -> [in : Nat, sold : Nat, out : Nat]]
  BY DEF TypeInv, TypeOK
<1>3. f \in Nat /\ sales' = sales BY PointOfSaleAssumption DEF OpenShift
<1> QED BY <1>1, <1>2, <1>3

LEMMA Committing ==
  ASSUME TypeInv, NEW q \in Requests, CommitSale(q)
  PROVE  LET s == req[q].shift IN
         /\ s \in Shifts /\ req[q].pc = "commit"
         /\ shift'[s] = Sold(shift[s], req[q].total, req[q].cash)
         /\ drawer'[s].in = drawer[s].in /\ drawer'[s].sold = drawer[s].sold + req[q].cash
         /\ drawer'[s].out = drawer[s].out
         /\ sales'[s].total = sales[s].total + req[q].total /\ sales'[s].cash = sales[s].cash + req[q].cash
         /\ \A t \in Shifts \ {s} : shift'[t] = shift[t] /\ drawer'[t] = drawer[t] /\ sales'[t] = sales[t]
<1> DEFINE s == req[q].shift
<1>1. s \in Shifts /\ req[q].pc = "commit" BY ReqTyped DEF CommitSale, At, Placed
<1>2. /\ shift' = [shift EXCEPT ![s] = Sold(@, req[q].total, req[q].cash)]
      /\ drawer' = [drawer EXCEPT ![s].sold = @ + req[q].cash]
      /\ sales' = [sales EXCEPT ![s] = [total |-> @.total + req[q].total, cash |-> @.cash + req[q].cash]]
  BY DEF CommitSale, RecordSaleInShift
<1>3. /\ shift \in [Shifts -> ShiftRecords] /\ drawer \in [Shifts -> [in : Nat, sold : Nat, out : Nat]]
      /\ sales \in [Shifts -> [total : Nat, cash : Nat]]
  BY DEF TypeInv, TypeOK
<1> HIDE DEF s
<1>4. shift'[s] = Sold(shift[s], req[q].total, req[q].cash) BY <1>1, <1>2, <1>3
<1>5. /\ drawer'[s].in = drawer[s].in /\ drawer'[s].sold = drawer[s].sold + req[q].cash
      /\ drawer'[s].out = drawer[s].out
  BY <1>1, <1>2, <1>3
<1>6. sales'[s].total = sales[s].total + req[q].total /\ sales'[s].cash = sales[s].cash + req[q].cash
  BY <1>1, <1>2, <1>3
<1>7. \A t \in Shifts \ {s} : shift'[t] = shift[t] /\ drawer'[t] = drawer[t] /\ sales'[t] = sales[t]
  BY <1>1, <1>2, <1>3
<1> QED BY <1>1, <1>4, <1>5, <1>6, <1>7 DEF s

LEMMA PayingOut ==
  ASSUME TypeInv, NEW q \in Requests, RecordDrawerMovement(q)
  PROVE  LET s == req[q].shift IN
         /\ s \in Shifts /\ req[q].pc = "payout"
         /\ shift'[s] = [shift[s] EXCEPT !.expected = @ - req[q].amount]
         /\ drawer'[s].in = drawer[s].in /\ drawer'[s].sold = drawer[s].sold
         /\ drawer'[s].out = drawer[s].out + req[q].amount
         /\ \A t \in Shifts \ {s} : shift'[t] = shift[t] /\ drawer'[t] = drawer[t]
         /\ sales' = sales
<1> DEFINE s == req[q].shift
<1>1. s \in Shifts /\ req[q].pc = "payout" BY ReqTyped DEF RecordDrawerMovement, Placed
<1>2. /\ shift' = [shift EXCEPT ![s].expected = @ - req[q].amount]
      /\ drawer' = [drawer EXCEPT ![s].out = @ + req[q].amount] /\ sales' = sales
  BY DEF RecordDrawerMovement
<1>3. shift \in [Shifts -> ShiftRecords] /\ drawer \in [Shifts -> [in : Nat, sold : Nat, out : Nat]]
  BY DEF TypeInv, TypeOK
<1> HIDE DEF s
<1>4. shift'[s] = [shift[s] EXCEPT !.expected = @ - req[q].amount] BY <1>1, <1>2, <1>3
<1>5. /\ drawer'[s].in = drawer[s].in /\ drawer'[s].sold = drawer[s].sold
      /\ drawer'[s].out = drawer[s].out + req[q].amount
  BY <1>1, <1>2, <1>3
<1>6. \A t \in Shifts \ {s} : shift'[t] = shift[t] /\ drawer'[t] = drawer[t]
  BY <1>1, <1>2, <1>3
<1> QED BY <1>1, <1>2, <1>4, <1>5, <1>6 DEF s

LEMMA Closing ==
  ASSUME TypeInv, NEW q \in Requests, CloseShift(q) \/ ReconcileShift(q)
  PROVE  LET s == req[q].shift
             x == shift'[s]
         IN /\ s \in Shifts
            /\ x.by = shift[s].by /\ x.float = shift[s].float /\ x.total = shift[s].total
            /\ x.cash = shift[s].cash /\ x.expected = shift[s].expected
            /\ CloseShift(q) => /\ x.status = "CLOSED" /\ x.counted = req[q].cash
                                /\ x.variance = req[q].cash - req[q].known
                                /\ req[q].pc = "close"
            /\ ~CloseShift(q) => /\ x.status = "RECONCILED" /\ x.counted = shift[s].counted
                                 /\ x.variance = shift[s].variance /\ req[q].pc = "reconcile"
            /\ \A t \in Shifts \ {s} : shift'[t] = shift[t]
            /\ drawer' = drawer /\ sales' = sales
<1> DEFINE s == req[q].shift
<1>0. s \in Shifts BY ReqTyped DEF CloseShift, ReconcileShift, Placed
<1>1. shift \in [Shifts -> ShiftRecords] /\ shift[s] \in ShiftRecords BY <1>0 DEF TypeInv, TypeOK
<1>2. CASE CloseShift(q)
  <2> DEFINE v == req[q].cash - req[q].known
             n == req[q].cash
             x == [shift[s] EXCEPT !.status = "CLOSED", !.counted = n, !.variance = v]
  <2>1. shift' = [shift EXCEPT ![s] = x] /\ req[q].pc = "close" /\ drawer' = drawer /\ sales' = sales
    BY <1>2 DEF CloseShift
  <2>2. /\ x.by = shift[s].by /\ x.float = shift[s].float /\ x.total = shift[s].total
        /\ x.cash = shift[s].cash /\ x.expected = shift[s].expected
        /\ x.status = "CLOSED" /\ x.counted = n /\ x.variance = v
    <3> HIDE DEF v, n, s
    <3> QED BY <1>1 DEF ShiftRecords
  <2> HIDE DEF x, s
  <2>3. shift'[s] = x /\ \A t \in Shifts \ {s} : shift'[t] = shift[t] BY <1>0, <1>1, <2>1
  <2> QED BY <1>0, <1>2, <2>1, <2>2, <2>3 DEF s
<1>3. CASE ~CloseShift(q)
  <2> DEFINE x == [shift[s] EXCEPT !.status = "RECONCILED"]
  <2>1. shift' = [shift EXCEPT ![s] = x] /\ req[q].pc = "reconcile" /\ drawer' = drawer /\ sales' = sales
    BY <1>3 DEF ReconcileShift
  <2>2. /\ x.by = shift[s].by /\ x.float = shift[s].float /\ x.total = shift[s].total
        /\ x.cash = shift[s].cash /\ x.expected = shift[s].expected
        /\ x.status = "RECONCILED" /\ x.counted = shift[s].counted /\ x.variance = shift[s].variance
    BY <1>1 DEF ShiftRecords
  <2> HIDE DEF x, s
  <2>3. shift'[s] = x /\ \A t \in Shifts \ {s} : shift'[t] = shift[t] BY <1>0, <1>1, <2>1
  <2> QED BY <1>0, <1>3, <2>1, <2>2, <2>3 DEF s
<1> QED BY <1>2, <1>3

\* A shift never returns to what it was before it was opened.
LEMMA StaysOpened ==
  ASSUME TypeInv, Next, NEW s \in Shifts, shift[s].status # "NONE"
  PROVE  shift'[s].status # "NONE"
<1>1. ASSUME NEW q \in Requests, NEW f \in Floats, OpenShift(q, f) PROVE shift'[s].status # "NONE"
  BY <1>1, Opening DEF NewShift
<1>2. ASSUME NEW q \in Requests, CommitSale(q) PROVE shift'[s].status # "NONE"
  <2>1. shift[s] \in ShiftRecords BY ShiftTyped
  <2>2. shift'[s] = shift[s] \/ shift'[s] = Sold(shift[s], req[q].total, req[q].cash) BY <1>2, Committing
  <2> QED BY <2>1, <2>2 DEF Sold, ShiftRecords
<1>3. ASSUME NEW q \in Requests, RecordDrawerMovement(q) PROVE shift'[s].status # "NONE"
  <2>1. shift[s] \in ShiftRecords BY ShiftTyped
  <2>2. shift'[s] = shift[s] \/ shift'[s] = [shift[s] EXCEPT !.expected = @ - req[q].amount] BY <1>3, PayingOut
  <2> QED BY <2>1, <2>2 DEF ShiftRecords
<1>4. ASSUME NEW q \in Requests, CloseShift(q) \/ ReconcileShift(q) PROVE shift'[s].status # "NONE"
  BY <1>4, Closing
<1> QED BY <1>1, <1>2, <1>3, <1>4, OthersLeave DEF WritesShift

LEMMA UseStep ==
  ASSUME TypeInv, Next, InUse
  PROVE  InUse'
<1>1. ASSUME NEW q \in Requests, Ask(q) \/ Proceed(q) PROVE InUse'
  <2>1. PICK x \in RequestRecords : Goes(q, x) BY <1>1, AskGoes, ProceedGoes
  <2>2. req' = [req EXCEPT ![q] = x] /\ (x.shift \in Shifts => x.shift = req[q].shift \/ shift[x.shift].status # "NONE")
    BY <2>1 DEF Goes, Fresh
  <2>3. SUFFICES ASSUME NEW p \in Requests, req'[p].shift \in Shifts
                 PROVE  shift'[req'[p].shift].status # "NONE"
    BY DEF InUse
  <2>4. req'[p] = req[p] \/ (p = q /\ req'[p] = x) BY <2>2 DEF TypeInv, TypeOK
  <2>5. shift[req'[p].shift].status # "NONE" BY <2>2, <2>3, <2>4 DEF InUse
  <2> QED BY <2>3, <2>5, StaysOpened
<1>2. ASSUME NEW r \in Refunds, RequestRefund(r) \/ RejectRefund(r) PROVE InUse'
  BY <1>2 DEF InUse, RequestRefund, RejectRefund, till
<1> QED BY <1>1, <1>2 DEF Next

LEMMA BooksStep == BooksInv /\ [Next]_vars => BooksInv'
<1> SUFFICES ASSUME BooksInv, [Next]_vars PROVE BooksInv'
  OBVIOUS
<1>1. CASE UNCHANGED vars
  <2>1. TypeInv' BY TypeStep DEF BooksInv
  <2> QED BY <1>1, <2>1 DEF BooksInv, InUse, Sums, Blank, vars, till
<1>2. CASE Next
  <2>1. TypeInv' /\ InUse' BY <1>2, TypeStep, UseStep DEF BooksInv
  <2>2. SUFFICES ASSUME NEW s \in Shifts PROVE Sums(s)' /\ Blank(s)'
    BY <2>1 DEF BooksInv
  <2>3. TypeInv /\ Sums(s) /\ Blank(s) BY DEF BooksInv
  <2>4. /\ shift[s] \in ShiftRecords /\ drawer[s].in \in Nat /\ drawer[s].sold \in Nat /\ drawer[s].out \in Nat
        /\ sales[s].total \in Nat /\ sales[s].cash \in Nat
    BY <2>3, ShiftTyped DEF TypeInv, TypeOK
  <2>5. CASE UNCHANGED <<shift, drawer, sales>> BY <2>3, <2>5 DEF Sums, Blank
  <2>6. ASSUME NEW q \in Requests, NEW f \in Floats, OpenShift(q, f) PROVE Sums(s)' /\ Blank(s)'
    <3>1. PICK t \in Shifts :
           /\ shift[t].status = "NONE" /\ shift'[t] = NewShift(req[q].who, f)
           /\ drawer'[t].in = drawer[t].in + f /\ drawer'[t].sold = drawer[t].sold /\ drawer'[t].out = drawer[t].out
           /\ \A u \in Shifts \ {t} : shift'[u] = shift[u] /\ drawer'[u] = drawer[u]
           /\ sales' = sales /\ f \in Nat
      BY <2>3, <2>6, Opening
    <3>2. CASE s = t
      <4>1. drawer[s].in = 0 /\ drawer[s].sold = 0 /\ drawer[s].out = 0 /\ sales[s].total = 0 /\ sales[s].cash = 0
        BY <2>3, <3>1, <3>2 DEF Blank
      <4>2. drawer'[s].in = f /\ drawer'[s].sold = 0 /\ drawer'[s].out = 0 /\ sales' = sales
        BY <3>1, <3>2, <4>1
      <4>3. /\ shift'[s].status = "OPEN" /\ shift'[s].float = f /\ shift'[s].total = 0 /\ shift'[s].cash = 0
            /\ shift'[s].expected = f
        BY <3>1, <3>2 DEF NewShift
      <4> QED BY <3>1, <4>1, <4>2, <4>3 DEF Sums, Blank
    <3>3. CASE s # t BY <2>3, <3>1, <3>3 DEF Sums, Blank
    <3> QED BY <3>2, <3>3
  <2>7. ASSUME NEW q \in Requests, CommitSale(q) PROVE Sums(s)' /\ Blank(s)'
    <3>1. CASE s # req[q].shift
      <4>1. shift'[s] = shift[s] /\ drawer'[s] = drawer[s] /\ sales'[s] = sales[s]
        BY <2>3, <2>7, <3>1, Committing
      <4> QED BY <2>3, <4>1 DEF Sums, Blank
    <3>2. CASE s = req[q].shift
      <4>1. /\ shift'[s] = Sold(shift[s], req[q].total, req[q].cash)
            /\ drawer'[s].in = drawer[s].in /\ drawer'[s].sold = drawer[s].sold + req[q].cash
            /\ drawer'[s].out = drawer[s].out
            /\ sales'[s].total = sales[s].total + req[q].total /\ sales'[s].cash = sales[s].cash + req[q].cash
        BY <2>3, <2>7, <3>2, Committing
      <4>2. req[q].total \in Nat /\ req[q].cash \in Nat BY <2>3, ReqTyped
      <4>3. /\ shift'[s].status = shift[s].status /\ shift'[s].float = shift[s].float
            /\ shift'[s].total = shift[s].total + req[q].total /\ shift'[s].cash = shift[s].cash + req[q].cash
            /\ shift'[s].expected = shift[s].expected + req[q].cash
        BY <2>4, <4>1 DEF Sold, ShiftRecords
      <4>4. shift[s].status # "NONE" BY <3>2 DEF BooksInv, InUse
      <4>5. Sums(s)'
        <5>1. drawer'[s].in = shift'[s].float /\ shift'[s].cash = drawer'[s].sold
              /\ shift'[s].cash = sales'[s].cash /\ shift'[s].total = sales'[s].total
          BY <2>3, <4>1, <4>3 DEF Sums
        <5>2. shift[s].expected = drawer[s].in + drawer[s].sold - drawer[s].out BY <2>3 DEF Sums
        <5>3. shift'[s].expected = drawer[s].in + (drawer[s].sold + req[q].cash) - drawer[s].out
          BY <2>4, <4>2, <4>3, <5>2
        <5> QED BY <4>1, <5>1, <5>3 DEF Sums
      <4> QED BY <4>3, <4>4, <4>5 DEF Blank
    <3> QED BY <3>1, <3>2
  <2>8. ASSUME NEW q \in Requests, RecordDrawerMovement(q) PROVE Sums(s)' /\ Blank(s)'
    <3>1. CASE s # req[q].shift
      <4>1. shift'[s] = shift[s] /\ drawer'[s] = drawer[s] /\ sales' = sales
        BY <2>3, <2>8, <3>1, PayingOut
      <4> QED BY <2>3, <4>1 DEF Sums, Blank
    <3>2. CASE s = req[q].shift
      <4>1. /\ shift'[s] = [shift[s] EXCEPT !.expected = @ - req[q].amount]
            /\ drawer'[s].in = drawer[s].in /\ drawer'[s].sold = drawer[s].sold
            /\ drawer'[s].out = drawer[s].out + req[q].amount /\ sales' = sales
        BY <2>3, <2>8, <3>2, PayingOut
      <4>2. req[q].amount \in Nat BY <2>3, ReqTyped
      <4>3. /\ shift'[s].status = shift[s].status /\ shift'[s].float = shift[s].float
            /\ shift'[s].total = shift[s].total /\ shift'[s].cash = shift[s].cash
            /\ shift'[s].expected = shift[s].expected - req[q].amount
        BY <2>4, <4>1 DEF ShiftRecords
      <4>4. shift[s].status # "NONE" BY <3>2 DEF BooksInv, InUse
      <4>5. Sums(s)'
        <5>1. drawer'[s].in = shift'[s].float /\ shift'[s].cash = drawer'[s].sold
              /\ shift'[s].cash = sales'[s].cash /\ shift'[s].total = sales'[s].total
          BY <2>3, <4>1, <4>3 DEF Sums
        <5>2. shift[s].expected = drawer[s].in + drawer[s].sold - drawer[s].out BY <2>3 DEF Sums
        <5>3. shift'[s].expected = drawer[s].in + drawer[s].sold - (drawer[s].out + req[q].amount)
          BY <2>4, <4>2, <4>3, <5>2
        <5> QED BY <4>1, <5>1, <5>3 DEF Sums
      <4> QED BY <4>3, <4>4, <4>5 DEF Blank
    <3> QED BY <3>1, <3>2
  <2>9. ASSUME NEW q \in Requests, CloseShift(q) \/ ReconcileShift(q) PROVE Sums(s)' /\ Blank(s)'
    <3>1. drawer' = drawer /\ sales' = sales
          /\ shift'[s].float = shift[s].float /\ shift'[s].total = shift[s].total
          /\ shift'[s].cash = shift[s].cash /\ shift'[s].expected = shift[s].expected
          /\ (shift'[s] = shift[s] \/ shift'[s].status # "NONE")
      BY <2>3, <2>9, Closing
    <3> QED BY <2>3, <3>1 DEF Sums, Blank
  <2> QED BY <1>2, <2>3, <2>5, <2>6, <2>7, <2>8, <2>9, OthersLeave DEF WritesShift
<1> QED BY <1>1, <1>2

LEMMA BooksStart == Init => BooksInv
<1> SUFFICES ASSUME Init PROVE BooksInv
  OBVIOUS
<1>1. TypeInv BY TypeStart
<1>2. \A q \in Requests : req[q].shift \notin Shifts BY DEF Init, Idle, Shifts
<1>3. \A s \in Shifts : Sums(s) /\ Blank(s) BY DEF Init, NoShift, Sums, Blank
<1> QED BY <1>1, <1>2, <1>3 DEF BooksInv, InUse

\* The expected cash of a shift is what its drawer movements come to and its totals
\* are its sales, whatever overlaps: recordSaleInShift and recordDrawerMovement
\* write relative to the row (posShiftService.js:141, 205).
THEOREM DrawersAddUp == Spec => []TotalsAddUp
<1>1. BooksInv => TotalsAddUp BY DEF BooksInv, Sums, TotalsAddUp
<1> QED BY <1>1, BooksStart, BooksStep, PTL DEF Spec

-----------------------------------------------------------------------------
(* What left the drawer.  Between its payout and its COMMIT an exchange is  *)
(* on no record but its own, so the invariant adds up what the requests in  *)
(* progress have paid.  No induction over the requests is needed: a sum is  *)
(* a function of the sets of requests, and a step makes the next from it.   *)

\* g[P] is the sum of w over the requests of P.
IsSum(g, w) ==
  /\ g \in [SUBSET Requests -> Nat] /\ g[{}] = 0
  /\ \A P \in SUBSET Requests, q \in Requests : q \notin P => g[P \cup {q}] = g[P] + w[q]
  /\ \A P \in SUBSET Requests : g[P] > 0 => \E q \in P : w[q] > 0

\* When the weight of one request changes, so does the sum.
LEMMA SumMoves ==
  ASSUME NEW g, NEW w \in [Requests -> Nat], NEW v \in [Requests -> Nat], NEW q \in Requests,
         IsSum(g, w), \A p \in Requests \ {q} : v[p] = w[p]
  PROVE  \E h \in [SUBSET Requests -> Nat] :
           /\ IsSum(h, v) /\ h[Requests] + w[q] = g[Requests] + v[q]
           /\ w[q] <= g[Requests]
<1>0. /\ g \in [SUBSET Requests -> Nat] /\ g[{}] = 0
      /\ \A P \in SUBSET Requests, p \in Requests : p \notin P => g[P \cup {p}] = g[P] + w[p]
      /\ \A P \in SUBSET Requests : g[P] > 0 => \E p \in P : w[p] > 0
  BY DEF IsSum
<1>1. w[q] \in Nat /\ v[q] \in Nat OBVIOUS
\* r is the sum without q.
<1>2. PICK r \in [SUBSET Requests -> Nat] : \A P \in SUBSET Requests : r[P] = g[P \ {q}]
  <2> DEFINE r == [P \in SUBSET Requests |-> g[P \ {q}]]
  <2>1. \A P \in SUBSET Requests : P \ {q} \in SUBSET Requests OBVIOUS
  <2>2. r \in [SUBSET Requests -> Nat] BY <1>0, <2>1
  <2> QED BY <2>2
<1>3. \A P \in SUBSET Requests : q \notin P => r[P] = g[P] /\ r[P \cup {q}] = r[P]
  <2>1. SUFFICES ASSUME NEW P \in SUBSET Requests, q \notin P PROVE r[P] = g[P] /\ r[P \cup {q}] = r[P]
    OBVIOUS
  <2>2. P \ {q} = P /\ (P \cup {q}) \ {q} = P /\ P \cup {q} \in SUBSET Requests BY <2>1
  <2> QED BY <1>2, <2>2
<1>4. \A P \in SUBSET Requests, p \in Requests : p # q /\ p \notin P => r[P \cup {p}] = r[P] + w[p]
  <2>1. SUFFICES ASSUME NEW P \in SUBSET Requests, NEW p \in Requests, p # q, p \notin P
                 PROVE  r[P \cup {p}] = r[P] + w[p]
    OBVIOUS
  <2>2. /\ P \cup {p} \in SUBSET Requests /\ P \ {q} \in SUBSET Requests
        /\ (P \cup {p}) \ {q} = (P \ {q}) \cup {p} /\ p \notin P \ {q}
    BY <2>1
  <2>3. g[(P \ {q}) \cup {p}] = g[P \ {q}] + w[p] BY <1>0, <2>2
  <2>4. r[P \cup {p}] = g[(P \cup {p}) \ {q}] /\ r[P] = g[P \ {q}] BY <1>2, <2>2
  <2> QED BY <2>2, <2>3, <2>4
<1>5. \A P \in SUBSET Requests : r[P] > 0 => \E p \in P \ {q} : w[p] > 0
  <2>1. SUFFICES ASSUME NEW P \in SUBSET Requests, r[P] > 0 PROVE \E p \in P \ {q} : w[p] > 0
    OBVIOUS
  <2>2. P \ {q} \in SUBSET Requests /\ g[P \ {q}] > 0 BY <1>2, <2>1
  <2> QED BY <1>0, <2>2
<1> DEFINE h == [P \in SUBSET Requests |-> IF q \in P THEN r[P] + v[q] ELSE r[P]]
<1>6. h \in [SUBSET Requests -> Nat] BY <1>1, <1>2
<1>7. \A P \in SUBSET Requests : (q \in P => h[P] = r[P] + v[q]) /\ (q \notin P => h[P] = r[P])
  OBVIOUS
<1> HIDE DEF h
<1>8. h[{}] = 0 BY <1>0, <1>3, <1>7
<1>9. ASSUME NEW P \in SUBSET Requests, NEW p \in Requests, p \notin P PROVE h[P \cup {p}] = h[P] + v[p]
  <2>1. P \cup {p} \in SUBSET Requests /\ r[P] \in Nat /\ w[p] \in Nat BY <1>2
  <2>2. CASE p = q BY <1>3, <1>7, <1>9, <2>1, <2>2
  <2>3. CASE p # q
    <3>1. r[P \cup {p}] = r[P] + v[p] BY <1>4, <1>9, <2>3
    <3>2. q \in P \cup {p} <=> q \in P BY <2>3
    <3>3. CASE q \in P BY <1>1, <1>7, <2>1, <3>1, <3>2, <3>3
    <3>4. CASE q \notin P BY <1>7, <2>1, <3>1, <3>2, <3>4
    <3> QED BY <3>3, <3>4
  <2> QED BY <2>2, <2>3
<1>10. ASSUME NEW P \in SUBSET Requests, h[P] > 0 PROVE \E p \in P : v[p] > 0
  <2>1. CASE q \in P /\ v[q] > 0 BY <2>1
  <2>2. CASE ~(q \in P /\ v[q] > 0)
    <3>1. r[P] \in Nat BY <1>2
    <3>2. h[P] = r[P] BY <1>1, <1>7, <2>2, <3>1
    <3>3. PICK p \in P \ {q} : w[p] > 0 BY <1>5, <1>10, <3>2
    <3>4. v[p] > 0 BY <3>3
    <3> QED BY <3>3, <3>4
  <2> QED BY <2>1, <2>2
<1>11. g[Requests] = r[Requests] + w[q]
  <2>1. Requests \ {q} \in SUBSET Requests /\ q \notin Requests \ {q} /\ (Requests \ {q}) \cup {q} = Requests
    OBVIOUS
  <2>2. g[(Requests \ {q}) \cup {q}] = g[Requests \ {q}] + w[q] BY <1>0, <2>1
  <2> QED BY <1>2, <2>1, <2>2
<1>12. h[Requests] = r[Requests] + v[q] BY <1>7
<1>13. IsSum(h, v) BY <1>6, <1>8, <1>9, <1>10 DEF IsSum
<1>14. r[Requests] \in Nat BY <1>2
<1> QED BY <1>1, <1>6, <1>11, <1>12, <1>13, <1>14

\* What the exchanges in progress have paid out of the drawer of s.
Paid(s) ==
  [q \in Requests |-> IF At(q, {"exchange"}, "outer") /\ req[q].shift = s THEN req[q].amount ELSE 0]

\* What left the drawer is recorded, on its way, or was paid by an exchange that
\* rolled back.
Explained(s) ==
  \E g \in [SUBSET Requests -> Nat] :
    /\ IsSum(g, Paid(s))
    /\ moved[s] + exchanged[s] + g[Requests] <= drawer[s].out
    /\ s \notin rolled => moved[s] + exchanged[s] + g[Requests] = drawer[s].out

PayoutInv == BooksInv /\ \A s \in Shifts : Explained(s)

LEMMA PaidTyped ==
  ASSUME TypeInv, NEW s \in Shifts
  PROVE  Paid(s) \in [Requests -> Nat]
BY ReqTyped DEF Paid

\* A step that pays a, records a', and leaves b paid by its request where it was c.
LEMMA PayoutMoves ==
  ASSUME TypeInv, TypeInv', NEW s \in Shifts, Explained(s), NEW q \in Requests,
         \A p \in Requests \ {q} : req'[p] = req[p],
         rolled \subseteq rolled',
         moved'[s] + exchanged'[s] + Paid(s)'[q] <= moved[s] + exchanged[s] + Paid(s)[q] + (drawer'[s].out - drawer[s].out),
         s \notin rolled' =>
           moved'[s] + exchanged'[s] + Paid(s)'[q] = moved[s] + exchanged[s] + Paid(s)[q] + (drawer'[s].out - drawer[s].out)
  PROVE  Explained(s)'
<1>1. PICK g \in [SUBSET Requests -> Nat] :
        /\ IsSum(g, Paid(s))
        /\ moved[s] + exchanged[s] + g[Requests] <= drawer[s].out
        /\ s \notin rolled => moved[s] + exchanged[s] + g[Requests] = drawer[s].out
  BY DEF Explained
<1>2. Paid(s) \in [Requests -> Nat] BY PaidTyped
<1>3. PICK v : v = Paid(s)' OBVIOUS
<1>4. v \in [Requests -> Nat] BY <1>3, ReqTyped DEF Paid, TypeInv, TypeOK, RequestRecords
<1>5. \A p \in Requests \ {q} : v[p] = Paid(s)[p] BY <1>3 DEF Paid, At
<1>6. PICK h \in [SUBSET Requests -> Nat] :
        IsSum(h, v) /\ h[Requests] + Paid(s)[q] = g[Requests] + v[q] /\ Paid(s)[q] <= g[Requests]
  BY <1>1, <1>2, <1>4, <1>5, SumMoves
<1>7. /\ h[Requests] \in Nat /\ g[Requests] \in Nat /\ v[q] \in Nat /\ Paid(s)[q] \in Nat
      /\ moved[s] \in Nat /\ exchanged[s] \in Nat /\ drawer[s].out \in Nat
      /\ moved'[s] \in Nat /\ exchanged'[s] \in Nat /\ drawer'[s].out \in Nat
  BY <1>2, <1>4 DEF TypeInv, TypeOK
<1>8. /\ moved'[s] + exchanged'[s] + h[Requests] <= drawer'[s].out
      /\ s \notin rolled' => moved'[s] + exchanged'[s] + h[Requests] = drawer'[s].out
  BY <1>1, <1>3, <1>6, <1>7
<1> QED BY <1>3, <1>6, <1>8 DEF Explained, IsSum

LEMMA PaidBy ==
  ASSUME TypeInv, NEW s \in Shifts, NEW q \in Requests
  PROVE  Paid(s)[q] = IF req[q].pc = "outer" /\ req[q].shift = s THEN req[q].amount ELSE 0
<1>1. req[q].pc = "outer" => req[q].op = "exchange" BY ReqTyped DEF Placed
<1> QED BY <1>1 DEF Paid, At

\* The steps after which nothing else is paid, recorded or lost.
LEMMA NothingPaid ==
  ASSUME TypeInv, TypeInv', NEW s \in Shifts, Explained(s), NEW q \in Requests, Ask(q) \/ Proceed(q),
         moved' = moved, exchanged' = exchanged, drawer'[s].out = drawer[s].out, rolled' = rolled,
         req[q].pc \notin {"outer", "payout"}
  PROVE  Explained(s)'
<1>1. PICK x \in RequestRecords : Goes(q, x) BY AskGoes, ProceedGoes
<1>2. req' = [req EXCEPT ![q] = x] /\ x.pc # "outer" BY <1>1 DEF Goes, Fresh
<1>3. req'[q].pc # "outer" /\ \A p \in Requests \ {q} : req'[p] = req[p]
  BY <1>2 DEF TypeInv, TypeOK
<1>4. Paid(s)[q] = 0 BY PaidBy
<1>5. Paid(s)'[q] = 0 BY <1>3 DEF Paid, At
<1>6. moved[s] \in Nat /\ exchanged[s] \in Nat /\ drawer[s].out \in Nat BY DEF TypeInv, TypeOK
<1> QED BY <1>3, <1>4, <1>5, <1>6, PayoutMoves

LEMMA PayoutStep ==
  ASSUME BooksInv, TypeInv', Next, NEW s \in Shifts, Explained(s)
  PROVE  Explained(s)'
<1>0. TypeInv BY DEF BooksInv
<1>1. moved[s] \in Nat /\ exchanged[s] \in Nat /\ drawer[s].out \in Nat /\ drawer'[s].out \in Nat
  BY <1>0 DEF TypeInv, TypeOK
<1>2. ASSUME NEW q \in Requests, RecordDrawerMovement(q) PROVE Explained(s)'
  <2> DEFINE a == req[q].amount
  <2>1. /\ req[q].pc = "payout" /\ req[q].op \in {"movement", "exchange"} /\ req[q].shift \in Shifts
        /\ a \in Nat /\ req[q] \in RequestRecords
    BY <1>0, <1>2, ReqTyped DEF RecordDrawerMovement, Placed
  <2>2. exchanged' = exchanged /\ rolled' = rolled BY <1>2 DEF RecordDrawerMovement
  <2>3. Paid(s)[q] = 0 BY <1>0, <2>1, PaidBy
  <2>4. drawer'[s].out = IF s = req[q].shift THEN drawer[s].out + a ELSE drawer[s].out
    BY <1>0, <1>2, PayingOut
  <2>5. \A p \in Requests \ {q} : req'[p] = req[p]
    BY <1>0, <1>2 DEF RecordDrawerMovement, End, Move, Become, TypeInv, TypeOK
  <2>6. CASE req[q].op = "movement"
    <3>1. moved' = [moved EXCEPT ![req[q].shift] = @ + a] /\ req'[q] = Idle
      BY <1>0, <1>2, <2>6 DEF RecordDrawerMovement, End, Become, TypeInv, TypeOK
    <3>2. moved'[s] = IF s = req[q].shift THEN moved[s] + a ELSE moved[s] BY <1>0, <3>1 DEF TypeInv, TypeOK
    <3>3. Paid(s)'[q] = 0 BY <3>1 DEF Paid, At, Idle
    <3>4. moved'[s] + exchanged'[s] + Paid(s)'[q]
            = moved[s] + exchanged[s] + Paid(s)[q] + (drawer'[s].out - drawer[s].out)
      BY <1>1, <2>1, <2>2, <2>3, <2>4, <3>2, <3>3
    <3>5. moved'[s] + exchanged'[s] + Paid(s)'[q]
            <= moved[s] + exchanged[s] + Paid(s)[q] + (drawer'[s].out - drawer[s].out)
      BY <1>1, <2>1, <2>2, <2>3, <2>4, <3>2, <3>3
    <3> QED BY <1>0, <2>2, <2>5, <3>4, <3>5, PayoutMoves
  <2>7. CASE req[q].op = "exchange"
    <3>1. moved' = moved /\ req'[q] = [req[q] EXCEPT !.pc = "outer"]
      BY <1>0, <1>2, <2>7 DEF RecordDrawerMovement, Move, Become, TypeInv, TypeOK
    <3>2. req'[q].pc = "outer" /\ req'[q].op = "exchange" /\ req'[q].shift = req[q].shift /\ req'[q].amount = a
      BY <2>1, <2>7, <3>1 DEF RequestRecords
    <3>3. Paid(s)'[q] = IF s = req[q].shift THEN a ELSE 0 BY <3>2 DEF Paid, At
    <3>4. moved'[s] + exchanged'[s] + Paid(s)'[q]
            = moved[s] + exchanged[s] + Paid(s)[q] + (drawer'[s].out - drawer[s].out)
      BY <1>1, <2>1, <2>2, <2>3, <2>4, <3>1, <3>3
    <3>5. moved'[s] + exchanged'[s] + Paid(s)'[q]
            <= moved[s] + exchanged[s] + Paid(s)[q] + (drawer'[s].out - drawer[s].out)
      BY <1>1, <2>1, <2>2, <2>3, <2>4, <3>1, <3>3
    <3> QED BY <1>0, <2>2, <2>5, <3>4, <3>5, PayoutMoves
  <2> QED BY <2>1, <2>6, <2>7
<1>3. ASSUME NEW q \in Requests, CommitExchange(q) PROVE Explained(s)'
  <2> DEFINE a == req[q].amount
  <2>1. req[q].pc = "outer" /\ req[q].shift \in Shifts /\ a \in Nat /\ req[q].key = NoKey
    BY <1>0, <1>3, ReqTyped DEF CommitExchange, At, Placed
  <2>2. moved' = moved /\ rolled' = rolled /\ drawer' = drawer
        /\ exchanged' = [exchanged EXCEPT ![req[q].shift] = @ + a]
    BY <1>3 DEF CommitExchange
  <2>3. Paid(s)[q] = IF req[q].shift = s THEN a ELSE 0 BY <1>0, <2>1, PaidBy
  <2>4. req'[q] = Idle /\ \A p \in Requests \ {q} : req'[p] = req[p]
    BY <1>0, <1>3, <2>1 DEF CommitExchange, Answer, End, Become, TypeInv, TypeOK
  <2>5. Paid(s)'[q] = 0 BY <2>4 DEF Paid, At, Idle
  <2>6. exchanged'[s] = IF req[q].shift = s THEN exchanged[s] + a ELSE exchanged[s]
    BY <1>0, <2>2 DEF TypeInv, TypeOK
  <2>7. moved'[s] + exchanged'[s] + Paid(s)'[q]
          = moved[s] + exchanged[s] + Paid(s)[q] + (drawer'[s].out - drawer[s].out)
    BY <1>1, <2>1, <2>2, <2>3, <2>5, <2>6
  <2>8. moved'[s] + exchanged'[s] + Paid(s)'[q]
          <= moved[s] + exchanged[s] + Paid(s)[q] + (drawer'[s].out - drawer[s].out)
    BY <1>1, <2>1, <2>2, <2>3, <2>5, <2>6
  <2> QED BY <1>0, <2>2, <2>4, <2>7, <2>8, PayoutMoves
<1>4. ASSUME NEW q \in Requests, Fail(q) PROVE Explained(s)'
  <2>1. moved' = moved /\ exchanged' = exchanged /\ drawer' = drawer BY <1>4 DEF Fail, till
  <2>2. req'[q] = Idle /\ \A p \in Requests \ {q} : req'[p] = req[p]
    BY <1>0, <1>4 DEF Fail, End, Become, TypeInv, TypeOK
  <2>3. Paid(s)'[q] = 0 BY <2>2 DEF Paid, At, Idle
  <2>4. Paid(s)[q] \in Nat BY <1>0, PaidTyped
  <2>5. s \notin rolled' => Paid(s)[q] = 0 BY <1>4 DEF Fail, Paid
  <2>6. rolled \subseteq rolled' BY <1>4 DEF Fail
  <2>7. moved'[s] + exchanged'[s] + Paid(s)'[q]
          <= moved[s] + exchanged[s] + Paid(s)[q] + (drawer'[s].out - drawer[s].out)
    BY <1>1, <2>1, <2>3, <2>4
  <2>8. s \notin rolled' =>
          moved'[s] + exchanged'[s] + Paid(s)'[q]
            = moved[s] + exchanged[s] + Paid(s)[q] + (drawer'[s].out - drawer[s].out)
    BY <1>1, <2>1, <2>3, <2>5
  <2> QED BY <1>0, <2>2, <2>6, <2>7, <2>8, PayoutMoves
<1>5. ASSUME NEW q \in Requests, Ask(q) PROVE Explained(s)'
  <2>1. moved' = moved /\ exchanged' = exchanged /\ drawer' = drawer /\ rolled' = rolled
    BY <1>0, <1>5, AskGoes DEF Kept, till
  <2>2. req[q] = Idle
    BY <1>5 DEF Ask, ReadForOpen, Checkout, BookCounterShipment, Exchange, RequestMovement, RequestClose,
                ReadForReconcile, ReadForApproval, Begin
  <2>3. req[q].pc = "idle" BY <2>2 DEF Idle
  <2> QED BY <1>0, <1>5, <2>1, <2>3, NothingPaid
<1>6. ASSUME NEW q \in Requests, Reading(q) PROVE Explained(s)'
  <2>1. moved' = moved /\ exchanged' = exchanged /\ drawer' = drawer /\ rolled' = rolled
    BY <1>0, <1>6, ReadingLeaves DEF tables, till
  <2>2. req[q].pc \in {"shift", "check", "current", "commit", "guard", "count"}
    BY <1>6 DEF Reading, CheckOpen, FindShift, UseOpened, Refuse, GuardMovement, ReadForClose, At
  <2>3. Proceed(q) BY <1>6 DEF Reading, Proceed
  <2> QED BY <1>0, <2>1, <2>2, <2>3, NothingPaid
<1>7. ASSUME NEW q \in Requests, NEW f \in Floats, OpenShift(q, f) PROVE Explained(s)'
  <2>1. moved' = moved /\ exchanged' = exchanged /\ rolled' = rolled /\ req[q].pc = "insert"
    BY <1>7 DEF OpenShift
  <2>2. drawer'[s].out = drawer[s].out BY <1>0, <1>7, Opening
  <2>3. Proceed(q) BY <1>7 DEF Proceed
  <2> QED BY <1>0, <2>1, <2>2, <2>3, NothingPaid
<1>8. ASSUME NEW q \in Requests, CommitSale(q) PROVE Explained(s)'
  <2>1. moved' = moved /\ exchanged' = exchanged /\ rolled' = rolled /\ req[q].pc = "commit"
    BY <1>8 DEF CommitSale, At
  <2>2. drawer'[s].out = drawer[s].out
    <3>1. CASE s = req[q].shift BY <1>0, <1>8, <3>1, Committing
    <3>2. CASE s # req[q].shift BY <1>0, <1>8, <3>2, Committing
    <3> QED BY <3>1, <3>2
  <2>3. Proceed(q) BY <1>8 DEF Proceed
  <2> QED BY <1>0, <2>1, <2>2, <2>3, NothingPaid
<1>9. ASSUME NEW q \in Requests, CloseShift(q) \/ ReconcileShift(q) \/ ApproveRefund(q) \/ SaveResponse(q)
      PROVE  Explained(s)'
  <2>1. moved' = moved /\ exchanged' = exchanged /\ drawer' = drawer /\ rolled' = rolled
    BY <1>9 DEF CloseShift, ReconcileShift, ApproveRefund, SaveResponse, till
  <2>2. req[q].pc \in {"close", "reconcile", "approve", "save"}
    BY <1>9 DEF CloseShift, ReconcileShift, ApproveRefund, SaveResponse
  <2>3. Proceed(q) BY <1>9 DEF Proceed
  <2> QED BY <1>0, <2>1, <2>2, <2>3, NothingPaid
<1>10. ASSUME NEW r \in Refunds, RequestRefund(r) \/ RejectRefund(r) PROVE Explained(s)'
  <2>1. UNCHANGED <<moved, exchanged, drawer, rolled, req>>
    BY <1>10 DEF RequestRefund, RejectRefund, till, history
  <2> QED BY <2>1 DEF Explained, IsSum, Paid, At
<1> QED BY <1>2, <1>3, <1>4, <1>5, <1>6, <1>7, <1>8, <1>9, <1>10 DEF Next, Proceed, Reading

LEMMA PayoutStart == Init => PayoutInv
<1> SUFFICES ASSUME Init PROVE PayoutInv
  OBVIOUS
<1>1. BooksInv BY BooksStart
<1>2. ASSUME NEW s \in Shifts PROVE Explained(s)
  <2> DEFINE g == [P \in SUBSET Requests |-> 0]
  <2>1. \A q \in Requests : Paid(s)[q] = 0 BY DEF Init, Paid, At, Idle
  <2>2. g \in [SUBSET Requests -> Nat] /\ \A P \in SUBSET Requests : g[P] = 0 OBVIOUS
  <2> HIDE DEF g
  <2>3. \A P \in SUBSET Requests, q \in Requests : P \cup {q} \in SUBSET Requests OBVIOUS
  <2>4. IsSum(g, Paid(s)) BY <2>1, <2>2, <2>3 DEF IsSum
  <2>5. moved[s] = 0 /\ exchanged[s] = 0 /\ drawer[s].out = 0 /\ g[Requests] = 0 BY <2>2 DEF Init
  <2> QED BY <2>2, <2>4, <2>5 DEF Explained
<1> QED BY <1>1, <1>2 DEF PayoutInv

LEMMA PayoutNext == PayoutInv /\ [Next]_vars => PayoutInv'
<1> SUFFICES ASSUME PayoutInv, [Next]_vars PROVE PayoutInv'
  OBVIOUS
<1>1. BooksInv' BY BooksStep DEF PayoutInv
<1>2. CASE Next BY <1>1, <1>2, PayoutStep DEF PayoutInv, BooksInv
<1>3. CASE UNCHANGED vars
  <2>1. UNCHANGED <<moved, exchanged, drawer, rolled, req>> BY <1>3 DEF vars, till, history
  <2>2. ASSUME NEW s \in Shifts, Explained(s) PROVE Explained(s)'
    <3>1. Paid(s)' = Paid(s) BY <2>1 DEF Paid, At
    <3>2. PICK w : w = Paid(s) OBVIOUS
    <3>3. \E g \in [SUBSET Requests -> Nat] :
            /\ IsSum(g, w)
            /\ moved'[s] + exchanged'[s] + g[Requests] <= drawer'[s].out
            /\ s \notin rolled' => moved'[s] + exchanged'[s] + g[Requests] = drawer'[s].out
      BY <2>1, <2>2, <3>2 DEF Explained
    <3> QED BY <3>1, <3>2, <3>3 DEF Explained, IsSum
  <2>3. \A s \in Shifts : Explained(s)' BY <2>2 DEF PayoutInv
  <2> QED BY <1>1, <2>3 DEF PayoutInv
<1> QED BY <1>2, <1>3

\* What left a drawer was taken by staff or is of an exchange, recorded or on its way,
\* or of one that rolled back; and the drawer, the shift and the sales agree.
THEOREM DrawersAgree == Spec => []DrawerAgrees
<1>1. PayoutInv => TotalsAddUp BY DEF PayoutInv, BooksInv, Sums, TotalsAddUp
<1>2. PayoutInv => PayoutsExplained
  <2> SUFFICES ASSUME PayoutInv, NEW s \in Shifts
               PROVE  /\ moved[s] + exchanged[s] <= drawer[s].out
                      /\ moved[s] + exchanged[s] < drawer[s].out =>
                           s \in rolled \/ \E q \in Requests : At(q, {"exchange"}, "outer") /\ req[q].shift = s
    BY DEF PayoutsExplained
  <2>1. PICK g \in [SUBSET Requests -> Nat] :
          /\ IsSum(g, Paid(s))
          /\ moved[s] + exchanged[s] + g[Requests] <= drawer[s].out
          /\ s \notin rolled => moved[s] + exchanged[s] + g[Requests] = drawer[s].out
    BY DEF PayoutInv, Explained
  <2>2. moved[s] \in Nat /\ exchanged[s] \in Nat /\ drawer[s].out \in Nat /\ g[Requests] \in Nat
    BY DEF PayoutInv, BooksInv, TypeInv, TypeOK
  <2>3. g[Requests] > 0 => \E q \in Requests : Paid(s)[q] > 0 BY <2>1 DEF IsSum
  <2>4. \A q \in Requests : Paid(s)[q] > 0 => At(q, {"exchange"}, "outer") /\ req[q].shift = s
    BY DEF Paid
  <2> QED BY <2>1, <2>2, <2>3, <2>4
<1>3. PayoutInv => DrawerAgrees BY <1>1, <1>2 DEF DrawerAgrees
<1> QED BY <1>3, PayoutStart, PayoutNext, PTL DEF Spec

-----------------------------------------------------------------------------
(* What holds where nothing raced.                                         *)

\* Races are noted when they happen.
Noted == Races(req) \subseteq contended

LEMMA Racing ==
  ASSUME NEW rq, NEW p \in Requests, NEW q \in Requests, p # q
  PROVE  /\ rq[p].op \in {"close", "reconcile"} /\ rq[q].shift = rq[p].shift /\ rq[p].shift \in Shifts
              => rq[p].shift \in Races(rq)
         /\ rq[p].pc = "insert" /\ rq[q].pc = "insert" /\ rq[p].who = rq[q].who /\ rq[p].who \in Cashiers
              => rq[p].who \in Races(rq)
         /\ rq[p].op = "approve" /\ rq[q].op = "approve" /\ rq[p].on = rq[q].on /\ rq[p].on \in Refunds
              => rq[p].on \in Races(rq)
         /\ rq[p].key = rq[q].key /\ rq[p].key \in Keys => rq[p].key \in Races(rq)
BY DEF Races

LEMMA NotedStep ==
  ASSUME TypeInv, Noted, Next
  PROVE  Noted' /\ contended \subseteq contended'
<1>1. ASSUME NEW q \in Requests, Ask(q) \/ Proceed(q) PROVE Noted' /\ contended \subseteq contended'
  <2>1. contended' = contended \cup Races(req') BY <1>1, AskGoes, ProceedGoes DEF Goes
  <2> QED BY <2>1 DEF Noted
<1>2. ASSUME NEW r \in Refunds, RequestRefund(r) \/ RejectRefund(r)
      PROVE  Noted' /\ contended \subseteq contended'
  BY <1>2 DEF RequestRefund, RejectRefund, history, Noted, Races
<1> QED BY <1>1, <1>2 DEF Next

\* A request on a shift finds it as it was read.
AtShift(s) ==
  \A q \in Requests : req[q].shift = s =>
    /\ req[q].pc \in {"commit", "payout"} => shift[s].status = "OPEN"
    /\ req[q].pc = "close" => shift[s].status = "OPEN" /\ req[q].known = shift[s].expected
    /\ req[q].op = "reconcile" => shift[s].status = "CLOSED"

TrueVariance(s) ==
  shift[s].status \in {"CLOSED", "RECONCILED"} => shift[s].variance = shift[s].counted - shift[s].expected

Stands(s) ==
  /\ Stage(shift'[s].status) >= Stage(shift[s].status)
  /\ shift[s].status \in {"CLOSED", "RECONCILED"} => shift'[s].expected = shift[s].expected

\* The shift is left alone.
LEMMA ShiftLeft ==
  ASSUME TypeInv, Next, NEW s \in Shifts, shift'[s] = shift[s], AtShift(s), TrueVariance(s)
  PROVE  AtShift(s)' /\ TrueVariance(s)' /\ Stands(s)
<1>1. ASSUME NEW q \in Requests, Ask(q) \/ Proceed(q) PROVE AtShift(s)'
  <2>1. PICK x \in RequestRecords : Goes(q, x) BY <1>1, AskGoes, ProceedGoes
  <2>2. req' = [req EXCEPT ![q] = x] /\ Fresh(req[q], x) BY <2>1 DEF Goes
  <2>3. SUFFICES ASSUME NEW p \in Requests, req'[p].shift = s
        PROVE  /\ req'[p].pc \in {"commit", "payout"} => shift[s].status = "OPEN"
               /\ req'[p].pc = "close" => shift[s].status = "OPEN" /\ req'[p].known = shift[s].expected
               /\ req'[p].op = "reconcile" => shift[s].status = "CLOSED"
    BY DEF AtShift
  <2>4. req'[p] = req[p] \/ req'[p] = x BY <2>2 DEF TypeInv, TypeOK
  <2>5. CASE req'[p] = req[p] BY <2>3, <2>5 DEF AtShift
  <2>6. CASE req'[p] = x BY <2>2, <2>3, <2>6 DEF Fresh
  <2> QED BY <2>4, <2>5, <2>6
<1>2. ASSUME NEW r \in Refunds, RequestRefund(r) \/ RejectRefund(r) PROVE AtShift(s)'
  BY <1>2 DEF RequestRefund, RejectRefund, AtShift
<1>3. AtShift(s)' BY <1>1, <1>2 DEF Next
<1>4. TrueVariance(s)' BY DEF TrueVariance
<1>5. Stage(shift[s].status) \in Nat BY DEF Stage
<1>6. Stands(s) BY <1>5 DEF Stands
<1> QED BY <1>3, <1>4, <1>6

\* Request q writes to the shift, and no longer works on it in a place where it
\* counts on what it read.
LEMMA ShiftWritten ==
  ASSUME TypeInv, NEW s \in Shifts, NEW q \in Requests, NEW x, req' = [req EXCEPT ![q] = x],
         x.pc \notin {"commit", "payout", "close"}, x.op # "reconcile",
         \A p \in Requests \ {q} : req[p].shift = s =>
           /\ req[p].pc \in {"commit", "payout"} => shift'[s].status = "OPEN"
           /\ req[p].pc # "close" /\ req[p].op # "reconcile"
  PROVE  AtShift(s)'
<1>1. SUFFICES ASSUME NEW p \in Requests, req'[p].shift = s
      PROVE  /\ req'[p].pc \in {"commit", "payout"} => shift'[s].status = "OPEN"
             /\ req'[p].pc = "close" => shift'[s].status = "OPEN" /\ req'[p].known = shift'[s].expected
             /\ req'[p].op = "reconcile" => shift'[s].status = "CLOSED"
  BY DEF AtShift
<1>2. (p # q /\ req'[p] = req[p]) \/ req'[p] = x BY DEF TypeInv, TypeOK
<1> QED BY <1>1, <1>2

\* Where a request is after it wrote to a shift.
LEMMA WriterGoes ==
  ASSUME TypeInv, NEW q \in Requests, WritesShift(q)
  PROVE  \E x : /\ req' = [req EXCEPT ![q] = x] /\ x.op # "reconcile"
                /\ x.pc \in {"idle", "current", "save", "outer"}
<1>0. req[q] \in RequestRecords /\ Placed(req[q]) BY ReqTyped
<1>1. Idle.op # "reconcile" /\ Idle.pc = "idle" BY DEF Idle
<1>2. ASSUME End(q) PROVE req' = [req EXCEPT ![q] = Idle] BY <1>2 DEF End, Become
<1>3. ASSUME NEW p, Move(q, p)
      PROVE  req' = [req EXCEPT ![q] = [req[q] EXCEPT !.pc = p]]
  BY <1>3 DEF Move, Become
<1>4. ASSUME NEW p
      PROVE  [req[q] EXCEPT !.pc = p].pc = p /\ [req[q] EXCEPT !.pc = p].op = req[q].op
  BY <1>0 DEF RequestRecords
<1>5. ASSUME NEW f \in Floats, OpenShift(q, f)
      PROVE  \E x : /\ req' = [req EXCEPT ![q] = x] /\ x.op # "reconcile"
                    /\ x.pc \in {"idle", "current", "save", "outer"}
  <2>1. req[q].op # "reconcile" BY <1>0, <1>5 DEF OpenShift, Placed
  <2>2. End(q) \/ Move(q, "current") BY <1>5 DEF OpenShift
  <2> QED BY <1>1, <1>2, <1>3, <1>4, <2>1, <2>2
<1>6. ASSUME CommitSale(q)
      PROVE  \E x : /\ req' = [req EXCEPT ![q] = x] /\ x.op # "reconcile"
                    /\ x.pc \in {"idle", "current", "save", "outer"}
  <2>1. Goes(q, Answered(q, "done")) BY <1>6, AnswerGoes DEF CommitSale
  <2>2. req[q].op # "reconcile" BY <1>0, <1>6 DEF CommitSale, At, Placed
  <2>3. Answered(q, "done").op # "reconcile" /\ Answered(q, "done").pc \in {"idle", "save"}
    <3>1. [req[q] EXCEPT !.pc = "save", !.result = "done"].pc = "save"
          /\ [req[q] EXCEPT !.pc = "save", !.result = "done"].op = req[q].op
      BY <1>0 DEF RequestRecords
    <3> QED BY <1>1, <2>2, <3>1 DEF Answered
  <2> QED BY <2>1, <2>3 DEF Goes
<1>7. ASSUME RecordDrawerMovement(q)
      PROVE  \E x : /\ req' = [req EXCEPT ![q] = x] /\ x.op # "reconcile"
                    /\ x.pc \in {"idle", "current", "save", "outer"}
  <2>1. req[q].op # "reconcile" BY <1>0, <1>7 DEF RecordDrawerMovement, Placed
  <2>2. End(q) \/ Move(q, "outer") BY <1>7 DEF RecordDrawerMovement
  <2> QED BY <1>1, <1>2, <1>3, <1>4, <2>1, <2>2
<1>8. ASSUME CloseShift(q) \/ ReconcileShift(q)
      PROVE  \E x : /\ req' = [req EXCEPT ![q] = x] /\ x.op # "reconcile"
                    /\ x.pc \in {"idle", "current", "save", "outer"}
  BY <1>1, <1>2, <1>8 DEF CloseShift, ReconcileShift
<1> QED BY <1>5, <1>6, <1>7, <1>8 DEF WritesShift

\* Closing or reconciling a shift on which nothing raced, its only request.
LEMMA Alone ==
  ASSUME TypeInv, Noted, NEW s \in Shifts, s \notin contended, NEW q \in Requests, NEW p \in Requests \ {q},
         req[q].shift = s, req[p].shift = s
  PROVE  /\ req[q].op \notin {"close", "reconcile"} /\ req[p].op \notin {"close", "reconcile"}
         /\ req[p].pc # "close" /\ req[q].pc \notin {"close", "reconcile"}
<1>1. s \notin Races(req) BY DEF Noted
<1>2. req[q].op \notin {"close", "reconcile"} /\ req[p].op \notin {"close", "reconcile"}
  BY <1>1, Racing
<1> QED BY <1>2, ReqTyped DEF Placed

LEMMA ShiftStep ==
  ASSUME TypeInv, Noted, Next, NEW s \in Shifts, s \notin contended, AtShift(s), TrueVariance(s)
  PROVE  AtShift(s)' /\ TrueVariance(s)' /\ Stands(s)
<1>0. shift[s] \in ShiftRecords BY ShiftTyped
<1>1. CASE shift'[s] = shift[s] BY <1>1, ShiftLeft
<1>2. ASSUME NEW q \in Requests, NEW f \in Floats, OpenShift(q, f), shift'[s] # shift[s]
      PROVE  AtShift(s)' /\ TrueVariance(s)' /\ Stands(s)
  <2>1. shift[s].status = "NONE" /\ shift'[s] = NewShift(req[q].who, f) BY <1>2, Opening
  <2>2. shift'[s].status = "OPEN" BY <2>1 DEF NewShift
  <2>3. TrueVariance(s)' /\ Stands(s) BY <2>1, <2>2 DEF TrueVariance, Stands, Stage
  <2>4. \A p \in Requests \ {q} : req[p].shift = s =>
          /\ req[p].pc \in {"commit", "payout"} => shift'[s].status = "OPEN"
          /\ req[p].pc # "close" /\ req[p].op # "reconcile"
    BY <2>1, <2>2 DEF AtShift
  <2>5. PICK x : /\ req' = [req EXCEPT ![q] = x] /\ x.op # "reconcile"
                 /\ x.pc \in {"idle", "current", "save", "outer"}
    BY <1>2, WriterGoes DEF WritesShift
  <2>6. AtShift(s)' BY <2>4, <2>5, ShiftWritten
  <2> QED BY <2>3, <2>6
<1>3. ASSUME NEW q \in Requests, CommitSale(q) \/ RecordDrawerMovement(q), shift'[s] # shift[s]
      PROVE  AtShift(s)' /\ TrueVariance(s)' /\ Stands(s)
  <2>1. s = req[q].shift /\ req[q].pc \in {"commit", "payout"} BY ZenonT(60), <1>3, Committing, PayingOut
  <2>2. shift[s].status = "OPEN" BY <2>1 DEF AtShift
  <2>3. shift'[s].status = "OPEN"
    <3>1. CASE CommitSale(q)
      <4>1. shift'[s] = Sold(shift[s], req[q].total, req[q].cash) BY <2>1, <3>1, Committing
      <4> QED BY <1>0, <2>2, <4>1 DEF Sold, ShiftRecords
    <3>2. CASE RecordDrawerMovement(q)
      <4>1. shift'[s] = [shift[s] EXCEPT !.expected = @ - req[q].amount] BY <2>1, <3>2, PayingOut
      <4> QED BY <1>0, <2>2, <4>1 DEF ShiftRecords
    <3> QED BY <1>3, <3>1, <3>2
  <2>4. TrueVariance(s)' /\ Stands(s) BY <2>2, <2>3 DEF TrueVariance, Stands, Stage
  <2>5. \A p \in Requests \ {q} : req[p].shift = s =>
          /\ req[p].pc \in {"commit", "payout"} => shift'[s].status = "OPEN"
          /\ req[p].pc # "close" /\ req[p].op # "reconcile"
    BY <2>1, <2>3, Alone
  <2>6. PICK x : /\ req' = [req EXCEPT ![q] = x] /\ x.op # "reconcile"
                 /\ x.pc \in {"idle", "current", "save", "outer"}
    BY <1>3, WriterGoes DEF WritesShift
  <2>7. AtShift(s)' BY <2>5, <2>6, ShiftWritten
  <2> QED BY <2>4, <2>7
<1>4. ASSUME NEW q \in Requests, CloseShift(q) \/ ReconcileShift(q), shift'[s] # shift[s]
      PROVE  AtShift(s)' /\ TrueVariance(s)' /\ Stands(s)
  <2>1. s = req[q].shift /\ shift'[s].expected = shift[s].expected BY <1>4, Closing
  <2>2. ASSUME CloseShift(q) PROVE TrueVariance(s)' /\ Stands(s)
    <3>1. /\ shift'[s].status = "CLOSED" /\ shift'[s].counted = req[q].cash
          /\ shift'[s].variance = req[q].cash - req[q].known /\ req[q].pc = "close"
      BY <2>1, <2>2, Closing
    <3>2. shift[s].status = "OPEN" /\ req[q].known = shift[s].expected BY <2>1, <3>1 DEF AtShift
    <3>3. TrueVariance(s)' BY <2>1, <3>1, <3>2 DEF TrueVariance
    <3>4. Stands(s) BY <2>1, <3>1, <3>2 DEF Stands, Stage
    <3> QED BY <3>3, <3>4
  <2>3. ASSUME ~CloseShift(q) PROVE TrueVariance(s)' /\ Stands(s)
    <3>1. /\ shift'[s].status = "RECONCILED" /\ shift'[s].counted = shift[s].counted
          /\ shift'[s].variance = shift[s].variance /\ req[q].pc = "reconcile"
      BY <1>4, <2>1, <2>3, Closing
    <3>2. req[q].op = "reconcile" BY <3>1, ReqTyped DEF Placed
    <3>3. shift[s].status = "CLOSED" BY <2>1, <3>2 DEF AtShift
    <3>4. shift[s].variance = shift[s].counted - shift[s].expected BY <3>3 DEF TrueVariance
    <3>5. TrueVariance(s)' BY <2>1, <3>1, <3>4 DEF TrueVariance
    <3>6. Stands(s) BY <2>1, <3>1, <3>3 DEF Stands, Stage
    <3> QED BY <3>5, <3>6
  <2>4. req[q].pc \in {"close", "reconcile"} BY <1>4 DEF CloseShift, ReconcileShift
  <2>5. \A p \in Requests \ {q} : req[p].shift # s BY <2>1, <2>4, Alone
  <2>6. PICK x : /\ req' = [req EXCEPT ![q] = x] /\ x.op # "reconcile"
                 /\ x.pc \in {"idle", "current", "save", "outer"}
    BY <1>4, WriterGoes DEF WritesShift
  <2>7. AtShift(s)' BY <2>5, <2>6, ShiftWritten
  <2> QED BY <2>2, <2>3, <2>7
<1> QED BY <1>1, <1>2, <1>3, <1>4, OthersLeave DEF WritesShift

\* A cashier has one open shift, and none while a request is about to open one.
AtCashier(c) ==
  /\ \A s, t \in Open(c) : s = t
  /\ \A q \in Requests : req[q].pc = "insert" /\ req[q].who = c => Open(c) = {}

\* Only openShift makes a shift open.
LEMMA OpensOnly ==
  ASSUME TypeInv, Next, NEW c \in Cashiers
  PROVE  \/ Open(c)' \subseteq Open(c)
         \/ \E q \in Requests, f \in Floats, s \in Shifts :
              /\ OpenShift(q, f) /\ req[q].who = c /\ Open(c)' \subseteq Open(c) \cup {s}
<1>1. ASSUME NEW q \in Requests, NEW f \in Floats, OpenShift(q, f)
      PROVE  Open(c)' \subseteq Open(c) \/ (req[q].who = c /\ \E s \in Shifts : Open(c)' \subseteq Open(c) \cup {s})
  <2>1. PICK s \in Shifts : shift'[s] = NewShift(req[q].who, f) /\ \A t \in Shifts \ {s} : shift'[t] = shift[t]
    BY <1>1, Opening
  <2>2. shift'[s].by = req[q].who BY <2>1 DEF NewShift
  <2>3. CASE req[q].who = c BY <2>1, <2>3 DEF Open
  <2>4. CASE req[q].who # c BY <2>1, <2>2, <2>4 DEF Open
  <2> QED BY <2>3, <2>4
<1>2. ASSUME NEW q \in Requests, CommitSale(q) \/ RecordDrawerMovement(q) PROVE Open(c)' \subseteq Open(c)
  <2>1. SUFFICES ASSUME NEW s \in Shifts PROVE shift'[s].status = shift[s].status /\ shift'[s].by = shift[s].by
    BY DEF Open
  <2>2. shift[s] \in ShiftRecords BY ShiftTyped
  <2>3. CASE CommitSale(q)
    <3>1. shift'[s] = shift[s] \/ shift'[s] = Sold(shift[s], req[q].total, req[q].cash) BY <2>3, Committing
    <3> QED BY <2>2, <3>1 DEF Sold, ShiftRecords
  <2>4. CASE RecordDrawerMovement(q)
    <3>1. shift'[s] = shift[s] \/ shift'[s] = [shift[s] EXCEPT !.expected = @ - req[q].amount] BY <2>4, PayingOut
    <3> QED BY <2>2, <3>1 DEF ShiftRecords
  <2> QED BY <1>2, <2>3, <2>4
<1>3. ASSUME NEW q \in Requests, CloseShift(q) \/ ReconcileShift(q) PROVE Open(c)' \subseteq Open(c)
  <2>1. SUFFICES ASSUME NEW s \in Shifts PROVE shift'[s] = shift[s] \/ shift'[s].status # "OPEN"
    BY DEF Open
  <2> QED BY <1>3, Closing
<1>4. ASSUME UNCHANGED <<shift, drawer, sales>> PROVE Open(c)' \subseteq Open(c)
  BY <1>4 DEF Open
<1> QED BY <1>1, <1>2, <1>3, <1>4, OthersLeave DEF WritesShift

LEMMA CashierStep ==
  ASSUME TypeInv, Noted, Next, NEW c \in Cashiers, c \notin contended, AtCashier(c)
  PROVE  AtCashier(c)'
<1>1. CASE Open(c)' \subseteq Open(c)
  <2>1. \A s, t \in Open(c)' : s = t BY <1>1 DEF AtCashier
  <2>2. ASSUME NEW q \in Requests, Ask(q) \/ Proceed(q), NEW p \in Requests,
               req'[p].pc = "insert" /\ req'[p].who = c
        PROVE  Open(c) = {}
    <3>1. PICK x \in RequestRecords : Goes(q, x) BY <2>2, AskGoes, ProceedGoes
    <3>2. req' = [req EXCEPT ![q] = x] /\ (x.pc = "insert" => Open(x.who) = {}) BY <3>1 DEF Goes, Fresh
    <3>3. req'[p] = req[p] \/ req'[p] = x BY <3>2 DEF TypeInv, TypeOK
    <3> QED BY <2>2, <3>2, <3>3 DEF AtCashier
  <2>3. ASSUME NEW r \in Refunds, RequestRefund(r) \/ RejectRefund(r), NEW p \in Requests,
               req'[p].pc = "insert" /\ req'[p].who = c
        PROVE  Open(c) = {}
    BY <2>3 DEF RequestRefund, RejectRefund, AtCashier
  <2>4. \A p \in Requests : req'[p].pc = "insert" /\ req'[p].who = c => Open(c)' = {}
    BY <1>1, <2>2, <2>3 DEF Next
  <2> QED BY <2>1, <2>4 DEF AtCashier
<1>2. ASSUME NEW q \in Requests, NEW f \in Floats, NEW s \in Shifts,
             OpenShift(q, f), req[q].who = c, Open(c)' \subseteq Open(c) \cup {s}
      PROVE  AtCashier(c)'
  <2>1. req[q].pc = "insert" BY <1>2 DEF OpenShift
  <2>2. Open(c) = {} BY <1>2, <2>1 DEF AtCashier
  <2>3. \A t, u \in Open(c)' : t = u BY <1>2, <2>2
  <2>4. PICK x : req' = [req EXCEPT ![q] = x] /\ x.pc \in {"idle", "current", "save", "outer"}
    BY <1>2, WriterGoes DEF WritesShift
  <2>5. ASSUME NEW p \in Requests, req'[p].pc = "insert" /\ req'[p].who = c PROVE FALSE
    <3>1. p # q /\ req[p] = req'[p] BY <2>4, <2>5 DEF TypeInv, TypeOK
    <3>2. c \in Races(req) BY <1>2, <2>1, <2>5, <3>1, Racing
    <3> QED BY <3>2 DEF Noted
  <2> QED BY <2>3, <2>5 DEF AtCashier
<1> QED BY <1>1, <1>2, OpensOnly

-----------------------------------------------------------------------------
(* Keys and refund requests.                                               *)

Made(x) == x.pc = "save" /\ x.result = "done"

\* A checkout was executed if its answer says so, stored or on its way.
AtKey(k) ==
  /\ executed[k] \in {0, 1}
  /\ executed[k] = 1 => response[k] = "done" \/ \E q \in Requests : req[q].key = k /\ Made(req[q])
  /\ response[k] = "done" => executed[k] = 1
  /\ response[k] = "refused" => executed[k] = 0
  /\ \A q \in Requests : req[q].key = k => response[k] = "none" /\ (Made(req[q]) <=> executed[k] = 1)

\* The key is left alone.
LEMMA KeyLeft ==
  ASSUME NEW k \in Keys, AtKey(k), executed'[k] = executed[k], response'[k] = response[k],
         \A p \in Requests : req'[p].key = k \/ req[p].key = k => req'[p] = req[p]
  PROVE  AtKey(k)'
<1>1. \A q \in Requests : req'[q].key = k =>
        response'[k] = "none" /\ (Made(req'[q]) <=> executed'[k] = 1)
  BY DEF AtKey
<1>2. executed'[k] = 1 => response'[k] = "done" \/ \E q \in Requests : req'[q].key = k /\ Made(req'[q])
  BY DEF AtKey
<1>3. \A q \in Requests : (req'[q].key = k => response'[k] = "none") /\ Made(req[q])' = Made(req'[q])
  BY <1>1 DEF Made
<1> QED BY <1>1, <1>2, <1>3 DEF AtKey

\* What the step of the only request under a key makes of it.
LEMMA KeyedGoes ==
  ASSUME TypeInv, NEW q \in Requests, Proceed(q), req[q].key \in Keys
  PROVE  LET k == req[q].key IN
         \/ /\ CommitSale(q) /\ ~Made(req[q]) /\ executed'[k] = executed[k] + 1 /\ response'[k] = response[k]
            /\ req'[q].key = k /\ Made(req'[q])
         \/ /\ SaveResponse(q) /\ executed'[k] = executed[k] /\ response'[k] = req[q].result
            /\ req'[q].key # k /\ (Made(req[q]) <=> req[q].result = "done")
            /\ req[q].result \in {"done", "refused"}
         \/ /\ Fail(q) /\ executed'[k] = executed[k] /\ response'[k] = response[k]
            /\ req'[q].key # k /\ (Made(req[q]) => k \in forgotten')
         \/ /\ ~Made(req[q]) /\ executed'[k] = executed[k] /\ response'[k] = response[k]
            /\ req'[q].key = k => ~Made(req'[q])
<1> DEFINE k == req[q].key
<1>0. req[q] \in RequestRecords /\ Placed(req[q]) /\ k # NoKey
  BY ReqTyped, PointOfSaleAssumption
<1>1. req[q].op = "checkout" /\ req[q].pc \in {"shift", "check", "insert", "current", "commit", "save"}
  BY <1>0 DEF Placed
<1>2. Idle.key # k BY <1>0 DEF Idle
<1>3. /\ executed \in [Keys -> Nat] /\ response \in [Keys -> {"none", "done", "refused"}]
      /\ req \in [Requests -> RequestRecords]
  BY DEF TypeInv, TypeOK
<1>4. ASSUME End(q) PROVE req'[q].key # k BY <1>2, <1>3, <1>4 DEF End, Become
<1>5. ASSUME NEW p, Move(q, p) PROVE req'[q].pc = p
  <2>1. req'[q] = [req[q] EXCEPT !.pc = p] BY <1>3, <1>5 DEF Move, Become
  <2> QED BY <1>0, <2>1 DEF RequestRecords
<1>6. ASSUME NEW result \in {"done", "refused"}, Answer(q, result)
      PROVE  req'[q].key = k /\ req'[q].pc = "save" /\ req'[q].result = result
  <2>1. req'[q] = [req[q] EXCEPT !.pc = "save", !.result = result] BY <1>0, <1>3, <1>6 DEF Answer, Become
  <2> QED BY <1>0, <2>1 DEF RequestRecords
<1>7. ASSUME NEW s \in Shifts, Use(q, s) PROVE req'[q].pc = "commit"
  <2>1. FirstStep(req[q]) = "commit" BY <1>1 DEF FirstStep
  <2>2. req'[q] = [req[q] EXCEPT !.shift = s, !.pc = "commit"] BY <1>3, <1>7, <2>1 DEF Use, Become
  <2> QED BY <1>0, <2>2 DEF RequestRecords
<1>8. CASE CommitSale(q)
  <2>1. req'[q].key = k /\ Made(req'[q]) BY <1>6, <1>8 DEF CommitSale, Made
  <2>2. executed'[k] = executed[k] + 1 /\ response' = response BY <1>3, <1>8 DEF CommitSale
  <2>3. ~Made(req[q]) BY <1>8 DEF CommitSale, At, Made
  <2> QED BY <1>8, <2>1, <2>2, <2>3
<1>9. CASE SaveResponse(q)
  <2>1. req[q].pc = "save" /\ End(q) /\ executed' = executed /\ response'[k] = req[q].result
    BY <1>3, <1>9 DEF SaveResponse
  <2>2. req[q].result \in {"done", "refused"} BY <1>0, <2>1 DEF Placed
  <2> QED BY <1>4, <1>9, <2>1, <2>2 DEF Made
<1>10. CASE Fail(q)
  <2>1. End(q) /\ executed' = executed /\ response' = response BY <1>10 DEF Fail, keyed
  <2>2. Made(req[q]) => k \in forgotten' BY <1>10 DEF Fail, Made
  <2> QED BY <1>4, <1>10, <2>1, <2>2
<1>11. ASSUME CheckOpen(q) \/ FindShift(q) \/ UseOpened(q) \/ Refuse(q) \/ \E f \in Floats : OpenShift(q, f)
       PROVE  /\ ~Made(req[q]) /\ executed'[k] = executed[k] /\ response'[k] = response[k]
              /\ req'[q].key = k => ~Made(req'[q])
  <2>1. executed' = executed /\ response' = response
    BY <1>11 DEF CheckOpen, FindShift, UseOpened, Refuse, OpenShift, keyed
  <2>2. ~Made(req[q]) BY <1>11 DEF CheckOpen, FindShift, UseOpened, Refuse, OpenShift, Made, At
  <2>3. CASE CheckOpen(q) BY <1>5, <2>1, <2>2, <2>3 DEF CheckOpen, Made
  <2>4. CASE FindShift(q)
    BY <1>5, <1>6, <1>7, <2>1, <2>2, <2>4 DEF FindShift, Made
  <2>5. CASE UseOpened(q) BY <1>4, <1>7, <2>1, <2>2, <2>5 DEF UseOpened, Made
  <2>6. CASE Refuse(q) BY <1>6, <2>1, <2>2, <2>6 DEF Refuse, Made
  <2>7. ASSUME NEW f \in Floats, OpenShift(q, f) PROVE req'[q].key = k => ~Made(req'[q])
    BY <1>4, <1>5, <2>7 DEF OpenShift, Made
  <2> QED BY <1>11, <2>1, <2>2, <2>3, <2>4, <2>5, <2>6, <2>7
<1>12. \/ CommitSale(q) \/ SaveResponse(q) \/ Fail(q)
       \/ CheckOpen(q) \/ FindShift(q) \/ UseOpened(q) \/ Refuse(q) \/ \E f \in Floats : OpenShift(q, f)
  BY <1>1 DEF Proceed, GuardMovement, RecordDrawerMovement, CommitExchange, ReadForClose, CloseShift,
     ReconcileShift, ApproveRefund, At
<1> QED BY <1>8, <1>9, <1>10, <1>11, <1>12

LEMMA OtherKey ==
  ASSUME TypeInv, NEW k \in Keys, NEW q \in Requests, Proceed(q), req[q].key # k, AtKey(k)
  PROVE  AtKey(k)'
<1>1. PICK x \in RequestRecords : Goes(q, x) BY ProceedGoes
<1>2. req[q] # Idle
  <2>1. Idle.pc = "idle" /\ Idle.op = "none" /\ Idle = Idle BY DEF Idle
  <2> QED BY <2>1 DEF Proceed, CheckOpen, FindShift, UseOpened, CommitSale, Refuse, OpenShift, GuardMovement,
       RecordDrawerMovement, CommitExchange, ReadForClose, CloseShift, ReconcileShift, ApproveRefund,
       SaveResponse, Fail, At, Selling
<1>3. req' = [req EXCEPT ![q] = x] /\ x.key # k
  BY <1>1, <1>2, PointOfSaleAssumption DEF Goes, Fresh
<1>4. \A p \in Requests : req'[p].key = k \/ req[p].key = k => req'[p] = req[p]
  BY <1>3 DEF TypeInv, TypeOK
<1>5. executed \in [Keys -> Nat] /\ response \in [Keys -> {"none", "done", "refused"}]
  BY DEF TypeInv, TypeOK
<1>6. executed'[k] = executed[k] /\ response'[k] = response[k]
  <2>1. CASE CommitSale(q) BY <1>5, <2>1 DEF CommitSale
  <2>2. CASE SaveResponse(q) BY <1>5, <2>2 DEF SaveResponse
  <2>3. CASE WritesShift(q) /\ ~CommitSale(q)
    BY <2>3 DEF WritesShift, OpenShift, RecordDrawerMovement, CloseShift, ReconcileShift, keyed
  <2>4. CASE Reading(q) BY <2>4, ReadingLeaves DEF tables, keyed
  <2>5. CASE CommitExchange(q) \/ ApproveRefund(q) \/ Fail(q)
    BY <2>5 DEF CommitExchange, ApproveRefund, Fail, keyed
  <2> QED BY <2>1, <2>2, <2>3, <2>4, <2>5 DEF Proceed, Reading, WritesShift
<1> QED BY <1>4, <1>6, KeyLeft

LEMMA KeyStep ==
  ASSUME TypeInv, Noted, Next, NEW k \in Keys, k \notin contended', k \notin forgotten', AtKey(k)
  PROVE  AtKey(k)'
<1>0. Noted' /\ k \notin contended /\ k # NoKey BY NotedStep, PointOfSaleAssumption
<1>1. ASSUME NEW q \in Requests, Ask(q) PROVE AtKey(k)'
  <2>1. PICK x \in RequestRecords : Goes(q, x) BY <1>1, AskGoes
  <2>2. req' = [req EXCEPT ![q] = x] /\ req[q] = Idle /\ executed' = executed /\ response' = response
    BY <1>1, <2>1, AskGoes DEF Goes, Kept, keyed
  <2>3. req[q].key # k BY <1>0, <2>2 DEF Idle
  <2>4. \A p \in Requests \ {q} : req'[p] = req[p] BY <2>2 DEF TypeInv, TypeOK
  <2>5. req'[q] = x BY <2>2 DEF TypeInv, TypeOK
  <2>6. CASE x.key # k
    <3>1. \A p \in Requests : req'[p].key = k \/ req[p].key = k => req'[p] = req[p]
      BY <2>3, <2>4, <2>5, <2>6
    <3> QED BY <2>2, <3>1, KeyLeft
  <2>7. CASE x.key = k
    <3>1. response[k] = "none" /\ x.pc = "shift" BY <1>0, <2>1, <2>3, <2>7 DEF Goes, Fresh
    <3>2. k \notin Races(req') BY <1>0 DEF Noted
    <3>3. \A p \in Requests \ {q} : req'[p].key # k BY <2>5, <2>7, <3>2, Racing
    <3>4. \A p \in Requests : req[p].key # k BY <2>3, <2>4, <3>3
    <3>5. executed[k] = 0 BY <3>1, <3>4 DEF AtKey
    <3>6. ~Made(req'[q]) BY <2>5, <3>1 DEF Made
    <3>7. \A p \in Requests : req'[p].key = k => response'[k] = "none" /\ ~Made(req'[p])
      BY <2>2, <3>1, <3>3, <3>6
    <3>8. \A p \in Requests : Made(req[p])' = Made(req'[p]) BY DEF Made
    <3> QED BY <2>2, <3>1, <3>5, <3>7, <3>8 DEF AtKey
  <2> QED BY <2>6, <2>7
<1>2. ASSUME NEW q \in Requests, Proceed(q), req[q].key = k PROVE AtKey(k)'
  <2>1. k \notin Races(req) BY <1>0 DEF Noted
  <2>2. \A p \in Requests \ {q} : req[p].key # k BY <1>2, <2>1, Racing
  <2>3. PICK x \in RequestRecords : Goes(q, x) BY <1>2, ProceedGoes
  <2>4. \A p \in Requests \ {q} : req'[p].key # k BY <2>2, <2>3 DEF Goes, TypeInv, TypeOK
  <2>5. response[k] = "none" /\ executed[k] \in {0, 1} /\ (Made(req[q]) <=> executed[k] = 1)
    BY <1>2 DEF AtKey
  <2>6. \A p \in Requests : Made(req[p])' = Made(req'[p]) BY DEF Made
  <2>7. CASE /\ ~Made(req[q]) /\ executed'[k] = executed[k] + 1 /\ response'[k] = response[k]
             /\ req'[q].key = k /\ Made(req'[q])
    <3>1. executed'[k] = 1 /\ response'[k] = "none" BY <2>5, <2>7
    <3> QED BY <2>4, <2>6, <2>7, <3>1 DEF AtKey
  <2>8. CASE /\ executed'[k] = executed[k] /\ response'[k] = req[q].result
             /\ req'[q].key # k /\ (Made(req[q]) <=> req[q].result = "done")
             /\ req[q].result \in {"done", "refused"}
    <3>1. \A p \in Requests : req'[p].key # k BY <2>4, <2>8
    <3> QED BY <2>5, <2>8, <3>1 DEF AtKey
  <2>9. CASE /\ executed'[k] = executed[k] /\ response'[k] = response[k]
             /\ req'[q].key # k /\ ~Made(req[q])
    <3>1. \A p \in Requests : req'[p].key # k BY <2>4, <2>9
    <3>2. executed'[k] = 0 /\ response'[k] = "none" BY <2>5, <2>9
    <3> QED BY <3>1, <3>2 DEF AtKey
  <2>10. CASE /\ ~Made(req[q]) /\ executed'[k] = executed[k] /\ response'[k] = response[k]
              /\ req'[q].key = k => ~Made(req'[q])
    <3>1. executed'[k] = 0 /\ response'[k] = "none" BY <2>5, <2>10
    <3>2. \A p \in Requests : req'[p].key = k => ~Made(req'[p]) BY <2>4, <2>10
    <3> QED BY <2>6, <3>1, <3>2 DEF AtKey
  <2> QED BY <1>2, <2>7, <2>8, <2>9, <2>10, KeyedGoes
<1>3. ASSUME NEW r \in Refunds, RequestRefund(r) \/ RejectRefund(r) PROVE AtKey(k)'
  <2>1. executed' = executed /\ response' = response /\ req' = req
    BY <1>3 DEF RequestRefund, RejectRefund, keyed
  <2> QED BY <2>1, KeyLeft
<1> QED BY <1>1, <1>2, <1>3, OtherKey DEF Next

\* What was repaid for a refund request, and what an approval on its way finds.
AtRefund(r) ==
  /\ refund[r] \in {"NONE", "PENDING_APPROVAL"} => repaid[r] = 0
  /\ refund[r] = "APPROVED" => repaid[r] > 0
  /\ \A q \in Requests : req[q].op = "approve" /\ req[q].on = r => refund[r] # "NONE"

Unpaid(r) ==
  /\ repaid[r] <= 1
  /\ \A q \in Requests : req[q].op = "approve" /\ req[q].on = r => repaid[r] = 0

LEMMA RefundStep ==
  ASSUME TypeInv, Noted, Next, NEW r \in Refunds, AtRefund(r)
  PROVE  AtRefund(r)' /\ (r \notin contended /\ Unpaid(r) => Unpaid(r)')
<1>0. /\ refund \in [Refunds -> {"NONE", "PENDING_APPROVAL", "APPROVED", "REJECTED"}]
      /\ repaid \in [Refunds -> Nat] /\ req \in [Requests -> RequestRecords]
  BY DEF TypeInv, TypeOK
<1>1. ASSUME NEW q \in Requests, ApproveRefund(q) PROVE AtRefund(r)' /\ (r \notin contended /\ Unpaid(r) => Unpaid(r)')
  <2>1. req[q].op = "approve" /\ req[q].on \in Refunds BY <1>1, ReqTyped DEF ApproveRefund, Placed
  <2>2. req' = [req EXCEPT ![q] = Idle] /\ Idle.op = "none" BY <1>1 DEF ApproveRefund, End, Become, Idle
  <2>3. \A p \in Requests : req'[p].op = "approve" => p # q /\ req'[p] = req[p] BY <1>0, <2>2
  <2>4. CASE req[q].on # r
    <3>1. refund'[r] = refund[r] /\ repaid'[r] = repaid[r] BY <1>0, <1>1, <2>4 DEF ApproveRefund
    <3> QED BY <2>3, <3>1 DEF AtRefund, Unpaid
  <2>5. CASE req[q].on = r
    <3>1. refund'[r] = "APPROVED" /\ repaid'[r] = repaid[r] + 1 /\ repaid[r] \in Nat
      BY <1>0, <1>1, <2>5 DEF ApproveRefund
    <3>2. AtRefund(r)' BY <3>1 DEF AtRefund
    <3>3. ASSUME r \notin contended, Unpaid(r) PROVE Unpaid(r)'
      <4>1. repaid[r] = 0 BY <2>1, <2>5, <3>3 DEF Unpaid
      <4>2. r \notin Races(req) BY <3>3 DEF Noted
      <4>3. \A p \in Requests : ~(req'[p].op = "approve" /\ req'[p].on = r)
        BY <2>1, <2>3, <2>5, <4>2, Racing
      <4> QED BY <3>1, <4>1, <4>3 DEF Unpaid
    <3> QED BY <3>2, <3>3
  <2> QED BY <2>4, <2>5
<1>2. ASSUME NEW q \in Requests, Ask(q) \/ Proceed(q), refund' = refund, repaid' = repaid
      PROVE  AtRefund(r)' /\ (r \notin contended /\ Unpaid(r) => Unpaid(r)')
  <2>1. PICK x \in RequestRecords : Goes(q, x) BY <1>2, AskGoes, ProceedGoes
  <2>2. req' = [req EXCEPT ![q] = x] /\ (x.op = "approve" => refund[x.on] = "PENDING_APPROVAL")
    BY <2>1 DEF Goes, Fresh
  <2>3. \A p \in Requests : req'[p] = req[p] \/ req'[p] = x BY <1>0, <2>2
  <2>4. \A p \in Requests : req'[p].op = "approve" /\ req'[p].on = r =>
          (req[p].op = "approve" /\ req[p].on = r) \/ refund[r] = "PENDING_APPROVAL"
    BY <2>2, <2>3
  <2>5. AtRefund(r)' BY <1>2, <2>4 DEF AtRefund
  <2>6. Unpaid(r) => Unpaid(r)' BY <1>2, <2>4 DEF AtRefund, Unpaid
  <2> QED BY <2>5, <2>6
<1>3. ASSUME NEW q \in Requests, Proceed(q), ~ApproveRefund(q) PROVE refund' = refund /\ repaid' = repaid
  <2>1. CASE Reading(q) BY <2>1, ReadingLeaves DEF tables, counter
  <2>2. CASE WritesShift(q)
    BY <2>2 DEF WritesShift, OpenShift, CommitSale, RecordDrawerMovement, CloseShift, ReconcileShift, counter
  <2>3. CASE CommitExchange(q) \/ SaveResponse(q) \/ Fail(q)
    BY <2>3 DEF CommitExchange, SaveResponse, Fail, counter
  <2> QED BY <1>3, <2>1, <2>2, <2>3 DEF Proceed, Reading, WritesShift
<1>4. ASSUME NEW q \in Requests, Ask(q) PROVE refund' = refund /\ repaid' = repaid
  BY <1>4, AskGoes DEF Kept, counter
<1>5. ASSUME NEW u \in Refunds, RequestRefund(u) \/ RejectRefund(u)
      PROVE  AtRefund(r)' /\ (r \notin contended /\ Unpaid(r) => Unpaid(r)')
  <2>1. req' = req /\ repaid' = repaid BY <1>5 DEF RequestRefund, RejectRefund
  <2>2. refund'[r] = refund[r] \/ (refund[r] = "NONE" /\ refund'[r] = "PENDING_APPROVAL")
        \/ (refund[r] # "NONE" /\ refund'[r] = "REJECTED")
    BY <1>0, <1>5 DEF RequestRefund, RejectRefund
  <2>3. AtRefund(r)' BY <2>1, <2>2 DEF AtRefund
  <2>4. Unpaid(r) => Unpaid(r)' BY <2>1 DEF Unpaid
  <2> QED BY <2>3, <2>4
<1> QED BY <1>1, <1>2, <1>3, <1>4, <1>5 DEF Next

LEMMA NotForgotten ==
  ASSUME TypeInv, Next
  PROVE  forgotten \subseteq forgotten'
<1>1. ASSUME NEW q \in Requests, Ask(q) PROVE forgotten \subseteq forgotten' BY <1>1, AskGoes DEF Kept
<1>2. ASSUME NEW q \in Requests, Reading(q) PROVE forgotten' = forgotten BY <1>2, ReadingLeaves DEF tables
<1>3. ASSUME NEW q \in Requests, WritesShift(q) \/ CommitExchange(q) \/ ApproveRefund(q) \/ SaveResponse(q)
      PROVE  forgotten' = forgotten
  BY <1>3 DEF WritesShift, OpenShift, CommitSale, RecordDrawerMovement, CloseShift, ReconcileShift,
     CommitExchange, ApproveRefund, SaveResponse
<1>4. ASSUME NEW q \in Requests, Fail(q) PROVE forgotten \subseteq forgotten' BY <1>4 DEF Fail
<1>5. ASSUME NEW r \in Refunds, RequestRefund(r) \/ RejectRefund(r) PROVE forgotten' = forgotten
  BY <1>5 DEF RequestRefund, RejectRefund, history
<1> QED BY <1>1, <1>2, <1>3, <1>4, <1>5 DEF Next, Proceed, Reading, WritesShift

\* The inductive invariant: every shift, cashier, key and refund request on which
\* nothing raced is as its requests found it.
AgreedInv ==
  /\ TypeInv /\ Noted
  /\ \A s \in Shifts \ contended : AtShift(s) /\ TrueVariance(s)
  /\ \A c \in Cashiers \ contended : AtCashier(c)
  /\ \A k \in Keys \ (contended \cup forgotten) : AtKey(k)
  /\ \A r \in Refunds : AtRefund(r) /\ (r \notin contended => Unpaid(r))

LEMMA AgreedStart == Init => AgreedInv
<1> SUFFICES ASSUME Init PROVE AgreedInv
  OBVIOUS
<1>0. TypeInv BY TypeStart
<1>1. \A q \in Requests : req[q] = Idle BY DEF Init
<1>2. Idle.op = "none" /\ Idle.pc = "idle" /\ Idle.shift = 0 /\ Idle.key = NoKey BY DEF Idle
<1>3. Noted
  <2>1. \A x \in Shifts \cup Cashiers \cup Refunds \cup Keys : x \notin Races(req)
    BY <1>1, <1>2, PointOfSaleAssumption DEF Races, Shifts
  <2> QED BY <2>1 DEF Noted, Races
<1>4. \A s \in Shifts : AtShift(s) /\ TrueVariance(s)
  BY <1>1, <1>2 DEF Init, AtShift, TrueVariance, NoShift, Shifts
<1>5. \A c \in Cashiers : AtCashier(c)
  BY <1>1, <1>2 DEF Init, AtCashier, Open, NoShift
<1>6. \A k \in Keys : AtKey(k)
  BY <1>1, <1>2, PointOfSaleAssumption DEF Init, AtKey
<1>7. \A r \in Refunds : AtRefund(r) /\ Unpaid(r)
  BY <1>1, <1>2 DEF Init, AtRefund, Unpaid
<1> QED BY <1>0, <1>3, <1>4, <1>5, <1>6, <1>7 DEF AgreedInv

LEMMA AgreedStep == AgreedInv /\ [Next]_vars => AgreedInv'
<1> SUFFICES ASSUME AgreedInv, [Next]_vars PROVE AgreedInv'
  OBVIOUS
<1>0. TypeInv /\ TypeInv' BY TypeStep DEF AgreedInv
<1>1. CASE Next
  <2>1. Noted /\ Noted' /\ contended \subseteq contended' /\ forgotten \subseteq forgotten'
    BY <1>0, <1>1, NotedStep, NotForgotten DEF AgreedInv
  <2>2. \A s \in Shifts \ contended' : AtShift(s)' /\ TrueVariance(s)'
    <3>1. SUFFICES ASSUME NEW s \in Shifts, s \notin contended' PROVE AtShift(s)' /\ TrueVariance(s)'
      OBVIOUS
    <3>2. AtShift(s) /\ TrueVariance(s) /\ s \notin contended BY <2>1, <3>1 DEF AgreedInv
    <3> QED BY <1>0, <1>1, <2>1, <3>2, ShiftStep
  <2>3. \A c \in Cashiers \ contended' : AtCashier(c)'
    <3>1. SUFFICES ASSUME NEW c \in Cashiers, c \notin contended' PROVE AtCashier(c)'
      OBVIOUS
    <3>2. AtCashier(c) /\ c \notin contended BY <2>1, <3>1 DEF AgreedInv
    <3> QED BY <1>0, <1>1, <2>1, <3>2, CashierStep
  <2>4. \A k \in Keys \ (contended' \cup forgotten') : AtKey(k)'
    <3>1. SUFFICES ASSUME NEW k \in Keys, k \notin contended', k \notin forgotten' PROVE AtKey(k)'
      OBVIOUS
    <3>2. AtKey(k) BY <2>1, <3>1 DEF AgreedInv
    <3> QED BY <1>0, <1>1, <2>1, <3>1, <3>2, KeyStep
  <2>5. \A r \in Refunds : AtRefund(r)' /\ (r \notin contended' => Unpaid(r)')
    <3>1. SUFFICES ASSUME NEW r \in Refunds PROVE AtRefund(r)' /\ (r \notin contended' => Unpaid(r)')
      OBVIOUS
    <3>2. AtRefund(r) /\ (r \notin contended => Unpaid(r)) BY DEF AgreedInv
    <3> QED BY <1>0, <1>1, <2>1, <3>2, RefundStep
  <2> QED BY <1>0, <2>1, <2>2, <2>3, <2>4, <2>5 DEF AgreedInv
<1>2. CASE UNCHANGED vars
  <2>1. Noted' BY <1>2 DEF AgreedInv, Noted, Races, vars, history
  <2>2. \A s \in Shifts \ contended' : AtShift(s)' /\ TrueVariance(s)'
    BY <1>2 DEF AgreedInv, AtShift, TrueVariance, vars, till, history
  <2>3. \A c \in Cashiers \ contended' : AtCashier(c)'
    BY <1>2 DEF AgreedInv, AtCashier, Open, vars, till, history
  <2>4. \A k \in Keys \ (contended' \cup forgotten') : AtKey(k)'
    BY <1>2 DEF AgreedInv, AtKey, Made, vars, keyed, history
  <2>5. \A r \in Refunds : AtRefund(r)' /\ (r \notin contended' => Unpaid(r)')
    BY <1>2 DEF AgreedInv, AtRefund, Unpaid, vars, counter, history
  <2> QED BY <1>0, <2>1, <2>2, <2>3, <2>4, <2>5 DEF AgreedInv
<1> QED BY <1>1, <1>2

\* A cashier has one open shift and the variance of a closed one is true, unless
\* requests raced on it (openShift, closeShift: posShiftService.js:59, 227).
THEOREM ShiftsAlwaysAgree == Spec => []ShiftsAgree
<1>1. AgreedInv => ShiftsAgree
  BY DEF AgreedInv, AtCashier, TrueVariance, ShiftsAgree, OneOpenShift, VarianceIsTrue
<1> QED BY <1>1, AgreedStart, AgreedStep, PTL DEF Spec

\* A checkout under a key and the payment of a refund request are made once
\* (middleware/idempotency.js, refunds.js).
THEOREM AlwaysMadeOnce == Spec => []MadeOnce
<1>1. AgreedInv => MadeOnce
  <2>1. AgreedInv => KeyedOnce BY DEF AgreedInv, AtKey, KeyedOnce
  <2>2. AgreedInv => RefundedOnce
    BY DEF AgreedInv, AtRefund, Unpaid, RefundedOnce, TypeInv, TypeOK
  <2> QED BY <2>1, <2>2 DEF MadeOnce
<1> QED BY <1>1, AgreedStart, AgreedStep, PTL DEF Spec

\* A closed shift stays closed and its expected cash stays what it was, unless a
\* request overlapped its closing.
THEOREM ClosedShiftsStand == Spec => ClosedShiftStands
<1> DEFINE P == \A s \in Shifts \ contended' :
                  /\ Stage(shift'[s].status) >= Stage(shift[s].status)
                  /\ shift[s].status \in {"CLOSED", "RECONCILED"} => shift'[s].expected = shift[s].expected
<1>1. AgreedInv /\ [Next]_vars => [P]_vars
  <2> SUFFICES ASSUME AgreedInv, Next, NEW s \in Shifts, s \notin contended' PROVE Stands(s)
    BY DEF Stands
  <2>1. contended \subseteq contended' /\ TypeInv /\ Noted BY NotedStep DEF AgreedInv
  <2> QED BY <2>1, ShiftStep DEF AgreedInv
<1>2. ClosedShiftStands <=> [][P]_vars BY DEF ClosedShiftStands
<1> QED BY <1>1, <1>2, AgreedStart, AgreedStep, PTL DEF Spec
=============================================================================
