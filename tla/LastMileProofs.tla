--------------------------- MODULE LastMileProofs ---------------------------
(***************************************************************************)
(* Proofs about LastMile for any number of requests, shipments and tasks,  *)
(* any limits, amounts and statuses the board writes.  Nothing reads a     *)
(* shipment, a task or a settlement inside the transaction that writes it, *)
(* so the invariant follows the request: on a shipment where no two of     *)
(* them overlapped, what a request read is still true when it writes.      *)
(***************************************************************************)
EXTENDS LastMile, FiniteSetTheorems, TLAPS

\* The handlers of a task, and those that move its shipment.
TaskOps == {"create", "start", "attempt", "fail", "pod", "return"}
Movers == {"create", "start", "fail", "pod", "return"}

\* A request is where its handler can be, about a task or a shipment that exists.
Placed(x) ==
  /\ x.op = "none" <=> x.pc = "idle"
  /\ x.pc = "idle" => x = Idle
  /\ x.op # "none" => x.ship \in Shipments
  /\ x.op \in TaskOps => x.task \in Tasks /\ x.ship = ShipOf[x.task]
  /\ x.pc \in {"check", "move"} => x.op \in Movers \cup {"staff"} /\ x.aim \in SHIPMENT_STATUSES
  /\ x.pc = "cod" => x.op \in {"create", "pod"}
  /\ x.pc = "commit" => x.op \in Movers
  /\ x.pc = "lock" => x.op \in {"start", "fail", "pod", "return"}
  /\ x.pc = "insert" => x.op \in {"attempt", "expect"}
  /\ x.pc = "write" <=> x.op \in {"collect", "remit", "reconcile"}
  /\ x.op = "create" => x.aim = "READY_FOR_DELIVERY"
  /\ x.op = "start" => x.aim = "OUT_FOR_DELIVERY"
  /\ x.op = "fail" => x.aim = "DELIVERY_FAILED"
  /\ x.op = "pod" => x.aim = "DELIVERED"
  /\ x.op = "return" => x.aim = "RETURNED"
  /\ x.op = "staff" => x.aim \in StaffTargets
  /\ x.op = "fail" /\ x.pc \in {"check", "move"} => x.count + 1 >= MaxAttempts[x.task]

TypeInv == TypeOK /\ \A q \in Requests : Placed(req[q])

\* A task that a request found still exists, and so does a settlement.
Found(x) ==
  /\ x.op \in TaskOps \ {"create"} => task[x.task].status # "NONE"
  /\ x.pc = "write" => x.row \in 1..Len(cod[x.ship])
  /\ x.pc = "commit" => x.row \in 0..Len(cod[x.ship])
  /\ x.pc \notin {"write", "commit"} => x.row = 0

\* Two requests on one shipment are noted.
Noted ==
  \A p, q \in Requests :
    p # q /\ req[p] # Idle /\ req[q] # Idle /\ req[p].ship = req[q].ship => req[p].ship \in contended

\* Has the request moved its shipment, once it is past the move?
Moves(x) == x.op = "fail" => x.count + 1 >= MaxAttempts[x.task]

Taken == proof \ boarded

\* What a request read still holds, when nothing else happened on its shipment.
Current(x) ==
  /\ x.op \in {"attempt", "fail", "pod"} => x.count = task[x.task].attempts
  /\ x.pc = "move" => Allows(status[x.ship], x.aim)
  /\ x.pc \in {"cod", "commit"} /\ Moves(x) => status[x.ship] = x.aim
  /\ x.op = "pod" /\ x.pc # "lock" => x.task \notin proof
  /\ x.op = "pod" /\ x.pc \in {"cod", "commit"} => \A u \in Taken : ShipOf[u] # x.ship
  /\ x.op \in {"create", "pod"} /\ x.pc = "commit" => (x.row = 0 <=> cod[x.ship] = << >> \/ Cod[x.ship] = 0)
  /\ x.op = "expect" => cod[x.ship] = << >>
  /\ x.pc = "write" => x.old = cod[x.ship][x.row] /\ x.old.status # "RECONCILED"

AllCurrent == \A q \in Requests : req[q] # Idle /\ req[q].ship \notin contended => Current(req[q])

AllFound == \A q \in Requests : Found(req[q])

\* No failure is numbered beyond the counter of its task.
Numbered ==
  \A t \in Tasks : ShipOf[t] \notin contended => \A k \in Failures(t) : tries[t][k].n <= task[t].attempts

-----------------------------------------------------------------------------
(* Where a request can be.                                                 *)

LEMMA Statuses ==
  {"READY_FOR_DELIVERY", "OUT_FOR_DELIVERY", "DELIVERY_FAILED", "DELIVERED", "RETURNED"}
    \subseteq SHIPMENT_STATUSES
BY DEF SHIPMENT_STATUSES, ALLOWED_TRANSITIONS

\* A delivered shipment moves no more, so no delivery begins from DELIVERED.
LEMMA DeliveredIsFinal == \A to : ~Allows("DELIVERED", to)
BY DEF Allows, ALLOWED_TRANSITIONS

LEMMA PendingTyped == Pending \in Settlements
BY DEF Pending, Settlements

LEMMA IdleTyped == Idle \in RequestRecords /\ Placed(Idle) /\ Found(Idle)
BY PendingTyped DEF Idle, RequestRecords, Placed, TaskOps, Movers, Found

\* Request q goes on as x.
Goes(q, x) == req' = [req EXCEPT ![q] = x] /\ x \in RequestRecords /\ Placed(x)

LEMMA ReqTyped ==
  ASSUME TypeInv, NEW q \in Requests
  PROVE  /\ req[q] \in RequestRecords /\ Placed(req[q])
         /\ req[q].count \in Nat /\ req[q].row \in Nat /\ req[q].old \in Settlements
<1>1. req[q] \in RequestRecords /\ Placed(req[q]) BY DEF TypeInv, TypeOK
<1> QED BY <1>1 DEF RequestRecords

\* A request that arrives changes no row, and what it has read is so.
Arrives(q, x) ==
  /\ Goes(q, x) /\ req[q] = Idle /\ x.op # "none"
  /\ UNCHANGED <<status, rows, boarded, broken>>
  /\ contended' = contended \cup (IF Busy(x.ship, q) THEN {x.ship} ELSE {})
  /\ Found(x) /\ Current(x)
  /\ x.pc \in {"check", "lock", "insert", "write"}

LEMMA BeginArrives ==
  ASSUME TypeInv, NEW q \in Requests, NEW x \in RequestRecords, Placed(x), Found(x), Current(x),
         x.op # "none", x.pc \in {"check", "lock", "insert", "write"}, Begin(q, x)
  PROVE  Arrives(q, x)
BY DEF Begin, Contend, Arrives, Goes

LEMMA TaskArrives ==
  ASSUME TypeInv, NEW q \in Requests, NEW t \in Tasks,
         NEW op \in {"start", "attempt", "fail", "pod", "return"},
         NEW aim \in SHIPMENT_STATUSES \cup {"none"}, NEW pc, pc = (IF op = "attempt" THEN "insert" ELSE "lock"),
         op = "start" => aim = "OUT_FOR_DELIVERY", op = "fail" => aim = "DELIVERY_FAILED",
         op = "pod" => aim = "DELIVERED", op = "return" => aim = "RETURNED",
         BeginTask(q, op, t, pc, aim)
  PROVE  \E x \in RequestRecords : Arrives(q, x)
<1> DEFINE n == task[t].attempts
           x == [Idle EXCEPT !.pc = pc, !.op = op, !.task = t, !.ship = ShipOf[t], !.count = n, !.aim = aim]
<1>1. n \in Nat /\ task[t].status # "NONE" BY DEF TypeInv, TypeOK, BeginTask
<1>2. ShipOf[t] \in Shipments BY LastMileAssumption
<1>3. Begin(q, x) BY DEF BeginTask
<1>4. x \in RequestRecords BY <1>1, <1>2, PendingTyped DEF Idle, RequestRecords
<1>5. x.pc = pc /\ x.op = op /\ x.task = t /\ x.ship = ShipOf[t] /\ x.count = n /\ x.aim = aim /\ x.row = 0
  BY DEF Idle
<1> HIDE DEF x
<1>6. Placed(x) BY <1>2, <1>5, IdleTyped DEF Placed, TaskOps, Movers
<1>7. Found(x) BY <1>1, <1>5 DEF Found, TaskOps
<1>8. Current(x) BY <1>5 DEF Current
<1> QED BY <1>3, <1>4, <1>5, <1>6, <1>7, <1>8, BeginArrives

LEMMA CodArrives ==
  ASSUME TypeInv, NEW q \in Requests, NEW s \in Shipments, NEW k \in 1..Len(cod[s]),
         NEW op \in {"collect", "remit", "reconcile"}, cod[s][k].status # "RECONCILED",
         BeginCod(q, op, s, k)
  PROVE  \E x \in RequestRecords : Arrives(q, x)
<1> DEFINE r == cod[s][k]
           x == [Idle EXCEPT !.pc = "write", !.op = op, !.ship = s, !.row = k, !.old = r]
<1>1. cod[s] \in Seq(Settlements) BY DEF TypeInv, TypeOK
<1>2. r \in Settlements BY <1>1
<1>3. k \in Nat BY <1>1
<1>4. Begin(q, x) BY DEF BeginCod
<1>5. x \in RequestRecords BY <1>2, <1>3 DEF Idle, RequestRecords
<1>6. x.pc = "write" /\ x.op = op /\ x.ship = s /\ x.row = k /\ x.old = r
  BY DEF Idle
<1> HIDE DEF x
<1>7. Placed(x) BY <1>6 DEF Placed, TaskOps, Movers
<1>8. Found(x) BY <1>6 DEF Found, TaskOps
<1>9. Current(x) BY <1>6 DEF Current
<1> QED BY <1>4, <1>5, <1>6, <1>7, <1>8, <1>9, BeginArrives

\* Whatever is asked, the request that begins is placed and knows what it read.
LEMMA AskArrives ==
  ASSUME TypeInv, NEW q \in Requests, Ask(q)
  PROVE  \E x \in RequestRecords : Arrives(q, x)
<1>1. ASSUME NEW t \in Tasks, CreateDeliveryTask(q, t) PROVE \E x \in RequestRecords : Arrives(q, x)
  <2> DEFINE x == [Idle EXCEPT !.pc = "check", !.op = "create", !.task = t, !.ship = ShipOf[t],
                               !.aim = "READY_FOR_DELIVERY"]
  <2>1. ShipOf[t] \in Shipments BY LastMileAssumption
  <2>2. x \in RequestRecords BY <2>1, PendingTyped, Statuses DEF Idle, RequestRecords
  <2>3. x.pc = "check" /\ x.op = "create" /\ x.task = t /\ x.ship = ShipOf[t] /\ x.aim = "READY_FOR_DELIVERY"
        /\ x.row = 0
    BY DEF Idle
  <2>4. Begin(q, x) BY <1>1 DEF CreateDeliveryTask
  <2> HIDE DEF x
  <2>5. Placed(x) BY <2>1, <2>3, Statuses DEF Placed, TaskOps, Movers
  <2>6. Found(x) BY <2>3 DEF Found, TaskOps
  <2>7. Current(x) BY <2>3 DEF Current
  <2> QED BY <2>2, <2>3, <2>4, <2>5, <2>6, <2>7, BeginArrives
<1>2. ASSUME NEW t \in Tasks,
             \/ ReadForStart(q, t) \/ ReadForAttempt(q, t)
             \/ ReadForFailure(q, t) \/ ReadForProof(q, t) \/ ReadForReturn(q, t)
      PROVE  \E x \in RequestRecords : Arrives(q, x)
  BY <1>2, TaskArrives, Statuses
     DEF ReadForStart, ReadForAttempt, ReadForFailure, ReadForProof, ReadForReturn
<1>3. ASSUME NEW s \in Shipments, NEW aim \in StaffTargets, StaffTransition(q, s, aim)
      PROVE  \E x \in RequestRecords : Arrives(q, x)
  <2> DEFINE x == [Idle EXCEPT !.pc = "check", !.op = "staff", !.ship = s, !.aim = aim]
  <2>1. aim \in SHIPMENT_STATUSES BY LastMileAssumption
  <2>2. x \in RequestRecords BY <2>1, PendingTyped DEF Idle, RequestRecords
  <2>3. x.pc = "check" /\ x.op = "staff" /\ x.ship = s /\ x.aim = aim /\ x.row = 0
    BY DEF Idle
  <2>4. Begin(q, x) BY <1>3 DEF StaffTransition
  <2> HIDE DEF x
  <2>5. Placed(x) BY <2>1, <2>3 DEF Placed, TaskOps, Movers
  <2>6. Found(x) BY <2>3 DEF Found, TaskOps
  <2>7. Current(x) BY <2>3 DEF Current
  <2> QED BY <2>2, <2>3, <2>4, <2>5, <2>6, <2>7, BeginArrives
<1>4. ASSUME NEW s \in Shipments, ReadForExpect(q, s)
      PROVE  \E x \in RequestRecords : Arrives(q, x)
  <2> DEFINE x == [Idle EXCEPT !.pc = "insert", !.op = "expect", !.ship = s]
  <2>2. x \in RequestRecords BY PendingTyped DEF Idle, RequestRecords
  <2>3. x.pc = "insert" /\ x.op = "expect" /\ x.ship = s /\ x.row = 0
    BY DEF Idle
  <2>4. Begin(q, x) /\ cod[s] = << >> BY <1>4 DEF ReadForExpect
  <2> HIDE DEF x
  <2>5. Placed(x) BY <2>3 DEF Placed, TaskOps, Movers
  <2>6. Found(x) BY <2>3 DEF Found, TaskOps
  <2>7. Current(x) BY <2>3, <2>4 DEF Current
  <2> QED BY <2>2, <2>3, <2>4, <2>5, <2>6, <2>7, BeginArrives
<1>5. ASSUME NEW s \in Shipments, NEW k \in 1..Len(cod[s]),
             ReadForCollection(q, s, k) \/ ReadForRemittance(q, s, k) \/ ReadForReconciliation(q, s, k)
      PROVE  \E x \in RequestRecords : Arrives(q, x)
  BY <1>5, CodArrives DEF ReadForCollection, ReadForRemittance, ReadForReconciliation
<1> QED BY <1>1, <1>2, <1>3, <1>4, <1>5 DEF Ask

\* A request goes on with what it has read, or is done.
Advances(q, x) ==
  /\ Goes(q, x)
  /\ x = Idle \/ /\ x.op = req[q].op /\ x.task = req[q].task /\ x.ship = req[q].ship
                 /\ x.count = req[q].count /\ x.aim = req[q].aim /\ x.old = req[q].old

LEMMA EndAdvances ==
  ASSUME TypeInv, NEW q \in Requests, End(q)
  PROVE  Advances(q, Idle)
BY IdleTyped DEF End, Advances, Goes

\* Request q goes on at p, with row k.
Leads(q, p, k) == req' = [req EXCEPT ![q] = [req[q] EXCEPT !.pc = p, !.row = k]]

\* May request rq be at p?
Fits(rq, p) ==
  /\ p \in {"check", "move"} => rq.op \in Movers \cup {"staff"} /\ rq.aim \in SHIPMENT_STATUSES
  /\ p = "cod" => rq.op \in {"create", "pod"}
  /\ p = "commit" => rq.op \in Movers
  /\ rq.op = "fail" /\ p \in {"check", "move"} => rq.count + 1 >= MaxAttempts[rq.task]

LEMMA GotoAdvances ==
  ASSUME TypeInv, NEW q \in Requests, NEW p \in {"check", "move", "cod", "commit"}, NEW k \in Nat,
         req[q].pc \in {"lock", "check", "move", "cod"},
         Leads(q, p, k), Fits(req[q], p)
  PROVE  \E x \in RequestRecords : Advances(q, x) /\ x.pc = p /\ x.row = k
<1> DEFINE x == [req[q] EXCEPT !.pc = p, !.row = k]
<1>1. req[q] \in RequestRecords /\ Placed(req[q]) BY ReqTyped
<1>2. x \in RequestRecords BY <1>1 DEF RequestRecords
<1>3. /\ x.op = req[q].op /\ x.task = req[q].task /\ x.ship = req[q].ship
      /\ x.count = req[q].count /\ x.aim = req[q].aim /\ x.old = req[q].old /\ x.pc = p /\ x.row = k
  BY <1>1 DEF RequestRecords
<1> HIDE DEF x
<1>4. Placed(x) BY <1>1, <1>3 DEF Placed, Movers, Fits
<1>5. req' = [req EXCEPT ![q] = x] BY DEF x, Leads
<1> QED BY <1>2, <1>3, <1>4, <1>5 DEF Advances, Goes

LEMMA GotoKeepsRow ==
  ASSUME TypeInv, NEW q \in Requests, NEW p, Goto(q, p)
  PROVE  Leads(q, p, req[q].row)
<1>1. req[q] \in RequestRecords /\ req \in [Requests -> RequestRecords] BY DEF TypeInv, TypeOK
<1>2. [req[q] EXCEPT !.pc = p] = [req[q] EXCEPT !.pc = p, !.row = req[q].row]
  BY <1>1 DEF RequestRecords
<1> QED BY <1>1, <1>2 DEF Goto, Leads

\* The steps that write no row of a task, a proof or a settlement.
Plain(q) == CheckTransition(q) \/ MoveShipment(q) \/ FindSettlement(q) \/ LockTask(q) \/ InsertProof(q)

\* Where a plain step leads when the request is not refused.
Onward(q) ==
  IF req[q].pc = "lock" THEN (IF req[q].op = "fail" /\ ~Last(q) THEN "commit" ELSE "check")
  ELSE IF req[q].pc = "check" THEN "move"
  ELSE IF req[q].pc = "move" THEN AfterMove(req[q].op) ELSE "commit"

LEMMA PlainAdvances ==
  ASSUME TypeInv, NEW q \in Requests, Plain(q)
  PROVE  \/ Advances(q, Idle)
         \/ \E x \in RequestRecords :
              /\ Advances(q, x) /\ x.pc = Onward(q)
              /\ IF FindSettlement(q) THEN x.row \in 0..Len(cod[x.ship])
                                           /\ (x.row = 0 <=> cod[x.ship] = << >> \/ Cod[x.ship] = 0)
                 ELSE x.row = req[q].row
<1> DEFINE Goal == \E x \in RequestRecords :
                     /\ Advances(q, x) /\ x.pc = Onward(q)
                     /\ IF FindSettlement(q) THEN x.row \in 0..Len(cod[x.ship])
                                                  /\ (x.row = 0 <=> cod[x.ship] = << >> \/ Cod[x.ship] = 0)
                        ELSE x.row = req[q].row
<1>1. req[q] \in RequestRecords /\ Placed(req[q]) /\ req[q].row \in Nat BY ReqTyped
<1>2. ASSUME NEW p \in {"check", "move", "cod", "commit"}, Goto(q, p), p = Onward(q),
             req[q].pc \in {"lock", "check", "move"}, Fits(req[q], p)
      PROVE  Goal
  <2>1. \E x \in RequestRecords : Advances(q, x) /\ x.pc = p /\ x.row = req[q].row
    BY <1>1, <1>2, GotoKeepsRow, GotoAdvances
  <2>2. ~FindSettlement(q) BY <1>2 DEF FindSettlement
  <2> QED BY <1>2, <2>1, <2>2
<1>3. CASE CheckTransition(q)
  <2>1. req[q].pc = "check" /\ (End(q) \/ Goto(q, "move")) BY <1>3 DEF CheckTransition
  <2>2. /\ req[q].op \in Movers \cup {"staff"} /\ req[q].aim \in SHIPMENT_STATUSES
        /\ Fits(req[q], "move")
    BY <1>1, <2>1 DEF Placed, Fits
  <2> QED BY <1>2, <2>1, <2>2, EndAdvances DEF Onward
<1>4. CASE MoveShipment(q)
  <2>1. req[q].pc = "move" BY <1>4 DEF MoveShipment
  <2>2. req[q].op \in Movers \cup {"staff"} BY <1>1, <2>1 DEF Placed
  <2>3. CASE req[q].op = "staff" BY <1>4, <2>3, EndAdvances DEF MoveShipment
  <2>4. CASE req[q].op # "staff"
    <3> DEFINE p == AfterMove(req[q].op)
    <3>1. Goto(q, p) BY <1>4, <2>4 DEF MoveShipment
    <3>2. p \in {"cod", "commit"} /\ p = Onward(q) BY <2>1 DEF AfterMove, Onward
    <3>3. Fits(req[q], p) BY <2>2, <2>4 DEF AfterMove, Fits, Movers
    <3> HIDE DEF p
    <3> QED BY <1>2, <2>1, <3>1, <3>2, <3>3
  <2> QED BY <2>3, <2>4
<1>5. CASE FindSettlement(q)
  <2> DEFINE s == req[q].ship
  <2>1. req[q].pc = "cod" /\ req[q].op \in {"create", "pod"} /\ s \in Shipments
    BY <1>1, <1>5 DEF FindSettlement, Placed
  <2>2. PICK k \in 0..Len(cod[s]) :
          /\ k = 0 <=> cod[s] = << >> \/ Cod[s] = 0
          /\ req' = [req EXCEPT ![q].pc = "commit", ![q].row = k]
    BY <1>5 DEF FindSettlement
  <2>3. cod[s] \in Seq(Settlements) BY <2>1 DEF TypeInv, TypeOK
  <2>4. k \in Nat BY <2>3
  <2>5. Leads(q, "commit", k) /\ Fits(req[q], "commit")
    BY <2>1, <2>2 DEF TypeInv, TypeOK, Leads, Fits, Movers
  <2>6. PICK x \in RequestRecords : Advances(q, x) /\ x.pc = "commit" /\ x.row = k
    BY <2>1, <2>4, <2>5, GotoAdvances
  <2>7. x.ship = s BY <2>6, <2>1 DEF Advances, Idle
  <2>8. Onward(q) = "commit" BY <2>1 DEF Onward
  <2> QED BY <1>5, <2>2, <2>6, <2>7, <2>8
<1>6. CASE LockTask(q)
  <2>1. req[q].pc = "lock" /\ req[q].op \in {"start", "fail", "return"} /\ Goto(q, Onward(q))
    BY <1>6 DEF LockTask, Onward
  <2>2. req[q].aim \in SHIPMENT_STATUSES BY <1>1, <2>1, Statuses DEF Placed
  <2>3. Onward(q) \in {"check", "commit"} /\ Fits(req[q], Onward(q))
    BY <2>1, <2>2 DEF Onward, Fits, Movers, Last
  <2> QED BY <1>2, <2>1, <2>3
<1>7. CASE InsertProof(q)
  <2>1. req[q].pc = "lock" /\ req[q].op = "pod" /\ (End(q) \/ Goto(q, "check"))
    BY <1>7 DEF InsertProof, At
  <2>2. req[q].aim \in SHIPMENT_STATUSES BY <1>1, <2>1, Statuses DEF Placed
  <2>3. Fits(req[q], "check") BY SMTT(40), <2>1, <2>2 DEF Fits, Movers
  <2> QED BY <1>2, <2>1, <2>3, EndAdvances DEF Onward
<1> QED BY <1>3, <1>4, <1>5, <1>6, <1>7 DEF Plain

\* The steps that commit: the request is done.
Commits(q) ==
  \/ CommitTask(q) \/ CommitStart(q) \/ CommitAttempt(q) \/ CommitFailure(q)
  \/ CommitProof(q) \/ CommitReturn(q)
  \/ InsertExpected(q) \/ RecordCollection(q) \/ RecordRemittance(q) \/ ReconcileSettlement(q)

LEMMA CommitEnds ==
  ASSUME NEW q, Commits(q)
  PROVE  End(q) /\ req[q].pc \in {"commit", "insert", "write"} /\ UNCHANGED <<status, history>>
BY DEF Commits, CommitTask, CommitStart, CommitAttempt, CommitFailure, CommitProof, CommitReturn,
       InsertExpected, RecordCollection, RecordRemittance, ReconcileSettlement, WriteCod, At

LEMMA ProceedSplits ==
  ASSUME NEW q, Proceed(q)
  PROVE  Plain(q) \/ Commits(q)
BY DEF Proceed, Plain, Commits

-----------------------------------------------------------------------------
(* What the steps write.                                                   *)

LEMMA ReplaceTyped ==
  ASSUME NEW S, NEW c \in Seq(S), NEW k \in 1..Len(c), NEW r \in S
  PROVE  /\ [c EXCEPT ![k] = r] \in Seq(S) /\ Len([c EXCEPT ![k] = r]) = Len(c)
         /\ [c EXCEPT ![k] = r][k] = r
         /\ \A j \in 1..Len(c) : j # k => [c EXCEPT ![k] = r][j] = c[j]
OBVIOUS

LEMMA AppendTyped ==
  ASSUME NEW S, NEW c \in Seq(S), NEW r \in S
  PROVE  /\ Append(c, r) \in Seq(S) /\ Len(Append(c, r)) = Len(c) + 1
         /\ Append(c, r)[Len(c) + 1] = r /\ \A j \in 1..Len(c) : Append(c, r)[j] = c[j]
OBVIOUS

LEMMA CollectTyped ==
  ASSUME NEW s, NEW old \in Settlements, NEW n \in Nat
  PROVE  Collect(s, old, n) \in Settlements
BY DEF Collect, Settlements

LEMMA CodTyped ==
  ASSUME TypeInv, NEW s \in Shipments
  PROVE  cod[s] \in Seq(Settlements) /\ Len(cod[s]) \in Nat
BY DEF TypeInv, TypeOK

\* The settlement a request of the cash desk writes.
LEMMA RowTyped ==
  ASSUME TypeInv, AllFound, NEW q \in Requests, req[q].pc = "write"
  PROVE  /\ req[q].ship \in Shipments /\ req[q].row \in 1..Len(cod[req[q].ship])
         /\ Row(q) \in Settlements
<1>1. req[q] \in RequestRecords /\ Placed(req[q]) BY ReqTyped
<1>2. req[q].op # "none" BY <1>1 DEF Placed
<1>3. req[q].ship \in Shipments BY <1>1, <1>2 DEF Placed
<1>4. req[q].row \in 1..Len(cod[req[q].ship]) BY DEF AllFound, Found
<1> QED BY <1>3, <1>4, CodTyped DEF Row

\* Settlement k of s becomes r, or is added after the others.
Writes(s, k, r) ==
  cod' = [cod EXCEPT ![s] = IF k = 0 THEN Append(cod[s], r) ELSE [cod[s] EXCEPT ![k] = r]]

LEMMA WritesTyped ==
  ASSUME TypeInv, NEW s \in Shipments, NEW k \in 0..Len(cod[s]), NEW r \in Settlements, Writes(s, k, r)
  PROVE  /\ cod' \in [Shipments -> Seq(Settlements)]
         /\ Len(cod'[s]) = (IF k = 0 THEN Len(cod[s]) + 1 ELSE Len(cod[s]))
         /\ cod'[s][IF k = 0 THEN Len(cod[s]) + 1 ELSE k] = r
         /\ \A j \in 1..Len(cod[s]) : j # k => cod'[s][j] = cod[s][j]
         /\ \A z \in Shipments \ {s} : cod'[z] = cod[z]
<1>0. cod \in [Shipments -> Seq(Settlements)] BY DEF TypeInv, TypeOK
<1> DEFINE c == cod[s]
           d == IF k = 0 THEN Append(c, r) ELSE [c EXCEPT ![k] = r]
<1>1. c \in Seq(Settlements) /\ Len(c) \in Nat BY CodTyped
<1>2. cod' = [cod EXCEPT ![s] = d] BY DEF Writes
<1>3. CASE k = 0
  <2>1. d = Append(c, r) BY <1>3
  <2>2. d \in Seq(Settlements) /\ Len(d) = Len(c) + 1 /\ d[Len(c) + 1] = r /\ \A j \in 1..Len(c) : d[j] = c[j]
    BY <1>1, <2>1, AppendTyped
  <2> HIDE DEF d
  <2>3. cod' \in [Shipments -> Seq(Settlements)] /\ cod'[s] = d /\ \A z \in Shipments \ {s} : cod'[z] = cod[z]
    BY <1>0, <1>2, <2>2
  <2> QED BY <1>3, <2>2, <2>3
<1>4. CASE k # 0
  <2>0. k \in 1..Len(c) BY <1>1, <1>4
  <2>1. d = [c EXCEPT ![k] = r] BY <1>4
  <2>2. d \in Seq(Settlements) /\ Len(d) = Len(c) /\ d[k] = r /\ \A j \in 1..Len(c) : j # k => d[j] = c[j]
    BY <1>1, <2>0, <2>1, ReplaceTyped
  <2> HIDE DEF d
  <2>3. cod' \in [Shipments -> Seq(Settlements)] /\ cod'[s] = d /\ \A z \in Shipments \ {s} : cod'[z] = cod[z]
    BY <1>0, <1>2, <2>2
  <2> QED BY <1>4, <2>2, <2>3
<1> QED BY <1>3, <1>4

\* What the requests that write a settlement make of it, and whose it is.
Settles(q, k, r) ==
  \/ /\ CommitTask(q) /\ Cod[req[q].ship] > 0 /\ req[q].row = 0 /\ k = 0 /\ r = Pending
  \/ /\ CommitProof(q) /\ Cod[req[q].ship] # 0 /\ k = req[q].row
     /\ \E n \in Amounts : r = Collect(req[q].ship, IF k = 0 THEN Pending ELSE Row(q), n)
  \/ InsertExpected(q) /\ k = 0 /\ r = Pending
  \/ RecordCollection(q) /\ k = req[q].row /\ \E n \in Amounts : r = Collect(req[q].ship, Row(q), n)
  \/ /\ RecordRemittance(q) /\ k = req[q].row
     /\ \E n \in Amounts :
          r = [Row(q) EXCEPT !.remitted = n,
                 !.status = IF n = Cod[req[q].ship] /\ n = req[q].old.collected THEN "REMITTED" ELSE "DISCREPANT"]
  \/ /\ ReconcileSettlement(q) /\ k = req[q].row
     /\ \E reason \in BOOLEAN :
          /\ reason \/ Square(req[q].ship, req[q].old)
          /\ r = [Row(q) EXCEPT !.status = "RECONCILED", !.excused = Row(q).excused \/ reason]

\* A step that changes a settlement is one of those.
LEMMA CommitSettles ==
  ASSUME TypeInv, AllFound, NEW q \in Requests, Commits(q)
  PROVE  \/ UNCHANGED cod
         \/ /\ req[q].ship \in Shipments
            /\ \E k \in 0..Len(cod[req[q].ship]), r \in Settlements :
                 Writes(req[q].ship, k, r) /\ Settles(q, k, r)
<1> DEFINE s == req[q].ship
<1>0. req[q] \in RequestRecords /\ Placed(req[q]) /\ req[q].row \in Nat BY ReqTyped
<1>1. req[q].pc \in {"commit", "insert", "write"} BY CommitEnds
<1>2. s \in Shipments BY <1>0, <1>1 DEF Placed
<1>3. Len(cod[s]) \in Nat BY <1>2, CodTyped
<1>4. CASE CommitTask(q)
  <2>1. CASE Cod[s] > 0 /\ req[q].row = 0
    <3>1. Writes(s, 0, Pending) BY <1>4, <2>1 DEF CommitTask, Writes
    <3>2. Settles(q, 0, Pending) BY <1>4, <2>1 DEF Settles
    <3> QED BY <1>2, <1>3, <3>1, <3>2, PendingTyped
  <2> QED BY <1>4, <2>1 DEF CommitTask
<1>5. CASE CommitProof(q)
  <2>1. CASE Cod[s] # 0
    <3> DEFINE k == req[q].row
    <3>1. k \in 0..Len(cod[s]) BY <1>5 DEF CommitProof, At, AllFound, Found
    <3>2. (IF k = 0 THEN Pending ELSE Row(q)) \in Settlements
      BY <1>2, <1>3, <3>1, PendingTyped, CodTyped DEF Row
    <3>3. PICK n \in Amounts :
            cod' = [cod EXCEPT ![s] = IF k = 0 THEN Append(cod[s], Collect(s, Pending, n))
                                      ELSE [cod[s] EXCEPT ![k] = Collect(s, cod[s][k], n)]]
      BY <1>5, <2>1 DEF CommitProof
    <3> DEFINE r == Collect(s, IF k = 0 THEN Pending ELSE Row(q), n)
    <3>4. r \in Settlements BY <3>2, CollectTyped, LastMileAssumption
    <3>5. Writes(s, k, r) BY <3>3 DEF Writes, Row
    <3>6. Settles(q, k, r) BY <1>5, <2>1 DEF Settles
    <3> QED BY <1>2, <3>1, <3>4, <3>5, <3>6
  <2>2. CASE Cod[s] = 0 BY <1>5, <2>2 DEF CommitProof
  <2> QED BY <2>1, <2>2
<1>6. CASE InsertExpected(q)
  <2>1. Writes(s, 0, Pending) BY <1>6 DEF InsertExpected, Writes
  <2>2. Settles(q, 0, Pending) BY <1>6 DEF Settles
  <2> QED BY <1>2, <1>3, <2>1, <2>2, PendingTyped
<1>7. ASSUME NEW r \in Settlements, WriteCod(q, r), req[q].pc = "write"
      PROVE  Writes(s, req[q].row, r) /\ req[q].row \in 0..Len(cod[s])
  <2>1. req[q].row \in 1..Len(cod[s]) BY <1>7, RowTyped
  <2>2. req[q].row # 0 /\ req[q].row \in 0..Len(cod[s]) BY <1>3, <2>1
  <2> QED BY <1>7, <2>2 DEF WriteCod, Writes
<1>8. CASE RecordCollection(q)
  <2>1. PICK n \in Amounts : WriteCod(q, Collect(s, Row(q), n)) BY <1>8 DEF RecordCollection
  <2>2. req[q].pc = "write" BY <1>8 DEF RecordCollection, At
  <2>3. Collect(s, Row(q), n) \in Settlements BY <2>2, RowTyped, CollectTyped, LastMileAssumption
  <2>4. Settles(q, req[q].row, Collect(s, Row(q), n)) BY <1>8 DEF Settles
  <2> QED BY <1>2, <1>7, <2>1, <2>2, <2>3, <2>4
<1>9. CASE RecordRemittance(q)
  <2>1. PICK n \in Amounts :
          WriteCod(q, [Row(q) EXCEPT !.remitted = n,
            !.status = IF n = Cod[s] /\ n = req[q].old.collected THEN "REMITTED" ELSE "DISCREPANT"])
    BY <1>9 DEF RecordRemittance
  <2> DEFINE r == [Row(q) EXCEPT !.remitted = n,
               !.status = IF n = Cod[s] /\ n = req[q].old.collected THEN "REMITTED" ELSE "DISCREPANT"]
  <2>2. req[q].pc = "write" BY <1>9 DEF RecordRemittance, At
  <2>3. r \in Settlements BY <2>2, RowTyped, LastMileAssumption DEF Settlements
  <2>4. Settles(q, req[q].row, r) BY <1>9 DEF Settles
  <2> QED BY <1>2, <1>7, <2>1, <2>2, <2>3, <2>4
<1>10. CASE ReconcileSettlement(q)
  <2>1. PICK reason \in BOOLEAN :
          /\ reason \/ Square(s, req[q].old)
          /\ WriteCod(q, [Row(q) EXCEPT !.status = "RECONCILED", !.excused = Row(q).excused \/ reason])
    BY <1>10 DEF ReconcileSettlement
  <2> DEFINE r == [Row(q) EXCEPT !.status = "RECONCILED", !.excused = Row(q).excused \/ reason]
  <2>2. req[q].pc = "write" BY <1>10 DEF ReconcileSettlement, At
  <2>3. r \in Settlements BY <2>2, RowTyped DEF Settlements
  <2>4. Settles(q, req[q].row, r) BY <1>10, <2>1 DEF Settles
  <2> QED BY <1>2, <1>7, <2>1, <2>2, <2>3, <2>4
<1>11. CASE CommitStart(q) \/ CommitAttempt(q) \/ CommitFailure(q) \/ CommitReturn(q)
  BY <1>11 DEF CommitStart, CommitAttempt, CommitFailure, CommitReturn
<1> QED BY <1>4, <1>5, <1>6, <1>8, <1>9, <1>10, <1>11 DEF Commits

\* A request on a task has one.
LEMMA TaskOf ==
  ASSUME TypeInv, NEW q \in Requests, req[q].op \in TaskOps
  PROVE  /\ req[q].task \in Tasks /\ req[q].ship = ShipOf[req[q].task] /\ req[q].ship \in Shipments
         /\ task[req[q].task] \in [status : TASK_STATUSES \cup {"NONE"}, attempts : Nat]
         /\ tries[req[q].task] \in Seq([n : Nat, result : {"SUCCESS", "FAILED", "NOTED"}])
         /\ exceptions[req[q].task] \in Nat
<1>1. Placed(req[q]) BY ReqTyped
<1>2. req[q].task \in Tasks /\ req[q].ship = ShipOf[req[q].task] /\ req[q].ship \in Shipments
  BY <1>1 DEF Placed, TaskOps
<1> QED BY <1>2 DEF TypeInv, TypeOK

\* The tables keep their types, a task that exists goes on existing and no
\* settlement is ever deleted.
TablesTyped ==
  /\ status \in [Shipments -> SHIPMENT_STATUSES]
  /\ task \in [Tasks -> [status : TASK_STATUSES \cup {"NONE"}, attempts : Nat]]
  /\ tries \in [Tasks -> Seq([n : Nat, result : {"SUCCESS", "FAILED", "NOTED"}])]
  /\ proof \subseteq Tasks /\ boarded \subseteq Tasks
  /\ exceptions \in [Tasks -> Nat]
  /\ cod \in [Shipments -> Seq(Settlements)]

Grow ==
  /\ \A t \in Tasks : task[t].status # "NONE" => task'[t].status # "NONE"
  /\ \A s \in Shipments : Len(cod[s]) <= Len(cod'[s])

LEMMA StillTables ==
  ASSUME TypeInv, UNCHANGED <<status, rows, boarded>>
  PROVE  TablesTyped' /\ Grow
<1>1. \A s \in Shipments : Len(cod[s]) <= Len(cod[s]) BY CodTyped
<1> QED BY <1>1 DEF TypeInv, TypeOK, TablesTyped, Grow, rows

LEMMA CodStep ==
  ASSUME TypeInv, AllFound, NEW q \in Requests, Commits(q)
  PROVE  cod' \in [Shipments -> Seq(Settlements)] /\ \A s \in Shipments : Len(cod[s]) <= Len(cod'[s])
<1>1. \A s \in Shipments : Len(cod[s]) \in Nat BY CodTyped
<1>2. CASE UNCHANGED cod BY <1>1, <1>2 DEF TypeInv, TypeOK
<1>3. CASE /\ req[q].ship \in Shipments
           /\ \E k \in 0..Len(cod[req[q].ship]), r \in Settlements :
                Writes(req[q].ship, k, r) /\ Settles(q, k, r)
  <2> DEFINE s == req[q].ship
  <2>1. s \in Shipments BY <1>3
  <2>2. PICK k \in 0..Len(cod[s]), r \in Settlements : Writes(s, k, r) BY <1>3
  <2>3. /\ cod' \in [Shipments -> Seq(Settlements)]
        /\ Len(cod'[s]) = (IF k = 0 THEN Len(cod[s]) + 1 ELSE Len(cod[s]))
        /\ \A z \in Shipments \ {s} : cod'[z] = cod[z]
    BY <2>1, <2>2, WritesTyped
  <2> HIDE DEF s
  <2>4. \A z \in Shipments : Len(cod[z]) <= Len(cod'[z]) BY <1>1, <2>1, <2>3
  <2> QED BY <2>3, <2>4
<1> QED BY <1>2, <1>3, CommitSettles

LEMMA TaskStep ==
  ASSUME TypeInv, NEW q \in Requests, Commits(q)
  PROVE  /\ task' \in [Tasks -> [status : TASK_STATUSES \cup {"NONE"}, attempts : Nat]]
         /\ \A t \in Tasks : task[t].status # "NONE" => task'[t].status # "NONE"
         /\ tries' \in [Tasks -> Seq([n : Nat, result : {"SUCCESS", "FAILED", "NOTED"}])]
         /\ exceptions' \in [Tasks -> Nat] /\ proof' \subseteq Tasks
<1> DEFINE TaskRecords == [status : TASK_STATUSES \cup {"NONE"}, attempts : Nat]
           Tries == [n : Nat, result : {"SUCCESS", "FAILED", "NOTED"}]
           t == req[q].task
           n == req[q].count + 1
<1>0. /\ task \in [Tasks -> TaskRecords] /\ tries \in [Tasks -> Seq(Tries)]
      /\ exceptions \in [Tasks -> Nat] /\ proof \subseteq Tasks
  BY DEF TypeInv, TypeOK
<1>1. n \in Nat BY ReqTyped
<1>2. ASSUME req[q].op \in TaskOps, NEW to \in TASK_STATUSES, to # "NONE",
             task' = [task EXCEPT ![t].status = to]
      PROVE  task' \in [Tasks -> TaskRecords]
             /\ \A u \in Tasks : task[u].status # "NONE" => task'[u].status # "NONE"
  BY <1>0, <1>2, TaskOf
<1>3. ASSUME req[q].op \in TaskOps, NEW to \in TASK_STATUSES, to # "NONE",
             task' = [task EXCEPT ![t] = [status |-> to, attempts |-> n]]
      PROVE  task' \in [Tasks -> TaskRecords]
             /\ \A u \in Tasks : task[u].status # "NONE" => task'[u].status # "NONE"
  BY <1>0, <1>1, <1>3, TaskOf
<1>4. ASSUME req[q].op \in TaskOps, NEW res \in {"SUCCESS", "FAILED", "NOTED"},
             tries' = [tries EXCEPT ![t] = Append(tries[t], [n |-> n, result |-> res])]
      PROVE  tries' \in [Tasks -> Seq(Tries)]
  <2>1. t \in Tasks /\ tries[t] \in Seq(Tries) BY <1>4, TaskOf
  <2>2. [n |-> n, result |-> res] \in Tries BY <1>1
  <2>3. Append(tries[t], [n |-> n, result |-> res]) \in Seq(Tries) BY SMTT(40), <2>1, <2>2, AppendTyped
  <2> QED BY <1>0, <1>4, <2>1, <2>3
<1>5. CASE CommitTask(q)
  <2>1. /\ req[q].op \in TaskOps /\ UNCHANGED <<tries, exceptions, proof>>
        /\ task' = [task EXCEPT ![t].status = "PENDING_ASSIGNMENT"]
    BY <1>5 DEF CommitTask, At, TaskOps
  <2>2. "PENDING_ASSIGNMENT" \in TASK_STATUSES BY DEF TASK_STATUSES
  <2>3. /\ task' \in [Tasks -> TaskRecords]
        /\ \A u \in Tasks : task[u].status # "NONE" => task'[u].status # "NONE"
    BY <1>2, <2>1, <2>2
  <2> QED BY <1>0, <2>1, <2>3
<1>6. CASE CommitStart(q) BY <1>0, <1>2, <1>6 DEF CommitStart, At, TaskOps, TASK_STATUSES
<1>7. CASE CommitReturn(q) BY <1>0, <1>2, <1>7 DEF CommitReturn, At, TaskOps, TASK_STATUSES
<1>8. CASE CommitAttempt(q)
  <2>1. req[q].op \in TaskOps /\ tries' = [tries EXCEPT ![t] = Append(tries[t], [n |-> n, result |-> "NOTED"])]
        /\ UNCHANGED <<task, exceptions, proof>>
    BY <1>8 DEF CommitAttempt, At, TaskOps
  <2> QED BY <1>0, <1>4, <2>1
<1>9. CASE CommitFailure(q)
  <2> DEFINE to == IF Last(q) THEN "RETURN_TO_HUB" ELSE "RESCHEDULED"
             m == IF Last(q) THEN 1 ELSE 0
  <2>1. /\ req[q].op \in TaskOps
        /\ tries' = [tries EXCEPT ![t] = Append(tries[t], [n |-> n, result |-> "FAILED"])]
        /\ task' = [task EXCEPT ![t] = [status |-> to, attempts |-> n]]
        /\ exceptions' = [exceptions EXCEPT ![t] = exceptions[t] + m]
        /\ UNCHANGED proof
    BY <1>9 DEF CommitFailure, At, TaskOps
  <2>2. to \in TASK_STATUSES /\ to # "NONE" /\ m \in Nat BY DEF TASK_STATUSES
  <2> HIDE DEF to, m
  <2>3. tries' \in [Tasks -> Seq(Tries)] BY <1>4, <2>1
  <2>4. task' \in [Tasks -> TaskRecords] /\ \A u \in Tasks : task[u].status # "NONE" => task'[u].status # "NONE"
    BY <1>3, <2>1, <2>2
  <2>5. exceptions' \in [Tasks -> Nat] BY <1>0, <2>1, <2>2, TaskOf
  <2> QED BY <1>0, <2>1, <2>3, <2>4, <2>5
<1>10. CASE CommitProof(q)
  <2>1. /\ req[q].op \in TaskOps
        /\ tries' = [tries EXCEPT ![t] = Append(tries[t], [n |-> n, result |-> "SUCCESS"])]
        /\ task' = [task EXCEPT ![t] = [status |-> "DELIVERED", attempts |-> n]]
        /\ exceptions' = exceptions /\ proof' = proof \cup {t}
    BY <1>10 DEF CommitProof, At, TaskOps
  <2>2. tries' \in [Tasks -> Seq(Tries)] BY <1>4, <2>1
  <2>3. task' \in [Tasks -> TaskRecords] /\ \A u \in Tasks : task[u].status # "NONE" => task'[u].status # "NONE"
    BY SMTT(40), <1>3, <2>1 DEF TASK_STATUSES
  <2> QED BY <1>0, <2>1, <2>2, <2>3, TaskOf
<1>11. CASE InsertExpected(q) \/ RecordCollection(q) \/ RecordRemittance(q) \/ ReconcileSettlement(q)
  BY <1>0, <1>11 DEF InsertExpected, RecordCollection, RecordRemittance, ReconcileSettlement, WriteCod
<1> QED BY <1>5, <1>6, <1>7, <1>8, <1>9, <1>10, <1>11 DEF Commits

LEMMA PlainLeaves ==
  ASSUME NEW q, Plain(q)
  PROVE  UNCHANGED <<rows, history>> /\ (MoveShipment(q) \/ UNCHANGED status)
BY DEF Plain, CheckTransition, MoveShipment, FindSettlement, LockTask, InsertProof

LEMMA BoardWrites ==
  ASSUME TypeInv, NEW t \in Tasks, Board(t)
  PROVE  /\ UNCHANGED <<status, tries, exceptions, cod, req, broken>>
         /\ task[t].status # "NONE"
         /\ contended' = contended \cup {s \in {ShipOf[t]} : \E p \in Requests : req[p].ship = s}
         /\ \E to \in BoardStatuses \cup {"ASSIGNED", "DELIVERED"} : task' = [task EXCEPT ![t].status = to]
         /\ \/ UNCHANGED <<proof, boarded>>
            \/ t \notin proof /\ proof' = proof \cup {t} /\ boarded' = boarded \cup {t}
BY DEF Board, BoardProof, SetTaskStatus

LEMMA TablesStep ==
  ASSUME TypeInv, AllFound, Next
  PROVE  TablesTyped' /\ Grow
<1>1. ASSUME NEW q \in Requests, Ask(q) PROVE TablesTyped' /\ Grow
  BY <1>1, AskArrives, StillTables DEF Arrives
<1>2. ASSUME NEW q \in Requests, Plain(q) PROVE TablesTyped' /\ Grow
  <2>1. CASE MoveShipment(q)
    <3>1. req[q].pc = "move" /\ status' = [status EXCEPT ![req[q].ship] = req[q].aim] /\ UNCHANGED <<rows, history>>
      BY <2>1 DEF MoveShipment
    <3>2. req[q].aim \in SHIPMENT_STATUSES BY <3>1, ReqTyped DEF Placed
    <3>3. status' \in [Shipments -> SHIPMENT_STATUSES] BY <3>1, <3>2 DEF TypeInv, TypeOK
    <3>4. \A s \in Shipments : Len(cod[s]) <= Len(cod[s]) BY CodTyped
    <3> QED BY <3>1, <3>3, <3>4 DEF TypeInv, TypeOK, TablesTyped, Grow, rows, history
  <2>2. CASE UNCHANGED status
    BY <1>2, <2>2, PlainLeaves, StillTables DEF rows, history
  <2> QED BY <1>2, <2>1, <2>2, PlainLeaves
<1>3. ASSUME NEW q \in Requests, Commits(q) PROVE TablesTyped' /\ Grow
  BY <1>3, CodStep, TaskStep, CommitEnds DEF TablesTyped, Grow, TypeInv, TypeOK, history
<1>4. ASSUME NEW q \in Requests, Fail(q) PROVE TablesTyped' /\ Grow
  BY <1>4, StillTables DEF Fail
<1>5. ASSUME NEW t \in Tasks, Board(t) PROVE TablesTyped' /\ Grow
  <2>1. BoardStatuses \cup {"ASSIGNED", "DELIVERED"} \subseteq TASK_STATUSES /\ "NONE" \notin TASK_STATUSES
    BY LastMileAssumption DEF TASK_STATUSES
  <2>2. PICK to \in TASK_STATUSES : task' = [task EXCEPT ![t].status = to]
    BY <1>5, <2>1, BoardWrites
  <2>3. task' \in [Tasks -> [status : TASK_STATUSES \cup {"NONE"}, attempts : Nat]]
        /\ \A u \in Tasks : task[u].status # "NONE" => task'[u].status # "NONE"
    BY <2>1, <2>2 DEF TypeInv, TypeOK
  <2>4. UNCHANGED <<status, tries, exceptions, cod>> /\ proof' \subseteq Tasks /\ boarded' \subseteq Tasks
    BY <1>5, BoardWrites DEF TypeInv, TypeOK
  <2>5. \A s \in Shipments : Len(cod[s]) <= Len(cod[s]) BY CodTyped
  <2> QED BY <2>3, <2>4, <2>5 DEF TypeInv, TypeOK, TablesTyped, Grow
<1> QED BY <1>1, <1>2, <1>3, <1>4, <1>5, ProceedSplits DEF Next

-----------------------------------------------------------------------------
(* Types, and what a request has found.                                    *)

\* The request that takes the step, if one does, is the only one that changes.
LEMMA WhoMoves ==
  ASSUME TypeInv, Next
  PROVE  \/ UNCHANGED req
         \/ \E q \in Requests, x \in RequestRecords : Goes(q, x)
<1>1. ASSUME NEW q \in Requests, Ask(q)
      PROVE  \E x \in RequestRecords : Goes(q, x)
  BY <1>1, AskArrives DEF Arrives
<1>2. ASSUME NEW q \in Requests, Plain(q)
      PROVE  \E x \in RequestRecords : Goes(q, x)
  BY <1>2, PlainAdvances, IdleTyped DEF Advances
<1>3. ASSUME NEW q \in Requests, End(q)
      PROVE  \E x \in RequestRecords : Goes(q, x)
  BY <1>3, EndAdvances, IdleTyped DEF Advances
<1>4. ASSUME NEW t \in Tasks, Board(t) PROVE UNCHANGED req
  BY <1>4, BoardWrites
<1> QED BY <1>1, <1>2, <1>3, <1>4, ProceedSplits, CommitEnds DEF Next, Fail

LEMMA HistoryTyped ==
  ASSUME TypeInv, Next
  PROVE  broken' \subseteq Shipments /\ contended' \subseteq Shipments /\ contended \subseteq contended'
<1>0. broken \subseteq Shipments /\ contended \subseteq Shipments BY DEF TypeInv, TypeOK
<1>1. ASSUME NEW q \in Requests, Ask(q)
      PROVE  broken' \subseteq Shipments /\ contended' \subseteq Shipments /\ contended \subseteq contended'
  <2>1. PICK x \in RequestRecords : Arrives(q, x) BY <1>1, AskArrives
  <2>2. x.ship \in Shipments BY <2>1 DEF Arrives, Goes, Placed
  <2> QED BY <1>0, <2>1, <2>2 DEF Arrives
<1>2. ASSUME NEW q \in Requests, Proceed(q)
      PROVE  UNCHANGED history
  BY <1>2, ProceedSplits, PlainLeaves, CommitEnds
<1>3. ASSUME NEW q \in Requests, Fail(q)
      PROVE  broken' \subseteq Shipments /\ contended' = contended
  <2>1. req[q].pc \in {"check", "move", "cod", "commit"} BY <1>3 DEF Fail, Open
  <2>2. req[q].ship \in Shipments BY <2>1, ReqTyped DEF Placed
  <2> QED BY <1>0, <1>3, <2>2 DEF Fail
<1>4. ASSUME NEW t \in Tasks, Board(t)
      PROVE  broken' \subseteq Shipments /\ contended' \subseteq Shipments /\ contended \subseteq contended'
  BY <1>0, <1>4, BoardWrites, LastMileAssumption
<1> QED BY <1>0, <1>1, <1>2, <1>3, <1>4 DEF Next, history

LEMMA TypesStep ==
  ASSUME TypeInv, AllFound, Next
  PROVE  TypeInv'
<1>1. TablesTyped' BY TablesStep
<1>2. broken' \subseteq Shipments /\ contended' \subseteq Shipments BY HistoryTyped
<1>3. req' \in [Requests -> RequestRecords] /\ \A q \in Requests : Placed(req'[q])
  <2>1. req \in [Requests -> RequestRecords] /\ \A q \in Requests : Placed(req[q])
    BY DEF TypeInv, TypeOK
  <2>2. ASSUME NEW q \in Requests, NEW x \in RequestRecords, Goes(q, x)
        PROVE  req' \in [Requests -> RequestRecords] /\ \A p \in Requests : Placed(req'[p])
    BY <2>1, <2>2 DEF Goes
  <2> QED BY <2>1, <2>2, WhoMoves
<1> QED BY <1>1, <1>2, <1>3 DEF TypeInv, TypeOK, TablesTyped

\* What a request has found stays.
LEMMA FoundStays ==
  ASSUME TypeInv, Grow, NEW x \in RequestRecords, Placed(x), Found(x), TablesTyped'
  PROVE  Found(x)'
<1>1. CASE x.op = "none"
  <2>1. x = Idle BY <1>1 DEF Placed
  <2> QED BY <2>1 DEF Found, Idle, TaskOps
<1>2. CASE x.op # "none"
  <2>1. x.ship \in Shipments BY <1>2 DEF Placed
  <2>2. x.op \in TaskOps => x.task \in Tasks BY DEF Placed
  <2>3. Len(cod[x.ship]) \in Nat /\ Len(cod[x.ship])' \in Nat BY <2>1 DEF TypeInv, TypeOK, TablesTyped
  <2>4. Len(cod[x.ship]) <= Len(cod'[x.ship]) BY <2>1 DEF Grow
  <2>5. x.row \in Nat BY DEF RequestRecords
  <2> QED BY <2>1, <2>2, <2>3, <2>4, <2>5 DEF Found, Grow
<1> QED BY <1>1, <1>2

LEMMA FoundStep ==
  ASSUME TypeInv, AllFound, Next
  PROVE  AllFound'
<1>0. TablesTyped' /\ Grow BY TablesStep
<1>2. ASSUME NEW q \in Requests, NEW x \in RequestRecords, Goes(q, x), Found(x)
      PROVE  AllFound'
  <2>1. req \in [Requests -> RequestRecords] BY DEF TypeInv, TypeOK
  <2>2. ASSUME NEW p \in Requests PROVE Found(req[p])'
    <3>1. PICK y \in RequestRecords : y = req'[p] /\ Placed(y) /\ Found(y)
      BY <1>2, <2>1, ReqTyped DEF Goes, AllFound
    <3>2. Found(y)' BY <1>0, <3>1, FoundStays
    <3> QED BY <3>1, <3>2 DEF Found
  <2> QED BY <2>2 DEF AllFound
<1>3. ASSUME UNCHANGED req PROVE AllFound'
  <2>1. ASSUME NEW p \in Requests PROVE Found(req[p])'
    <3>1. PICK y \in RequestRecords : y = req'[p] /\ Placed(y) /\ Found(y)
      BY <1>3, ReqTyped DEF AllFound
    <3>2. Found(y)' BY <1>0, <3>1, FoundStays
    <3> QED BY <3>1, <3>2 DEF Found
  <2> QED BY <2>1 DEF AllFound
<1>4. ASSUME NEW q \in Requests, Ask(q) PROVE AllFound'
  <2>1. PICK x \in RequestRecords : Arrives(q, x) BY <1>4, AskArrives
  <2> QED BY <1>2, <2>1 DEF Arrives
<1>5. ASSUME NEW q \in Requests, End(q) PROVE AllFound'
  BY <1>2, <1>5, EndAdvances, IdleTyped DEF Advances
<1>6. ASSUME NEW q \in Requests, Plain(q) PROVE AllFound'
  <2>1. CASE Advances(q, Idle) BY <1>2, <2>1, IdleTyped DEF Advances
  <2>2. ASSUME NEW x \in RequestRecords, Advances(q, x), x # Idle, x.pc = Onward(q),
               IF FindSettlement(q) THEN x.row \in 0..Len(cod[x.ship]) ELSE x.row = req[q].row
        PROVE  AllFound'
    <3>1. x.op = req[q].op /\ x.task = req[q].task /\ x.ship = req[q].ship BY <2>2 DEF Advances
    <3>2. req[q].pc \in {"check", "move", "cod", "lock"}
      BY <1>6 DEF Plain, CheckTransition, MoveShipment, FindSettlement, LockTask, InsertProof, At
    <3>3. req[q].row = 0 /\ Found(req[q]) BY <3>2 DEF AllFound, Found
    <3>4. x.pc \in {"check", "move", "cod", "commit"} BY <2>2, <3>2 DEF Onward, AfterMove
    <3>5. Placed(x) BY <2>2 DEF Advances, Goes
    <3>6. x.ship \in Shipments BY <3>4, <3>5 DEF Placed
    <3>7. x.row \in 0..Len(cod[x.ship]) BY <2>2, <3>3, <3>6, CodTyped
    <3>8. FindSettlement(q) => x.pc = "commit" BY <2>2 DEF FindSettlement, Onward
    <3>9. Found(x) BY <2>2, <3>1, <3>3, <3>4, <3>7, <3>8 DEF Found
    <3> QED BY <1>2, <2>2, <3>9 DEF Advances
  <2> QED BY <1>6, <2>1, <2>2, PlainAdvances
<1>7. ASSUME NEW t \in Tasks, Board(t) PROVE AllFound'
  BY <1>3, <1>7, BoardWrites
<1> QED BY <1>4, <1>5, <1>6, <1>7, ProceedSplits, CommitEnds DEF Next, Fail

Types == TypeInv /\ AllFound

LEMMA TypesInit ==
  ASSUME Init
  PROVE  Types
<1>1. status \in [Shipments -> SHIPMENT_STATUSES] BY LastMileAssumption DEF Init
<1>2. task \in [Tasks -> [status : TASK_STATUSES \cup {"NONE"}, attempts : Nat]]
      /\ tries \in [Tasks -> Seq([n : Nat, result : {"SUCCESS", "FAILED", "NOTED"}])]
      /\ exceptions \in [Tasks -> Nat]
  BY DEF Init
<1>3. cod \in [Shipments -> Seq(Settlements)]
  <2>1. << >> \in Seq(Settlements) /\ <<Pending>> \in Seq(Settlements) BY PendingTyped
  <2>2. cod \in [Shipments -> {<< >>, <<Pending>>}] BY DEF Init
  <2> QED BY <2>1, <2>2
<1>4. \A q \in Requests : req[q] = Idle BY DEF Init
<1>5. req \in [Requests -> RequestRecords] /\ \A q \in Requests : Placed(req[q]) /\ Found(req[q])
  BY <1>4, IdleTyped DEF Init
<1>6. proof = {} /\ boarded = {} /\ broken = {} /\ contended = {} BY DEF Init
<1> QED BY <1>1, <1>2, <1>3, <1>5, <1>6 DEF Types, TypeInv, TypeOK, AllFound

LEMMA TypesStutter ==
  ASSUME Types, UNCHANGED vars
  PROVE  Types'
BY DEF Types, TypeInv, TypeOK, AllFound, Found, vars, rows, history

\* Every row, request and history keeps its type, and no handler of a task or a
\* settlement ever writes one that is not there.
THEOREM TypesHold == Spec => []TypeOK
<1>1. Init => Types BY TypesInit
<1>2. Types /\ [Next]_vars => Types' BY TypesStep, FoundStep, TypesStutter DEF Types
<1>3. Types => TypeOK BY DEF Types, TypeInv
<1> QED BY <1>1, <1>2, <1>3, PTL DEF Spec

-----------------------------------------------------------------------------
(* What a request read is still true, on a shipment it has for itself.     *)

LEMMA PlainMoves ==
  ASSUME TypeInv, NEW q \in Requests, Plain(q) \/ Commits(q) \/ Fail(q)
  PROVE  req[q] # Idle /\ req[q].op # "none" /\ req[q].ship \in Shipments
<1>1. req[q].pc # "idle"
  BY CommitEnds DEF Plain, CheckTransition, MoveShipment, FindSettlement, LockTask, InsertProof, At, Fail, Open
<1>2. req[q] # Idle BY <1>1 DEF Idle
<1> QED BY <1>1, <1>2, ReqTyped DEF Placed

\* Who goes on with something is where it was: only what arrives is new.
LEMMA StepsShip ==
  ASSUME TypeInv, NEW q \in Requests, Plain(q) \/ Commits(q) \/ Fail(q)
  PROVE  \E x \in RequestRecords : Advances(q, x)
BY PlainAdvances, EndAdvances, CommitEnds, IdleTyped DEF Fail

LEMMA NotedStep ==
  ASSUME TypeInv, Noted, Next
  PROVE  Noted'
<1>0. req \in [Requests -> RequestRecords] /\ contended \subseteq contended'
  BY HistoryTyped DEF TypeInv, TypeOK
<1>1. ASSUME NEW q \in Requests, NEW x \in RequestRecords, Arrives(q, x) PROVE Noted'
  <2>1. req' = [req EXCEPT ![q] = x] BY <1>1 DEF Arrives, Goes
  <2>2. Busy(x.ship, q) => x.ship \in contended' BY <1>1 DEF Arrives
  <2> QED BY <1>0, <2>1, <2>2 DEF Noted, Busy
<1>2. ASSUME NEW q \in Requests, Plain(q) \/ Commits(q) \/ Fail(q) PROVE Noted'
  <2>1. PICK x \in RequestRecords : Advances(q, x) BY <1>2, StepsShip
  <2>2. req' = [req EXCEPT ![q] = x] /\ (x = Idle \/ x.ship = req[q].ship) BY <2>1 DEF Advances, Goes
  <2>3. req[q] # Idle BY <1>2, PlainMoves
  <2> QED BY <1>0, <2>2, <2>3 DEF Noted
<1>3. ASSUME UNCHANGED req PROVE Noted'
  BY <1>0, <1>3 DEF Noted
<1> QED BY <1>1, <1>2, <1>3, AskArrives, ProceedSplits, BoardWrites DEF Next

\* The rows of shipment s and of its tasks stay as they are.
Same(s) ==
  /\ status'[s] = status[s] /\ cod'[s] = cod[s]
  /\ \A t \in Tasks :
       ShipOf[t] = s => /\ task'[t] = task[t] /\ tries'[t] = tries[t] /\ exceptions'[t] = exceptions[t]
                        /\ t \in proof' <=> t \in proof
                        /\ t \in boarded' <=> t \in boarded

LEMMA CommitElsewhere ==
  ASSUME TypeInv, AllFound, NEW q \in Requests, Commits(q), NEW s \in Shipments, s # req[q].ship
  PROVE  Same(s)
<1>1. cod'[s] = cod[s] BY CommitSettles, WritesTyped
<1>2. status' = status /\ boarded' = boarded BY CommitEnds DEF history
<1>3. task \in [Tasks -> [status : TASK_STATUSES \cup {"NONE"}, attempts : Nat]]
      /\ DOMAIN tries = Tasks /\ DOMAIN exceptions = Tasks
  BY DEF TypeInv, TypeOK
<1>4. ASSUME NEW t \in Tasks, ShipOf[t] = s
      PROVE  /\ task'[t] = task[t] /\ tries'[t] = tries[t] /\ exceptions'[t] = exceptions[t]
             /\ t \in proof' <=> t \in proof
  <2>1. CASE \/ CommitTask(q) \/ CommitStart(q) \/ CommitAttempt(q) \/ CommitFailure(q)
             \/ CommitProof(q) \/ CommitReturn(q)
    <3>1. req[q].op \in TaskOps
      BY <2>1 DEF CommitTask, CommitStart, CommitAttempt, CommitFailure, CommitProof, CommitReturn, At, TaskOps
    <3>2. req[q].task # t BY SMTT(40), <1>4, <3>1, TaskOf
    <3>3. CASE CommitTask(q) \/ CommitStart(q) \/ CommitReturn(q)
      BY <1>3, <3>2, <3>3 DEF CommitTask, CommitStart, CommitReturn
    <3>4. CASE CommitAttempt(q) BY <1>3, <3>2, <3>4 DEF CommitAttempt
    <3>5. CASE CommitFailure(q) BY <1>3, <3>2, <3>5 DEF CommitFailure
    <3>6. CASE CommitProof(q) BY <1>3, <3>2, <3>6 DEF CommitProof
    <3> QED BY <2>1, <3>3, <3>4, <3>5, <3>6
  <2>2. CASE InsertExpected(q) \/ RecordCollection(q) \/ RecordRemittance(q) \/ ReconcileSettlement(q)
    BY <2>2 DEF InsertExpected, RecordCollection, RecordRemittance, ReconcileSettlement, WriteCod
  <2> QED BY SMTT(40), <2>1, <2>2 DEF Commits
<1> QED BY <1>1, <1>2, <1>4 DEF Same

LEMMA StepElsewhere ==
  ASSUME TypeInv, AllFound, NEW q \in Requests, Plain(q) \/ Commits(q) \/ Fail(q),
         NEW s \in Shipments, s # req[q].ship
  PROVE  Same(s)
<1>1. CASE Plain(q)
  <2>1. UNCHANGED <<rows, history>> BY <1>1, PlainLeaves
  <2>2. status'[s] = status[s] BY ZenonT(60), <1>1, PlainLeaves DEF MoveShipment, TypeInv, TypeOK
  <2> QED BY <2>1, <2>2 DEF Same, rows, history
<1>2. CASE Fail(q) BY <1>2 DEF Fail, Same, rows
<1> QED BY <1>1, <1>2, CommitElsewhere

LEMMA ArrivesElsewhere ==
  ASSUME NEW q, NEW x, Arrives(q, x), NEW s
  PROVE  Same(s)
BY DEF Arrives, Same, rows

LEMMA BoardElsewhere ==
  ASSUME TypeInv, NEW t \in Tasks, Board(t), NEW s \in Shipments, s # ShipOf[t]
  PROVE  Same(s)
BY ZenonT(60), BoardWrites DEF Same, TypeInv, TypeOK

\* A request that touches none of this keeps what it knows.
LEMMA CurrentStays ==
  ASSUME TypeInv, NEW x \in RequestRecords, Placed(x), x.op # "none", Current(x), Same(x.ship),
         proof' \subseteq Tasks
  PROVE  Current(x)'
<1>1. x.ship \in Shipments /\ (x.op \in TaskOps => x.task \in Tasks /\ ShipOf[x.task] = x.ship)
  BY DEF Placed
<1>2. status'[x.ship] = status[x.ship] /\ cod'[x.ship] = cod[x.ship] BY DEF Same
<1>3. x.op \in TaskOps => task'[x.task] = task[x.task] /\ (x.task \in proof' <=> x.task \in proof)
  BY <1>1 DEF Same
<1>4. (\A u \in Taken : ShipOf[u] # x.ship) => (\A u \in Taken' : ShipOf[u] # x.ship)
  BY DEF Same, Taken
<1> QED BY <1>2, <1>3, <1>4 DEF Current, Moves, TaskOps

\* A plain step of a request that is alone on its shipment.
LEMMA PlainCurrent ==
  ASSUME Types, NEW q \in Requests, Plain(q), Current(req[q]), TypeInv',
         \A u \in Taken : ShipOf[u] = req[q].ship => status[req[q].ship] = "DELIVERED",
         NEW x \in RequestRecords, Advances(q, x), x # Idle, x.pc = Onward(q),
         IF FindSettlement(q) THEN (x.row = 0 <=> cod[x.ship] = << >> \/ Cod[x.ship] = 0)
         ELSE x.row = req[q].row
  PROVE  Current(x)'
<1> DEFINE s == req[q].ship
<1>0. TypeInv /\ req[q] \in RequestRecords /\ Placed(req[q]) BY ReqTyped DEF Types
<1>1. /\ x.op = req[q].op /\ x.task = req[q].task /\ x.ship = req[q].ship
      /\ x.count = req[q].count /\ x.aim = req[q].aim /\ x.old = req[q].old
  BY DEF Advances
<1>2. UNCHANGED <<rows, history>> BY PlainLeaves
<1>3. task' = task /\ proof' = proof /\ boarded' = boarded /\ cod' = cod /\ Taken' = Taken
  BY <1>2 DEF rows, history, Taken
<1>4. s \in Shipments /\ s \in DOMAIN status BY <1>0, PlainMoves DEF TypeInv, TypeOK
<1>5. Moves(x) <=> Moves(req[q]) BY <1>1 DEF Moves
<1>6. x.pc \in {"check", "move", "cod", "commit"} /\ x.op \in Movers \cup {"staff"}
  <2>1. x.pc \in {"check", "move", "cod", "commit"}
    BY DEF Onward, AfterMove, Plain, CheckTransition, MoveShipment, FindSettlement, LockTask, InsertProof, At
  <2> QED BY <2>1 DEF Advances, Goes, Placed, Movers
<1>7. CASE CheckTransition(q)
  <2>1. req[q].pc = "check" /\ status' = status /\ x.pc = "move"
    BY <1>7 DEF CheckTransition, Onward
  <2>2. Allows(status[s], req[q].aim)
    <3>1. ~End(q) BY <1>0 DEF End, Advances, Goes, TypeInv, TypeOK
    <3> QED BY <1>7, <3>1 DEF CheckTransition
  <2> QED BY <1>1, <1>3, <1>6, <2>1, <2>2 DEF Current, Movers
<1>8. CASE MoveShipment(q)
  <2>1. /\ req[q].pc = "move" /\ status' = [status EXCEPT ![s] = req[q].aim]
        /\ x.pc \in {"cod", "commit"} /\ x.pc = AfterMove(req[q].op)
    BY <1>8 DEF MoveShipment, Onward, AfterMove
  <2>2. status'[s] = req[q].aim /\ status[s] # "DELIVERED" BY <1>4, <2>1, DeliveredIsFinal DEF Current
  <2>3. x.op \in {"create", "pod"} => x.pc = "cod" BY <1>1, <2>1 DEF AfterMove
  <2>4. \A u \in Taken : ShipOf[u] # x.ship BY <1>1, <2>2
  <2> QED BY <1>1, <1>3, <1>6, <2>1, <2>2, <2>3, <2>4 DEF Current, Movers
<1>9. CASE FindSettlement(q)
  <2>1. req[q].pc = "cod" /\ status' = status /\ x.pc = "commit" BY <1>9 DEF FindSettlement, Onward
  <2> QED BY <1>1, <1>3, <1>5, <1>6, <1>9, <2>1 DEF Current, Movers
<1>10. CASE LockTask(q)
  <2>1. /\ req[q].pc = "lock" /\ req[q].op \in {"start", "fail", "return"} /\ status' = status
        /\ x.pc \in {"check", "commit"} /\ (x.pc = "commit" => ~Moves(req[q]))
    BY <1>10 DEF LockTask, Onward, Moves, Last
  <2> QED BY <1>1, <1>3, <1>5, <1>6, <2>1 DEF Current, Movers
<1>11. CASE InsertProof(q)
  <2>1. req[q].pc = "lock" /\ req[q].op = "pod" /\ status' = status /\ x.pc = "check"
    BY <1>11 DEF InsertProof, At, Onward
  <2>2. req[q].task \notin proof
    <3>1. ~End(q) BY <1>0 DEF End, Advances, Goes, TypeInv, TypeOK
    <3> QED BY <1>11, <3>1 DEF InsertProof
  <2> QED BY <1>1, <1>3, <1>6, <2>1, <2>2 DEF Current, Movers
<1> QED BY <1>7, <1>8, <1>9, <1>10, <1>11 DEF Plain

LEMMA CurrentStep ==
  ASSUME Types, Noted, AllCurrent, ProvenIsDelivered, Next
  PROVE  AllCurrent'
<1>0. /\ TypeInv /\ AllFound /\ TypeInv' /\ contended \subseteq contended'
      /\ req \in [Requests -> RequestRecords] /\ proof' \subseteq Tasks
  BY TypesStep, HistoryTyped DEF Types, TypeInv, TypeOK
<1>1. ASSUME NEW p \in Requests, req'[p] = req[p], req[p] # Idle, req[p].ship \notin contended',
             Same(req[p].ship)
      PROVE  Current(req[p])'
  <2>1. PICK y \in RequestRecords : y = req[p] /\ Placed(y) /\ Current(y)
    BY <1>0, <1>1, ReqTyped DEF AllCurrent
  <2>2. y.op # "none" BY <1>1, <2>1 DEF Placed
  <2>3. Current(y)' BY <1>0, <1>1, <2>1, <2>2, CurrentStays
  <2> QED BY <1>1, <2>1, <2>3 DEF Current, Moves
<1>2. ASSUME NEW q \in Requests, Ask(q) PROVE AllCurrent'
  <2>1. PICK x \in RequestRecords : Arrives(q, x) BY <1>0, <1>2, AskArrives
  <2>2. req' = [req EXCEPT ![q] = x] /\ Placed(x) /\ x.op # "none" /\ Current(x) BY <2>1 DEF Arrives, Goes
  <2>3. ASSUME NEW p \in Requests, req'[p] # Idle, req'[p].ship \notin contended'
        PROVE  Current(req[p])'
    <3>1. CASE p = q
      <4>1. Same(x.ship) BY <2>1, ArrivesElsewhere
      <4>2. Current(x)' BY <1>0, <2>2, <4>1, CurrentStays
      <4>3. req'[p] = x BY <1>0, <2>2, <3>1
      <4> QED BY <4>2, <4>3 DEF Current, Moves
    <3>2. CASE p # q
      <4>1. req'[p] = req[p] BY <1>0, <2>2, <3>2
      <4>2. Same(req[p].ship) BY <2>1, ArrivesElsewhere
      <4> QED BY <1>1, <2>3, <4>1, <4>2
    <3> QED BY <3>1, <3>2
  <2> QED BY <2>3 DEF AllCurrent
<1>3. ASSUME NEW q \in Requests, Plain(q) \/ Commits(q) \/ Fail(q) PROVE AllCurrent'
  <2>0. req[q] # Idle /\ req[q].ship \in Shipments /\ req[q] \in RequestRecords
    BY <1>0, <1>3, PlainMoves, ReqTyped
  <2>1. \A p \in Requests \ {q} : req'[p] = req[p]
    BY <1>0, <1>3, StepsShip DEF Advances, Goes
  <2>2. ASSUME NEW p \in Requests, req'[p] # Idle, req'[p].ship \notin contended'
        PROVE  Current(req[p])'
    <3>1. CASE p # q
      <4>1. req'[p] = req[p] BY <2>1, <3>1
      <4>2. req[p].ship # req[q].ship BY <1>0, <2>0, <2>2, <3>1, <4>1 DEF Noted
      <4>3. req[p].ship \in Shipments
        <5>1. Placed(req[p]) BY <1>0, ReqTyped
        <5> QED BY <2>2, <4>1, <5>1 DEF Placed
      <4>4. Same(req[p].ship) BY <1>0, <1>3, <4>2, <4>3, StepElsewhere
      <4> QED BY <1>1, <2>2, <4>1, <4>4
    <3>2. CASE p = q
      <4>1. ~Advances(q, Idle) BY <1>0, <2>2, <3>2 DEF Advances, Goes
      <4>2. ~End(q) BY <1>0, <4>1, EndAdvances
      <4>3. Plain(q) BY <1>3, <4>2, CommitEnds DEF Fail
      <4>4. PICK x \in RequestRecords :
              /\ Advances(q, x) /\ x.pc = Onward(q)
              /\ IF FindSettlement(q) THEN (x.row = 0 <=> cod[x.ship] = << >> \/ Cod[x.ship] = 0)
                 ELSE x.row = req[q].row
        BY <1>0, <4>1, <4>3, PlainAdvances
      <4>5. req'[q] = x BY <1>0, <4>4 DEF Advances, Goes
      <4>6. x # Idle /\ x.ship = req[q].ship /\ x.ship \notin contended'
        BY <2>2, <3>2, <4>4, <4>5 DEF Advances
      <4>7. Current(req[q]) BY <1>0, <2>0, <4>6 DEF AllCurrent
      <4>8. \A u \in Taken : ShipOf[u] = req[q].ship => status[req[q].ship] = "DELIVERED"
        BY <1>0, <4>6 DEF ProvenIsDelivered, Taken
      <4>9. Current(x)' BY <1>0, <4>3, <4>4, <4>6, <4>7, <4>8, PlainCurrent
      <4> QED BY <3>2, <4>5, <4>9 DEF Current, Moves
    <3> QED BY <3>1, <3>2
  <2> QED BY <2>2 DEF AllCurrent
<1>4. ASSUME NEW t \in Tasks, Board(t) PROVE AllCurrent'
  <2>1. req' = req /\ contended' = contended \cup {s \in {ShipOf[t]} : \E p \in Requests : req[p].ship = s}
    BY <1>0, <1>4, BoardWrites
  <2>2. ASSUME NEW p \in Requests, req'[p] # Idle, req'[p].ship \notin contended'
        PROVE  Current(req[p])'
    <3>1. req[p].ship # ShipOf[t] BY <2>1, <2>2
    <3>2. req[p].ship \in Shipments
      <4>1. Placed(req[p]) BY <1>0, ReqTyped
      <4> QED BY <2>1, <2>2, <4>1 DEF Placed
    <3>3. Same(req[p].ship) BY <1>0, <1>4, <3>1, <3>2, BoardElsewhere
    <3> QED BY <1>1, <2>1, <2>2, <3>3
  <2> QED BY <2>2 DEF AllCurrent
<1> QED BY <1>2, <1>3, <1>4, ProceedSplits DEF Next

\* What happens on a shipment where no two requests overlap: nothing, a step of
\* the one request that is there, or of the board while nobody is.
LEMMA Alone ==
  ASSUME Types, Noted, AllCurrent, Next, NEW s \in Shipments, s \notin contended'
  PROVE  \/ Same(s)
         \/ \E q \in Requests : req[q].ship = s /\ Current(req[q]) /\ (Plain(q) \/ Commits(q))
         \/ \E t \in Tasks : ShipOf[t] = s /\ Board(t)
<1>0. TypeInv /\ AllFound /\ s \notin contended BY HistoryTyped DEF Types
<1>1. ASSUME NEW q \in Requests, Ask(q) PROVE Same(s)
  BY <1>0, <1>1, AskArrives, ArrivesElsewhere
<1>2. ASSUME NEW q \in Requests, Plain(q) \/ Commits(q), req[q].ship = s PROVE Current(req[q])
  BY <1>0, <1>2, PlainMoves DEF AllCurrent
<1>3. ASSUME NEW q \in Requests, Plain(q) \/ Commits(q), req[q].ship # s PROVE Same(s)
  BY <1>0, <1>3, StepElsewhere
<1>4. ASSUME NEW q \in Requests, Fail(q) PROVE Same(s)
  BY <1>4 DEF Fail, Same, rows
<1>5. ASSUME NEW t \in Tasks, Board(t), ShipOf[t] # s PROVE Same(s)
  BY <1>0, <1>5, BoardElsewhere
<1> QED BY <1>1, <1>2, <1>3, <1>4, <1>5, ProceedSplits DEF Next

\* Only the proof of a delivery takes one, and the board records its own.
LEMMA ProofWrites ==
  ASSUME TypeInv, NEW q \in Requests, Commits(q)
  PROVE  \/ UNCHANGED <<proof, boarded>>
         \/ /\ CommitProof(q) /\ req[q].op = "pod" /\ req[q].pc = "commit" /\ req[q].task \in Tasks
            /\ req[q].ship = ShipOf[req[q].task]
            /\ proof' = proof \cup {req[q].task} /\ boarded' = boarded
<1>1. CASE CommitProof(q)
  <2>1. req[q].op = "pod" /\ req[q].pc = "commit" /\ proof' = proof \cup {req[q].task} /\ boarded' = boarded
    BY <1>1 DEF CommitProof, At, history
  <2>2. req[q].task \in Tasks /\ req[q].ship = ShipOf[req[q].task] BY SMTT(40), <2>1, TaskOf DEF TaskOps
  <2> QED BY <1>1, <2>1, <2>2
<1>2. CASE ~CommitProof(q)
  BY <1>2 DEF Commits, CommitTask, CommitStart, CommitAttempt, CommitFailure, CommitReturn,
              InsertExpected, RecordCollection, RecordRemittance, ReconcileSettlement, WriteCod, history
<1> QED BY <1>1, <1>2

LEMMA BoardedStep ==
  ASSUME TypeInv, boarded \subseteq proof, Next
  PROVE  boarded' \subseteq proof' /\ Taken \subseteq Taken'
<1>1. ASSUME NEW q \in Requests, Ask(q) PROVE UNCHANGED <<proof, boarded>>
  BY <1>1, AskArrives DEF Arrives, rows
<1>2. ASSUME NEW q \in Requests, Plain(q) \/ Fail(q) PROVE UNCHANGED <<proof, boarded>>
  BY <1>2, PlainLeaves DEF Fail, rows, history
<1>3. ASSUME NEW q \in Requests, Commits(q) PROVE boarded' \subseteq proof' /\ Taken \subseteq Taken'
  BY <1>3, ProofWrites DEF Taken
<1>4. ASSUME NEW t \in Tasks, Board(t) PROVE boarded' \subseteq proof' /\ Taken \subseteq Taken'
  BY <1>4, BoardWrites DEF Taken
<1> QED BY <1>1, <1>2, <1>3, <1>4, ProceedSplits DEF Next, Taken

-----------------------------------------------------------------------------
(* One proof of one delivery.                                              *)

LEMMA ProvenStep ==
  ASSUME Types, Noted, AllCurrent, ProvenIsDelivered, OneProofPerShipment, boarded \subseteq proof, Next
  PROVE  ProvenIsDelivered' /\ OneProofPerShipment'
<1>0. TypeInv /\ TypeInv' /\ contended \subseteq contended' BY TypesStep, HistoryTyped DEF Types
<1> DEFINE Proven(s, taken, st) ==
             /\ \A t \in taken : ShipOf[t] = s => st[s] = "DELIVERED"
             /\ \A t, u \in taken : ShipOf[t] = s /\ ShipOf[u] = s => t = u
<1>1. ASSUME NEW s \in Shipments, s \notin contended' PROVE Proven(s, Taken', status')
  <2>1. Proven(s, Taken, status) BY <1>0, <1>1 DEF ProvenIsDelivered, OneProofPerShipment, Taken
  <2>2. CASE Same(s)
    <3>1. status'[s] = status[s] /\ \A t \in Taken' : ShipOf[t] = s => t \in Taken
      BY <1>0, <2>2 DEF Same, Taken, TypeInv, TypeOK
    <3> QED BY <2>1, <3>1
  <2>3. ASSUME NEW q \in Requests, req[q].ship = s, Current(req[q]), Plain(q)
        PROVE  Proven(s, Taken', status')
    <3>1. Taken' = Taken BY <2>3, PlainLeaves DEF Taken, rows, history
    <3>2. CASE UNCHANGED status BY <2>1, <3>1, <3>2
    <3>3. CASE MoveShipment(q)
      <4>1. status[s] # "DELIVERED" BY <2>3, <3>3, DeliveredIsFinal DEF MoveShipment, Current
      <4> QED BY <2>1, <3>1, <4>1
    <3> QED BY <2>3, <3>2, <3>3, PlainLeaves
  <2>4. ASSUME NEW q \in Requests, req[q].ship = s, Current(req[q]), Commits(q)
        PROVE  Proven(s, Taken', status')
    <3>1. status' = status BY <2>4, CommitEnds
    <3>2. CASE UNCHANGED <<proof, boarded>> BY <2>1, <3>1, <3>2 DEF Taken
    <3>3. CASE /\ req[q].op = "pod" /\ req[q].pc = "commit"
               /\ proof' = proof \cup {req[q].task} /\ boarded' = boarded
      <4>1. Placed(req[q]) BY <1>0, ReqTyped
      <4>2. status[s] = "DELIVERED" /\ \A u \in Taken : ShipOf[u] # s
        BY <2>4, <3>3, <4>1 DEF Current, Moves, Placed
      <4>3. \A u \in Taken' : ShipOf[u] = s => u = req[q].task BY <3>3, <4>2 DEF Taken
      <4> QED BY <3>1, <4>2, <4>3
    <3> QED BY <1>0, <2>4, <3>2, <3>3, ProofWrites
  <2>5. ASSUME NEW t \in Tasks, ShipOf[t] = s, Board(t) PROVE Proven(s, Taken', status')
    <3>1. status' = status /\ Taken' = Taken BY <1>0, <2>5, BoardWrites DEF Taken
    <3> QED BY <2>1, <3>1
  <2> QED BY <1>1, <2>2, <2>3, <2>4, <2>5, Alone
<1>2. \A t \in Taken' : t \in Tasks /\ ShipOf[t] \in Shipments
  BY <1>0, LastMileAssumption DEF TypeInv, TypeOK, Taken
<1> QED BY <1>1, <1>2 DEF ProvenIsDelivered, OneProofPerShipment, Taken

\* A request that has brought shipment s where its handler wants it, and has yet
\* to commit.
Bringing(s, op) == \E q \in Requests : req[q].op = op /\ req[q].ship = s /\ req[q].pc \in {"cod", "commit"}

\* It goes on until it commits, or rolls back and leaves the shipment there.
LEMMA BringingStep ==
  ASSUME TypeInv, Next, NEW s \in Shipments, s \notin broken', NEW op \in {"create", "pod"}, Bringing(s, op)
  PROVE  \/ Bringing(s, op)'
         \/ \E q \in Requests : req[q].op = op /\ req[q].ship = s /\ req[q].pc = "commit" /\ Commits(q)
<1>0. req \in [Requests -> RequestRecords] BY DEF TypeInv, TypeOK
<1>1. PICK b \in Requests : req[b].op = op /\ req[b].ship = s /\ req[b].pc \in {"cod", "commit"}
  BY DEF Bringing
<1>2. CASE req'[b] = req[b] BY <1>1, <1>2 DEF Bringing
<1>3. CASE Ask(b)
  <2>1. req[b] = Idle BY <1>0, <1>3, AskArrives DEF Arrives
  <2> QED BY <1>1, <2>1 DEF Idle
<1>4. CASE Plain(b)
  <2>1. FindSettlement(b)
    BY <1>1, <1>4 DEF Plain, CheckTransition, MoveShipment, LockTask, InsertProof, At
  <2>2. req'[b].op = op /\ req'[b].ship = s /\ req'[b].pc = "commit"
    BY <1>0, <1>1, <2>1 DEF FindSettlement, RequestRecords
  <2> QED BY <2>2 DEF Bringing
<1>5. CASE Commits(b)
  BY <1>1, <1>5, CommitEnds
<1>6. CASE Fail(b)
  <2>1. req[b].aim # "none" BY <1>1, ReqTyped DEF Placed
  <2>2. s \in broken' BY <1>1, <1>6, <2>1 DEF Fail
  <2> QED BY <2>2
<1>7. ASSUME NEW q \in Requests, q # b, Ask(q) \/ Plain(q) \/ Commits(q) \/ Fail(q)
      PROVE  req'[b] = req[b]
  BY <1>0, <1>7, AskArrives, StepsShip DEF Arrives, Advances, Goes
<1>8. ASSUME NEW t \in Tasks, Board(t) PROVE req'[b] = req[b] BY <1>8, BoardWrites
<1> QED BY <1>2, <1>3, <1>4, <1>5, <1>6, <1>7, <1>8, ProceedSplits DEF Next

\* The statuses of a shipment that was handed to the last mile.
HandedOver == {"READY_FOR_DELIVERY", "OUT_FOR_DELIVERY", "DELIVERY_FAILED", "DELIVERED", "RETURNED"}

\* A shipment changes status in one step only.
LEMMA StatusStep ==
  ASSUME TypeInv, Next, NEW s \in Shipments, status'[s] # status[s]
  PROVE  \E q \in Requests : /\ MoveShipment(q) /\ req[q].ship = s /\ req[q].pc = "move"
                             /\ req[q].op \in Movers \cup {"staff"} /\ status'[s] = req[q].aim
<1>0. status \in [Shipments -> SHIPMENT_STATUSES] BY DEF TypeInv, TypeOK
<1>1. ASSUME NEW q \in Requests, Ask(q) PROVE status' = status
  BY <1>1, AskArrives DEF Arrives
<1>2. ASSUME NEW q \in Requests, Commits(q) \/ Fail(q) PROVE status' = status
  BY <1>2, CommitEnds DEF Fail
<1>3. ASSUME NEW t \in Tasks, Board(t) PROVE status' = status BY <1>3, BoardWrites
<1>4. PICK q \in Requests : MoveShipment(q) BY <1>1, <1>2, <1>3, ProceedSplits, PlainLeaves DEF Next
<1>5. req[q].pc = "move" /\ status' = [status EXCEPT ![req[q].ship] = req[q].aim]
  BY <1>4 DEF MoveShipment
<1>6. req[q].op \in Movers \cup {"staff"} BY <1>5, ReqTyped DEF Placed
<1> QED BY <1>0, <1>4, <1>5, <1>6

LEMMA DeliveredStep ==
  ASSUME Types, Noted, AllCurrent, DeliveredHasProof, boarded \subseteq proof, Next,
         "DELIVERED" \notin StaffTargets
  PROVE  DeliveredHasProof'
<1>0. TypeInv /\ TypeInv' /\ contended \subseteq contended' /\ Taken \subseteq Taken'
  BY TypesStep, HistoryTyped, BoardedStep DEF Types
<1>1. broken \subseteq broken'
  BY AskArrives, ProceedSplits, PlainLeaves, CommitEnds, BoardWrites, <1>0 DEF Next, Fail, Arrives, history
<1>2. ASSUME NEW s \in Shipments, s \notin broken', s \notin contended', status'[s] = "DELIVERED"
      PROVE  (\E t \in Taken' : ShipOf[t] = s) \/ Bringing(s, "pod")'
  <2>1. CASE \E t \in Taken : ShipOf[t] = s BY <1>0, <2>1
  <2>2. CASE Bringing(s, "pod")
    <3>1. CASE Bringing(s, "pod")' BY <3>1
    <3>2. ASSUME NEW q \in Requests, req[q].op = "pod", req[q].ship = s, req[q].pc = "commit", Commits(q)
          PROVE  \E t \in Taken' : ShipOf[t] = s
      <4>1. CommitProof(q)
        BY <3>2 DEF Commits, CommitTask, CommitStart, CommitAttempt, CommitFailure, CommitReturn,
                    InsertExpected, RecordCollection, RecordRemittance, ReconcileSettlement, At
      <4>2. proof' = proof \cup {req[q].task} /\ boarded' = boarded BY <4>1 DEF CommitProof, history
      <4>3. req[q] # Idle BY <3>2 DEF Idle
      <4>4. req[q].task \notin boarded /\ ShipOf[req[q].task] = s
        BY <1>0, <1>2, <3>2, <4>3, TaskOf DEF AllCurrent, Current, TaskOps
      <4> QED BY <4>2, <4>4 DEF Taken
    <3> QED BY <1>0, <1>2, <2>2, <3>1, <3>2, BringingStep
  <2>3. CASE status[s] # "DELIVERED"
    <3>1. PICK q \in Requests : /\ MoveShipment(q) /\ req[q].ship = s /\ req[q].pc = "move"
                                /\ req[q].aim = "DELIVERED"
      BY <1>0, <1>2, <2>3, StatusStep
    <3>2. req[q].op = "pod" BY <1>0, <3>1, ReqTyped DEF Placed, Movers
    <3>3. req' = [req EXCEPT ![q].pc = "cod"] BY <3>1, <3>2 DEF MoveShipment, Goto, AfterMove
    <3>4. req'[q].pc = "cod" /\ req'[q].op = "pod" /\ req'[q].ship = s
      BY <1>0, <3>1, <3>2, <3>3 DEF TypeInv, TypeOK, RequestRecords
    <3> QED BY <3>4 DEF Bringing
  <2>4. status[s] = "DELIVERED" => (\E t \in Taken : ShipOf[t] = s) \/ Bringing(s, "pod")
    BY <1>0, <1>1, <1>2 DEF DeliveredHasProof, Bringing, Taken
  <2> QED BY <2>1, <2>2, <2>3, <2>4
<1> QED BY <1>2 DEF DeliveredHasProof, Bringing, Taken

LEMMA HandedStep ==
  ASSUME Types, HandedOverHasTask, Next, StaffTargets \cap HandedOver = {}
  PROVE  HandedOverHasTask'
<1>0. TypeInv /\ AllFound /\ TypeInv' /\ contended \subseteq contended' /\ Grow
  BY TypesStep, HistoryTyped, TablesStep DEF Types
<1>1. broken \subseteq broken'
  BY AskArrives, ProceedSplits, PlainLeaves, CommitEnds, BoardWrites, <1>0 DEF Next, Fail, Arrives, history
<1> DEFINE Has(s, rs) == \E t \in Tasks : ShipOf[t] = s /\ rs[t].status # "NONE"
<1>2. ASSUME NEW s \in Shipments, s \notin broken', s \notin contended', status'[s] \in HandedOver
      PROVE  Has(s, task') \/ Bringing(s, "create")'
  <2>1. CASE Has(s, task) BY <1>0, <2>1 DEF Grow
  <2>2. CASE Bringing(s, "create")
    <3>1. CASE Bringing(s, "create")' BY <3>1
    <3>2. ASSUME NEW q \in Requests, req[q].op = "create", req[q].ship = s, req[q].pc = "commit", Commits(q)
          PROVE  Has(s, task')
      <4>1. CommitTask(q)
        BY <3>2 DEF Commits, CommitProof, CommitStart, CommitAttempt, CommitFailure, CommitReturn,
                    InsertExpected, RecordCollection, RecordRemittance, ReconcileSettlement, At
      <4>2. task' = [task EXCEPT ![req[q].task].status = "PENDING_ASSIGNMENT"] BY <4>1 DEF CommitTask
      <4>3. req[q].task \in Tasks /\ ShipOf[req[q].task] = s BY <1>0, <3>2, TaskOf DEF TaskOps
      <4>4. task'[req[q].task].status = "PENDING_ASSIGNMENT" BY <1>0, <4>2, <4>3 DEF TypeInv, TypeOK
      <4> QED BY <4>3, <4>4
    <3> QED BY <1>0, <1>2, <2>2, <3>1, <3>2, BringingStep
  <2>3. CASE status'[s] # status[s]
    <3>1. PICK q \in Requests : /\ MoveShipment(q) /\ req[q].ship = s /\ req[q].pc = "move"
                                /\ req[q].op \in Movers \cup {"staff"} /\ req[q].aim \in HandedOver
      BY <1>0, <1>2, <2>3, StatusStep
    <3>2. req[q].op # "staff" BY <1>0, <3>1, ReqTyped DEF Placed
    <3>3. CASE req[q].op = "create"
      <4>1. req' = [req EXCEPT ![q].pc = "cod"] BY <3>1, <3>3 DEF MoveShipment, Goto, AfterMove
      <4>2. req'[q].pc = "cod" /\ req'[q].op = "create" /\ req'[q].ship = s
        BY <1>0, <3>1, <3>3, <4>1 DEF TypeInv, TypeOK, RequestRecords
      <4> QED BY <4>2 DEF Bringing
    <3>4. CASE req[q].op # "create"
      <4>1. req[q].op \in TaskOps BY <3>1, <3>2, <3>4 DEF Movers, TaskOps
      <4>2. req[q].task \in Tasks /\ ShipOf[req[q].task] = s BY <1>0, <3>1, <4>1, TaskOf
      <4>3. task[req[q].task].status # "NONE" BY <1>0, <3>4, <4>1 DEF AllFound, Found
      <4> QED BY <2>1, <4>2, <4>3
    <3> QED BY <3>3, <3>4
  <2>4. status[s] \in HandedOver => Has(s, task) \/ Bringing(s, "create")
    BY <1>0, <1>1, <1>2 DEF HandedOverHasTask, Bringing, HandedOver
  <2> QED BY <1>2, <2>1, <2>2, <2>3, <2>4
<1> QED BY <1>2 DEF HandedOverHasTask, Bringing, HandedOver

-----------------------------------------------------------------------------
(* Attempts.                                                               *)

Attempts == [n : Nat, result : {"SUCCESS", "FAILED", "NOTED"}]

\* The failures in a list of attempts, and those that reached a limit.
Failed(c) == {k \in 1..Len(c) : c[k].result = "FAILED"}
Limiting(c, m) == {k \in Failed(c) : c[k].n >= m}

LEMMA FailedFinite ==
  ASSUME NEW c \in Seq(Attempts)
  PROVE  IsFiniteSet(Failed(c)) /\ Cardinality(Failed(c)) \in Nat
<1>1. Len(c) \in Nat OBVIOUS
<1>2. IsFiniteSet(1..Len(c)) BY <1>1, FS_Interval
<1>3. IsFiniteSet(Failed(c)) BY <1>2, FS_Subset DEF Failed
<1> QED BY <1>3, FS_CardinalityType

LEMMA LimitingFinite ==
  ASSUME NEW c \in Seq(Attempts), NEW m
  PROVE  IsFiniteSet(Limiting(c, m)) /\ Cardinality(Limiting(c, m)) \in Nat
<1>1. IsFiniteSet(Limiting(c, m)) BY FailedFinite, FS_Subset DEF Limiting
<1> QED BY <1>1, FS_CardinalityType

\* One more attempt adds itself to the failures when it failed.
LEMMA FailedGrows ==
  ASSUME NEW c \in Seq(Attempts), NEW r \in Attempts, NEW m \in Nat
  PROVE  /\ r.result # "FAILED" => /\ Failed(Append(c, r)) = Failed(c)
                                   /\ Limiting(Append(c, r), m) = Limiting(c, m)
         /\ r.result = "FAILED" =>
              /\ Failed(Append(c, r)) = Failed(c) \cup {Len(c) + 1}
              /\ Cardinality(Failed(Append(c, r))) = Cardinality(Failed(c)) + 1
              /\ Cardinality(Limiting(Append(c, r), m))
                   = Cardinality(Limiting(c, m)) + (IF r.n >= m THEN 1 ELSE 0)
         /\ \A k \in Failed(c) : Append(c, r)[k] = c[k]
         /\ Append(c, r)[Len(c) + 1] = r
<1> DEFINE l == Len(c) + 1
           d == Append(c, r)
<1>1. /\ d \in Seq(Attempts) /\ Len(d) = l /\ d[l] = r /\ \A j \in 1..Len(c) : d[j] = c[j]
      /\ Len(c) \in Nat
  BY AppendTyped
<1> HIDE DEF d
<1>2. \A k \in Failed(c) : d[k] = c[k] /\ k # l BY <1>1 DEF Failed
<1>3. Limiting(c, m) \subseteq Failed(c) BY DEF Limiting
<1>4. CASE r.result # "FAILED"
  <2>1. Failed(d) = Failed(c) BY <1>1, <1>4 DEF Failed
  <2>2. Limiting(d, m) = Limiting(c, m) BY <1>2, <2>1 DEF Limiting
  <2> QED BY <1>1, <1>2, <1>4, <2>1, <2>2 DEF d
<1>5. CASE r.result = "FAILED"
  <2>1. Failed(d) = Failed(c) \cup {l} BY <1>1, <1>5 DEF Failed
  <2>2. Cardinality(Failed(d)) = Cardinality(Failed(c)) + 1
    BY <1>2, <2>1, FailedFinite, FS_AddElement
  <2>3. CASE r.n >= m
    <3>1. Limiting(d, m) = Limiting(c, m) \cup {l} BY <1>1, <1>2, <2>1, <2>3 DEF Limiting
    <3>2. Cardinality(Limiting(d, m)) = Cardinality(Limiting(c, m)) + 1
      BY <1>2, <1>3, <3>1, LimitingFinite, FS_AddElement
    <3> QED BY <1>1, <1>2, <1>5, <2>1, <2>2, <2>3, <3>2 DEF d
  <2>4. CASE ~(r.n >= m)
    <3>1. Limiting(d, m) = Limiting(c, m) BY <1>1, <1>2, <2>1, <2>4 DEF Limiting
    <3>2. Cardinality(Limiting(c, m)) \in Nat BY LimitingFinite
    <3>3. Cardinality(Limiting(d, m)) = Cardinality(Limiting(c, m)) + (IF r.n >= m THEN 1 ELSE 0)
      BY <2>4, <3>1, <3>2
    <3> QED BY <1>1, <1>2, <1>5, <2>1, <2>2, <3>3 DEF d
  <2> QED BY <2>3, <2>4
<1> QED BY <1>4, <1>5

\* A task's counter, its attempts and its exceptions agree.
Counted(attempts, c, e, m, delivered) ==
  /\ attempts = Cardinality(Failed(c)) + delivered
  /\ \A j, k \in Failed(c) : c[j].n = c[k].n => j = k
  /\ e = Cardinality(Limiting(c, m))
  /\ \A k \in Failed(c) : c[k].n <= attempts

Deliveries(t) == IF t \in Taken THEN 1 ELSE 0

LEMMA CountedIs ==
  AttemptsCounted /\ Numbered <=>
    \A t \in Tasks : ShipOf[t] \notin contended =>
      Counted(task[t].attempts, tries[t], exceptions[t], MaxAttempts[t], Deliveries(t))
BY DEF AttemptsCounted, Numbered, Counted, Failures, Failed, Limiting, Taken, Deliveries

\* A noted attempt counts for nothing.
LEMMA NotedCounts ==
  ASSUME NEW c \in Seq(Attempts), NEW n \in Nat, NEW a \in Nat, NEW e \in Nat, NEW m \in Nat, NEW b \in Nat,
         Counted(a, c, e, m, b)
  PROVE  Counted(a, Append(c, [n |-> n, result |-> "NOTED"]), e, m, b)
<1> DEFINE r == [n |-> n, result |-> "NOTED"]
           d == Append(c, r)
<1>1. r \in Attempts /\ r.result # "FAILED" BY DEF Attempts
<1>2. Failed(d) = Failed(c) /\ Limiting(d, m) = Limiting(c, m) /\ \A k \in Failed(c) : d[k] = c[k]
  BY <1>1, FailedGrows
<1> HIDE DEF d
<1> QED BY <1>2 DEF Counted, d

\* The delivery is the attempt after the failures.
LEMMA DeliveryCounts ==
  ASSUME NEW c \in Seq(Attempts), NEW a \in Nat, NEW e \in Nat, NEW m \in Nat, Counted(a, c, e, m, 0)
  PROVE  Counted(a + 1, Append(c, [n |-> a + 1, result |-> "SUCCESS"]), e, m, 1)
<1> DEFINE r == [n |-> a + 1, result |-> "SUCCESS"]
           d == Append(c, r)
<1>1. r \in Attempts /\ r.result # "FAILED" BY DEF Attempts
<1>2. Failed(d) = Failed(c) /\ Limiting(d, m) = Limiting(c, m) /\ \A k \in Failed(c) : d[k] = c[k]
  BY <1>1, FailedGrows
<1>3. \A k \in Failed(c) : c[k] \in Attempts BY DEF Failed
<1>4. \A k \in Failed(c) : c[k].n \in Nat BY <1>3 DEF Attempts
<1> HIDE DEF d
<1>5. a = Cardinality(Failed(c)) /\ Cardinality(Failed(c)) \in Nat BY FailedFinite DEF Counted
<1>6. a + 1 = Cardinality(Failed(d)) + 1 BY <1>2, <1>5
<1>7. \A j, k \in Failed(d) : d[j].n = d[k].n => j = k BY <1>2 DEF Counted
<1>8. \A k \in Failed(d) : d[k].n <= a + 1 BY <1>2, <1>4 DEF Counted
<1>9. e = Cardinality(Limiting(d, m)) BY <1>2 DEF Counted
<1> QED BY <1>6, <1>7, <1>8, <1>9 DEF Counted, d

\* A failure is numbered after the ones before it, and one at the limit is told.
LEMMA FailureCounts ==
  ASSUME NEW c \in Seq(Attempts), NEW a \in Nat, NEW e \in Nat, NEW m \in Nat, NEW b \in Nat,
         Counted(a, c, e, m, b)
  PROVE  Counted(a + 1, Append(c, [n |-> a + 1, result |-> "FAILED"]),
                 e + (IF a + 1 >= m THEN 1 ELSE 0), m, b)
<1> DEFINE r == [n |-> a + 1, result |-> "FAILED"]
           d == Append(c, r)
           l == Len(c) + 1
<1>1. r \in Attempts /\ r.result = "FAILED" /\ r.n = a + 1 BY DEF Attempts
<1>2. /\ Failed(d) = Failed(c) \cup {l} /\ Cardinality(Failed(d)) = Cardinality(Failed(c)) + 1
      /\ Cardinality(Limiting(d, m)) = Cardinality(Limiting(c, m)) + (IF a + 1 >= m THEN 1 ELSE 0)
      /\ \A k \in Failed(c) : d[k] = c[k]
      /\ d[l] = r
  BY <1>1, FailedGrows
<1>3. \A k \in Failed(c) : c[k] \in Attempts BY DEF Failed
<1>4. \A k \in Failed(c) : c[k].n \in Nat BY <1>3 DEF Attempts
<1>5. Cardinality(Failed(c)) \in Nat BY FailedFinite
<1> HIDE DEF d, l, r
<1>6. \A k \in Failed(c) : d[k].n <= a /\ d[k].n \in Nat BY <1>2, <1>4 DEF Counted
<1>7. \A j, k \in Failed(d) : d[j].n = d[k].n => j = k
  <2>1. \A j, k \in Failed(c) : d[j].n = d[k].n => j = k BY <1>2 DEF Counted
  <2>2. \A k \in Failed(c) : d[k].n # d[l].n BY <1>1, <1>2, <1>6
  <2> QED BY <1>2, <2>1, <2>2
<1>8. a + 1 = Cardinality(Failed(d)) + b BY <1>2, <1>5 DEF Counted
<1>9. \A k \in Failed(d) : d[k].n <= a + 1 BY <1>1, <1>2, <1>6
<1>10. e + (IF a + 1 >= m THEN 1 ELSE 0) = Cardinality(Limiting(d, m)) BY <1>2 DEF Counted
<1> QED BY <1>7, <1>8, <1>9, <1>10 DEF Counted, d, r

\* What a commit does to the task it is about; the others stay.
LEMMA CommitCounts ==
  ASSUME Types, NEW q \in Requests, Commits(q), Current(req[q]), boarded \subseteq proof,
         NEW t \in Tasks, ShipOf[t] = req[q].ship,
         Counted(task[t].attempts, tries[t], exceptions[t], MaxAttempts[t], Deliveries(t))
  PROVE  Counted(task'[t].attempts, tries'[t], exceptions'[t], MaxAttempts[t], Deliveries(t)')
<1> DEFINE n == req[q].count + 1
           Goal == Counted(task'[t].attempts, tries'[t], exceptions'[t], MaxAttempts[t], Deliveries(t)')
<1>0. /\ task \in [Tasks -> [status : TASK_STATUSES \cup {"NONE"}, attempts : Nat]]
      /\ tries[t] \in Seq(Attempts) /\ exceptions[t] \in Nat /\ task[t].attempts \in Nat
      /\ MaxAttempts[t] \in Nat /\ Deliveries(t) \in Nat
      /\ DOMAIN tries = Tasks /\ DOMAIN exceptions = Tasks
  BY LastMileAssumption DEF Types, TypeInv, TypeOK, Attempts, Deliveries
<1>1. ASSUME task'[t].attempts = task[t].attempts, tries'[t] = tries[t], exceptions'[t] = exceptions[t],
             t \in Taken' <=> t \in Taken
      PROVE  Goal
  BY <1>1 DEF Deliveries
<1>2. boarded' = boarded BY CommitEnds DEF history
<1>3. CASE CommitTask(q) \/ CommitStart(q) \/ CommitReturn(q)
  BY SMTT(40), <1>0, <1>1, <1>2, <1>3 DEF CommitTask, CommitStart, CommitReturn, Taken
<1>4. CASE InsertExpected(q) \/ RecordCollection(q) \/ RecordRemittance(q) \/ ReconcileSettlement(q)
  BY <1>0, <1>1, <1>2, <1>4
     DEF InsertExpected, RecordCollection, RecordRemittance, ReconcileSettlement, WriteCod, Taken
<1>5. CASE CommitAttempt(q)
  <2>1. /\ tries' = [tries EXCEPT ![req[q].task] = Append(tries[req[q].task], [n |-> n, result |-> "NOTED"])]
        /\ UNCHANGED <<task, exceptions, proof>>
    BY <1>5 DEF CommitAttempt
  <2>2. Taken' = Taken BY <1>2, <2>1 DEF Taken
  <2>3. CASE req[q].task # t BY <1>0, <1>1, <2>1, <2>2, <2>3
  <2>4. CASE req[q].task = t
    <3>1. tries'[t] = Append(tries[t], [n |-> n, result |-> "NOTED"]) BY <1>0, <2>1, <2>4
    <3>2. n \in Nat BY ReqTyped DEF Types
    <3> HIDE DEF n
    <3>3. Counted(task[t].attempts, Append(tries[t], [n |-> n, result |-> "NOTED"]), exceptions[t],
                  MaxAttempts[t], Deliveries(t))
      BY <1>0, <3>2, NotedCounts
    <3>4. Deliveries(t)' = Deliveries(t) BY <2>2 DEF Deliveries
    <3> QED BY <2>1, <3>1, <3>3, <3>4
  <2> QED BY <2>3, <2>4
<1>6. CASE CommitFailure(q)
  <2> DEFINE m == IF Last(q) THEN 1 ELSE 0
             to == IF Last(q) THEN "RETURN_TO_HUB" ELSE "RESCHEDULED"
  <2>1. /\ tries' = [tries EXCEPT ![req[q].task] = Append(tries[req[q].task], [n |-> n, result |-> "FAILED"])]
        /\ task' = [task EXCEPT ![req[q].task] = [status |-> to, attempts |-> n]]
        /\ exceptions' = [exceptions EXCEPT ![req[q].task] = exceptions[req[q].task] + m]
        /\ UNCHANGED proof /\ req[q].op = "fail"
    BY <1>6 DEF CommitFailure, At
  <2>2. Taken' = Taken BY <1>2, <2>1 DEF Taken
  <2>3. CASE req[q].task # t BY <1>0, <1>1, <2>1, <2>2, <2>3
  <2>4. CASE req[q].task = t
    <3>1. n = task[t].attempts + 1 BY <2>1, <2>4 DEF Current
    <3>2. m = IF n >= MaxAttempts[t] THEN 1 ELSE 0 BY <2>4 DEF Last
    <3> HIDE DEF n, m, to
    <3>3. /\ tries'[t] = Append(tries[t], [n |-> n, result |-> "FAILED"])
          /\ task'[t].attempts = n /\ exceptions'[t] = exceptions[t] + m
      BY <1>0, <2>1, <2>4
    <3>4. Counted(task[t].attempts + 1, Append(tries[t], [n |-> task[t].attempts + 1, result |-> "FAILED"]),
                  exceptions[t] + (IF task[t].attempts + 1 >= MaxAttempts[t] THEN 1 ELSE 0), MaxAttempts[t],
                  Deliveries(t))
      BY <1>0, FailureCounts
    <3>5. Deliveries(t)' = Deliveries(t) BY <2>2 DEF Deliveries
    <3> QED BY <3>1, <3>2, <3>3, <3>4, <3>5
  <2> QED BY <2>3, <2>4
<1>7. CASE CommitProof(q)
  <2>1. /\ tries' = [tries EXCEPT ![req[q].task] = Append(tries[req[q].task], [n |-> n, result |-> "SUCCESS"])]
        /\ task' = [task EXCEPT ![req[q].task] = [status |-> "DELIVERED", attempts |-> n]]
        /\ proof' = proof \cup {req[q].task} /\ UNCHANGED exceptions
        /\ req[q].op = "pod" /\ req[q].pc = "commit"
    BY <1>7 DEF CommitProof, At
  <2>3. CASE req[q].task # t
    <3>1. t \in Taken' <=> t \in Taken BY <1>2, <2>1, <2>3 DEF Taken
    <3> QED BY <1>0, <1>1, <2>1, <2>3, <3>1
  <2>4. CASE req[q].task = t
    <3>1. n = task[t].attempts + 1 /\ t \notin proof BY <2>1, <2>4 DEF Current
    <3>2. t \notin Taken /\ t \in Taken' BY <1>2, <2>1, <2>4, <3>1 DEF Taken
    <3> HIDE DEF n
    <3>3. /\ tries'[t] = Append(tries[t], [n |-> n, result |-> "SUCCESS"])
          /\ task'[t].attempts = n /\ exceptions'[t] = exceptions[t]
      BY <1>0, <2>1, <2>4
    <3>4. Counted(task[t].attempts, tries[t], exceptions[t], MaxAttempts[t], 0) BY <3>2 DEF Deliveries
    <3>5. Counted(task[t].attempts + 1, Append(tries[t], [n |-> task[t].attempts + 1, result |-> "SUCCESS"]),
                  exceptions[t], MaxAttempts[t], 1)
      BY <1>0, <3>4, DeliveryCounts
    <3>6. Deliveries(t)' = 1 BY <3>2 DEF Deliveries
    <3> QED BY <3>1, <3>3, <3>5, <3>6
  <2> QED BY <2>3, <2>4
<1> QED BY <1>3, <1>4, <1>5, <1>6, <1>7 DEF Commits

LEMMA CountedStep ==
  ASSUME Types, Noted, AllCurrent, boarded \subseteq proof, AttemptsCounted, Numbered, Next
  PROVE  AttemptsCounted' /\ Numbered'
<1>0. TypeInv /\ TypeInv' /\ contended \subseteq contended' BY TypesStep, HistoryTyped DEF Types
<1>1. ASSUME NEW t \in Tasks, ShipOf[t] \notin contended'
      PROVE  Counted(task'[t].attempts, tries'[t], exceptions'[t], MaxAttempts[t], Deliveries(t)')
  <2> DEFINE s == ShipOf[t]
  <2>0. s \in Shipments BY LastMileAssumption
  <2>1. Counted(task[t].attempts, tries[t], exceptions[t], MaxAttempts[t], Deliveries(t))
    BY <1>0, <1>1, CountedIs
  <2>2. CASE Same(s)
    <3>1. /\ task'[t] = task[t] /\ tries'[t] = tries[t] /\ exceptions'[t] = exceptions[t]
          /\ Deliveries(t)' = Deliveries(t)
      BY <2>2 DEF Same, Taken, Deliveries
    <3> QED BY <2>1, <3>1
  <2>3. ASSUME NEW q \in Requests, Plain(q)
        PROVE  Counted(task'[t].attempts, tries'[t], exceptions'[t], MaxAttempts[t], Deliveries(t)')
    BY <2>1, <2>3, PlainLeaves DEF rows, history, Taken, Deliveries
  <2>4. ASSUME NEW q \in Requests, req[q].ship = s, Current(req[q]), Commits(q)
        PROVE  Counted(task'[t].attempts, tries'[t], exceptions'[t], MaxAttempts[t], Deliveries(t)')
    BY <2>1, <2>4, CommitCounts
  <2>5. ASSUME NEW u \in Tasks, Board(u)
        PROVE  Counted(task'[t].attempts, tries'[t], exceptions'[t], MaxAttempts[t], Deliveries(t)')
    <3>1. PICK to : task' = [task EXCEPT ![u].status = to] BY <1>0, <2>5, BoardWrites
    <3>2. task'[t].attempts = task[t].attempts BY <1>0, <3>1 DEF TypeInv, TypeOK
    <3>3. Taken' = Taken /\ UNCHANGED <<tries, exceptions>> BY <1>0, <2>5, BoardWrites DEF Taken
    <3> QED BY <2>1, <3>2, <3>3 DEF Deliveries
  <2> QED BY <1>1, <2>0, <2>2, <2>3, <2>4, <2>5, Alone
<1> QED BY <1>1 DEF AttemptsCounted, Numbered, Counted, Failures, Failed, Limiting, Taken, Deliveries

\* A failure that reached the limit was told to somebody.
Escalated(t) == exceptions[t] > 0 /\ Limiting(tries[t], MaxAttempts[t]) # {}

LEMMA EscalatedStep ==
  ASSUME TypeInv, ReturnIsEscalated, Next
  PROVE  ReturnIsEscalated'
<1>0. /\ task \in [Tasks -> [status : TASK_STATUSES \cup {"NONE"}, attempts : Nat]]
      /\ tries \in [Tasks -> Seq(Attempts)] /\ exceptions \in [Tasks -> Nat]
      /\ \A t \in Tasks : MaxAttempts[t] \in Nat
  BY LastMileAssumption DEF TypeInv, TypeOK, Attempts
<1> DEFINE Fine(t) == task[t].status = "RETURN_TO_HUB" /\ "RETURN_TO_HUB" \notin BoardStatuses => Escalated(t)
<1>1. \A t \in Tasks : Fine(t)
  BY DEF ReturnIsEscalated, Escalated, Failures, Failed, Limiting
<1>2. ASSUME NEW t \in Tasks, UNCHANGED <<exceptions, tries>>,
             task'[t].status = task[t].status \/ task'[t].status # "RETURN_TO_HUB"
                \/ "RETURN_TO_HUB" \in BoardStatuses
      PROVE  Fine(t)'
  BY <1>1, <1>2 DEF Escalated
<1>3. ASSUME NEW t \in Tasks, NEW q \in Requests, Commits(q) PROVE Fine(t)'
  <2> DEFINE n == req[q].count + 1
             u == req[q].task
  <2>0. n \in Nat BY ReqTyped
  <2>1. CASE CommitTask(q) \/ CommitStart(q) \/ CommitReturn(q)
    <3>1. PICK to \in {"PENDING_ASSIGNMENT", "IN_TRANSIT", "RETURN_RECEIVED"} :
            task' = [task EXCEPT ![u].status = to] /\ UNCHANGED <<exceptions, tries>>
      BY <2>1 DEF CommitTask, CommitStart, CommitReturn
    <3>2. task'[t].status = task[t].status \/ task'[t].status # "RETURN_TO_HUB" BY SMTT(40), <1>0, <3>1
    <3> QED BY <1>2, <3>1, <3>2
  <2>2. CASE InsertExpected(q) \/ RecordCollection(q) \/ RecordRemittance(q) \/ ReconcileSettlement(q)
    BY <1>2, <2>2 DEF InsertExpected, RecordCollection, RecordRemittance, ReconcileSettlement, WriteCod
  <2>3. ASSUME NEW r \in {"NOTED", "SUCCESS"},
               tries' = [tries EXCEPT ![u] = Append(tries[u], [n |-> n, result |-> r])], exceptions' = exceptions
        PROVE  Escalated(t) => Escalated(t)'
    <3>1. CASE t # u BY <1>0, <2>3, <3>1 DEF Escalated
    <3>2. CASE t = u
      <4>1. [n |-> n, result |-> r] \in Attempts /\ r # "FAILED" BY <2>0 DEF Attempts
      <4>2. tries'[t] = Append(tries[t], [n |-> n, result |-> r]) BY <1>0, <2>3, <3>2
      <4> HIDE DEF n
      <4>3. Limiting(tries'[t], MaxAttempts[t]) = Limiting(tries[t], MaxAttempts[t])
        BY <1>0, <4>1, <4>2, FailedGrows
      <4> QED BY <2>3, <4>3 DEF Escalated
    <3> QED BY <3>1, <3>2
  <2>4. CASE CommitAttempt(q)
    <3>1. task' = task /\ (Escalated(t) => Escalated(t)') BY <2>3, <2>4 DEF CommitAttempt
    <3> QED BY <1>1, <3>1
  <2>5. CASE CommitProof(q)
    <3>1. task' = [task EXCEPT ![u] = [status |-> "DELIVERED", attempts |-> n]]
          /\ (Escalated(t) => Escalated(t)')
      BY <2>3, <2>5 DEF CommitProof
    <3>2. task'[t].status = task[t].status \/ task'[t].status # "RETURN_TO_HUB" BY <1>0, <3>1
    <3> QED BY <1>1, <3>1, <3>2
  <2>6. CASE CommitFailure(q)
    <3> DEFINE m == IF Last(q) THEN 1 ELSE 0
               to == IF Last(q) THEN "RETURN_TO_HUB" ELSE "RESCHEDULED"
    <3>1. /\ tries' = [tries EXCEPT ![u] = Append(tries[u], [n |-> n, result |-> "FAILED"])]
          /\ task' = [task EXCEPT ![u] = [status |-> to, attempts |-> n]]
          /\ exceptions' = [exceptions EXCEPT ![u] = exceptions[u] + m]
      BY <2>6 DEF CommitFailure
    <3>2. CASE t # u BY <1>0, <1>1, <3>1, <3>2 DEF Escalated
    <3>3. CASE t = u
      <4>1. [n |-> n, result |-> "FAILED"] \in Attempts BY <2>0 DEF Attempts
      <4>2. Last(q) => n >= MaxAttempts[t] BY <3>3 DEF Last
      <4>3. to = "RETURN_TO_HUB" <=> Last(q) OBVIOUS
      <4>4. Last(q) => m = 1 OBVIOUS
      <4> HIDE DEF n, m, to
      <4>5. /\ tries'[t] = Append(tries[t], [n |-> n, result |-> "FAILED"])
            /\ task'[t].status = to /\ exceptions'[t] = exceptions[t] + m
        BY <1>0, <3>1, <3>3
      <4>6. Last(q) => Len(tries[t]) + 1 \in Limiting(tries'[t], MaxAttempts[t])
        <5>1. /\ Failed(tries'[t]) = Failed(tries[t]) \cup {Len(tries[t]) + 1}
              /\ tries'[t][Len(tries[t]) + 1] = [n |-> n, result |-> "FAILED"]
          BY <1>0, <4>1, <4>5, FailedGrows
        <5> QED BY <4>2, <5>1 DEF Limiting
      <4>7. Last(q) => Escalated(t)' BY <1>0, <4>4, <4>5, <4>6 DEF Escalated
      <4> QED BY <4>3, <4>5, <4>7
    <3> QED BY <3>2, <3>3
  <2> QED BY <1>3, <2>1, <2>2, <2>4, <2>5, <2>6 DEF Commits
<1>4. ASSUME NEW t \in Tasks, NEW u \in Tasks, Board(u) PROVE Fine(t)'
  <2>1. PICK to \in BoardStatuses \cup {"ASSIGNED", "DELIVERED"} : task' = [task EXCEPT ![u].status = to]
    BY <1>4, BoardWrites
  <2>2. UNCHANGED <<exceptions, tries>> BY <1>4, BoardWrites
  <2>3. \/ task'[t].status = task[t].status \/ task'[t].status # "RETURN_TO_HUB"
        \/ "RETURN_TO_HUB" \in BoardStatuses
    BY <1>0, <2>1
  <2> QED BY <1>2, <2>2, <2>3
<1>5. ASSUME NEW t \in Tasks, UNCHANGED rows PROVE Fine(t)' BY <1>2, <1>5 DEF rows
<1>6. \A t \in Tasks : Fine(t)'
  BY <1>3, <1>4, <1>5, AskArrives, ProceedSplits, PlainLeaves DEF Next, Arrives, Fail
<1> QED BY <1>6 DEF ReturnIsEscalated, Escalated, Failures, Failed, Limiting

-----------------------------------------------------------------------------
(* Cash.                                                                   *)

LEMMA CollectSays ==
  ASSUME NEW s, NEW old \in Settlements, NEW n \in Nat
  PROVE  /\ Collect(s, old, n).collected = n
         /\ Collect(s, old, n).status = (IF n = Cod[s] THEN "COLLECTED" ELSE "DISCREPANT")
BY DEF Collect, Settlements

\* What is written on a settlement, however the requests overlap.
LEMMA SettlesAnyway ==
  ASSUME TypeInv, AllFound, NEW q \in Requests, Commits(q), NEW k \in 0..Len(cod[req[q].ship]),
         NEW r \in Settlements, Settles(q, k, r), req[q].ship \in Shipments
  PROVE  /\ r.status = "COLLECTED" => r.collected = Cod[req[q].ship]
         /\ r.status = "PENDING_COLLECTION" => k = 0 /\ (CommitTask(q) \/ InsertExpected(q))
<1> DEFINE s == req[q].ship
<1>0. Amounts \subseteq Nat BY LastMileAssumption
<1>1. CASE r = Pending /\ k = 0 /\ (CommitTask(q) \/ InsertExpected(q))
  BY <1>1 DEF Pending
<1>2. ASSUME NEW n \in Amounts, NEW old \in Settlements, r = Collect(s, old, n)
      PROVE  /\ r.status = "COLLECTED" => r.collected = Cod[s]
             /\ r.status # "PENDING_COLLECTION"
  <2>1. n \in Nat BY <1>0, <1>2
  <2>2. /\ Collect(s, old, n).collected = n
        /\ Collect(s, old, n).status = (IF n = Cod[s] THEN "COLLECTED" ELSE "DISCREPANT")
    <3> HIDE DEF s
    <3> QED BY <2>1, CollectSays
  <2> QED BY <1>2, <2>2
<1>3. ASSUME req[q].pc = "write" PROVE Row(q) \in Settlements BY <1>3, RowTyped
<1>4. CASE CommitProof(q) /\ k = req[q].row
           /\ \E n \in Amounts : r = Collect(s, IF k = 0 THEN Pending ELSE Row(q), n)
  <2>1. (IF k = 0 THEN Pending ELSE Row(q)) \in Settlements
    BY <1>4, PendingTyped, CodTyped DEF Row
  <2> QED BY <1>2, <1>4, <2>1
<1>5. CASE RecordCollection(q) /\ k = req[q].row /\ \E n \in Amounts : r = Collect(s, Row(q), n)
  BY <1>2, <1>3, <1>5 DEF RecordCollection, At
<1>6. CASE /\ RecordRemittance(q)
           /\ \E n \in Amounts :
                r = [Row(q) EXCEPT !.remitted = n,
                       !.status = IF n = Cod[s] /\ n = req[q].old.collected THEN "REMITTED" ELSE "DISCREPANT"]
  BY <1>3, <1>6 DEF RecordRemittance, At, Settlements
<1>7. CASE /\ ReconcileSettlement(q)
           /\ \E reason \in BOOLEAN :
                r = [Row(q) EXCEPT !.status = "RECONCILED", !.excused = Row(q).excused \/ reason]
  BY SMTT(40), <1>3, <1>7 DEF ReconcileSettlement, At, Settlements
<1> QED BY <1>1, <1>4, <1>5, <1>6, <1>7 DEF Settles

\* What is written on it by a request that is alone on the shipment.
LEMMA SettlesAlone ==
  ASSUME TypeInv, AllFound, NEW q \in Requests, Commits(q), NEW k \in 0..Len(cod[req[q].ship]),
         NEW r \in Settlements, Settles(q, k, r), req[q].ship \in Shipments, Current(req[q])
  PROVE  /\ k = 0 => cod[req[q].ship] = << >>
         /\ r.status = "REMITTED" => Square(req[q].ship, r)
         /\ r.status = "RECONCILED" => r.excused \/ Square(req[q].ship, r)
         /\ k # 0 /\ cod[req[q].ship][k].status = "RECONCILED" => CommitProof(q)
<1> DEFINE s == req[q].ship
<1>0. Amounts \subseteq Nat /\ Cod[s] \in Nat BY LastMileAssumption
<1>1. CASE CommitTask(q) /\ Cod[s] > 0 /\ req[q].row = 0 /\ k = 0 /\ r = Pending
  BY <1>0, <1>1 DEF Pending, CommitTask, At, Current
<1>2. CASE InsertExpected(q) /\ k = 0 /\ r = Pending
  BY <1>2 DEF Pending, InsertExpected, At, Current
<1>3. ASSUME NEW n \in Amounts, NEW old \in Settlements, r = Collect(s, old, n)
      PROVE  r.status \notin {"REMITTED", "RECONCILED"}
  BY ZenonT(60), <1>0, <1>3, CollectSays
<1>4. ASSUME req[q].pc = "write", k = req[q].row
      PROVE  /\ Row(q) \in Settlements /\ k # 0
             /\ req[q].old = Row(q) /\ cod[s][k].status # "RECONCILED"
  BY <1>4, RowTyped DEF Current, Row
<1>5. CASE /\ CommitProof(q) /\ Cod[s] # 0 /\ k = req[q].row
           /\ \E n \in Amounts : r = Collect(s, IF k = 0 THEN Pending ELSE Row(q), n)
  <2>1. (IF k = 0 THEN Pending ELSE Row(q)) \in Settlements
    BY <1>5, PendingTyped, CodTyped DEF Row
  <2>2. k = 0 => cod[s] = << >> BY <1>5 DEF CommitProof, At, Current
  <2> QED BY <1>3, <1>5, <2>1, <2>2
<1>6. CASE RecordCollection(q) /\ k = req[q].row /\ \E n \in Amounts : r = Collect(s, Row(q), n)
  BY <1>3, <1>4, <1>6 DEF RecordCollection, At
<1>7. CASE /\ RecordRemittance(q) /\ k = req[q].row
           /\ \E n \in Amounts :
                r = [Row(q) EXCEPT !.remitted = n,
                       !.status = IF n = Cod[s] /\ n = req[q].old.collected THEN "REMITTED" ELSE "DISCREPANT"]
  BY <1>4, <1>7 DEF RecordRemittance, At, Settlements, Square
<1>8. CASE /\ ReconcileSettlement(q) /\ k = req[q].row
           /\ \E reason \in BOOLEAN :
                /\ reason \/ Square(s, req[q].old)
                /\ r = [Row(q) EXCEPT !.status = "RECONCILED", !.excused = Row(q).excused \/ reason]
  <2>1. req[q].pc = "write" BY <1>8 DEF ReconcileSettlement, At
  <2>2. PICK reason \in BOOLEAN :
          /\ reason \/ Square(s, Row(q))
          /\ r = [Row(q) EXCEPT !.status = "RECONCILED", !.excused = Row(q).excused \/ reason]
    BY <1>4, <1>8, <2>1
  <2>3. /\ r.status = "RECONCILED" /\ r.collected = Row(q).collected /\ r.remitted = Row(q).remitted
        /\ r.excused = (Row(q).excused \/ reason)
    BY <1>4, <1>8, <2>1, <2>2 DEF Settlements
  <2>4. r.excused \/ Square(s, r) BY <2>2, <2>3 DEF Square
  <2> QED BY <1>4, <1>8, <2>1, <2>3, <2>4
<1> QED BY <1>1, <1>2, <1>5, <1>6, <1>7, <1>8 DEF Settles

\* The steps that change a settlement are those of the requests that commit one.
LEMMA CodWrites ==
  ASSUME TypeInv, AllFound, Next, NEW s \in Shipments
  PROVE  \/ cod'[s] = cod[s]
         \/ \E q \in Requests : Commits(q) /\ req[q].ship = s /\
              \E k \in 0..Len(cod[s]), r \in Settlements : Settles(q, k, r) /\ Writes(s, k, r)
<1>1. ASSUME NEW q \in Requests, Commits(q)
      PROVE  \/ cod'[s] = cod[s]
             \/ /\ req[q].ship = s
                /\ \E k \in 0..Len(cod[s]), r \in Settlements : Settles(q, k, r) /\ Writes(s, k, r)
  <2>1. CASE req[q].ship # s BY <1>1, <2>1, CommitElsewhere DEF Same
  <2>2. CASE req[q].ship = s BY <1>1, <2>2, CommitSettles
  <2> QED BY <2>1, <2>2
<1>2. ASSUME UNCHANGED rows PROVE cod'[s] = cod[s] BY <1>2 DEF rows
<1> QED BY <1>1, <1>2, AskArrives, ProceedSplits, PlainLeaves, BoardWrites DEF Next, Arrives, Fail

LEMMA SettlementStep ==
  ASSUME Types, Noted, AllCurrent, OneSettlement, SettlementAgrees, Next
  PROVE  OneSettlement' /\ SettlementAgrees'
<1>0. TypeInv /\ AllFound /\ contended \subseteq contended' BY HistoryTyped DEF Types
<1> DEFINE Agrees(s, r) == /\ r.status = "COLLECTED" => r.collected = Cod[s]
                           /\ s \notin contended' => /\ r.status = "REMITTED" => Square(s, r)
                                                     /\ r.status = "RECONCILED" => r.excused \/ Square(s, r)
           Money(s, c) == /\ s \notin contended' => Len(c) <= 1
                          /\ \A k \in 1..Len(c) : Agrees(s, c[k])
<1>1. ASSUME NEW s \in Shipments PROVE Money(s, cod[s])
  BY <1>0 DEF OneSettlement, SettlementAgrees
<1>2. ASSUME NEW s \in Shipments PROVE Money(s, cod'[s])
  <2>1. CASE cod'[s] = cod[s] BY <1>1, <2>1
  <2>2. ASSUME NEW q \in Requests, Commits(q), req[q].ship = s,
               NEW k \in 0..Len(cod[s]), NEW r \in Settlements, Settles(q, k, r), Writes(s, k, r)
        PROVE  Money(s, cod'[s])
    <3> DEFINE l == Len(cod[s])
    <3>0. l \in Nat BY <1>0, CodTyped
    <3>1. /\ Len(cod'[s]) = (IF k = 0 THEN l + 1 ELSE l)
          /\ cod'[s][IF k = 0 THEN l + 1 ELSE k] = r
          /\ \A j \in 1..l : j # k => cod'[s][j] = cod[s][j]
      BY <1>0, <2>2, WritesTyped
    <3>2. r.status = "COLLECTED" => r.collected = Cod[s] BY <1>0, <2>2, SettlesAnyway
    <3>3. s \notin contended' => Current(req[q])
      <4>1. req[q] # Idle BY <1>0, <2>2, PlainMoves
      <4> QED BY <1>0, <2>2, <4>1 DEF AllCurrent
    <3>4. s \notin contended' => /\ k = 0 => l = 0
                                 /\ r.status = "REMITTED" => Square(s, r)
                                 /\ r.status = "RECONCILED" => r.excused \/ Square(s, r)
      BY <1>0, <2>2, <3>3, SettlesAlone
    <3>5. Agrees(s, r) BY <3>2, <3>4
    <3>6. \A j \in 1..l : Agrees(s, cod[s][j]) BY <1>1
    <3> HIDE DEF Agrees, l
    <3>7. \A j \in 1..Len(cod'[s]) : cod'[s][j] = r \/ (j \in 1..l /\ cod'[s][j] = cod[s][j])
      BY <3>0, <3>1
    <3>8. \A j \in 1..Len(cod'[s]) : Agrees(s, cod'[s][j]) BY <3>5, <3>6, <3>7
    <3>9. s \notin contended' => Len(cod'[s]) <= 1 BY <1>1, <3>0, <3>1, <3>4 DEF l
    <3> QED BY <3>8, <3>9
  <2> QED BY <1>0, <2>1, <2>2, CodWrites
<1> QED BY <1>2 DEF OneSettlement, SettlementAgrees

\* What was collected stays collected.
LEMMA CollectedStep ==
  ASSUME Types, DeliveredIsCollected, Next
  PROVE  DeliveredIsCollected'
<1>0. TypeInv /\ AllFound /\ TypeInv' BY TypesStep DEF Types
<1> DEFINE Some(c) == \E k \in 1..Len(c) : c[k].status # "PENDING_COLLECTION"
<1>1. ASSUME NEW s \in Shipments, Some(cod[s]) PROVE Some(cod'[s])
  <2>1. ASSUME NEW q \in Requests, Commits(q), req[q].ship = s,
               NEW k \in 0..Len(cod[s]), NEW r \in Settlements, Settles(q, k, r), Writes(s, k, r)
        PROVE  Some(cod'[s])
    <3> DEFINE l == Len(cod[s])
    <3>0. l \in Nat BY <1>0, CodTyped
    <3>1. /\ Len(cod'[s]) = (IF k = 0 THEN l + 1 ELSE l)
          /\ k # 0 => cod'[s][k] = r
          /\ \A j \in 1..l : j # k => cod'[s][j] = cod[s][j]
      BY <1>0, <2>1, WritesTyped
    <3>2. k # 0 => r.status # "PENDING_COLLECTION" BY <1>0, <2>1, SettlesAnyway
    <3>3. PICK j \in 1..l : cod[s][j].status # "PENDING_COLLECTION" BY <1>1
    <3>4. j \in 1..Len(cod'[s]) BY <3>0, <3>1
    <3>5. cod'[s][j].status # "PENDING_COLLECTION" BY <3>1, <3>2, <3>3
    <3> QED BY <3>4, <3>5
  <2> QED BY <1>0, <1>1, <2>1, CodWrites
<1>2. ASSUME NEW t \in Taken', t \notin Taken, Cod[ShipOf[t]] > 0 PROVE Some(cod'[ShipOf[t]])
  <2> DEFINE s == ShipOf[t]
  <2>0. t \in Tasks /\ s \in Shipments BY <1>0, LastMileAssumption DEF Taken, TypeInv, TypeOK
  <2>1. PICK q \in Requests : CommitProof(q) /\ req[q].task = t /\ req[q].ship = s
    <3>1. ASSUME NEW q \in Requests, Commits(q) PROVE CommitProof(q) /\ req[q].task = t /\ req[q].ship = s
      BY <1>0, <1>2, <3>1, ProofWrites DEF Taken
    <3>2. ASSUME NEW u \in Tasks, Board(u) PROVE FALSE
      BY <1>0, <1>2, <3>2, BoardWrites DEF Taken
    <3>3. ASSUME UNCHANGED <<proof, boarded>> PROVE FALSE BY <1>2, <3>3 DEF Taken
    <3> QED BY <1>0, <3>1, <3>2, <3>3, AskArrives, ProceedSplits, PlainLeaves
            DEF Next, Arrives, Fail, rows, history
  <2>2. Commits(q) BY <2>1 DEF Commits
  <2>3. ASSUME NEW k \in 0..Len(cod[s]), NEW r \in Settlements, Settles(q, k, r), Writes(s, k, r)
        PROVE  Some(cod'[s])
    <3> DEFINE l == Len(cod[s])
    <3>0. l \in Nat BY <1>0, <2>0, CodTyped
    <3>1. /\ Len(cod'[s]) = (IF k = 0 THEN l + 1 ELSE l)
          /\ cod'[s][IF k = 0 THEN l + 1 ELSE k] = r
      BY <1>0, <2>0, <2>3, WritesTyped
    <3>2. ~CommitTask(q) /\ ~InsertExpected(q) BY <2>1 DEF CommitProof, CommitTask, InsertExpected, At
    <3>3. r.status # "PENDING_COLLECTION" BY <1>0, <2>0, <2>1, <2>2, <2>3, <3>2, SettlesAnyway
    <3> QED BY <3>0, <3>1, <3>3
  <2>4. \E k \in 0..Len(cod[s]), r \in Settlements : Writes(s, k, r) /\ Settles(q, k, r)
    <3> DEFINE k == req[q].row
    <3>1. k \in 0..Len(cod[s]) BY <1>0, <2>1 DEF CommitProof, At, AllFound, Found
    <3>2. PICK n \in Amounts :
            cod' = [cod EXCEPT ![s] = IF k = 0 THEN Append(cod[s], Collect(s, Pending, n))
                                      ELSE [cod[s] EXCEPT ![k] = Collect(s, cod[s][k], n)]]
      BY <1>2, <2>1 DEF CommitProof
    <3> DEFINE r == Collect(s, IF k = 0 THEN Pending ELSE Row(q), n)
    <3>3. (IF k = 0 THEN Pending ELSE Row(q)) \in Settlements
      BY <1>0, <2>0, <2>1, <3>1, PendingTyped, CodTyped DEF Row
    <3>4. r \in Settlements BY <3>3, CollectTyped, LastMileAssumption
    <3>5. Writes(s, k, r) BY <2>1, <3>2 DEF Writes, Row
    <3>6. Cod[req[q].ship] # 0 BY <1>2, <2>0, <2>1, LastMileAssumption
    <3>7. r = Collect(req[q].ship, IF k = 0 THEN Pending ELSE Row(q), n) BY <2>1
    <3>8. Settles(q, k, r) BY <2>1, <3>6, <3>7 DEF Settles
    <3> QED BY <3>1, <3>4, <3>5, <3>8
  <2> QED BY <2>3, <2>4
<1>3. ASSUME NEW t \in Taken', Cod[ShipOf[t]] > 0 PROVE Some(cod'[ShipOf[t]])
  <2>1. ShipOf[t] \in Shipments BY <1>0, LastMileAssumption DEF Taken, TypeInv, TypeOK
  <2>2. t \in Taken => Some(cod[ShipOf[t]]) BY <1>3 DEF DeliveredIsCollected, Taken
  <2> QED BY <1>1, <1>2, <1>3, <2>1, <2>2
<1> QED BY <1>3 DEF DeliveredIsCollected, Taken

LEMMA ClosedStep ==
  ASSUME Types, Noted, AllCurrent, Next, NEW s \in Shipments, s \notin contended',
         NEW k \in 1..Len(cod[s]), cod[s][k].status = "RECONCILED", cod'[s][k] # cod[s][k]
  PROVE  \E t \in proof' \ proof : ShipOf[t] = s
<1>0. TypeInv /\ AllFound /\ s \notin contended /\ Len(cod[s]) \in Nat BY HistoryTyped, CodTyped DEF Types
<1>1. PICK q \in Requests : Commits(q) /\ req[q].ship = s /\
        \E l \in 0..Len(cod[s]), r \in Settlements : Settles(q, l, r) /\ Writes(s, l, r)
  BY <1>0, CodWrites
<1>2. PICK l \in 0..Len(cod[s]), r \in Settlements : Settles(q, l, r) /\ Writes(s, l, r) BY <1>1
<1>3. req[q] # Idle /\ req[q] \in RequestRecords BY <1>0, <1>1, PlainMoves, ReqTyped
<1>4. Current(req[q]) BY <1>0, <1>1, <1>3 DEF AllCurrent
<1>5. l = k BY <1>0, <1>2, WritesTyped
<1>6. l # 0 BY <1>0, <1>5
<1>7. CommitProof(q) BY <1>0, <1>1, <1>2, <1>4, <1>5, <1>6, SettlesAlone
<1>8. req[q].op = "pod" /\ req[q].pc = "commit" /\ proof' = proof \cup {req[q].task}
  BY <1>7 DEF CommitProof, At
<1>9. req[q].task \notin proof BY <1>4, <1>8 DEF Current
<1>10. ShipOf[req[q].task] = s BY <1>0, <1>1, <1>8, TaskOf DEF TaskOps
<1> QED BY <1>8, <1>9, <1>10

-----------------------------------------------------------------------------
(* The invariant, and what it shows.                                       *)

\* What holds whatever the staff and the shipments' first statuses are.
Base ==
  /\ Types /\ Noted /\ AllCurrent
  /\ boarded \subseteq proof
  /\ ProvenIsDelivered /\ OneProofPerShipment
  /\ AttemptsAgree /\ Numbered /\ CashAgrees

LEMMA BaseInit ==
  ASSUME Init
  PROVE  Base
<1>0. /\ proof = {} /\ boarded = {} /\ contended = {}
      /\ \A q \in Requests : req[q] = Idle
      /\ \A t \in Tasks : task[t] = [status |-> "NONE", attempts |-> 0] /\ tries[t] = << >> /\ exceptions[t] = 0
      /\ \A s \in Shipments : cod[s] \in {<< >>, <<Pending>>}
  BY DEF Init
<1>1. Types BY TypesInit
<1>2. Noted /\ AllCurrent BY <1>0 DEF Noted, AllCurrent
<1>3. ProvenIsDelivered /\ OneProofPerShipment /\ DeliveredIsCollected
  BY <1>0 DEF ProvenIsDelivered, OneProofPerShipment, DeliveredIsCollected
<1>4. \A t \in Tasks : Failures(t) = {} BY <1>0 DEF Failures
<1>5. Cardinality({}) = 0 BY FS_EmptySet
<1>6. AttemptsCounted /\ Numbered
  <2>1. ASSUME NEW t \in Tasks
        PROVE  {k \in Failures(t) : tries[t][k].n >= MaxAttempts[t]} = {}
    BY <1>4
  <2>2. ASSUME NEW t \in Tasks
        PROVE  /\ task[t].attempts = Cardinality(Failures(t)) + (IF t \in proof \ boarded THEN 1 ELSE 0)
               /\ exceptions[t] = Cardinality({k \in Failures(t) : tries[t][k].n >= MaxAttempts[t]})
    <3>1. task[t].attempts = 0 /\ exceptions[t] = 0 /\ t \notin proof \ boarded BY <1>0
    <3>2. Cardinality(Failures(t)) = 0 BY <1>4, <1>5
    <3>3. Cardinality({k \in Failures(t) : tries[t][k].n >= MaxAttempts[t]}) = 0 BY <2>1, <1>5
    <3> QED BY <3>1, <3>2, <3>3
  <2>3. Numbered BY <1>4 DEF Numbered
  <2>4. \A t \in Tasks : \A j, k \in Failures(t) : tries[t][j].n = tries[t][k].n => j = k BY <1>4
  <2> QED BY <2>2, <2>3, <2>4 DEF AttemptsCounted
<1>7. ReturnIsEscalated BY <1>0 DEF ReturnIsEscalated
<1>8. OneSettlement /\ SettlementAgrees
  <2>1. ASSUME NEW s \in Shipments
        PROVE  Len(cod[s]) <= 1 /\ \A k \in 1..Len(cod[s]) : cod[s][k] = Pending
    <3>1. CASE cod[s] = << >> BY <3>1
    <3>2. CASE cod[s] = <<Pending>>
      <4>1. Len(cod[s]) = 1 /\ cod[s][1] = Pending BY <3>2
      <4> QED BY <4>1
    <3> QED BY <1>0, <3>1, <3>2
  <2>2. Pending.status = "PENDING_COLLECTION" BY DEF Pending
  <2> QED BY <2>1, <2>2 DEF OneSettlement, SettlementAgrees
<1> QED BY <1>0, <1>1, <1>2, <1>3, <1>6, <1>7, <1>8 DEF Base, AttemptsAgree, CashAgrees

LEMMA BaseStep ==
  ASSUME Base, Next
  PROVE  Base'
<1>1. Types' BY TypesStep, FoundStep DEF Base, Types
<1>2. Noted' /\ AllCurrent' BY NotedStep, CurrentStep DEF Base, Types
<1>3. (boarded \subseteq proof)' BY BoardedStep DEF Base, Types
<1>4. ProvenIsDelivered' /\ OneProofPerShipment' BY ProvenStep DEF Base
<1>5. AttemptsAgree' /\ Numbered' BY CountedStep, EscalatedStep DEF Base, AttemptsAgree, Types
<1>6. CashAgrees' BY SettlementStep, CollectedStep DEF Base, CashAgrees
<1> QED BY <1>1, <1>2, <1>3, <1>4, <1>5, <1>6 DEF Base

LEMMA BaseStutter ==
  ASSUME Base, UNCHANGED vars
  PROVE  Base'
<1>1. Types' BY TypesStutter DEF Base
<1>2. UNCHANGED <<status, task, tries, proof, exceptions, cod, req, boarded, contended>>
  BY DEF vars, rows, history
<1>3. Noted' /\ AllCurrent' BY <1>2 DEF Base, Noted, AllCurrent, Current, Moves, Taken
<1>4. (boarded \subseteq proof)' /\ ProvenIsDelivered' /\ OneProofPerShipment'
  BY <1>2 DEF Base, ProvenIsDelivered, OneProofPerShipment
<1>5. AttemptsAgree' /\ Numbered'
  <2>1. \A t : Failures(t)' = Failures(t) BY <1>2 DEF Failures
  <2>2. AttemptsCounted' <=> AttemptsCounted BY <1>2, <2>1 DEF AttemptsCounted
  <2>3. ReturnIsEscalated' <=> ReturnIsEscalated BY <1>2, <2>1 DEF ReturnIsEscalated
  <2>4. Numbered' <=> Numbered BY <1>2, <2>1 DEF Numbered
  <2> QED BY <2>2, <2>3, <2>4 DEF Base, AttemptsAgree
<1>6. CashAgrees' BY <1>2 DEF Base, CashAgrees, OneSettlement, DeliveredIsCollected, SettlementAgrees
<1> QED BY <1>1, <1>3, <1>4, <1>5, <1>6 DEF Base

LEMMA BaseHolds == Spec => []Base
<1>1. Init => Base BY BaseInit
<1>2. Base /\ [Next]_vars => Base' BY BaseStep, BaseStutter
<1> QED BY <1>1, <1>2, PTL DEF Spec

\* A proof the delivery service took is of a shipment that is DELIVERED, and of
\* two tasks of one shipment only one is delivered, unless requests overlapped.
THEOREM ProofsAreOfDeliveries == Spec => [](ProvenIsDelivered /\ OneProofPerShipment)
<1>1. Base => ProvenIsDelivered /\ OneProofPerShipment BY DEF Base
<1> QED BY <1>1, BaseHolds, PTL

\* completeDeliveryWithPOD and createDeliveryTask: where only they bring a
\* shipment to DELIVERED and to the last mile - the staff do not, and it is not
\* there at first - every DELIVERED shipment has its proof and every one handed
\* over its task, unless a transaction broke after its nested one had committed.
THEOREM ProofsAgree ==
  ASSUME StaffTargets \cap HandedOver = {},
         \A f \in Starts, s \in Shipments : f[s] \notin HandedOver
  PROVE  Spec => []ProofAgrees
<1> DEFINE I == Base /\ DeliveredHasProof /\ HandedOverHasTask
<1>1. Init => I
  <2>1. Init => \A s \in Shipments : status[s] \notin HandedOver BY DEF Init
  <2> QED BY <2>1, BaseInit DEF DeliveredHasProof, HandedOverHasTask, HandedOver
<1>2. I /\ [Next]_vars => I'
  <2>1. "DELIVERED" \notin StaffTargets BY DEF HandedOver
  <2>2. I /\ Next => I' BY <2>1, BaseStep, DeliveredStep, HandedStep DEF Base
  <2>3. I /\ UNCHANGED vars => I'
    <3>1. UNCHANGED vars => DeliveredHasProof' = DeliveredHasProof /\ HandedOverHasTask' = HandedOverHasTask
      BY DEF vars, rows, history, DeliveredHasProof, HandedOverHasTask
    <3> QED BY <3>1, BaseStutter
  <2> QED BY <2>2, <2>3
<1>3. I => ProofAgrees BY DEF Base, ProofAgrees
<1> QED BY <1>1, <1>2, <1>3, PTL DEF Spec

\* recordDeliveryAttempt: the failures and the delivery of a task are numbered
\* without a gap or a repetition as attempt_count says, an exception for each that
\* reached the limit, and no task returns to the hub without one.
THEOREM AttemptsAgreeAlways == Spec => []AttemptsAgree
<1>1. Base => AttemptsAgree BY DEF Base
<1> QED BY <1>1, BaseHolds, PTL

\* codService and completeDeliveryWithPOD: the cash of a shipment is on one
\* settlement, collected once delivered, and its status agrees with its amounts.
THEOREM CashAgreesAlways == Spec => []CashAgrees
<1>1. Base => CashAgrees BY DEF Base
<1> QED BY <1>1, BaseHolds, PTL

\* A reconciled settlement changes only when the proof of the delivery comes after.
THEOREM ReconciledStaysClosed == Spec => ReconciledIsClosed
<1> DEFINE Closed == \A s \in Shipments \ contended' : \A k \in 1..Len(cod[s]) :
                       cod[s][k].status = "RECONCILED" /\ cod'[s][k] # cod[s][k]
                         => \E t \in proof' \ proof : ShipOf[t] = s
<1>1. Base /\ [Next]_vars => [Closed]_vars BY ClosedStep DEF Base
<1>2. Spec => [][Closed]_vars BY <1>1, BaseHolds, PTL DEF Spec
<1> QED BY <1>2 DEF ReconciledIsClosed
=============================================================================
