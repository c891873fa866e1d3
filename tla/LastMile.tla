------------------------------ MODULE LastMile ------------------------------
(***************************************************************************)
(* Last-mile delivery: delivery tasks, attempts, proof of delivery and     *)
(* exceptions (server/services/deliveryExecutionService.js), the cash      *)
(* collected on delivery (server/services/codService.js), the driver's and *)
(* dispatcher's board that writes the same rows (server/routes/            *)
(* deliveries.js, dispatch.js) and the staff who move shipments.           *)
(*                                                                         *)
(* A handler reads its task or settlement outside any transaction.  In the *)
(* transaction that follows it writes the task row, which stays locked,    *)
(* and calls transitionShipmentStatus, which reads the shipment, checks    *)
(* the table and commits on a connection of its own: the shipment has      *)
(* moved even if the transaction around it then rolls back.                *)
(***************************************************************************)
EXTENDS ShipmentStatus, Naturals, Sequences, FiniteSets

CONSTANTS
  Requests,      \* requests that may be in progress at once
  Shipments,
  Tasks,         \* one per call of createDeliveryTask
  ShipOf,        \* task -> the shipment it delivers
  MaxAttempts,   \* task -> max_attempts
  Cod,           \* shipment -> cod_amount, 0 when nothing is to be collected
  Amounts,       \* bound: amounts of cash handed over
  Starts,        \* where the shipments may be at first
  Asleep,        \* bound: nobody asks anything of a shipment in these statuses
  StaffTargets,  \* targets staff send to POST /shipments/:id/transition
  BoardStatuses, \* statuses the board writes on a task
  MaxTries,      \* bound: task -> attempts recorded for it
  AfterRace,     \* bound: new requests once two on one shipment have overlapped?
  Faults         \* "rollback": an outer transaction may fail

TASK_STATUSES == {"PENDING_ASSIGNMENT", "ASSIGNED", "IN_TRANSIT", "RESCHEDULED", "RETURN_TO_HUB",
                  "DELIVERED", "RETURN_RECEIVED", "FAILED", "RETURN_TO_BRANCH"}

ASSUME LastMileAssumption ==
  /\ ShipOf \in [Tasks -> Shipments]
  /\ MaxAttempts \in [Tasks -> Nat \ {0}]
  /\ Cod \in [Shipments -> Nat]
  /\ Amounts \subseteq Nat /\ MaxTries \in [Tasks -> Nat]
  /\ Starts \subseteq [Shipments -> SHIPMENT_STATUSES]
  /\ Asleep \subseteq SHIPMENT_STATUSES /\ StaffTargets \subseteq SHIPMENT_STATUSES
  /\ BoardStatuses \subseteq TASK_STATUSES

VARIABLES
  status,      \* shipments.status
  task,        \* deliveries: status ("NONE" before the row exists) and attempt_count
  tries,       \* delivery_attempts of each task, in the order they committed
  proof,       \* tasks with a row in proof_of_delivery
  exceptions,  \* exceptions raised for each task
  cod,         \* cod_settlements of each shipment
  req,         \* the requests in progress
  boarded,     \* history: tasks whose proof was taken on the board
  broken,      \* history: shipments a transaction moved before it rolled back
  contended    \* history: shipments on which two requests overlapped

history == <<boarded, broken, contended>>
rows == <<task, tries, proof, exceptions, cod>>
vars == <<status, rows, req, history>>

Pending == [status |-> "PENDING_COLLECTION", collected |-> 0, remitted |-> 0, excused |-> FALSE]

Idle == [pc |-> "idle", op |-> "none", task |-> "none", ship |-> "none", count |-> 0,
         aim |-> "none", row |-> 0, old |-> Pending]

\* Booking inserts the settlement; shipments booked before it did have none.
Init ==
  /\ status \in Starts
  /\ task = [t \in Tasks |-> [status |-> "NONE", attempts |-> 0]]
  /\ tries = [t \in Tasks |-> << >>]
  /\ proof = {} /\ boarded = {} /\ broken = {} /\ contended = {}
  /\ exceptions = [t \in Tasks |-> 0]
  /\ cod \in {f \in [Shipments -> {<< >>, <<Pending>>}] : \A s \in Shipments : Cod[s] = 0 => f[s] = << >>}
  /\ req = [q \in Requests |-> Idle]

-----------------------------------------------------------------------------
(* Requests, locks, history.                                               *)

At(q, op, pc) == req[q].op = op /\ req[q].pc = pc
End(q) == req' = [req EXCEPT ![q] = Idle]
Goto(q, pc) == req' = [req EXCEPT ![q].pc = pc]

\* A transaction that has run its first statements.
Open(q) == req[q].pc \in {"check", "move", "cod", "commit"} /\ req[q].op # "staff"

\* The row of a task is locked by the transaction that wrote it, a settlement
\* by a transaction about to commit it.
TaskLocked(t) ==
  \E p \in Requests : Open(p) /\ req[p].task = t /\ req[p].op \in {"start", "fail", "pod", "return"}
CodLocked(s, k) == \E p \in Requests : req[p].pc = "commit" /\ req[p].ship = s /\ req[p].row = k

Busy(s, q) == \E p \in Requests \ {q} : req[p].ship = s
Contend(s, q) == contended' = contended \cup (IF Busy(s, q) THEN {s} ELSE {})
MayAsk == AfterRace \/ contended = {}

Begin(q, r) ==
  /\ req[q] = Idle
  /\ MayAsk /\ status[r.ship] \notin Asleep
  /\ req' = [req EXCEPT ![q] = r]
  /\ Contend(r.ship, q)
  /\ UNCHANGED <<status, rows, boarded, broken>>

\* A handler of a task reads it; aim is the status it will ask for.
BeginTask(q, op, t, pc, aim) ==
  /\ task[t].status # "NONE"
  /\ Begin(q, [Idle EXCEPT !.pc = pc, !.op = op, !.task = t, !.ship = ShipOf[t],
                           !.count = task[t].attempts, !.aim = aim])

-----------------------------------------------------------------------------
(* transitionShipmentStatus, on its own connection.                        *)

AfterMove(op) == IF op \in {"create", "pod"} THEN "cod" ELSE "commit"

\* A refusal throws, and rolls back the transaction it is called from.
CheckTransition(q) ==
  /\ req[q].pc = "check"
  /\ IF Allows(status[req[q].ship], req[q].aim) THEN Goto(q, "move") ELSE End(q)
  /\ UNCHANGED <<status, rows, history>>

MoveShipment(q) ==
  /\ req[q].pc = "move"
  /\ status' = [status EXCEPT ![req[q].ship] = req[q].aim]
  /\ IF req[q].op = "staff" THEN End(q) ELSE Goto(q, AfterMove(req[q].op))
  /\ UNCHANGED <<rows, history>>

\* POST /shipments/:id/transition.
StaffTransition(q, s, aim) ==
  Begin(q, [Idle EXCEPT !.pc = "check", !.op = "staff", !.ship = s, !.aim = aim])

-----------------------------------------------------------------------------
(* createDeliveryTask, assignDeliveryTask, startDelivery.                  *)

\* The INSERT of the task is invisible until the commit.
CreateDeliveryTask(q, t) ==
  /\ task[t].status = "NONE"
  /\ \A p \in Requests : req[p].task # t
  /\ status[ShipOf[t]] \in {"AT_HUB", "READY_FOR_DELIVERY", "READY_FOR_PICKUP", "BOOKED", "SORTED"}
  /\ Begin(q, [Idle EXCEPT !.pc = "check", !.op = "create", !.task = t, !.ship = ShipOf[t],
                           !.aim = "READY_FOR_DELIVERY"])

\* The settlement of the shipment, if a committed row is found, 0 otherwise.
FindSettlement(q) ==
  LET s == req[q].ship
  IN /\ req[q].pc = "cod"
     /\ \E k \in 0..Len(cod[s]) :
          /\ k = 0 <=> cod[s] = << >> \/ Cod[s] = 0
          /\ ~CodLocked(s, k) \/ k = 0
          /\ req' = [req EXCEPT ![q].pc = "commit", ![q].row = k]
     /\ UNCHANGED <<status, rows, history>>

\* The settlement it found is linked to the task; otherwise one is inserted.
CommitTask(q) ==
  LET s == req[q].ship
  IN /\ At(q, "create", "commit")
     /\ task' = [task EXCEPT ![req[q].task].status = "PENDING_ASSIGNMENT"]
     /\ cod' = IF Cod[s] > 0 /\ req[q].row = 0 THEN [cod EXCEPT ![s] = Append(cod[s], Pending)] ELSE cod
     /\ End(q)
     /\ UNCHANGED <<status, tries, proof, exceptions, history>>

\* assignDeliveryTask and every status the board writes: unconditional.
SetTaskStatus(t, to) ==
  /\ task[t].status # "NONE"
  /\ ~TaskLocked(t)
  /\ MayAsk
  /\ task' = [task EXCEPT ![t].status = to]
  /\ contended' = contended \cup {s \in {ShipOf[t]} : \E p \in Requests : req[p].ship = s}
  /\ UNCHANGED <<status, tries, proof, exceptions, cod, req, boarded, broken>>

ReadForStart(q, t) == BeginTask(q, "start", t, "lock", "OUT_FOR_DELIVERY")

CommitStart(q) ==
  /\ At(q, "start", "commit")
  /\ task' = [task EXCEPT ![req[q].task].status = "IN_TRANSIT"]
  /\ End(q)
  /\ UNCHANGED <<status, tries, proof, exceptions, cod, history>>

-----------------------------------------------------------------------------
(* recordDeliveryAttempt.                                                  *)

\* SUCCESS and RESCHEDULED, both NOTED here, only add a row.
ReadForAttempt(q, t) ==
  /\ Len(tries[t]) < MaxTries[t]
  /\ BeginTask(q, "attempt", t, "insert", "none")

\* Mutant: an attempt that did not fail is counted too.
CommitCounted(q) ==
  LET t == req[q].task
  IN /\ At(q, "attempt", "insert")
     /\ tries' = [tries EXCEPT ![t] = Append(tries[t], [n |-> req[q].count + 1, result |-> "NOTED"])]
     /\ End(q)
     /\ task' = [task EXCEPT ![t].attempts = req[q].count + 1]
     /\ UNCHANGED <<status, proof, exceptions, cod, history>>

CommitAttempt(q) ==
  LET t == req[q].task
  IN /\ At(q, "attempt", "insert")
     /\ tries' = [tries EXCEPT ![t] = Append(tries[t], [n |-> req[q].count + 1, result |-> "NOTED"])]
     /\ End(q)
     /\ UNCHANGED <<status, task, proof, exceptions, cod, history>>

\* Has the attempt the request counts reached the limit?
Last(q) == req[q].count + 1 >= MaxAttempts[req[q].task]

ReadForFailure(q, t) ==
  /\ Len(tries[t]) < MaxTries[t]
  /\ BeginTask(q, "fail", t, "lock", "DELIVERY_FAILED")

\* The first statements of a transaction on an existing task write its row.
LockTask(q) ==
  /\ req[q].pc = "lock" /\ req[q].op \in {"start", "fail", "return"}
  /\ ~TaskLocked(req[q].task)
  /\ Goto(q, IF req[q].op = "fail" /\ ~Last(q) THEN "commit" ELSE "check")
  /\ UNCHANGED <<status, rows, history>>

\* Mutant: the task takes the status of the shipment.
CommitFailureMixed(q) ==
  LET t == req[q].task
      n == req[q].count + 1
  IN /\ At(q, "fail", "commit")
     /\ tries' = [tries EXCEPT ![t] = Append(tries[t], [n |-> n, result |-> "FAILED"])]
     /\ task' = [task EXCEPT ![t] = [status |-> IF Last(q) THEN "DELIVERY_FAILED" ELSE "RESCHEDULED",
                                     attempts |-> n]]
     /\ exceptions' = [exceptions EXCEPT ![t] = exceptions[t] + (IF Last(q) THEN 1 ELSE 0)]
     /\ End(q)
     /\ UNCHANGED <<status, proof, cod, history>>

CommitFailure(q) ==
  LET t == req[q].task
      n == req[q].count + 1
  IN /\ At(q, "fail", "commit")
     /\ tries' = [tries EXCEPT ![t] = Append(tries[t], [n |-> n, result |-> "FAILED"])]
     /\ task' = [task EXCEPT ![t] = [status |-> IF Last(q) THEN "RETURN_TO_HUB" ELSE "RESCHEDULED",
                                     attempts |-> n]]
     /\ exceptions' = [exceptions EXCEPT ![t] = exceptions[t] + (IF Last(q) THEN 1 ELSE 0)]
     /\ End(q)
     /\ UNCHANGED <<status, proof, cod, history>>

-----------------------------------------------------------------------------
(* completeDeliveryWithPOD, processReturnToHub.                            *)

ReadForProof(q, t) ==
  /\ task[t].status # "DELIVERED"
  /\ BeginTask(q, "pod", t, "lock", "DELIVERED")

\* The proof, whose delivery_id is unique, the attempt and the task are written.
InsertProof(q) ==
  LET t == req[q].task
  IN /\ At(q, "pod", "lock")
     /\ ~TaskLocked(t)
     /\ IF t \in proof THEN End(q) ELSE Goto(q, "check")
     /\ UNCHANGED <<status, rows, history>>

\* What the driver declares as collected, COLLECTED when it is what was expected.
Collect(s, old, n) ==
  [old EXCEPT !.collected = n, !.status = IF n = Cod[s] THEN "COLLECTED" ELSE "DISCREPANT"]

\* Mutant: the proof is written only with the cash.
CommitUnproven(q) ==
  LET t == req[q].task
      s == req[q].ship
      k == req[q].row
      n == req[q].count + 1
  IN /\ At(q, "pod", "commit")
     /\ proof' = IF Cod[s] = 0 THEN proof ELSE proof \cup {t}
     /\ tries' = [tries EXCEPT ![t] = Append(tries[t], [n |-> n, result |-> "SUCCESS"])]
     /\ task' = [task EXCEPT ![t] = [status |-> "DELIVERED", attempts |-> n]]
     /\ IF Cod[s] = 0 THEN UNCHANGED cod
        ELSE \E paid \in Amounts :
               cod' = [cod EXCEPT ![s] = IF k = 0 THEN Append(cod[s], Collect(s, Pending, paid))
                                         ELSE [cod[s] EXCEPT ![k] = Collect(s, cod[s][k], paid)]]
     /\ End(q)
     /\ UNCHANGED <<status, exceptions, history>>

CommitProof(q) ==
  LET t == req[q].task
      s == req[q].ship
      k == req[q].row
      n == req[q].count + 1
  IN /\ At(q, "pod", "commit")
     /\ proof' = proof \cup {t}
     /\ tries' = [tries EXCEPT ![t] = Append(tries[t], [n |-> n, result |-> "SUCCESS"])]
     /\ task' = [task EXCEPT ![t] = [status |-> "DELIVERED", attempts |-> n]]
     /\ IF Cod[s] = 0 THEN UNCHANGED cod
        ELSE \E paid \in Amounts :
               cod' = [cod EXCEPT ![s] = IF k = 0 THEN Append(cod[s], Collect(s, Pending, paid))
                                         ELSE [cod[s] EXCEPT ![k] = Collect(s, cod[s][k], paid)]]
     /\ End(q)
     /\ UNCHANGED <<status, exceptions, history>>

ReadForReturn(q, t) == BeginTask(q, "return", t, "lock", "RETURNED")

CommitReturn(q) ==
  /\ At(q, "return", "commit")
  /\ task' = [task EXCEPT ![req[q].task].status = "RETURN_RECEIVED"]
  /\ End(q)
  /\ UNCHANGED <<status, tries, proof, exceptions, cod, history>>

\* POST /deliveries/:id/pod: no shipment, attempt or settlement is touched.  A
\* second proof is an UPDATE, which the trigger on proof_of_delivery refuses.
BoardProof(t) ==
  /\ task[t].status # "NONE" /\ t \notin proof
  /\ ~TaskLocked(t)
  /\ MayAsk
  /\ proof' = proof \cup {t} /\ boarded' = boarded \cup {t}
  /\ task' = [task EXCEPT ![t].status = "DELIVERED"]
  /\ contended' = contended \cup {s \in {ShipOf[t]} : \E p \in Requests : req[p].ship = s}
  /\ UNCHANGED <<status, tries, exceptions, cod, req, broken>>

-----------------------------------------------------------------------------
(* codService.                                                             *)

\* createExpectedSettlement: an existing settlement is returned.
ReadForExpect(q, s) ==
  /\ Cod[s] > 0 /\ cod[s] = << >>
  /\ Begin(q, [Idle EXCEPT !.pc = "insert", !.op = "expect", !.ship = s])

InsertExpected(q) ==
  /\ At(q, "expect", "insert")
  /\ cod' = [cod EXCEPT ![req[q].ship] = Append(cod[req[q].ship], Pending)]
  /\ End(q)
  /\ UNCHANGED <<status, task, tries, proof, exceptions, history>>

\* A handler of a settlement reads its row.
BeginCod(q, op, s, k) ==
  Begin(q, [Idle EXCEPT !.pc = "write", !.op = op, !.ship = s, !.row = k, !.old = cod[s][k]])

WriteCod(q, row) ==
  LET s == req[q].ship
      k == req[q].row
  IN /\ ~CodLocked(s, k)
     /\ cod' = [cod EXCEPT ![s] = [cod[s] EXCEPT ![k] = row]]
     /\ End(q)
     /\ UNCHANGED <<status, task, tries, proof, exceptions, history>>

Row(q) == cod[req[q].ship][req[q].row]

\* Mutant: a closed settlement is collected again.
ReadForAnyCollection(q, s, k) == BeginCod(q, "collect", s, k)

ReadForCollection(q, s, k) == cod[s][k].status # "RECONCILED" /\ BeginCod(q, "collect", s, k)

RecordCollection(q) ==
  /\ At(q, "collect", "write")
  /\ \E n \in Amounts : WriteCod(q, Collect(req[q].ship, Row(q), n))

ReadForRemittance(q, s, k) ==
  /\ cod[s][k].status \notin {"PENDING_COLLECTION", "RECONCILED"}
  /\ BeginCod(q, "remit", s, k)

\* Compared with the amount expected and with the collected amount it read.
RecordRemittance(q) ==
  /\ At(q, "remit", "write")
  /\ \E n \in Amounts :
       WriteCod(q, [Row(q) EXCEPT
         !.remitted = n,
         !.status = IF n = Cod[req[q].ship] /\ n = req[q].old.collected THEN "REMITTED" ELSE "DISCREPANT"])

Square(s, r) == r.collected = Cod[s] /\ r.remitted = Cod[s]

ReadForReconciliation(q, s, k) == cod[s][k].status # "RECONCILED" /\ BeginCod(q, "reconcile", s, k)

\* Mutant: no reason is asked for.
ReconcileSilently(q) ==
  /\ At(q, "reconcile", "write")
  /\ \E reason \in BOOLEAN :
       WriteCod(q, [Row(q) EXCEPT !.status = "RECONCILED", !.excused = Row(q).excused \/ reason])

\* BR-010: without a reason only when the amounts it read agree.
ReconcileSettlement(q) ==
  /\ At(q, "reconcile", "write")
  /\ \E reason \in BOOLEAN :
       /\ reason \/ Square(req[q].ship, req[q].old)
       /\ WriteCod(q, [Row(q) EXCEPT !.status = "RECONCILED", !.excused = Row(q).excused \/ reason])

-----------------------------------------------------------------------------
\* The transaction rolls back - the database, the process - and the shipment
\* stays where the nested transition has put it.
Fail(q) ==
  /\ "rollback" \in Faults
  /\ Open(q)
  /\ broken' = broken \cup
       (IF req[q].aim # "none" /\ req[q].pc \in {"cod", "commit"} /\ (req[q].op = "fail" => Last(q))
        THEN {req[q].ship} ELSE {})
  /\ End(q)
  /\ UNCHANGED <<status, rows, boarded, contended>>

\* The steps of a request once it has begun.
Proceed(q) ==
  \/ CheckTransition(q) \/ MoveShipment(q) \/ FindSettlement(q)
  \/ CommitTask(q) \/ CommitStart(q) \/ CommitAttempt(q)
  \/ LockTask(q) \/ CommitFailure(q)
  \/ InsertProof(q) \/ CommitProof(q) \/ CommitReturn(q)
  \/ InsertExpected(q) \/ RecordCollection(q) \/ RecordRemittance(q) \/ ReconcileSettlement(q)

\* The requests that may arrive.
Ask(q) ==
  \/ \E t \in Tasks : \/ CreateDeliveryTask(q, t) \/ ReadForStart(q, t) \/ ReadForAttempt(q, t)
                      \/ ReadForFailure(q, t) \/ ReadForProof(q, t) \/ ReadForReturn(q, t)
  \/ \E s \in Shipments :
       \/ \E aim \in StaffTargets : StaffTransition(q, s, aim)
       \/ ReadForExpect(q, s)
       \/ \E k \in 1..Len(cod[s]) : \/ ReadForCollection(q, s, k) \/ ReadForRemittance(q, s, k)
                                    \/ ReadForReconciliation(q, s, k)

Board(t) == BoardProof(t) \/ \E to \in BoardStatuses \cup {"ASSIGNED"} : SetTaskStatus(t, to)

Next ==
  \/ \E q \in Requests : Ask(q) \/ Proceed(q) \/ Fail(q)
  \/ \E t \in Tasks : Board(t)

Spec == Init /\ [][Next]_vars

-----------------------------------------------------------------------------
(* Properties.                                                             *)

Settlements ==
  [status : {"PENDING_COLLECTION", "COLLECTED", "DISCREPANT", "REMITTED", "RECONCILED"},
   collected : Nat, remitted : Nat, excused : BOOLEAN]
RequestRecords ==
  [pc : {"idle", "check", "move", "cod", "commit", "insert", "lock", "write"},
   op : {"none", "create", "start", "attempt", "fail", "pod", "return", "staff", "expect",
         "collect", "remit", "reconcile"},
   task : Tasks \cup {"none"}, ship : Shipments \cup {"none"}, count : Nat,
   aim : SHIPMENT_STATUSES \cup {"none"}, row : Nat, old : Settlements]

\* Types of the variables.
TypeOK ==
  /\ status \in [Shipments -> SHIPMENT_STATUSES]
  /\ task \in [Tasks -> [status : TASK_STATUSES \cup {"NONE"}, attempts : Nat]]
  /\ tries \in [Tasks -> Seq([n : Nat, result : {"SUCCESS", "FAILED", "NOTED"}])]
  /\ proof \subseteq Tasks /\ boarded \subseteq Tasks
  /\ exceptions \in [Tasks -> Nat]
  /\ cod \in [Shipments -> Seq(Settlements)]
  /\ broken \subseteq Shipments /\ contended \subseteq Shipments
  /\ req \in [Requests -> RequestRecords]

Failures(t) == {k \in 1..Len(tries[t]) : tries[t][k].result = "FAILED"}

\* A proof of delivery that the delivery service took is of a shipment that is
\* DELIVERED: no failure between the two commits leaves a proof behind, and
\* nothing takes the shipment out of DELIVERED again - unless requests on the
\* shipment overlapped.  (A proof taken on the board never moves the shipment.)
ProvenIsDelivered ==
  \A t \in proof \ boarded : ShipOf[t] \notin contended => status[ShipOf[t]] = "DELIVERED"

\* BR-007, "Successful delivery requires configured POD evidence": a DELIVERED
\* shipment has its proof, or the request that brings it is about to commit -
\* unless that transaction rolled back after its nested one had committed, and
\* then the proof can never be taken: the table refuses the retry.
DeliveredHasProof ==
  \A s \in Shipments \ (broken \cup contended) :
    status[s] = "DELIVERED" =>
      \/ \E t \in proof \ boarded : ShipOf[t] = s
      \/ \E q \in Requests : req[q].op = "pod" /\ req[q].ship = s /\ req[q].pc \in {"cod", "commit"}

\* However many tasks were created for a shipment, one at most is delivered.
OneProofPerShipment ==
  \A t, u \in proof \ boarded : ShipOf[t] = ShipOf[u] /\ ShipOf[t] \notin contended => t = u

\* A shipment handed to the last mile is on a task, or the request that brings it
\* there is about to commit - unless that transaction rolled back after its
\* nested one had committed: then nothing delivers the shipment, and creating the
\* task again is refused because it is READY_FOR_DELIVERY already.
HandedOverHasTask ==
  \A s \in Shipments \ (broken \cup contended) :
    status[s] \in {"READY_FOR_DELIVERY", "OUT_FOR_DELIVERY", "DELIVERY_FAILED", "DELIVERED", "RETURNED"} =>
      \/ \E t \in Tasks : ShipOf[t] = s /\ task[t].status # "NONE"
      \/ \E q \in Requests : req[q].op = "create" /\ req[q].ship = s /\ req[q].pc \in {"cod", "commit"}

\* A shipment is DELIVERED when and only when there is a proof of it, and one only,
\* and from the hand-over until then there is a task to deliver it.
ProofAgrees == ProvenIsDelivered /\ DeliveredHasProof /\ OneProofPerShipment /\ HandedOverHasTask

\* attempt_count is what it says: the failures and the delivery of a task are
\* numbered 1, 2, ... without a gap or a repetition, each failure at the limit
\* raised one exception and each earlier one none.
AttemptsCounted ==
  \A t \in Tasks :
    ShipOf[t] \notin contended =>
      /\ task[t].attempts = Cardinality(Failures(t)) + (IF t \in proof \ boarded THEN 1 ELSE 0)
      /\ \A j, k \in Failures(t) : tries[t][j].n = tries[t][k].n => j = k
      /\ exceptions[t] = Cardinality({k \in Failures(t) : tries[t][k].n >= MaxAttempts[t]})

\* However the requests overlap, a task goes back to the hub only after a failure
\* that reached the limit, and somebody is told.
ReturnIsEscalated ==
  \A t \in Tasks :
    task[t].status = "RETURN_TO_HUB" /\ "RETURN_TO_HUB" \notin BoardStatuses =>
      exceptions[t] > 0 /\ \E k \in Failures(t) : tries[t][k].n >= MaxAttempts[t]

\* The attempts of a task, its counter, its exceptions and its return agree.
AttemptsAgree == AttemptsCounted /\ ReturnIsEscalated

\* The money of a shipment is kept on one settlement.
OneSettlement == \A s \in Shipments \ contended : Len(cod[s]) <= 1

\* A cash-on-delivery shipment whose proof was taken has a settlement that says
\* what was collected, however the requests overlap.
DeliveredIsCollected ==
  \A t \in proof \ boarded :
    Cod[ShipOf[t]] > 0 => \E k \in 1..Len(cod[ShipOf[t]]) : cod[ShipOf[t]][k].status # "PENDING_COLLECTION"

\* BR-010, "COD discrepancies cannot be silently closed": the status of a
\* settlement agrees with its amounts, and it is reconciled with an amount
\* missing only for a stated reason, unless requests overlapped.
SettlementAgrees ==
  \A s \in Shipments : \A k \in 1..Len(cod[s]) :
    LET r == cod[s][k]
    IN /\ r.status = "COLLECTED" => r.collected = Cod[s]
       /\ s \notin contended => /\ r.status = "REMITTED" => Square(s, r)
                                /\ r.status = "RECONCILED" => r.excused \/ Square(s, r)

\* The cash of a shipment is accounted for: on one settlement, once delivered, and
\* with a status that says what happened to it.
CashAgrees == OneSettlement /\ DeliveredIsCollected /\ SettlementAgrees

\* A reconciled settlement is closed: the only request that changes it is the
\* proof of the delivery itself, when that comes after.
ReconciledIsClosed ==
  [][\A s \in Shipments \ contended' : \A k \in 1..Len(cod[s]) :
       cod[s][k].status = "RECONCILED" /\ cod'[s][k] # cod[s][k]
         => \E t \in proof' \ proof : ShipOf[t] = s]_vars
=============================================================================
