------------------------------ MODULE Linehaul ------------------------------
(***************************************************************************)
(* Linehaul movement: transport runs, their manifests, the shipments on    *)
(* them and the legs, vehicles and drivers they use                        *)
(* (server/services/transportService.js, and the parts of shipmentService  *)
(* it calls), as concurrent HTTP requests over PostgreSQL.                 *)
(*                                                                         *)
(* A request reads rows outside any transaction, then opens an outer       *)
(* transaction whose UPDATEs take row locks held to its end and whose      *)
(* writes become visible at COMMIT.  A call to transitionShipmentStatus    *)
(* or completeLegAndActivateNext inside it checks out another connection:  *)
(* its own reads see only committed rows and its own writes commit at      *)
(* once, and stay when the outer transaction rolls back.                   *)
(***************************************************************************)
EXTENDS ShipmentStatus, Naturals, Sequences, FiniteSets

CONSTANTS
  Requests,      \* requests that may be in progress at once
  Shipments,
  Runs,          \* transport runs; a run and its one manifest share a name
  Vehicles, Drivers,
  NoOne,         \* SQL NULL: no run, shipment, vehicle or driver
  Corridor,      \* run -> <<origin hub, destination hub>>
  VehicleOf,     \* run -> vehicle or NoOne, as createTransportRun received it
  DriverOf,      \* run -> driver or NoOne
  Garage,        \* vehicle -> the status the fleet office gave it
  Route,         \* shipment -> sequence of corridors, one per leg
  ManifestId,    \* run -> primary key of its row in manifests
  LegId,         \* shipment -> sequence of primary keys in shipment_legs
  Booked,        \* shipment -> statuses it may start in
  StaffTargets,  \* targets staff send to POST /shipments/:id/transition
  Handlers       \* the endpoints exercised

VehicleStatuses == {"AVAILABLE", "IN_TRANSIT", "MAINTENANCE"}
DriverStatuses == {"AVAILABLE", "ON_DELIVERY"}

ASSUME RoutesAssumption ==
  /\ Corridor \in [Runs -> Nat \X Nat]
  /\ VehicleOf \in [Runs -> Vehicles \cup {NoOne}]
  /\ DriverOf \in [Runs -> Drivers \cup {NoOne}]
  /\ Garage \in [Vehicles -> VehicleStatuses]
  /\ ManifestId \in [Runs -> Nat]
  /\ Route \in [Shipments -> Seq(Nat \X Nat)]
  /\ \A s \in Shipments : Route[s] # << >> /\ LegId[s] \in [DOMAIN Route[s] -> Nat]
  /\ Booked \in [Shipments -> SUBSET SHIPMENT_STATUSES]
  /\ StaffTargets \subseteq SHIPMENT_STATUSES
  /\ NoOne \notin Runs \cup Shipments \cup Vehicles \cup Drivers
  /\ IsFiniteSet(Shipments)

VARIABLES
  status,     \* shipments.status
  leg,        \* shipment_legs: status and manifest_id of each leg
  run,        \* transport_runs.status, "NONE" before the row exists
  manifest,   \* manifests.status
  total,      \* manifests.total_shipments
  item,       \* manifest_items.status, "NONE" when there is no row
  vehicle, driver,  \* vehicles.status, drivers.status
  req         \* the requests in progress

rows == <<leg, run, manifest, total, item, vehicle, driver>>
vars == <<status, rows, req>>

RunStatuses == {"NONE", "PLANNED", "LOADED", "IN_TRANSIT", "ARRIVED", "COMPLETED"}
ManifestStatuses == {"NONE", "DRAFT", "LOCKED", "DISPATCHED", "RECONCILED", "DISCREPANCY"}
ItemStatuses == {"NONE", "ASSIGNED", "LOADED", "IN_TRANSIT", "RECEIVED", "SHORTAGE"}
Legs(s) == DOMAIN Route[s]

-----------------------------------------------------------------------------
(* Requests and the rows they lock.                                        *)

Idle == [pc |-> "idle", op |-> "none", run |-> NoOne, ship |-> NoOne, aim |-> "none",
         todo |-> {}, recv |-> {}, known |-> {}, short |-> FALSE, pick |-> 0,
         count |-> 0, held |-> {}]

ManifestRow(r) == <<"manifest", r>>
RunRow(r) == <<"run", r>>
ItemRow(r, s) == <<"item", r, s>>
LegRow(s, k) == <<"leg", s, k>>
VehicleRow(r) == IF VehicleOf[r] = NoOne THEN {} ELSE {<<"vehicle", VehicleOf[r]>>}
DriverRow(r) == IF DriverOf[r] = NoOne THEN {} ELSE {<<"driver", DriverOf[r]>>}

\* The rows one UPDATE of a single-row table writes for run r.
RowsOf(table, r) == CASE table = "manifest" -> {ManifestRow(r)}
                      [] table = "run"      -> {RunRow(r)}
                      [] table = "vehicle"  -> VehicleRow(r)
                      [] table = "driver"   -> DriverRow(r)

\* The order of the statements of each outer transaction.
Then(op, pc) ==
  CASE op \in {"add", "remove"} -> [manifest |-> "run", run |-> "commit"][pc]
    [] op = "lock"     -> [manifest |-> "run", run |-> "fetch", items |-> "commit"][pc]
    [] op = "dispatch" -> [run |-> "manifest", manifest |-> "vehicle", vehicle |-> "driver",
                           driver |-> "items", items |-> "commit"][pc]
    [] op = "arrive"   -> [run |-> "vehicle", vehicle |-> "commit"][pc]
    [] op = "receive"  -> [items |-> "manifest", manifest |-> "run", run |-> "driver",
                           driver |-> "vehicle", vehicle |-> "commit"][pc]

At(q, pc) == req[q].pc = pc
Goto(q, pc) == req' = [req EXCEPT ![q].pc = pc]

\* The request is over, by COMMIT or by an exception and ROLLBACK: its locks go.
Finish(q) == req' = [req EXCEPT ![q] = Idle]

StoredItem(r, s) == IF item[r][s] = "NONE" THEN {} ELSE {ItemRow(r, s)}
ItemsOf(r) == {s \in Shipments : item[r][s] # "NONE"}

\* The legs addShipmentToManifest links, and those dispatchTransportRun moves.
LegsToLink(r, s) == {k \in Legs(s) : Route[s][k] = Corridor[r] /\ leg[s][k].status = "PENDING"}
LegsOn(r, s) == {k \in Legs(s) : leg[s][k].manifest = r}

\* The rows that the statement a request is about to run writes, as the
\* committed tables stand.  An UPDATE or DELETE that matches no row locks none.
Wants(q) ==
  LET r == req[q].run
      s == req[q].ship
      pc == req[q].pc
  IN CASE pc = "insert"             -> {ItemRow(r, s)}
       [] pc \in {"delete", "item"} -> StoredItem(r, s)
       [] pc = "link"               -> {LegRow(s, k) : k \in LegsToLink(r, s)}
       [] pc = "depart"             -> {LegRow(s, k) : k \in LegsOn(r, s)}
       [] pc = "close"              -> {LegRow(s, k) : k \in {req[q].pick, req[q].pick + 1} \cap Legs(s)}
       [] pc \in {"manifest", "run", "vehicle", "driver"} -> RowsOf(pc, r)
       [] OTHER                     -> {}

\* Some row wanted is locked by another transaction.
Blocked(q) == \E p \in Requests \ {q} : req[p].held \cap Wants(q) # {}

\* The statement runs: its rows stay locked until the transaction ends.
Locking(q, pc) ==
  /\ ~Blocked(q)
  /\ req' = [req EXCEPT ![q].pc = pc, ![q].held = @ \cup Wants(q)]
  /\ UNCHANGED <<status, rows>>

Init ==
  /\ status \in {f \in [Shipments -> SHIPMENT_STATUSES] : \A s \in Shipments : f[s] \in Booked[s]}
  /\ leg = [s \in Shipments |-> [k \in Legs(s) |-> [status |-> "PENDING", manifest |-> NoOne]]]
  /\ run = [r \in Runs |-> "NONE"]
  /\ manifest = [r \in Runs |-> "NONE"]
  /\ total = [r \in Runs |-> 0]
  /\ item = [r \in Runs |-> [s \in Shipments |-> "NONE"]]
  /\ vehicle = Garage
  /\ driver = [d \in Drivers |-> "AVAILABLE"]
  /\ req = [q \in Requests |-> Idle]

\* createTransportRun: the run and its DRAFT manifest are inserted together.
\* Nothing is asked of the driver or the vehicle except that they exist.
CreateTransportRun(r) ==
  /\ run[r] = "NONE"
  /\ run' = [run EXCEPT ![r] = "PLANNED"]
  /\ manifest' = [manifest EXCEPT ![r] = "DRAFT"]
  /\ UNCHANGED <<status, leg, total, item, vehicle, driver, req>>

-----------------------------------------------------------------------------
(* What each handler reads and refuses before its transaction.  A refusal  *)
(* at the first read changes nothing and is no step.                       *)

Begin(q, op, r, s, pc, todo) ==
  /\ op \in Handlers
  /\ At(q, "idle")
  /\ req' = [req EXCEPT ![q] = [Idle EXCEPT !.op = op, !.run = r, !.ship = s, !.pc = pc,
                                            !.todo = todo]]
  /\ UNCHANGED <<status, rows>>

\* addShipmentToManifest reads the run, then the manifest, then the shipment.
AddReadRun(q, r, s) ==
  /\ run[r] \notin {"NONE", "DISPATCHED", "IN_TRANSIT", "ARRIVED", "COMPLETED", "CANCELLED"}
  /\ Begin(q, "add", r, s, "addManifest", {})

AddReadManifest(q) ==
  /\ At(q, "addManifest")
  /\ IF manifest[req[q].run] = "LOCKED" THEN Finish(q) ELSE Goto(q, "addShipment")
  /\ UNCHANGED <<status, rows>>

AddReadShipment(q) ==
  /\ At(q, "addShipment")
  /\ IF status[req[q].ship] \in {"SORTED", "READY_FOR_DISPATCH"}
     THEN Goto(q, "insert") ELSE Finish(q)
  /\ UNCHANGED <<status, rows>>

\* Mutant: items may leave a manifest in any status.
RemoveReadUnchecked(q, r, s) == manifest[r] # "NONE" /\ Begin(q, "remove", r, s, "delete", {})

RemoveRead(q, r, s) ==
  /\ manifest[r] \notin {"NONE", "LOCKED", "DISPATCHED", "RECEIVED"}
  /\ Begin(q, "remove", r, s, "delete", {})

LockRead(q, r) ==
  /\ run[r] # "NONE"
  /\ total[r] # 0
  /\ Begin(q, "lock", r, NoOne, "manifest", {})

DispatchRead(q, r) ==
  /\ run[r] # "NONE"
  /\ DriverOf[r] # NoOne
  /\ VehicleOf[r] # NoOne
  /\ ItemsOf(r) # {}
  /\ Begin(q, "dispatch", r, NoOne, "run", ItemsOf(r))

ArriveRead(q, r) ==
  /\ run[r] # "NONE"
  /\ Begin(q, "arrive", r, NoOne, "run", {})

\* receiveManifest: received is the list of shipments the hub scanned.
ReceiveRead(q, r, received) ==
  /\ "receive" \in Handlers
  /\ At(q, "idle")
  /\ run[r] # "NONE"
  /\ req' = [req EXCEPT ![q] = [Idle EXCEPT !.op = "receive", !.run = r, !.pc = "items",
                                            !.todo = ItemsOf(r), !.recv = received,
                                            !.known = {s \in ItemsOf(r) : status[s] = "EXCEPTION"}]]
  /\ UNCHANGED <<status, rows>>

\* POST /shipments/:id/transition: transitionShipmentStatus reads the status
\* and checks the table; its UPDATE is WriteStatus.
StaffTransition(q, s, aim) ==
  /\ "transition" \in Handlers
  /\ At(q, "idle")
  /\ Allows(status[s], aim)
  /\ req' = [req EXCEPT ![q] = [Idle EXCEPT !.op = "transition", !.ship = s, !.aim = aim,
                                            !.pc = "write"]]
  /\ UNCHANGED <<status, rows>>

-----------------------------------------------------------------------------
(* The statements of the outer transaction.                                *)

\* INSERT INTO manifest_items; UNIQUE(manifest_id, shipment_id) refuses a second row.
AddInsert(q) ==
  /\ At(q, "insert")
  /\ IF item[req[q].run][req[q].ship] = "NONE" THEN Locking(q, "link")
     ELSE ~Blocked(q) /\ Finish(q) /\ UNCHANGED <<status, rows>>

\* The shipment's PENDING legs on the run's corridor are linked to the manifest.
AddLinkLegs(q) == At(q, "link") /\ Locking(q, "count")

RemoveDelete(q) == At(q, "delete") /\ Locking(q, "count")

\* Mutant: the aggregate runs on the pool, outside the transaction.
RecountOnPool(q) ==
  /\ At(q, "count")
  /\ req' = [req EXCEPT ![q].pc = "manifest", ![q].count = Cardinality(ItemsOf(req[q].run))]
  /\ UNCHANGED <<status, rows>>

\* recalculateManifestTotals: the aggregate sees committed rows and this
\* transaction's own insert or delete; the two UPDATEs that store it follow.
Recount(q) ==
  LET counted == IF req[q].op = "add" THEN ItemsOf(req[q].run) \cup {req[q].ship}
                                      ELSE ItemsOf(req[q].run) \ {req[q].ship}
  IN /\ At(q, "count")
     /\ req' = [req EXCEPT ![q].pc = "manifest", ![q].count = Cardinality(counted)]
     /\ UNCHANGED <<status, rows>>

\* UPDATE manifests, transport_runs, vehicles or drivers: waits for the row lock.
UpdateRow(q) ==
  /\ req[q].pc \in {"manifest", "run", "vehicle", "driver"}
  /\ Locking(q, Then(req[q].op, req[q].pc))

\* lockManifest reads its items inside the transaction.
LockFetchItems(q) ==
  /\ At(q, "fetch")
  /\ req' = [req EXCEPT ![q].pc = "items", ![q].todo = ItemsOf(req[q].run)]
  /\ UNCHANGED <<status, rows>>

\* Mutant: the loop never advances.
NextItemAgain(q, s) ==
  /\ At(q, "items")
  /\ s \in req[q].todo
  /\ req' = [req EXCEPT ![q].pc = "item", ![q].ship = s]
  /\ UNCHANGED <<status, rows>>

\* The loop over the items takes the next one.
NextItem(q, s) ==
  /\ At(q, "items")
  /\ s \in req[q].todo
  /\ req' = [req EXCEPT ![q].pc = "item", ![q].ship = s, ![q].todo = @ \ {s}]
  /\ UNCHANGED <<status, rows>>

\* Its UPDATE manifest_items (no row is locked when a concurrent removal has
\* deleted it); what follows depends on the handler.
UpdateItem(q) ==
  LET Turn(pc, aim, short) ==
        req' = [req EXCEPT ![q].pc = pc, ![q].aim = aim, ![q].short = short,
                           ![q].held = @ \cup Wants(q)]
      known == req[q].ship \in req[q].known
  IN /\ At(q, "item")
     /\ ~Blocked(q)
     /\ CASE req[q].op = "lock"     -> Turn("read", "LOADED", FALSE)
          [] req[q].op = "dispatch" -> Turn("depart", "IN_TRANSIT", FALSE)
          [] req[q].op = "receive"  ->
               IF req[q].ship \in req[q].recv THEN Turn("pick", "AT_HUB", req[q].short)
               ELSE Turn(IF known THEN "items" ELSE "read", "EXCEPTION", TRUE)
     /\ UNCHANGED <<status, rows>>

\* dispatchTransportRun: the legs linked to this manifest leave with it.
DepartLegs(q) == At(q, "depart") /\ Locking(q, "read")

ItemsDone(q) ==
  /\ At(q, "items")
  /\ req[q].todo = {}
  /\ Goto(q, Then(req[q].op, "items"))
  /\ UNCHANGED <<status, rows>>

-----------------------------------------------------------------------------
(* Calls to shipmentService inside the loop: separate connections.         *)

\* completeLegAndActivateNext reads the legs and chooses the one to complete:
\* a leg linked to this manifest or whose own id equals the manifest's id,
\* else an open leg into the arrival hub, else an open leg, else the first.
PickLeg(q) ==
  LET s == req[q].ship
      r == req[q].run
      named == {k \in Legs(s) : leg[s][k].manifest = r \/ LegId[s][k] = ManifestId[r]}
      open == {k \in Legs(s) : leg[s][k].status # "COMPLETED"}
      inbound == {k \in open : Route[s][k][2] = Corridor[r][2]}
      candidates == IF named # {} THEN named ELSE IF inbound # {} THEN inbound
                    ELSE IF open # {} THEN open ELSE {1}
  IN /\ At(q, "pick")
     /\ \E k \in candidates :
          /\ \A j \in candidates : k <= j
          /\ req' = [req EXCEPT ![q].pc = "close", ![q].pick = k]
     /\ UNCHANGED <<status, rows>>

\* Its transaction updates that leg and the next one; then the shipment moves.
CloseLeg(q) == At(q, "close") /\ Locking(q, "read")

\* Mutant: the transition table is not consulted.
ReadStatusUnchecked(q) == At(q, "read") /\ Goto(q, "write") /\ UNCHANGED <<status, rows>>

\* transitionShipmentStatus reads the status and checks the table; an illegal
\* target throws through the loop and the outer transaction rolls back.
ReadStatus(q) ==
  /\ At(q, "read")
  /\ IF Allows(status[req[q].ship], req[q].aim) THEN Goto(q, "write") ELSE Finish(q)
  /\ UNCHANGED <<status, rows>>

\* Its UPDATE names no expected status, and it commits by itself.
WriteStatus(q) ==
  /\ At(q, "write")
  /\ status' = [status EXCEPT ![req[q].ship] = req[q].aim]
  /\ IF req[q].op = "transition" THEN Finish(q)
     ELSE Goto(q, IF req[q].aim = "AT_HUB" THEN "closed" ELSE "items")
  /\ UNCHANGED rows

\* The leg transaction commits: the leg is COMPLETED and the next one PENDING.
CommitLeg(q) ==
  LET s == req[q].ship
  IN /\ At(q, "closed")
     /\ leg' = [leg EXCEPT ![s] = [k \in Legs(s) |->
                 CASE k = req[q].pick     -> [leg[s][k] EXCEPT !.status = "COMPLETED"]
                   [] k = req[q].pick + 1 -> [leg[s][k] EXCEPT !.status = "PENDING"]
                   [] OTHER               -> leg[s][k]]]
     /\ req' = [req EXCEPT ![q].pc = "items", ![q].held = @ \ {LegRow(s, k) : k \in Legs(s)}]
     /\ UNCHANGED <<status, run, manifest, total, item, vehicle, driver>>

-----------------------------------------------------------------------------
(* COMMIT of the outer transaction: every row it wrote becomes visible.    *)

Committing(q, op) == At(q, "commit") /\ req[q].op = op

\* The items of run r that this transaction wrote, changed by F.
Written(q, r, F(_)) ==
  [item EXCEPT ![r] = [s \in Shipments |->
     IF ItemRow(r, s) \in req[q].held THEN F(s) ELSE item[r][s]]]

CommitAdd(q) ==
  LET r == req[q].run
  IN /\ Committing(q, "add")
     /\ item' = Written(q, r, LAMBDA s : "ASSIGNED")
     /\ leg' = [s \in Shipments |-> [k \in Legs(s) |->
                 IF LegRow(s, k) \in req[q].held THEN [leg[s][k] EXCEPT !.manifest = r]
                                                 ELSE leg[s][k]]]
     /\ total' = [total EXCEPT ![r] = req[q].count]
     /\ Finish(q)
     /\ UNCHANGED <<status, run, manifest, vehicle, driver>>

CommitRemove(q) ==
  LET r == req[q].run
  IN /\ Committing(q, "remove")
     /\ item' = Written(q, r, LAMBDA s : "NONE")
     /\ total' = [total EXCEPT ![r] = req[q].count]
     /\ Finish(q)
     /\ UNCHANGED <<status, leg, run, manifest, vehicle, driver>>

\* Mutant: the run is not advanced to LOADED.
CommitLockManifestOnly(q) ==
  /\ Committing(q, "lock")
  /\ manifest' = [manifest EXCEPT ![req[q].run] = "LOCKED"]
  /\ item' = Written(q, req[q].run, LAMBDA s : "LOADED")
  /\ Finish(q)
  /\ UNCHANGED <<status, leg, run, total, vehicle, driver>>

CommitLock(q) ==
  LET r == req[q].run
  IN /\ Committing(q, "lock")
     /\ run' = [run EXCEPT ![r] = "LOADED"]
     /\ manifest' = [manifest EXCEPT ![r] = "LOCKED"]
     /\ item' = Written(q, r, LAMBDA s : "LOADED")
     /\ Finish(q)
     /\ UNCHANGED <<status, leg, total, vehicle, driver>>

\* Mutant: the manifest is not marked DISPATCHED.
CommitDispatchRunOnly(q) ==
  LET r == req[q].run
  IN /\ Committing(q, "dispatch")
     /\ run' = [run EXCEPT ![r] = "IN_TRANSIT"]
     /\ vehicle' = [vehicle EXCEPT ![VehicleOf[r]] = "IN_TRANSIT"]
     /\ driver' = [driver EXCEPT ![DriverOf[r]] = "ON_DELIVERY"]
     /\ item' = Written(q, r, LAMBDA s : "IN_TRANSIT")
     /\ Finish(q)
     /\ UNCHANGED <<status, leg, manifest, total>>

CommitDispatch(q) ==
  LET r == req[q].run
  IN /\ Committing(q, "dispatch")
     /\ run' = [run EXCEPT ![r] = "IN_TRANSIT"]
     /\ manifest' = [manifest EXCEPT ![r] = "DISPATCHED"]
     /\ vehicle' = [vehicle EXCEPT ![VehicleOf[r]] = "IN_TRANSIT"]
     /\ driver' = [driver EXCEPT ![DriverOf[r]] = "ON_DELIVERY"]
     /\ item' = Written(q, r, LAMBDA s : "IN_TRANSIT")
     /\ leg' = [s \in Shipments |-> [k \in Legs(s) |->
                 IF LegRow(s, k) \in req[q].held THEN [leg[s][k] EXCEPT !.status = "IN_TRANSIT"]
                                                 ELSE leg[s][k]]]
     /\ Finish(q)
     /\ UNCHANGED <<status, total>>

CommitArrive(q) ==
  /\ Committing(q, "arrive")
  /\ run' = [run EXCEPT ![req[q].run] = "ARRIVED"]
  /\ Finish(q)
  /\ UNCHANGED <<status, leg, manifest, total, item, vehicle, driver>>

\* Mutant: the crew is freed and the run is left as it was.
CommitReceiveRunOpen(q) ==
  /\ Committing(q, "receive")
  /\ manifest' = [manifest EXCEPT ![req[q].run] = "RECONCILED"]
  /\ driver' = [driver EXCEPT ![DriverOf[req[q].run]] = "AVAILABLE"]
  /\ vehicle' = [vehicle EXCEPT ![VehicleOf[req[q].run]] = "AVAILABLE"]
  /\ Finish(q)
  /\ UNCHANGED <<status, leg, run, total, item>>

CommitReceive(q) ==
  LET r == req[q].run
      Freed(f, x) == [y \in DOMAIN f |-> IF y = x THEN "AVAILABLE" ELSE f[y]]
  IN /\ Committing(q, "receive")
     /\ item' = Written(q, r, LAMBDA s : IF s \in req[q].recv THEN "RECEIVED" ELSE "SHORTAGE")
     /\ manifest' = [manifest EXCEPT ![r] = IF req[q].short THEN "DISCREPANCY" ELSE "RECONCILED"]
     /\ run' = [run EXCEPT ![r] = "COMPLETED"]
     /\ driver' = Freed(driver, DriverOf[r])
     /\ vehicle' = Freed(vehicle, VehicleOf[r])
     /\ Finish(q)
     /\ UNCHANGED <<status, leg, total>>

\* The connection is lost, the process dies, the pool gives no second
\* connection within its timeout, or PostgreSQL picks this transaction as the
\* victim of a deadlock: the open transactions roll back and their locks go.
Abort(q) ==
  /\ ~At(q, "idle")
  /\ Finish(q)
  /\ UNCHANGED <<status, rows>>

-----------------------------------------------------------------------------
Step(q) ==
  \/ AddReadManifest(q) \/ AddReadShipment(q) \/ AddInsert(q) \/ AddLinkLegs(q)
  \/ RemoveDelete(q) \/ Recount(q) \/ UpdateRow(q) \/ LockFetchItems(q)
  \/ (\E s \in req[q].todo : NextItem(q, s)) \/ UpdateItem(q)
  \/ DepartLegs(q) \/ ItemsDone(q) \/ PickLeg(q) \/ CloseLeg(q)
  \/ ReadStatus(q) \/ WriteStatus(q) \/ CommitLeg(q)
  \/ CommitAdd(q) \/ CommitRemove(q) \/ CommitLock(q) \/ CommitDispatch(q)
  \/ CommitArrive(q) \/ CommitReceive(q)

Arrival(q) ==
  \/ \E r \in Runs, s \in Shipments : AddReadRun(q, r, s) \/ RemoveRead(q, r, s)
  \/ \E r \in Runs : LockRead(q, r) \/ DispatchRead(q, r) \/ ArriveRead(q, r)
  \/ \E r \in Runs, received \in SUBSET Shipments : ReceiveRead(q, r, received)
  \/ \E s \in Shipments, aim \in StaffTargets : StaffTransition(q, s, aim)

Next ==
  \/ \E r \in Runs : CreateTransportRun(r)
  \/ \E q \in Requests : Arrival(q) \/ Step(q) \/ Abort(q)

Spec == Init /\ [][Next]_vars

\* PostgreSQL ends a deadlock: a set of transactions each waiting for a row of
\* another in the set loses a member.
WaitsFor(q, p) == p # q /\ req[p].held \cap Wants(q) # {}
Deadlocked(q) == \E D \in SUBSET Requests : q \in D /\ \A p \in D : \E o \in D : WaitsFor(p, o)
Victim(q) == Deadlocked(q) /\ Abort(q)

\* A handler that can run its next statement does, and row locks are granted
\* in the order of the queue, so no waiter is passed over for ever.
Fairness == \A q \in Requests : SF_vars(Step(q)) /\ WF_vars(Victim(q))
FairSpec == Spec /\ Fairness

-----------------------------------------------------------------------------
(* Properties under any number of concurrent requests.                     *)

Pcs == {"idle", "addManifest", "addShipment", "insert", "link", "delete", "count", "manifest",
        "run", "vehicle", "driver", "fetch", "items", "item", "depart", "pick", "close", "read",
        "write", "closed", "commit"}

Rows == {ManifestRow(r) : r \in Runs} \cup {RunRow(r) : r \in Runs}
   \cup {ItemRow(r, s) : r \in Runs, s \in Shipments}
   \cup (UNION {{LegRow(s, k) : k \in Legs(s)} : s \in Shipments})
   \cup {<<"vehicle", v>> : v \in Vehicles} \cup {<<"driver", d>> : d \in Drivers}

Request ==
  [pc : Pcs, op : {"none", "add", "remove", "lock", "dispatch", "arrive", "receive", "transition"},
   run : Runs \cup {NoOne}, ship : Shipments \cup {NoOne}, aim : SHIPMENT_STATUSES \cup {"none"},
   todo : SUBSET Shipments, recv : SUBSET Shipments, known : SUBSET Shipments, short : BOOLEAN,
   pick : Nat, count : Nat, held : SUBSET Rows]

\* Every table and every request holds values of its type.
TypeOK ==
  /\ status \in [Shipments -> SHIPMENT_STATUSES]
  /\ DOMAIN leg = Shipments
  /\ \A s \in Shipments :
       leg[s] \in [Legs(s) -> [status : {"PENDING", "IN_TRANSIT", "COMPLETED"},
                              manifest : Runs \cup {NoOne}]]
  /\ run \in [Runs -> RunStatuses]
  /\ manifest \in [Runs -> ManifestStatuses]
  /\ total \in [Runs -> Nat]
  /\ item \in [Runs -> [Shipments -> ItemStatuses]]
  /\ vehicle \in [Vehicles -> VehicleStatuses]
  /\ driver \in [Drivers -> DriverStatuses]
  /\ req \in [Requests -> Request]

\* Two open transactions never hold the lock of the same row.
RowLocksExclusive ==
  \A p, q \in Requests : p # q => req[p].held \cap req[q].held = {}

\* A manifest and its run tell the same story, whatever interleaves or fails:
\* only an arrival, which does not touch the manifest, moves the run alone.
RunAndManifestAgree ==
  \A r \in Runs :
    CASE manifest[r] = "NONE"       -> run[r] = "NONE"
      [] manifest[r] = "DRAFT"      -> run[r] \in {"PLANNED", "ARRIVED"}
      [] manifest[r] = "LOCKED"     -> run[r] \in {"LOADED", "ARRIVED"}
      [] manifest[r] = "DISPATCHED" -> run[r] \in {"IN_TRANSIT", "ARRIVED"}
      [] OTHER                      -> run[r] \in {"COMPLETED", "ARRIVED"}

\* A leg on the road belongs to a manifest that was dispatched, and no item
\* is past ASSIGNED while its manifest is still a draft: links made by one
\* request and departures recorded by another never cross.
NothingMovesOnADraft ==
  /\ \A s \in Shipments : \A k \in Legs(s) :
       leg[s][k].status = "IN_TRANSIT" =>
         leg[s][k].manifest # NoOne /\ manifest[leg[s][k].manifest] \notin {"NONE", "DRAFT"}
  /\ \A r \in Runs : manifest[r] \in {"NONE", "DRAFT"} =>
       \A s \in Shipments : item[r][s] \in {"NONE", "ASSIGNED"}

\* While a run is on the road, its vehicle and its driver, when no other run
\* has them, are marked as on the road.
CrewOnTheRoad ==
  \A r \in Runs : run[r] = "IN_TRANSIT" =>
    /\ (\A o \in Runs \ {r} : VehicleOf[o] # VehicleOf[r]) => vehicle[VehicleOf[r]] = "IN_TRANSIT"
    /\ (\A o \in Runs \ {r} : DriverOf[o] # DriverOf[r]) => driver[DriverOf[r]] = "ON_DELIVERY"

\* A request that waits for a row does not wait for ever.
EveryRequestEnds == \A q \in Requests : ~At(q, "idle") ~> At(q, "idle")

-----------------------------------------------------------------------------
(* Properties of one request at a time, with failures at any point.        *)

\* The status of a manifest says where each of its items is.
ItemsFollowManifest ==
  \A r \in Runs : \A s \in ItemsOf(r) :
    CASE manifest[r] = "DRAFT"       -> item[r][s] = "ASSIGNED"
      [] manifest[r] = "LOCKED"      -> item[r][s] = "LOADED"
      [] manifest[r] = "DISPATCHED"  -> item[r][s] = "IN_TRANSIT"
      [] manifest[r] = "RECONCILED"  -> item[r][s] = "RECEIVED"
      [] manifest[r] = "DISCREPANCY" -> item[r][s] \in {"RECEIVED", "SHORTAGE"}

\* manifests.total_shipments counts the items.
TotalsCountItems == \A r \in Runs : total[r] = Cardinality(ItemsOf(r))

\* With one request at a time the tables of a manifest add up, whatever fails:
\* its items are where it is, and the stored total counts them.
ManifestAddsUp == ItemsFollowManifest /\ TotalsCountItems

\* docs/ARCHITECTURE.md 4.2: no parcel joins or leaves a locked or dispatched manifest.
ManifestSealed ==
  [][\A r \in Runs : manifest[r] \in {"LOCKED", "DISPATCHED"} => ItemsOf(r)' = ItemsOf(r)]_vars

\* Every change of a shipment's status is one the table allows.
Lifecycle == INSTANCE ShipmentLifecycle
FollowsLifecycle == Lifecycle!Spec
=============================================================================
