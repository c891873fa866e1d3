--------------------------- MODULE LinehaulProofs ---------------------------
(***************************************************************************)
(* Proofs about Linehaul for every number of requests, shipments and runs. *)
(*                                                                         *)
(* WellFormed ties the fields of a request to the statement it is at.      *)
(* LegsClaimed says what the locks a request holds guarantee about the     *)
(* rows they protect; since locks are exclusive it survives the commits of *)
(* the other requests.  IInv is the inductive invariant made of them.      *)
(*                                                                         *)
(* The last section takes one request at a time and proves what needs      *)
(* that: SerialInv says that what the request has read still stands.       *)
(***************************************************************************)
EXTENDS Linehaul, FiniteSetTheorems, TLAPS

Loop == {"items", "item", "read", "write"}

\* The statements of each handler.
Stage ==
  [none       |-> {"idle"},
   add        |-> {"addManifest", "addShipment", "insert", "link", "count", "manifest", "run",
                   "commit"},
   remove     |-> {"delete", "count", "manifest", "run", "commit"},
   lock       |-> {"manifest", "run", "fetch", "commit"} \cup Loop,
   dispatch   |-> {"run", "manifest", "vehicle", "driver", "depart", "commit"} \cup Loop,
   arrive     |-> {"run", "vehicle", "commit"},
   receive    |-> {"pick", "close", "closed", "manifest", "run", "driver", "vehicle", "commit"}
                  \cup Loop,
   transition |-> {"write"}]

OnRun == {"add", "remove", "lock", "dispatch", "arrive", "receive"}
OnShipment == {"addManifest", "addShipment", "insert", "link", "delete", "count", "item",
               "depart", "pick", "close", "read", "write", "closed"}
Aiming == {"depart", "pick", "close", "read", "write"}

WellFormed(x) ==
  /\ x \in Request
  /\ x.pc \in Stage[x.op]
  /\ x.op \in OnRun => x.run \in Runs
  /\ x.pc \in OnShipment => x.ship \in Shipments
  /\ x.pc \in Aiming => x.aim \in SHIPMENT_STATUSES
  /\ x.aim = "AT_HUB" => x.op \in {"receive", "transition"}
  /\ x.op = "dispatch" => VehicleOf[x.run] \in Vehicles /\ DriverOf[x.run] \in Drivers

\* The run a request works on exists.
RunExists(q) == req[q].op \in OnRun => run[req[q].run] # "NONE"

\* A leg locked by an add has not left; one locked by a dispatch is on its manifest.
LegsClaimed(q) ==
  \A s \in Shipments : \A k \in Legs(s) :
    LegRow(s, k) \in req[q].held =>
      /\ req[q].op = "add" => leg[s][k].status # "IN_TRANSIT"
      /\ req[q].op = "dispatch" => leg[s][k].manifest = req[q].run

\* A run on the road has a vehicle and a driver.
Crewed == \A r \in Runs : run[r] = "IN_TRANSIT" => VehicleOf[r] \in Vehicles /\ DriverOf[r] \in Drivers

Tables ==
  /\ status \in [Shipments -> SHIPMENT_STATUSES]
  /\ DOMAIN leg = Shipments
  /\ \A s \in Shipments :
       leg[s] \in [Legs(s) -> [status : {"PENDING", "IN_TRANSIT", "COMPLETED"},
                              manifest : Runs \cup {NoOne}]]
  /\ run \in [Runs -> RunStatuses]
  /\ manifest \in [Runs -> ManifestStatuses]
  /\ total \in [Runs -> Nat]
  /\ item \in [Runs -> [Shipments -> ItemStatuses]]
  /\ vehicle \in [Vehicles -> VehicleStatuses]
  /\ driver \in [Drivers -> DriverStatuses]

Typed ==
  /\ Tables
  /\ req \in [Requests -> Request]
  /\ \A q \in Requests : WellFormed(req[q])

IInv ==
  /\ Typed
  /\ RowLocksExclusive
  /\ \A q \in Requests : RunExists(q) /\ LegsClaimed(q)
  /\ RunAndManifestAgree
  /\ NothingMovesOnADraft
  /\ Crewed
  /\ CrewOnTheRoad

-----------------------------------------------------------------------------
LEMMA LegsAreNumbered == \A s \in Shipments : Legs(s) \subseteq Nat
  BY RoutesAssumption DEF Legs

LEMMA AllowedTargets ==
  \A from, to \in STRING : from \in SHIPMENT_STATUSES /\ Allows(from, to) => to \in SHIPMENT_STATUSES
  BY DEF Allows, SHIPMENT_STATUSES, ALLOWED_TRANSITIONS

LEMMA IdleIsWellFormed == WellFormed(Idle)
  BY DEF WellFormed, Idle, Request, Stage, OnRun, OnShipment, Aiming, Pcs, Loop

LEMMA WantedAreRows ==
  ASSUME NEW q \in Requests, WellFormed(req[q])
  PROVE  Wants(q) \subseteq Rows
<1>0. req[q].pc \in Stage[req[q].op] /\ req[q].op \in DOMAIN Stage
  BY DEF WellFormed, Request, Stage
<1> DEFINE r == req[q].run
           s == req[q].ship
<1>1. CASE req[q].pc = "insert"
  <2>1. r \in Runs /\ s \in Shipments
    BY <1>0, <1>1 DEF WellFormed, Stage, OnRun, OnShipment, Loop
  <2>2. Wants(q) = {ItemRow(r, s)}
    BY <1>1 DEF Wants
  <2> QED BY <2>1, <2>2 DEF Rows
<1>2. CASE req[q].pc \in {"delete", "item"}
  <2>1. r \in Runs /\ s \in Shipments
    BY <1>0, <1>2 DEF WellFormed, Stage, OnRun, OnShipment, Loop
  <2>2. Wants(q) \subseteq {ItemRow(r, s)}
    BY <1>2 DEF Wants, StoredItem
  <2> QED BY <2>1, <2>2 DEF Rows
<1>3. CASE req[q].pc \in {"link", "depart", "close"}
  <2>1. s \in Shipments
    BY <1>3 DEF WellFormed, OnShipment
  <2>2. Wants(q) \subseteq {LegRow(s, k) : k \in Legs(s)}
    BY <1>3 DEF Wants, LegsToLink, LegsOn
  <2> QED BY <2>1, <2>2 DEF Rows
<1>4. CASE req[q].pc \in {"manifest", "run"}
  <2>1. r \in Runs
    BY <1>0, <1>4 DEF WellFormed, Stage, OnRun, Loop
  <2>2. Wants(q) \subseteq {ManifestRow(r), RunRow(r)}
    BY <1>4 DEF Wants, RowsOf
  <2> QED BY <2>1, <2>2 DEF Rows
<1>5. CASE req[q].pc \in {"vehicle", "driver"}
  <2>1. r \in Runs
    BY <1>0, <1>5 DEF WellFormed, Stage, OnRun, Loop
  <2>2. VehicleRow(r) \subseteq Rows /\ DriverRow(r) \subseteq Rows
    BY <2>1, RoutesAssumption DEF Rows, VehicleRow, DriverRow
  <2>3. Wants(q) \in {VehicleRow(r), DriverRow(r)}
    BY <1>5 DEF Wants, RowsOf
  <2> QED BY <2>2, <2>3
<1>6. CASE req[q].pc \notin {"insert", "delete", "item", "link", "depart", "close", "manifest",
                            "run", "vehicle", "driver"}
  BY <1>6 DEF Wants
<1> QED BY <1>1, <1>2, <1>3, <1>4, <1>5, <1>6

\* A step changes one request at most.
Only(q) == req' = [req EXCEPT ![q] = req'[q]]

LEMMA OneRequest ==
  ASSUME NEW q \in Requests, Typed, Only(q), WellFormed(req'[q]), Tables'
  PROVE  Typed'
<1>1. \A p \in Requests : WellFormed(req'[p])
  BY DEF Only, Typed
<1>2. req' \in [Requests -> Request]
  BY <1>1 DEF Only, Typed, WellFormed
<1> QED BY <1>1, <1>2 DEF Typed

LEMMA TablesKept == Tables /\ UNCHANGED <<status, rows>> => Tables'
  BY DEF Tables, rows

LEMMA FinishTyped ==
  ASSUME NEW q \in Requests, Typed, Finish(q)
  PROVE  Only(q) /\ WellFormed(req'[q])
  BY IdleIsWellFormed DEF Typed, Finish, Only

LEMMA BeginTyped ==
  ASSUME NEW q \in Requests, NEW op \in OnRun, NEW r \in Runs, NEW s \in Shipments \cup {NoOne},
         NEW pc \in Stage[op], NEW todo \in SUBSET Shipments, Typed, Begin(q, op, r, s, pc, todo),
         pc \in OnShipment => s \in Shipments, pc \notin Aiming, pc \in Pcs,
         op = "dispatch" => VehicleOf[r] \in Vehicles /\ DriverOf[r] \in Drivers
  PROVE  Only(q) /\ WellFormed(req'[q])
<1> DEFINE x == [Idle EXCEPT !.op = op, !.run = r, !.ship = s, !.pc = pc, !.todo = todo]
<1>1. req'[q] = x /\ Only(q)
  BY DEF Begin, Typed, Only
<1>2. x \in Request
  BY DEF Request, Idle, OnRun
<1>3. x.pc = pc /\ x.op = op /\ x.run = r /\ x.ship = s /\ x.aim = "none"
  BY DEF Idle
<1> HIDE DEF x
<1> QED BY <1>1, <1>2, <1>3 DEF WellFormed

LEMMA ArrivalTyped ==
  ASSUME NEW q \in Requests, Typed, Arrival(q)
  PROVE  Typed'
<1>1. UNCHANGED <<status, rows>>
  BY DEF Arrival, AddReadRun, RemoveRead, LockRead, DispatchRead, ArriveRead, ReceiveRead,
         StaffTransition, Begin
<1>2. Only(q) /\ WellFormed(req'[q])
  <2>1. ASSUME NEW r \in Runs, NEW s \in Shipments, AddReadRun(q, r, s)
        PROVE  Only(q) /\ WellFormed(req'[q])
    BY <2>1, BeginTyped DEF AddReadRun, Stage, OnRun, OnShipment, Aiming, Pcs
  <2>2. ASSUME NEW r \in Runs, NEW s \in Shipments, RemoveRead(q, r, s)
        PROVE  Only(q) /\ WellFormed(req'[q])
    BY <2>2, BeginTyped DEF RemoveRead, Stage, OnRun, OnShipment, Aiming, Pcs
  <2>3. ASSUME NEW r \in Runs, LockRead(q, r)
        PROVE  Only(q) /\ WellFormed(req'[q])
    BY <2>3, BeginTyped DEF LockRead, Stage, OnRun, OnShipment, Aiming, Pcs
  <2>4. ASSUME NEW r \in Runs, DispatchRead(q, r)
        PROVE  Only(q) /\ WellFormed(req'[q])
    <3>1. VehicleOf[r] \in Vehicles /\ DriverOf[r] \in Drivers
      BY <2>4, RoutesAssumption DEF DispatchRead
    <3>2. ItemsOf(r) \in SUBSET Shipments
      BY DEF ItemsOf
    <3>3. Begin(q, "dispatch", r, NoOne, "run", ItemsOf(r))
      BY <2>4 DEF DispatchRead
    <3>4. "run" \in Stage["dispatch"] /\ "dispatch" \in OnRun
      BY DEF Stage, OnRun
    <3>5. "run" \notin OnShipment /\ "run" \notin Aiming /\ "run" \in Pcs
      BY DEF OnShipment, Aiming, Pcs
    <3> QED
      BY <3>1, <3>2, <3>3, <3>4, <3>5, BeginTyped
  <2>5. ASSUME NEW r \in Runs, ArriveRead(q, r)
        PROVE  Only(q) /\ WellFormed(req'[q])
    BY <2>5, BeginTyped DEF ArriveRead, Stage, OnRun, OnShipment, Aiming, Pcs
  <2>6. ASSUME NEW r \in Runs, NEW received \in SUBSET Shipments, ReceiveRead(q, r, received)
        PROVE  Only(q) /\ WellFormed(req'[q])
    <3> DEFINE known == {s \in ItemsOf(r) : status[s] = "EXCEPTION"}
               x == [Idle EXCEPT !.op = "receive", !.run = r, !.pc = "items",
                                 !.todo = ItemsOf(r), !.recv = received, !.known = known]
    <3>1. ItemsOf(r) \in SUBSET Shipments /\ known \in SUBSET Shipments
      BY DEF ItemsOf
    <3>2. req'[q] = x /\ Only(q)
      BY <2>6 DEF ReceiveRead, Typed, Only
    <3> HIDE DEF known
    <3>3. x \in Request
      BY <3>1 DEF Request, Idle, Pcs
    <3>4. x.pc = "items" /\ x.op = "receive" /\ x.run = r /\ x.aim = "none"
      BY DEF Idle
    <3> HIDE DEF x
    <3> QED
      BY <3>2, <3>3, <3>4 DEF WellFormed, Stage, OnRun, OnShipment, Aiming, Loop
  <2>7. ASSUME NEW s \in Shipments, NEW aim \in StaffTargets, StaffTransition(q, s, aim)
        PROVE  Only(q) /\ WellFormed(req'[q])
    <3> DEFINE x == [Idle EXCEPT !.op = "transition", !.ship = s, !.aim = aim, !.pc = "write"]
    <3>1. req'[q] = x /\ Only(q)
      BY <2>7 DEF StaffTransition, Typed, Only
    <3>2. x \in Request
      BY RoutesAssumption DEF Request, Idle, Pcs
    <3>3. x.pc = "write" /\ x.op = "transition" /\ x.ship = s /\ x.aim \in SHIPMENT_STATUSES
      BY RoutesAssumption DEF Idle
    <3> HIDE DEF x
    <3> QED
      BY <3>1, <3>2, <3>3 DEF WellFormed, Stage, OnRun, OnShipment, Aiming, Loop
  <2> QED BY <2>1, <2>2, <2>3, <2>4, <2>5, <2>6, <2>7 DEF Arrival
<1> QED BY <1>1, <1>2, OneRequest, TablesKept DEF Typed

-----------------------------------------------------------------------------
\* A request that goes on to statement pc keeps its type when pc is one of
\* its handler's statements and nothing else it holds changes.
LEMMA GotoTyped ==
  ASSUME NEW q \in Requests, NEW pc \in Stage[req[q].op], Typed, Goto(q, pc), pc \in Pcs,
         pc \in OnShipment => req[q].ship \in Shipments,
         pc \in Aiming => req[q].aim \in SHIPMENT_STATUSES
  PROVE  Only(q) /\ WellFormed(req'[q])
<1> DEFINE x == [req[q] EXCEPT !.pc = pc]
<1>1. req'[q] = x /\ Only(q)
  BY DEF Goto, Typed, Only
<1>2. WellFormed(req[q]) /\ req[q] \in Request
  BY DEF Typed
<1>3. x \in Request
  BY <1>2 DEF Request
<1>4. x.pc = pc /\ x.op = req[q].op /\ x.run = req[q].run /\ x.ship = req[q].ship
      /\ x.aim = req[q].aim
  BY <1>2 DEF Request
<1> HIDE DEF x
<1> QED BY <1>1, <1>2, <1>3, <1>4 DEF WellFormed

LEMMA LockingTyped ==
  ASSUME NEW q \in Requests, NEW pc \in Stage[req[q].op], Typed, Locking(q, pc), pc \in Pcs,
         pc \in OnShipment => req[q].ship \in Shipments,
         pc \in Aiming => req[q].aim \in SHIPMENT_STATUSES
  PROVE  Only(q) /\ WellFormed(req'[q])
<1> DEFINE x == [req[q] EXCEPT !.pc = pc, !.held = @ \cup Wants(q)]
<1>1. req'[q] = x /\ Only(q)
  BY DEF Locking, Typed, Only
<1>2. WellFormed(req[q]) /\ req[q] \in Request
  BY DEF Typed
<1>3. x \in Request
  BY <1>2, WantedAreRows DEF Request
<1>4. x.pc = pc /\ x.op = req[q].op /\ x.run = req[q].run /\ x.ship = req[q].ship
      /\ x.aim = req[q].aim
  BY <1>2 DEF Request
<1> HIDE DEF x
<1> QED BY <1>1, <1>2, <1>3, <1>4 DEF WellFormed

\* The statement that follows is one of the same handler's.
LEMMA ThenInStage ==
  ASSUME NEW q \in Requests, Typed,
         req[q].pc \in {"manifest", "run", "vehicle", "driver", "items"}
  PROVE  /\ Then(req[q].op, req[q].pc) \in Stage[req[q].op]
         /\ Then(req[q].op, req[q].pc) \in Pcs \ (OnShipment \cup Aiming)
<1>1. req[q].pc \in Stage[req[q].op] /\ req[q].op \in DOMAIN Stage
  BY DEF Typed, WellFormed, Request, Stage
<1>2. CASE req[q].op \in {"add", "remove"}
  <2>1. req[q].pc \in {"manifest", "run"}
    BY <1>1, <1>2 DEF Stage
  <2>2. /\ Then(req[q].op, "manifest") = "run"
        /\ Then(req[q].op, "run") = "commit"
    BY <1>2 DEF Then
  <2> QED BY <1>2, <2>1, <2>2 DEF Stage, Pcs, OnShipment, Aiming
<1>3. CASE req[q].op = "lock"
  <2>1. req[q].pc \in {"manifest", "run", "items"}
    BY <1>1, <1>3 DEF Stage, Loop
  <2>2. /\ Then("lock", "manifest") = "run"
        /\ Then("lock", "run") = "fetch"
        /\ Then("lock", "items") = "commit"
    BY DEF Then
  <2> QED BY <1>3, <2>1, <2>2 DEF Stage, Pcs, OnShipment, Aiming
<1>4. CASE req[q].op = "dispatch"
  <2>1. /\ Then("dispatch", "manifest") = "vehicle"
        /\ Then("dispatch", "run") = "manifest"
        /\ Then("dispatch", "vehicle") = "driver"
        /\ Then("dispatch", "driver") = "items"
        /\ Then("dispatch", "items") = "commit"
    BY DEF Then
  <2> QED BY <1>4, <2>1 DEF Stage, Pcs, OnShipment, Aiming, Loop
<1>5. CASE req[q].op = "arrive"
  <2>1. req[q].pc \in {"run", "vehicle"}
    BY <1>1, <1>5 DEF Stage
  <2>2. /\ Then("arrive", "run") = "vehicle"
        /\ Then("arrive", "vehicle") = "commit"
    BY DEF Then
  <2> QED BY <1>5, <2>1, <2>2 DEF Stage, Pcs, OnShipment, Aiming
<1>6. CASE req[q].op = "receive"
  <2>1. /\ Then("receive", "manifest") = "run"
        /\ Then("receive", "run") = "driver"
        /\ Then("receive", "driver") = "vehicle"
        /\ Then("receive", "vehicle") = "commit"
        /\ Then("receive", "items") = "manifest"
    BY DEF Then
  <2> QED BY <1>6, <2>1 DEF Stage, Pcs, OnShipment, Aiming, Loop
<1>7. req[q].op \in {"add", "remove", "lock", "dispatch", "arrive", "receive"}
  BY <1>1 DEF Stage
<1> QED BY <1>2, <1>3, <1>4, <1>5, <1>6, <1>7

\* What a request is about to do follows from where it is.
LEMMA StageOf ==
  ASSUME NEW q \in Requests, Typed
  PROVE  /\ req[q].pc \in {"addManifest", "addShipment", "insert", "link"} => req[q].op = "add"
         /\ req[q].pc = "delete" => req[q].op = "remove"
         /\ req[q].pc = "count" => req[q].op \in {"add", "remove"}
         /\ req[q].pc = "fetch" => req[q].op = "lock"
         /\ req[q].pc = "depart" => req[q].op = "dispatch"
         /\ req[q].pc \in {"pick", "close", "closed"} => req[q].op = "receive"
         /\ req[q].pc \in {"items", "item", "read"} => req[q].op \in {"lock", "dispatch", "receive"}
         /\ req[q].pc = "write" => req[q].op \in {"lock", "dispatch", "receive", "transition"}
         /\ req[q].pc \in OnShipment => req[q].ship \in Shipments
         /\ req[q].pc \in Aiming => req[q].aim \in SHIPMENT_STATUSES
         /\ req[q].op \in OnRun => req[q].run \in Runs
<1>1. req[q].pc \in Stage[req[q].op] /\ req[q].op \in DOMAIN Stage
  BY DEF Typed, WellFormed, Request, Stage
<1> QED BY <1>1 DEF Stage, Loop, Typed, WellFormed

-----------------------------------------------------------------------------
LEMMA ItemTurns ==
  ASSUME NEW q \in Requests, Typed, UpdateItem(q)
  PROVE  \E pc \in {"read", "depart", "pick", "items"}, aim \in SHIPMENT_STATUSES,
            short \in BOOLEAN :
            /\ req' = [req EXCEPT ![q].pc = pc, ![q].aim = aim, ![q].short = short,
                                  ![q].held = @ \cup Wants(q)]
            /\ pc = "depart" => req[q].op = "dispatch"
            /\ pc = "pick" => req[q].op = "receive"
            /\ aim = "AT_HUB" => req[q].op = "receive"
<1>1. req[q].op \in {"lock", "dispatch", "receive"} /\ req[q].short \in BOOLEAN
  BY StageOf DEF UpdateItem, At, Typed, Request
<1>2. {"LOADED", "IN_TRANSIT", "AT_HUB", "EXCEPTION"} \subseteq SHIPMENT_STATUSES
  BY DEF SHIPMENT_STATUSES, ALLOWED_TRANSITIONS
<1>3. CASE req[q].op = "lock"
  BY <1>2, <1>3 DEF UpdateItem
<1>4. CASE req[q].op = "dispatch"
  BY <1>2, <1>4 DEF UpdateItem
<1>5. CASE req[q].op = "receive" /\ req[q].ship \in req[q].recv
  BY <1>1, <1>2, <1>5 DEF UpdateItem
<1>6. CASE req[q].op = "receive" /\ req[q].ship \notin req[q].recv
  BY ZenonT(60), <1>1, <1>2, <1>6 DEF UpdateItem
<1> QED BY <1>1, <1>3, <1>4, <1>5, <1>6

\* The steps that leave the tables alone.
LEMMA QuietStepTyped ==
  ASSUME NEW q \in Requests, Typed,
         \/ AddReadManifest(q) \/ AddReadShipment(q) \/ AddInsert(q) \/ AddLinkLegs(q)
         \/ RemoveDelete(q) \/ Recount(q) \/ UpdateRow(q) \/ LockFetchItems(q)
         \/ (\E s \in req[q].todo : NextItem(q, s)) \/ UpdateItem(q)
         \/ DepartLegs(q) \/ ItemsDone(q) \/ PickLeg(q) \/ CloseLeg(q) \/ ReadStatus(q)
         \/ Abort(q)
  PROVE  Typed'
<1> USE StageOf
<1>1. UNCHANGED <<status, rows>>
  BY DEF AddReadManifest, AddReadShipment, AddInsert, AddLinkLegs, RemoveDelete, Recount,
         UpdateRow, LockFetchItems, NextItem, UpdateItem, DepartLegs, ItemsDone, PickLeg, CloseLeg,
         ReadStatus, Abort, Locking
<1>2. Only(q) /\ WellFormed(req'[q])
  <2>1. CASE AddReadManifest(q)
    <3>1. Finish(q) \/ (At(q, "addManifest") /\ Goto(q, "addShipment"))
      BY <2>1 DEF AddReadManifest
    <3>2. CASE At(q, "addManifest") /\ Goto(q, "addShipment")
      BY <3>2, GotoTyped DEF At, Stage, Pcs, OnShipment, Aiming
    <3> QED BY <3>1, <3>2, FinishTyped
  <2>2. CASE AddReadShipment(q)
    <3>1. Finish(q) \/ (At(q, "addShipment") /\ Goto(q, "insert"))
      BY <2>2 DEF AddReadShipment
    <3>2. CASE At(q, "addShipment") /\ Goto(q, "insert")
      BY <3>2, GotoTyped DEF At, Stage, Pcs, OnShipment, Aiming
    <3> QED BY <3>1, <3>2, FinishTyped
  <2>3. CASE AddInsert(q)
    <3>1. Finish(q) \/ (At(q, "insert") /\ Locking(q, "link"))
      BY <2>3 DEF AddInsert
    <3>2. CASE At(q, "insert") /\ Locking(q, "link")
      BY <3>2, LockingTyped DEF At, Stage, Pcs, OnShipment, Aiming
    <3> QED BY <3>1, <3>2, FinishTyped
  <2>4. CASE AddLinkLegs(q)
    BY <2>4, LockingTyped DEF AddLinkLegs, At, Stage, Pcs, OnShipment, Aiming
  <2>5. CASE RemoveDelete(q)
    BY <2>5, LockingTyped DEF RemoveDelete, At, Stage, Pcs, OnShipment, Aiming
  <2>6. CASE Recount(q)
    <3> DEFINE counted == IF req[q].op = "add" THEN ItemsOf(req[q].run) \cup {req[q].ship}
                                               ELSE ItemsOf(req[q].run) \ {req[q].ship}
               x == [req[q] EXCEPT !.pc = "manifest", !.count = Cardinality(counted)]
    <3>1. req'[q] = x /\ Only(q) /\ req[q].pc = "count"
      BY <2>6 DEF Recount, Typed, Only, At
    <3>2. WellFormed(req[q]) /\ req[q] \in Request /\ req[q].op \in {"add", "remove"}
      BY <3>1 DEF Typed
    <3>3. counted \subseteq Shipments
      BY <3>1 DEF ItemsOf, OnShipment
    <3>4. Cardinality(counted) \in Nat
      BY <3>3, RoutesAssumption, FS_Subset, FS_CardinalityType
    <3> HIDE DEF counted
    <3>5. x \in Request
      BY <3>2, <3>4 DEF Request, Pcs
    <3>6. x.pc = "manifest" /\ x.op = req[q].op /\ x.run = req[q].run /\ x.aim = req[q].aim
      BY <3>2 DEF Request
    <3> HIDE DEF x
    <3> QED BY <3>1, <3>2, <3>5, <3>6 DEF WellFormed, Stage, OnShipment, Aiming
  <2>7. CASE UpdateRow(q)
    <3>1. /\ req[q].pc \in {"manifest", "run", "vehicle", "driver"}
          /\ Locking(q, Then(req[q].op, req[q].pc))
      BY <2>7 DEF UpdateRow
    <3> QED BY <3>1, ThenInStage, LockingTyped
  <2>8. CASE LockFetchItems(q)
    <3> DEFINE x == [req[q] EXCEPT !.pc = "items", !.todo = ItemsOf(req[q].run)]
    <3>1. req'[q] = x /\ Only(q) /\ req[q].op = "lock"
      BY <2>8 DEF LockFetchItems, Typed, Only, At
    <3>2. WellFormed(req[q]) /\ req[q] \in Request
      BY DEF Typed
    <3>3. ItemsOf(req[q].run) \in SUBSET Shipments
      BY DEF ItemsOf
    <3>4. x \in Request
      BY <3>2, <3>3 DEF Request, Pcs
    <3>5. x.pc = "items" /\ x.op = "lock" /\ x.run = req[q].run /\ x.aim = req[q].aim
      BY <3>1, <3>2 DEF Request
    <3> HIDE DEF x
    <3> QED BY <3>1, <3>2, <3>4, <3>5 DEF WellFormed, Stage, OnShipment, Aiming, Loop
  <2>9. ASSUME NEW s \in req[q].todo, NextItem(q, s)
        PROVE  Only(q) /\ WellFormed(req'[q])
    <3> DEFINE x == [req[q] EXCEPT !.pc = "item", !.ship = s, !.todo = @ \ {s}]
    <3>1. req'[q] = x /\ Only(q) /\ req[q].op \in {"lock", "dispatch", "receive"}
      BY <2>9 DEF NextItem, Typed, Only, At
    <3>2. WellFormed(req[q]) /\ req[q] \in Request
      BY DEF Typed
    <3>3. s \in Shipments
      BY <3>2 DEF Request
    <3>4. x \in Request
      BY <3>2, <3>3 DEF Request, Pcs
    <3>5. /\ x.pc = "item" /\ x.op = req[q].op /\ x.run = req[q].run /\ x.ship = s
          /\ x.aim = req[q].aim
      BY <3>2 DEF Request
    <3> HIDE DEF x
    <3> QED BY <3>1, <3>2, <3>3, <3>4, <3>5 DEF WellFormed, Stage, OnShipment, Aiming, Loop
  <2>10. CASE UpdateItem(q)
    <3>1. PICK pc \in {"read", "depart", "pick", "items"}, aim \in SHIPMENT_STATUSES,
               short \in BOOLEAN :
            /\ req' = [req EXCEPT ![q].pc = pc, ![q].aim = aim, ![q].short = short,
                                  ![q].held = @ \cup Wants(q)]
            /\ pc = "depart" => req[q].op = "dispatch"
            /\ pc = "pick" => req[q].op = "receive"
            /\ aim = "AT_HUB" => req[q].op = "receive"
      BY <2>10, ItemTurns
    <3> DEFINE x == [req[q] EXCEPT !.pc = pc, !.aim = aim, !.short = short,
                                   !.held = @ \cup Wants(q)]
    <3>2. req' = [req EXCEPT ![q] = x]
      BY <3>1
    <3>3. /\ WellFormed(req[q]) /\ req[q] \in Request /\ req[q].ship \in Shipments
          /\ req[q].op \in {"lock", "dispatch", "receive"}
      BY <2>10 DEF UpdateItem, At, Typed, OnShipment
    <3>4. x \in Request
      BY <3>3, WantedAreRows DEF Request, Pcs
    <3>5. /\ x.pc = pc /\ x.op = req[q].op /\ x.run = req[q].run /\ x.ship = req[q].ship
          /\ x.aim = aim
      BY <3>3 DEF Request
    <3> HIDE DEF x
    <3>6. req'[q] = x /\ Only(q)
      BY <3>2 DEF Typed, Only
    <3>7. pc \in Stage[req[q].op]
      BY <3>1, <3>3 DEF Stage, Loop
    <3> QED BY <3>1, <3>3, <3>4, <3>5, <3>6, <3>7 DEF WellFormed
  <2>11. CASE DepartLegs(q)
    BY <2>11, LockingTyped DEF DepartLegs, At, Stage, Pcs, OnShipment, Aiming, Loop
  <2>12. CASE ItemsDone(q)
    <3>1. req[q].pc = "items" /\ Goto(q, Then(req[q].op, req[q].pc))
      BY <2>12 DEF ItemsDone, At
    <3> QED BY <3>1, ThenInStage, GotoTyped
  <2>13. CASE PickLeg(q)
    <3>1. PICK k \in Nat : req' = [req EXCEPT ![q].pc = "close", ![q].pick = k]
      <4>1. req[q].ship \in Shipments
        BY <2>13 DEF PickLeg, At, OnShipment
      <4>2. Legs(req[q].ship) \subseteq Nat
        BY SMTT(40), <4>1, LegsAreNumbered
      <4> QED BY ZenonT(60), <2>13, <4>2 DEF PickLeg
    <3> DEFINE x == [req[q] EXCEPT !.pc = "close", !.pick = k]
    <3>2. req'[q] = x /\ Only(q) /\ req[q].op = "receive" /\ req[q].pc = "pick"
      BY <2>13, <3>1 DEF PickLeg, Typed, Only, At
    <3>3. WellFormed(req[q]) /\ req[q] \in Request
      BY DEF Typed
    <3>4. x \in Request
      BY <3>3 DEF Request, Pcs
    <3>5. /\ x.pc = "close" /\ x.op = "receive" /\ x.run = req[q].run /\ x.ship = req[q].ship
          /\ x.aim = req[q].aim
      BY <3>2, <3>3 DEF Request
    <3> HIDE DEF x
    <3> QED BY SMTT(40), <3>2, <3>3, <3>4, <3>5 DEF WellFormed, Stage, OnShipment, Aiming
  <2>14. CASE CloseLeg(q)
    BY <2>14, LockingTyped DEF CloseLeg, At, Stage, Pcs, OnShipment, Aiming, Loop
  <2>15. CASE ReadStatus(q)
    <3>1. Finish(q) \/ (At(q, "read") /\ Goto(q, "write"))
      BY <2>15 DEF ReadStatus
    <3>2. CASE At(q, "read") /\ Goto(q, "write")
      BY <3>2, GotoTyped DEF At, Stage, Pcs, OnShipment, Aiming, Loop
    <3> QED BY <3>1, <3>2, FinishTyped
  <2>16. CASE Abort(q)
    BY <2>16, FinishTyped DEF Abort
  <2> QED BY <2>1, <2>2, <2>3, <2>4, <2>5, <2>6, <2>7, <2>8, <2>9, <2>10, <2>11, <2>12, <2>13,
             <2>14, <2>15, <2>16
<1> QED BY <1>1, <1>2, OneRequest, TablesKept DEF Typed

LegRecord == [status : {"PENDING", "IN_TRANSIT", "COMPLETED"}, manifest : Runs \cup {NoOne}]

LEMMA LegTyped ==
  ASSUME Tables, NEW s \in Shipments, NEW k \in Legs(s)
  PROVE  /\ leg[s][k] \in LegRecord
         /\ \A st \in {"PENDING", "IN_TRANSIT", "COMPLETED"} :
              [leg[s][k] EXCEPT !.status = st] \in LegRecord
         /\ \A r \in Runs : [leg[s][k] EXCEPT !.manifest = r] \in LegRecord
<1>1. leg[s][k] \in LegRecord
  BY DEF Tables, LegRecord
<1> DEFINE x == leg[s][k]
<1>2. x \in LegRecord
  BY <1>1
<1> HIDE DEF x
<1>3. /\ \A st \in {"PENDING", "IN_TRANSIT", "COMPLETED"} : [x EXCEPT !.status = st] \in LegRecord
      /\ \A r \in Runs : [x EXCEPT !.manifest = r] \in LegRecord
  BY <1>2 DEF LegRecord
<1> QED BY <1>1, <1>3 DEF x

\* The steps that commit.
LEMMA CommitStepTyped ==
  ASSUME NEW q \in Requests, Typed,
         \/ WriteStatus(q) \/ CommitLeg(q)
         \/ CommitAdd(q) \/ CommitRemove(q) \/ CommitLock(q) \/ CommitDispatch(q)
         \/ CommitArrive(q) \/ CommitReceive(q)
  PROVE  Typed'
<1> USE StageOf
<1>0. Tables /\ WellFormed(req[q]) /\ req[q] \in Request
  BY DEF Typed
<1>1. CASE WriteStatus(q)
  <2>1. Tables'
    BY <1>0, <1>1 DEF WriteStatus, At, Aiming, OnShipment, Tables, rows
  <2>2. \/ Finish(q)
        \/ req[q].aim = "AT_HUB" /\ req[q].op # "transition" /\ Goto(q, "closed")
        \/ req[q].op # "transition" /\ Goto(q, "items")
    BY <1>1 DEF WriteStatus
  <2>3. /\ req[q].op \in {"lock", "dispatch", "receive", "transition"}
        /\ req[q].ship \in Shipments
    BY <1>1 DEF WriteStatus, At, OnShipment
  <2>4. ASSUME req[q].aim = "AT_HUB", req[q].op # "transition", Goto(q, "closed")
        PROVE  Only(q) /\ WellFormed(req'[q])
    <3>1. req[q].op = "receive"
      BY <1>0, <2>4 DEF WellFormed
    <3>2. "closed" \in Stage[req[q].op] /\ "closed" \in Pcs \ Aiming
      BY <3>1 DEF Stage, Pcs, Aiming
    <3> QED BY <2>3, <2>4, <3>2, GotoTyped
  <2>5. ASSUME req[q].op # "transition", Goto(q, "items")
        PROVE  Only(q) /\ WellFormed(req'[q])
    BY <2>3, <2>5, GotoTyped DEF Stage, Pcs, OnShipment, Aiming, Loop
  <2> QED BY <2>1, <2>2, <2>4, <2>5, FinishTyped, OneRequest
<1>2. CASE CommitLeg(q)
  <2> DEFINE x == [req[q] EXCEPT !.pc = "items",
                                 !.held = @ \ {LegRow(req[q].ship, k) : k \in Legs(req[q].ship)}]
  <2>1. req' = [req EXCEPT ![q] = x] /\ req[q].op = "receive" /\ req[q].ship \in Shipments
    BY <1>2 DEF CommitLeg, At, OnShipment
  <2>2. x \in Request
    BY <1>0 DEF Request, Pcs
  <2>3. x.pc = "items" /\ x.op = "receive" /\ x.run = req[q].run /\ x.aim = req[q].aim
    BY <1>0, <2>1 DEF Request
  <2> HIDE DEF x
  <2>4. req'[q] = x /\ Only(q)
    BY <2>1 DEF Typed, Only
  <2>5. WellFormed(x)
    BY <1>0, <2>1, <2>2, <2>3 DEF WellFormed, Stage, OnShipment, Aiming, Loop
  <2>6. \A s \in Shipments : leg'[s] \in [Legs(s) -> LegRecord]
    <3>1. ASSUME NEW s \in Shipments, NEW k \in Legs(s)
          PROVE  /\ [leg[s][k] EXCEPT !.status = "COMPLETED"] \in LegRecord
                 /\ [leg[s][k] EXCEPT !.status = "PENDING"] \in LegRecord
                 /\ leg[s][k] \in LegRecord
      BY <1>0, LegTyped
    <3>2. ASSUME NEW s \in Shipments, s # req[q].ship
          PROVE  leg'[s] \in [Legs(s) -> LegRecord]
      BY <1>0, <1>2, <3>2 DEF CommitLeg, Tables, LegRecord
    <3>3. leg'[req[q].ship] = [k \in Legs(req[q].ship) |->
            CASE k = req[q].pick     -> [leg[req[q].ship][k] EXCEPT !.status = "COMPLETED"]
              [] k = req[q].pick + 1 -> [leg[req[q].ship][k] EXCEPT !.status = "PENDING"]
              [] OTHER               -> leg[req[q].ship][k]]
      BY <1>0, <1>2, <2>1 DEF CommitLeg, Tables
    <3>4. leg'[req[q].ship] \in [Legs(req[q].ship) -> LegRecord]
      BY <2>1, <3>1, <3>3
    <3> QED BY <3>2, <3>4
  <2>7. Tables'
    BY <1>0, <1>2, <2>6 DEF CommitLeg, Tables, LegRecord
  <2> QED BY <2>4, <2>5, <2>7, OneRequest
<1>3. CASE CommitAdd(q)
  <2>1. req[q].run \in Runs /\ req[q].count \in Nat /\ Finish(q)
    BY <1>0, <1>3 DEF CommitAdd, Committing, OnRun, Request
  <2>2. item' \in [Runs -> [Shipments -> ItemStatuses]]
    BY <1>0, <1>3, <2>1 DEF CommitAdd, Written, Tables, ItemStatuses
  <2>3. DOMAIN leg' = Shipments /\ \A s \in Shipments : leg'[s] \in [Legs(s) -> LegRecord]
    <3>1. ASSUME NEW s \in Shipments, NEW k \in Legs(s)
          PROVE  leg[s][k] \in LegRecord /\ [leg[s][k] EXCEPT !.manifest = req[q].run] \in LegRecord
      BY <1>0, <2>1, LegTyped
    <3>2. leg' = [s \in Shipments |-> [k \in Legs(s) |->
                   IF LegRow(s, k) \in req[q].held THEN [leg[s][k] EXCEPT !.manifest = req[q].run] ELSE leg[s][k]]]
      BY <1>3 DEF CommitAdd
    <3>3. ASSUME NEW s \in Shipments
          PROVE  leg'[s] \in [Legs(s) -> LegRecord]
      <4>1. leg'[s] = [k \in Legs(s) |->
                   IF LegRow(s, k) \in req[q].held THEN [leg[s][k] EXCEPT !.manifest = req[q].run] ELSE leg[s][k]]
        BY <3>2
      <4> QED BY <3>1, <4>1
    <3> QED BY <3>2, <3>3
  <2>4. Tables'
    BY <1>0, <1>3, <2>1, <2>2, <2>3 DEF CommitAdd, Tables, LegRecord
  <2> QED BY <2>1, <2>4, FinishTyped, OneRequest
<1>4. CASE CommitRemove(q)
  <2>1. req[q].run \in Runs /\ req[q].count \in Nat /\ Finish(q)
    BY <1>0, <1>4 DEF CommitRemove, Committing, OnRun, Request
  <2>2. item' \in [Runs -> [Shipments -> ItemStatuses]]
    BY <1>0, <1>4, <2>1 DEF CommitRemove, Written, Tables, ItemStatuses
  <2>3. Tables'
    BY <1>0, <1>4, <2>1, <2>2 DEF CommitRemove, Tables
  <2> QED BY <2>1, <2>3, FinishTyped, OneRequest
<1>5. CASE CommitLock(q)
  <2>1. req[q].run \in Runs /\ Finish(q)
    BY <1>0, <1>5 DEF CommitLock, Committing, OnRun
  <2>2. item' \in [Runs -> [Shipments -> ItemStatuses]]
    BY <1>0, <1>5, <2>1 DEF CommitLock, Written, Tables, ItemStatuses
  <2>3. Tables'
    BY <1>0, <1>5, <2>1, <2>2 DEF CommitLock, Tables, RunStatuses, ManifestStatuses
  <2> QED BY <2>1, <2>3, FinishTyped, OneRequest
<1>6. CASE CommitDispatch(q)
  <2>1. /\ req[q].run \in Runs /\ Finish(q)
        /\ VehicleOf[req[q].run] \in Vehicles /\ DriverOf[req[q].run] \in Drivers
    BY <1>0, <1>6 DEF CommitDispatch, Committing, OnRun, WellFormed
  <2>2. item' \in [Runs -> [Shipments -> ItemStatuses]]
    BY <1>0, <1>6, <2>1 DEF CommitDispatch, Written, Tables, ItemStatuses
  <2>3. DOMAIN leg' = Shipments /\ \A s \in Shipments : leg'[s] \in [Legs(s) -> LegRecord]
    <3>1. ASSUME NEW s \in Shipments, NEW k \in Legs(s)
          PROVE  leg[s][k] \in LegRecord /\ [leg[s][k] EXCEPT !.status = "IN_TRANSIT"] \in LegRecord
      BY <1>0, <2>1, LegTyped
    <3>2. leg' = [s \in Shipments |-> [k \in Legs(s) |->
                   IF LegRow(s, k) \in req[q].held THEN [leg[s][k] EXCEPT !.status = "IN_TRANSIT"] ELSE leg[s][k]]]
      BY <1>6 DEF CommitDispatch
    <3>3. ASSUME NEW s \in Shipments
          PROVE  leg'[s] \in [Legs(s) -> LegRecord]
      <4>1. leg'[s] = [k \in Legs(s) |->
                   IF LegRow(s, k) \in req[q].held THEN [leg[s][k] EXCEPT !.status = "IN_TRANSIT"] ELSE leg[s][k]]
        BY <3>2
      <4> QED BY <3>1, <4>1
    <3> QED BY <3>2, <3>3
  <2>4. Tables'
    BY <1>0, <1>6, <2>1, <2>2, <2>3
       DEF CommitDispatch, Tables, LegRecord, RunStatuses, ManifestStatuses, VehicleStatuses, DriverStatuses
  <2> QED BY <2>1, <2>4, FinishTyped, OneRequest
<1>7. CASE CommitArrive(q)
  <2>1. req[q].run \in Runs /\ Finish(q)
    BY <1>0, <1>7 DEF CommitArrive, Committing, OnRun
  <2>2. Tables'
    BY <1>0, <1>7, <2>1 DEF CommitArrive, Tables, RunStatuses
  <2> QED BY <2>1, <2>2, FinishTyped, OneRequest
<1>8. CASE CommitReceive(q)
  <2>1. req[q].run \in Runs /\ Finish(q)
    BY <1>0, <1>8 DEF CommitReceive, Committing, OnRun
  <2>2. item' \in [Runs -> [Shipments -> ItemStatuses]]
    BY <1>0, <1>8, <2>1 DEF CommitReceive, Written, Tables, ItemStatuses
  <2>3. vehicle' \in [Vehicles -> VehicleStatuses] /\ driver' \in [Drivers -> DriverStatuses]
    BY <1>0, <1>8 DEF CommitReceive, Tables, VehicleStatuses, DriverStatuses
  <2>4. Tables'
    BY <1>0, <1>8, <2>1, <2>2, <2>3 DEF CommitReceive, Tables, RunStatuses, ManifestStatuses
  <2> QED BY <2>1, <2>4, FinishTyped, OneRequest
<1> QED BY <1>1, <1>2, <1>3, <1>4, <1>5, <1>6, <1>7, <1>8

LEMMA CreateTyped ==
  ASSUME NEW r \in Runs, Typed, CreateTransportRun(r)
  PROVE  Typed'
<1>1. Tables'
  BY DEF CreateTransportRun, Typed, Tables, RunStatuses, ManifestStatuses
<1> QED BY <1>1 DEF CreateTransportRun, Typed

LEMMA InitTyped == Init => Typed
<1> SUFFICES ASSUME Init PROVE Typed
  OBVIOUS
<1>1. \A s \in Shipments : leg[s] \in [Legs(s) -> LegRecord]
  BY DEF Init, LegRecord
<1>2. item \in [Runs -> [Shipments -> ItemStatuses]]
  BY DEF Init, ItemStatuses
<1>3. Tables
  BY <1>1, <1>2, RoutesAssumption
     DEF Init, Tables, LegRecord, RunStatuses, ManifestStatuses, DriverStatuses
<1>4. \A q \in Requests : req[q] = Idle
  BY DEF Init
<1>5. Idle \in Request
  BY IdleIsWellFormed DEF WellFormed
<1>6. req \in [Requests -> Request]
  BY <1>5 DEF Init
<1> QED BY <1>3, <1>4, <1>6, IdleIsWellFormed DEF Typed

LEMMA NextTyped == Typed /\ [Next]_vars => Typed'
<1> SUFFICES ASSUME Typed, [Next]_vars PROVE Typed'
  OBVIOUS
<1>1. CASE UNCHANGED vars
  BY <1>1 DEF vars, rows, Typed, Tables
<1>2. CASE \E r \in Runs : CreateTransportRun(r)
  BY <1>2, CreateTyped
<1>3. ASSUME NEW q \in Requests, Arrival(q) PROVE Typed'
  BY <1>3, ArrivalTyped
<1>4. ASSUME NEW q \in Requests, Step(q) \/ Abort(q) PROVE Typed'
  BY <1>4, QuietStepTyped, CommitStepTyped DEF Step
<1> QED BY <1>1, <1>2, <1>3, <1>4 DEF Next

LEMMA TypedGivesTypeOK == Typed => TypeOK
  BY DEF Typed, Tables, TypeOK

\* Every table and every request holds values of its type, for any number of
\* requests, runs and shipments: the statements a handler reaches always find
\* the run, the shipment, the vehicle and the driver they name.
THEOREM TypeCorrect == Spec => []TypeOK
<1>1. Init => Typed
  BY InitTyped
<1>2. Typed /\ [Next]_vars => Typed'
  BY NextTyped
<1>3. Typed => TypeOK
  BY TypedGivesTypeOK
<1> QED BY <1>1, <1>2, <1>3, PTL DEF Spec

-----------------------------------------------------------------------------
(* Locks.                                                                  *)

SameJob(q) == req'[q].op = req[q].op /\ req'[q].run = req[q].run

\* What a step of q does to the locks it holds.
LockMove(q) ==
  /\ Only(q)
  /\ \/ req'[q].held = {} /\ (Arrival(q) \/ req'[q] = Idle)
     \/ SameJob(q) /\ req'[q].held \subseteq req[q].held
     \/ SameJob(q) /\ ~Blocked(q) /\ req'[q].held = req[q].held \cup Wants(q)

LEMMA FinishMoves ==
  ASSUME NEW q \in Requests, Typed, Finish(q)
  PROVE  LockMove(q) /\ req'[q] = Idle
  BY DEF Finish, LockMove, Only, Idle, Typed

LEMMA GotoMoves ==
  ASSUME NEW q \in Requests, Typed, NEW pc, Goto(q, pc)
  PROVE  LockMove(q)
<1>1. req[q] \in Request
  BY DEF Typed
<1>2. req'[q] = [req[q] EXCEPT !.pc = pc] /\ Only(q)
  BY DEF Goto, Only, Typed
<1> QED BY <1>1, <1>2 DEF LockMove, SameJob, Request

LEMMA LockingMoves ==
  ASSUME NEW q \in Requests, Typed, NEW pc, Locking(q, pc)
  PROVE  LockMove(q)
<1>1. req[q] \in Request
  BY DEF Typed
<1>2. req'[q] = [req[q] EXCEPT !.pc = pc, !.held = @ \cup Wants(q)] /\ Only(q) /\ ~Blocked(q)
  BY DEF Locking, Only, Typed
<1> QED BY <1>1, <1>2 DEF LockMove, SameJob, Request

LEMMA StepMovesLocks ==
  ASSUME NEW q \in Requests, Typed, Arrival(q) \/ Step(q) \/ Abort(q)
  PROVE  LockMove(q)
<1>0. req[q] \in Request
  BY DEF Typed
<1>1. CASE Arrival(q)
  <2>1. req'[q].held = {} /\ Only(q)
    BY ZenonT(40), <1>1 DEF Arrival, AddReadRun, RemoveRead, LockRead, DispatchRead, ArriveRead, ReceiveRead,
                StaffTransition, Begin, Only, Idle, Typed
  <2> QED BY <1>1, <2>1 DEF LockMove
<1>2. CASE \/ AddReadManifest(q) \/ AddReadShipment(q) \/ ItemsDone(q) \/ ReadStatus(q)
           \/ WriteStatus(q)
  BY <1>2, FinishMoves, GotoMoves
     DEF AddReadManifest, AddReadShipment, ItemsDone, ReadStatus, WriteStatus
<1>3. CASE \/ AddInsert(q) \/ AddLinkLegs(q) \/ RemoveDelete(q) \/ UpdateRow(q) \/ DepartLegs(q)
           \/ CloseLeg(q)
  BY <1>3, FinishMoves, LockingMoves
     DEF AddInsert, AddLinkLegs, RemoveDelete, UpdateRow, DepartLegs, CloseLeg
<1>4. CASE \/ CommitAdd(q) \/ CommitRemove(q) \/ CommitLock(q) \/ CommitDispatch(q)
           \/ CommitArrive(q) \/ CommitReceive(q) \/ Abort(q)
  BY <1>4, FinishMoves
     DEF CommitAdd, CommitRemove, CommitLock, CommitDispatch, CommitArrive, CommitReceive, Abort
<1>5. CASE Recount(q)
  <2>1. PICK n : req' = [req EXCEPT ![q].pc = "manifest", ![q].count = n]
    BY <1>5 DEF Recount
  <2>2. req'[q] = [req[q] EXCEPT !.pc = "manifest", !.count = n] /\ Only(q)
    BY <2>1 DEF Only, Typed
  <2> QED BY <1>0, <2>2 DEF LockMove, SameJob, Request
<1>6. CASE LockFetchItems(q)
  <2>1. /\ req'[q] = [req[q] EXCEPT !.pc = "items", !.todo = ItemsOf(req[q].run)]
        /\ Only(q)
    BY <1>6 DEF LockFetchItems, Only, Typed
  <2> QED BY <1>0, <2>1 DEF LockMove, SameJob, Request
<1>7. ASSUME NEW s \in req[q].todo, NextItem(q, s)
      PROVE  LockMove(q)
  <2>1. req'[q] = [req[q] EXCEPT !.pc = "item", !.ship = s, !.todo = @ \ {s}] /\ Only(q)
    BY <1>7 DEF NextItem, Only, Typed
  <2> QED BY <1>0, <2>1 DEF LockMove, SameJob, Request
<1>8. CASE UpdateItem(q)
  <2>1. ~Blocked(q)
    BY <1>8 DEF UpdateItem
  <2>2. PICK pc \in {"read", "depart", "pick", "items"}, aim \in SHIPMENT_STATUSES,
             short \in BOOLEAN :
            /\ req' = [req EXCEPT ![q].pc = pc, ![q].aim = aim, ![q].short = short,
                                  ![q].held = @ \cup Wants(q)]
            /\ pc = "depart" => req[q].op = "dispatch"
            /\ pc = "pick" => req[q].op = "receive"
            /\ aim = "AT_HUB" => req[q].op = "receive"
    BY <1>8, ItemTurns
  <2>3. /\ req'[q] = [req[q] EXCEPT !.pc = pc, !.aim = aim, !.short = short,
                                     !.held = @ \cup Wants(q)]
        /\ Only(q)
    BY <2>2 DEF Only, Typed
  <2> QED BY <1>0, <2>1, <2>3 DEF LockMove, SameJob, Request
<1>9. CASE PickLeg(q)
  <2>1. PICK k : req' = [req EXCEPT ![q].pc = "close", ![q].pick = k]
    BY <1>9 DEF PickLeg
  <2>2. req'[q] = [req[q] EXCEPT !.pc = "close", !.pick = k] /\ Only(q)
    BY <2>1 DEF Only, Typed
  <2> QED BY <1>0, <2>2 DEF LockMove, SameJob, Request
<1>10. CASE CommitLeg(q)
  <2>1. PICK gone : req' = [req EXCEPT ![q].pc = "items", ![q].held = @ \ gone]
    BY <1>10 DEF CommitLeg
  <2>2. req'[q] = [req[q] EXCEPT !.pc = "items", !.held = @ \ gone] /\ Only(q)
    BY <2>1 DEF Only, Typed
  <2> QED BY <1>0, <2>2 DEF LockMove, SameJob, Request
<1> QED BY <1>1, <1>2, <1>3, <1>4, <1>5, <1>6, <1>7, <1>8, <1>9, <1>10 DEF Step

LEMMA LocksStayExclusive ==
  ASSUME NEW q \in Requests, Typed, Typed', LockMove(q), RowLocksExclusive
  PROVE  RowLocksExclusive'
<1>1. \A p \in Requests \ {q} : req'[p] = req[p]
  BY DEF LockMove, Only, Typed
<1>2. \A p \in Requests \ {q} : req[p].held \cap req'[q].held = {}
  BY DEF LockMove, RowLocksExclusive, Blocked
<1> QED BY <1>1, <1>2 DEF RowLocksExclusive

-----------------------------------------------------------------------------
(* What a step does to the legs, and what a locked leg promises.           *)

\* A leg leaves only by a dispatch that holds it and joins a manifest only by
\* an add that holds it.
LegMove(q) ==
  \A s \in Shipments : \A k \in Legs(s) :
    /\ \/ leg'[s][k].status = leg[s][k].status
       \/ leg'[s][k].status # "IN_TRANSIT"
       \/ CommitDispatch(q) /\ LegRow(s, k) \in req[q].held
    /\ \/ leg'[s][k].manifest = leg[s][k].manifest
       \/ /\ CommitAdd(q)
          /\ LegRow(s, k) \in req[q].held
          /\ leg'[s][k].status = leg[s][k].status
          /\ leg'[s][k].manifest = req[q].run

LEMMA LegsMove ==
  ASSUME NEW q \in Requests, Typed, Arrival(q) \/ Step(q) \/ Abort(q)
  PROVE  LegMove(q)
<1>1. CASE leg' = leg
  BY <1>1 DEF LegMove
<1>2. CASE CommitLeg(q)
  <2>1. ASSUME NEW s \in Shipments, NEW k \in Legs(s)
        PROVE  /\ leg'[s][k].manifest = leg[s][k].manifest
               /\ leg'[s][k].status = leg[s][k].status \/ leg'[s][k].status # "IN_TRANSIT"
    <3>1. leg[s][k] \in LegRecord
      BY LegTyped DEF Typed
    <3>2. leg'[s][k] \in {leg[s][k], [leg[s][k] EXCEPT !.status = "COMPLETED"],
                                     [leg[s][k] EXCEPT !.status = "PENDING"]}
      BY <1>2 DEF CommitLeg, Typed, Tables
    <3> QED BY <3>1, <3>2 DEF LegRecord
  <2> QED BY <2>1 DEF LegMove
<1>3. CASE CommitAdd(q)
  <2>1. ASSUME NEW s \in Shipments, NEW k \in Legs(s)
        PROVE  /\ leg'[s][k].status = leg[s][k].status
               /\ \/ leg'[s][k].manifest = leg[s][k].manifest
                  \/ LegRow(s, k) \in req[q].held /\ leg'[s][k].manifest = req[q].run
    <3>1. leg[s][k] \in LegRecord
      BY LegTyped DEF Typed
    <3>2. leg'[s][k] = IF LegRow(s, k) \in req[q].held
                       THEN [leg[s][k] EXCEPT !.manifest = req[q].run] ELSE leg[s][k]
      BY <1>3 DEF CommitAdd
    <3> QED BY <3>1, <3>2 DEF LegRecord
  <2> QED BY <1>3, <2>1 DEF LegMove
<1>4. CASE CommitDispatch(q)
  <2>1. ASSUME NEW s \in Shipments, NEW k \in Legs(s)
        PROVE  /\ leg'[s][k].manifest = leg[s][k].manifest
               /\ leg'[s][k].status = leg[s][k].status \/ LegRow(s, k) \in req[q].held
    <3>1. leg[s][k] \in LegRecord
      BY LegTyped DEF Typed
    <3>2. leg'[s][k] = IF LegRow(s, k) \in req[q].held
                       THEN [leg[s][k] EXCEPT !.status = "IN_TRANSIT"] ELSE leg[s][k]
      BY <1>4 DEF CommitDispatch
    <3> QED BY <3>1, <3>2 DEF LegRecord
  <2> QED BY <1>4, <2>1 DEF LegMove
<1>5. leg' = leg \/ CommitLeg(q) \/ CommitAdd(q) \/ CommitDispatch(q)
  BY DEF Arrival, AddReadRun, RemoveRead, LockRead, DispatchRead, ArriveRead, ReceiveRead,
         StaffTransition, Begin, Step, AddReadManifest, AddReadShipment, AddInsert, AddLinkLegs,
         RemoveDelete, Recount, UpdateRow, LockFetchItems, NextItem, UpdateItem, DepartLegs,
         ItemsDone, PickLeg, CloseLeg, ReadStatus, WriteStatus, CommitRemove, CommitLock,
         CommitArrive, CommitReceive, Abort, Locking, rows
<1> QED BY <1>1, <1>2, <1>3, <1>4, <1>5

\* A statement of an add wants only legs that are PENDING, one of a dispatch
\* only legs of its manifest.
LEMMA WantedLegs ==
  ASSUME NEW q \in Requests, Typed, NEW s \in Shipments, NEW k \in Legs(s),
         LegRow(s, k) \in Wants(q)
  PROVE  /\ req[q].op = "add" => leg[s][k].status # "IN_TRANSIT"
         /\ req[q].op = "dispatch" => leg[s][k].manifest = req[q].run
<1>1. req[q].pc \in {"link", "depart", "close"}
  BY DEF Wants, RowsOf, StoredItem, LegRow, ItemRow, ManifestRow, RunRow, VehicleRow, DriverRow
<1>2. CASE req[q].pc = "link"
  <2>1. LegRow(s, k) \in {LegRow(req[q].ship, j) : j \in LegsToLink(req[q].run, req[q].ship)}
    BY <1>2 DEF Wants
  <2>2. s = req[q].ship /\ k \in LegsToLink(req[q].run, s)
    BY <2>1 DEF LegRow
  <2> QED BY <1>2, <2>2, StageOf DEF LegsToLink
<1>3. CASE req[q].pc = "depart"
  <2>1. LegRow(s, k) \in {LegRow(req[q].ship, j) : j \in LegsOn(req[q].run, req[q].ship)}
    BY <1>3 DEF Wants
  <2>2. s = req[q].ship /\ k \in LegsOn(req[q].run, s)
    BY <2>1 DEF LegRow
  <2> QED BY <1>3, <2>2, StageOf DEF LegsOn
<1> QED BY <1>1, <1>2, <1>3, StageOf

LEMMA ClaimsKept ==
  ASSUME NEW q \in Requests, NEW p \in Requests, Typed, Typed', LockMove(q), LegMove(q),
         RowLocksExclusive, LegsClaimed(p), LegsClaimed(q),
         CommitAdd(q) \/ CommitDispatch(q) => req'[q] = Idle
  PROVE  LegsClaimed(p)'
<1> SUFFICES ASSUME NEW s \in Shipments, NEW k \in Legs(s), LegRow(s, k) \in req'[p].held
             PROVE  /\ req'[p].op = "add" => leg'[s][k].status # "IN_TRANSIT"
                    /\ req'[p].op = "dispatch" => leg'[s][k].manifest = req'[p].run
  BY DEF LegsClaimed, Legs
<1>1. CASE p # q
  <2>1. req'[p] = req[p]
    BY <1>1 DEF LockMove, Only, Typed
  <2>2. LegRow(s, k) \notin req[q].held
    BY <1>1, <2>1 DEF RowLocksExclusive
  <2> QED BY <2>1, <2>2 DEF LegMove, LegsClaimed
<1>2. CASE p = q
  <2>1. ~CommitAdd(q) /\ ~CommitDispatch(q)
    BY <1>2 DEF Idle
  <2>2. SameJob(q) /\ LegRow(s, k) \in req[q].held \cup Wants(q)
    BY <1>2 DEF LockMove
  <2>3. /\ req[q].op = "add" => leg[s][k].status # "IN_TRANSIT"
        /\ req[q].op = "dispatch" => leg[s][k].manifest = req[q].run
    BY <2>2, WantedLegs DEF LegsClaimed
  <2> QED BY <1>2, <2>1, <2>2, <2>3 DEF LegMove, SameJob
<1> QED BY <1>1, <1>2

-----------------------------------------------------------------------------
(* The inductive invariant.                                                *)

LEMMA InitInv == Init => IInv
<1> SUFFICES ASSUME Init PROVE IInv
  OBVIOUS
<1>1. \A q \in Requests : req[q] = Idle
  BY DEF Init
<1>2. RowLocksExclusive /\ \A q \in Requests : RunExists(q) /\ LegsClaimed(q)
  BY <1>1 DEF RowLocksExclusive, RunExists, LegsClaimed, Idle, OnRun
<1>3. RunAndManifestAgree /\ Crewed /\ CrewOnTheRoad
  BY DEF Init, RunAndManifestAgree, Crewed, CrewOnTheRoad
<1>4. \A s \in Shipments : \A k \in Legs(s) : leg[s][k].status = "PENDING"
  BY DEF Init
<1>5. NothingMovesOnADraft
  BY <1>4 DEF Init, NothingMovesOnADraft
<1> QED BY <1>2, <1>3, <1>5, InitTyped DEF IInv

\* How a step of a request may move a run and its manifest.
RunMove(q) ==
  \/ run' = run /\ manifest' = manifest
  \/ /\ req[q].run \in Runs
     /\ run[req[q].run] # "NONE"
     /\ \/ run' = [run EXCEPT ![req[q].run] = "LOADED"]
           /\ manifest' = [manifest EXCEPT ![req[q].run] = "LOCKED"]
        \/ run' = [run EXCEPT ![req[q].run] = "IN_TRANSIT"]
           /\ manifest' = [manifest EXCEPT ![req[q].run] = "DISPATCHED"]
        \/ run' = [run EXCEPT ![req[q].run] = "ARRIVED"]
           /\ manifest' = manifest
        \/ run' = [run EXCEPT ![req[q].run] = "COMPLETED"]
           /\ \/ manifest' = [manifest EXCEPT ![req[q].run] = "DISCREPANCY"]
              \/ manifest' = [manifest EXCEPT ![req[q].run] = "RECONCILED"]

LEMMA RunsMove ==
  ASSUME NEW q \in Requests, Typed, RunExists(q), Arrival(q) \/ Step(q) \/ Abort(q)
  PROVE  RunMove(q)
<1>1. CASE run' = run /\ manifest' = manifest
  BY <1>1 DEF RunMove
<1>2. ASSUME NEW op \in OnRun, Committing(q, op)
      PROVE  req[q].run \in Runs /\ run[req[q].run] # "NONE"
  BY <1>2, StageOf DEF Committing, RunExists
<1>3. CASE CommitLock(q)
  BY <1>2, <1>3 DEF CommitLock, RunMove, OnRun
<1>4. CASE CommitDispatch(q)
  BY <1>2, <1>4 DEF CommitDispatch, RunMove, OnRun
<1>5. CASE CommitArrive(q)
  BY <1>2, <1>5 DEF CommitArrive, RunMove, OnRun
<1>6. CASE CommitReceive(q)
  BY <1>2, <1>6 DEF CommitReceive, RunMove, OnRun
<1>7. \/ run' = run /\ manifest' = manifest
      \/ CommitLock(q) \/ CommitDispatch(q) \/ CommitArrive(q) \/ CommitReceive(q)
  BY DEF Arrival, AddReadRun, RemoveRead, LockRead, DispatchRead, ArriveRead, ReceiveRead,
         StaffTransition, Begin, Step, AddReadManifest, AddReadShipment, AddInsert, AddLinkLegs,
         RemoveDelete, Recount, UpdateRow, LockFetchItems, NextItem, UpdateItem, DepartLegs,
         ItemsDone, PickLeg, CloseLeg, ReadStatus, WriteStatus, CommitLeg, CommitAdd, CommitRemove,
         Abort, Locking, rows
<1> QED BY <1>1, <1>3, <1>4, <1>5, <1>6, <1>7

LEMMA AgreementKept ==
  ASSUME NEW q \in Requests, Typed, RunMove(q), RunAndManifestAgree
  PROVE  RunAndManifestAgree'
<1> SUFFICES ASSUME NEW r \in Runs
             PROVE  CASE manifest'[r] = "NONE"       -> run'[r] = "NONE"
                      [] manifest'[r] = "DRAFT"      -> run'[r] \in {"PLANNED", "ARRIVED"}
                      [] manifest'[r] = "LOCKED"     -> run'[r] \in {"LOADED", "ARRIVED"}
                      [] manifest'[r] = "DISPATCHED" -> run'[r] \in {"IN_TRANSIT", "ARRIVED"}
                      [] OTHER                       -> run'[r] \in {"COMPLETED", "ARRIVED"}
  BY DEF RunAndManifestAgree
<1>1. run \in [Runs -> RunStatuses] /\ manifest \in [Runs -> ManifestStatuses]
  BY DEF Typed, Tables
<1>2. CASE run'[r] = run[r] /\ manifest'[r] = manifest[r]
  BY <1>2 DEF RunAndManifestAgree
<1>3. CASE r = req[q].run /\ run[r] # "NONE"
  BY <1>1, <1>2, <1>3 DEF RunMove, RunAndManifestAgree
<1>4. (run'[r] = run[r] /\ manifest'[r] = manifest[r]) \/ (r = req[q].run /\ run[r] # "NONE")
  BY <1>1 DEF RunMove
<1> QED BY <1>2, <1>3, <1>4

LEMMA RunsStayCreated ==
  ASSUME NEW q \in Requests, NEW p \in Requests, Typed, Typed', LockMove(q), RunMove(q),
         RunAndManifestAgree, RunExists(p), RunExists(q)
  PROVE  RunExists(p)'
<1>1. \A r \in Runs : run[r] # "NONE" => run'[r] # "NONE"
  BY DEF RunMove, Typed, Tables
<1>2. \A r \in Runs : manifest[r] # "NONE" => run[r] # "NONE"
  BY DEF RunAndManifestAgree
<1>3. CASE p # q
  <2>1. req'[p] = req[p]
    BY <1>3 DEF LockMove, Only, Typed
  <2> QED BY <1>1, <2>1, StageOf DEF RunExists
<1>4. CASE SameJob(q)
  BY <1>1, <1>3, <1>4, StageOf DEF RunExists, SameJob
<1>5. CASE req'[q] = Idle
  BY <1>3, <1>5 DEF RunExists, Idle, OnRun
<1>6. CASE Arrival(q)
  <2>1. req'[q].op \in OnRun => req'[q].run \in Runs /\ run[req'[q].run] # "NONE"
    <3>1. ASSUME NEW r \in Runs, NEW s \in Shipments, AddReadRun(q, r, s) \/ RemoveRead(q, r, s)
          PROVE  req'[q].run = r /\ run[r] # "NONE"
      BY ZenonT(40), <3>1, <1>2 DEF AddReadRun, RemoveRead, Begin, Idle, Typed
    <3>2. ASSUME NEW r \in Runs, LockRead(q, r) \/ DispatchRead(q, r) \/ ArriveRead(q, r)
          PROVE  req'[q].run = r /\ run[r] # "NONE"
      BY ZenonT(40), <3>2 DEF LockRead, DispatchRead, ArriveRead, Begin, Idle, Typed
    <3>3. ASSUME NEW r \in Runs, NEW received \in SUBSET Shipments, ReceiveRead(q, r, received)
          PROVE  req'[q].run = r /\ run[r] # "NONE"
      BY <3>3 DEF ReceiveRead, Idle, Typed
    <3>4. ASSUME NEW s \in Shipments, NEW aim \in StaffTargets, StaffTransition(q, s, aim)
          PROVE  req'[q].op \notin OnRun
      BY <3>4 DEF StaffTransition, Idle, Typed, OnRun
    <3> QED BY <1>6, <3>1, <3>2, <3>3, <3>4 DEF Arrival
  <2> QED BY <1>1, <1>3, <2>1 DEF RunExists
<1> QED BY <1>3, <1>4, <1>5, <1>6 DEF LockMove

\* An item of a draft is only ever written ASSIGNED or deleted.
ItemMove(q) ==
  \A r \in Runs : \A s \in Shipments :
    \/ item'[r][s] = item[r][s]
    \/ item'[r][s] \in {"NONE", "ASSIGNED"}
    \/ manifest'[r] \notin {"NONE", "DRAFT"}

LEMMA ItemsMove ==
  ASSUME NEW q \in Requests, Typed, Arrival(q) \/ Step(q) \/ Abort(q)
  PROVE  ItemMove(q)
<1>1. CASE item' = item
  BY <1>1 DEF ItemMove
<1>2. CASE CommitAdd(q) \/ CommitRemove(q)
  BY <1>2 DEF CommitAdd, CommitRemove, Written, ItemMove, Typed, Tables
<1>3. CASE CommitLock(q) \/ CommitDispatch(q)
  BY <1>3 DEF CommitLock, CommitDispatch, Written, ItemMove, Typed, Tables
<1>4. CASE CommitReceive(q)
  BY <1>4 DEF CommitReceive, Written, ItemMove, Typed, Tables
<1>5. \/ item' = item
      \/ CommitAdd(q) \/ CommitRemove(q) \/ CommitLock(q) \/ CommitDispatch(q) \/ CommitReceive(q)
  BY DEF Arrival, AddReadRun, RemoveRead, LockRead, DispatchRead, ArriveRead, ReceiveRead,
         StaffTransition, Begin, Step, AddReadManifest, AddReadShipment, AddInsert, AddLinkLegs,
         RemoveDelete, Recount, UpdateRow, LockFetchItems, NextItem, UpdateItem, DepartLegs,
         ItemsDone, PickLeg, CloseLeg, ReadStatus, WriteStatus, CommitLeg, CommitArrive,
         Abort, Locking, rows
<1> QED BY <1>1, <1>2, <1>3, <1>4, <1>5

LEMMA DraftsKept ==
  ASSUME NEW q \in Requests, Typed, Typed', RunMove(q), LegMove(q), ItemMove(q), LegsClaimed(q),
         NothingMovesOnADraft
  PROVE  NothingMovesOnADraft'
<1>1. \A r \in Runs : manifest[r] \notin {"NONE", "DRAFT"} => manifest'[r] \notin {"NONE", "DRAFT"}
  BY DEF RunMove, Typed, Tables
<1>2. ASSUME NEW s \in Shipments, NEW k \in Legs(s), leg'[s][k].status = "IN_TRANSIT"
      PROVE  leg'[s][k].manifest # NoOne /\ manifest'[leg'[s][k].manifest] \notin {"NONE", "DRAFT"}
  <2>1. leg[s][k].manifest \in Runs \cup {NoOne}
    BY LegTyped DEF Typed, LegRecord
  <2>2. CASE CommitDispatch(q) /\ LegRow(s, k) \in req[q].held
    <3>1. req[q].op = "dispatch" /\ req[q].run \in Runs
      BY <2>2, StageOf DEF CommitDispatch, Committing, OnRun
    <3>2. manifest'[req[q].run] = "DISPATCHED"
      BY <2>2, <3>1 DEF CommitDispatch, Typed, Tables
    <3>3. leg[s][k].manifest = req[q].run
      BY <2>2, <3>1 DEF LegsClaimed
    <3>4. ~CommitAdd(q)
      BY <3>1 DEF CommitAdd, Committing
    <3>5. leg'[s][k].manifest = req[q].run
      BY <3>3, <3>4 DEF LegMove
    <3> QED BY <3>1, <3>2, <3>5, RoutesAssumption
  <2>3. CASE leg'[s][k].status = leg[s][k].status
    <3>1. CASE leg'[s][k].manifest = leg[s][k].manifest
      BY <1>1, <1>2, <2>1, <2>3, <3>1 DEF NothingMovesOnADraft
    <3>2. CASE CommitAdd(q) /\ LegRow(s, k) \in req[q].held
      BY <1>2, <2>3, <3>2 DEF LegsClaimed, CommitAdd, Committing
    <3> QED BY <3>1, <3>2 DEF LegMove
  <2> QED BY <1>2, <2>2, <2>3 DEF LegMove
<1>3. ASSUME NEW r \in Runs, manifest'[r] \in {"NONE", "DRAFT"}, NEW s \in Shipments
      PROVE  item'[r][s] \in {"NONE", "ASSIGNED"}
  BY <1>1, <1>3 DEF ItemMove, NothingMovesOnADraft
<1> QED BY <1>2, <1>3 DEF NothingMovesOnADraft, Legs

\* How a step of a request may move a vehicle and a driver: always together
\* with the run.
CrewMove(q) ==
  \/ UNCHANGED <<run, vehicle, driver>>
  \/ run' = [run EXCEPT ![req[q].run] = "LOADED"] /\ UNCHANGED <<vehicle, driver>>
  \/ run' = [run EXCEPT ![req[q].run] = "ARRIVED"] /\ UNCHANGED <<vehicle, driver>>
  \/ /\ run' = [run EXCEPT ![req[q].run] = "IN_TRANSIT"]
     /\ VehicleOf[req[q].run] \in Vehicles /\ DriverOf[req[q].run] \in Drivers
     /\ vehicle' = [vehicle EXCEPT ![VehicleOf[req[q].run]] = "IN_TRANSIT"]
     /\ driver' = [driver EXCEPT ![DriverOf[req[q].run]] = "ON_DELIVERY"]
  \/ /\ run' = [run EXCEPT ![req[q].run] = "COMPLETED"] /\ req[q].run \in Runs
     /\ \A v \in Vehicles : v # VehicleOf[req[q].run] => vehicle'[v] = vehicle[v]
     /\ \A d \in Drivers : d # DriverOf[req[q].run] => driver'[d] = driver[d]

LEMMA CrewMoves ==
  ASSUME NEW q \in Requests, Typed, Arrival(q) \/ Step(q) \/ Abort(q)
  PROVE  CrewMove(q)
<1>1. CASE UNCHANGED <<run, vehicle, driver>>
  BY <1>1 DEF CrewMove
<1>2. CASE CommitLock(q) \/ CommitArrive(q)
  BY <1>2 DEF CommitLock, CommitArrive, CrewMove
<1>3. CASE CommitDispatch(q)
  BY <1>3 DEF CommitDispatch, CrewMove, Committing, Typed, WellFormed
<1>4. CASE CommitReceive(q)
  BY <1>4, StageOf DEF CommitReceive, Committing, OnRun, CrewMove, Typed, Tables
<1>5. \/ UNCHANGED <<run, vehicle, driver>>
      \/ CommitLock(q) \/ CommitDispatch(q) \/ CommitArrive(q) \/ CommitReceive(q)
  BY DEF Arrival, AddReadRun, RemoveRead, LockRead, DispatchRead, ArriveRead, ReceiveRead,
         StaffTransition, Begin, Step, AddReadManifest, AddReadShipment, AddInsert, AddLinkLegs,
         RemoveDelete, Recount, UpdateRow, LockFetchItems, NextItem, UpdateItem, DepartLegs,
         ItemsDone, PickLeg, CloseLeg, ReadStatus, WriteStatus, CommitLeg, CommitAdd, CommitRemove,
         Abort, Locking, rows
<1> QED BY <1>1, <1>2, <1>3, <1>4, <1>5

LEMMA CrewKept ==
  ASSUME NEW q \in Requests, Typed, Typed', CrewMove(q), Crewed, CrewOnTheRoad
  PROVE  Crewed' /\ CrewOnTheRoad'
<1>0. /\ run \in [Runs -> RunStatuses]
      /\ vehicle \in [Vehicles -> VehicleStatuses]
      /\ driver \in [Drivers -> DriverStatuses]
  BY DEF Typed, Tables
<1>1. ASSUME NEW r \in Runs, run'[r] = "IN_TRANSIT"
      PROVE  /\ VehicleOf[r] \in Vehicles /\ DriverOf[r] \in Drivers
             /\ (\A o \in Runs \ {r} : VehicleOf[o] # VehicleOf[r]) => vehicle'[VehicleOf[r]] = "IN_TRANSIT"
             /\ (\A o \in Runs \ {r} : DriverOf[o] # DriverOf[r]) => driver'[DriverOf[r]] = "ON_DELIVERY"
  <2>1. run[r] = "IN_TRANSIT" \/ r = req[q].run
    BY <1>0, <1>1 DEF CrewMove
  <2>2. run[r] = "IN_TRANSIT" => VehicleOf[r] \in Vehicles /\ DriverOf[r] \in Drivers
    BY DEF Crewed
  <2>3. CASE UNCHANGED <<run, vehicle, driver>>
    BY <1>1, <2>2, <2>3 DEF CrewOnTheRoad
  <2>4. CASE /\ UNCHANGED <<vehicle, driver>>
             /\ \/ run' = [run EXCEPT ![req[q].run] = "LOADED"]
                \/ run' = [run EXCEPT ![req[q].run] = "ARRIVED"]
    BY <1>0, <1>1, <2>2, <2>4 DEF CrewOnTheRoad
  <2>5. CASE /\ run' = [run EXCEPT ![req[q].run] = "IN_TRANSIT"]
             /\ VehicleOf[req[q].run] \in Vehicles /\ DriverOf[req[q].run] \in Drivers
             /\ vehicle' = [vehicle EXCEPT ![VehicleOf[req[q].run]] = "IN_TRANSIT"]
             /\ driver' = [driver EXCEPT ![DriverOf[req[q].run]] = "ON_DELIVERY"]
    BY <1>0, <2>1, <2>2, <2>5 DEF CrewOnTheRoad
  <2>6. CASE /\ run' = [run EXCEPT ![req[q].run] = "COMPLETED"] /\ req[q].run \in Runs
             /\ \A v \in Vehicles : v # VehicleOf[req[q].run] => vehicle'[v] = vehicle[v]
             /\ \A d \in Drivers : d # DriverOf[req[q].run] => driver'[d] = driver[d]
    <3>1. r # req[q].run /\ run[r] = "IN_TRANSIT"
      BY <1>0, <1>1, <2>1, <2>6
    <3> QED BY <2>2, <2>6, <3>1 DEF CrewOnTheRoad
  <2> QED BY <2>3, <2>4, <2>5, <2>6 DEF CrewMove
<1>2. Crewed'
  BY <1>1 DEF Crewed
<1>3. CrewOnTheRoad'
  BY <1>1 DEF CrewOnTheRoad
<1> QED BY <1>2, <1>3

LEMMA CreateKeepsInv ==
  ASSUME NEW r \in Runs, IInv, CreateTransportRun(r)
  PROVE  IInv'
<1>1. Typed /\ Typed'
  BY CreateTyped DEF IInv
<1>2. run[r] = "NONE" /\ manifest[r] = "NONE"
  <2>1. run[r] = "NONE"
    BY DEF CreateTransportRun
  <2> QED BY <1>1, <2>1 DEF IInv, RunAndManifestAgree, Typed, Tables
<1>3. /\ run' = [run EXCEPT ![r] = "PLANNED"]
      /\ manifest' = [manifest EXCEPT ![r] = "DRAFT"]
      /\ UNCHANGED <<leg, item, vehicle, driver, req>>
  BY DEF CreateTransportRun
<1>4. RowLocksExclusive'
  BY <1>3 DEF IInv, RowLocksExclusive
<1>5. \A q \in Requests : RunExists(q)' /\ LegsClaimed(q)'
  BY <1>1, <1>3, StageOf DEF IInv, RunExists, LegsClaimed, Typed, Tables, Legs
<1>6. RunAndManifestAgree'
  <2>1. ASSUME NEW o \in Runs \ {r}
        PROVE  run'[o] = run[o] /\ manifest'[o] = manifest[o]
    BY <1>1, <1>3 DEF Typed, Tables
  <2>2. run'[r] = "PLANNED" /\ manifest'[r] = "DRAFT"
    BY <1>1, <1>3 DEF Typed, Tables
  <2> QED BY <2>1, <2>2 DEF IInv, RunAndManifestAgree
<1>7. NothingMovesOnADraft'
  <2>1. \A o \in Runs : manifest[o] \notin {"NONE", "DRAFT"} => manifest'[o] = manifest[o]
    BY <1>1, <1>2, <1>3 DEF Typed, Tables
  <2>2. \A o \in Runs : manifest'[o] \in {"NONE", "DRAFT"} => manifest[o] \in {"NONE", "DRAFT"}
    BY <2>1
  <2>3. \A s \in Shipments : \A k \in Legs(s) : leg[s][k].manifest \in Runs \cup {NoOne}
    BY <1>1, LegTyped DEF Typed, LegRecord
  <2> QED BY <1>3, <2>1, <2>2, <2>3 DEF IInv, NothingMovesOnADraft, Legs
<1>8. Crewed' /\ CrewOnTheRoad'
  <2>1. \A o \in Runs : run'[o] = "IN_TRANSIT" => run[o] = "IN_TRANSIT"
    BY <1>1, <1>3 DEF Typed, Tables
  <2> QED BY <1>3, <2>1 DEF IInv, Crewed, CrewOnTheRoad
<1> QED BY <1>1, <1>4, <1>5, <1>6, <1>7, <1>8 DEF IInv

LEMMA RequestKeepsInv ==
  ASSUME NEW q \in Requests, IInv, Arrival(q) \/ Step(q) \/ Abort(q)
  PROVE  IInv'
<1>1. Typed /\ Typed'
  BY NextTyped DEF IInv, Next
<1>2. LockMove(q) /\ LegMove(q) /\ RunMove(q) /\ ItemMove(q) /\ CrewMove(q)
  BY <1>1, StepMovesLocks, LegsMove, RunsMove, ItemsMove, CrewMoves DEF IInv
<1>3. RowLocksExclusive'
  BY <1>1, <1>2, LocksStayExclusive DEF IInv
<1>4. CommitAdd(q) \/ CommitDispatch(q) => req'[q] = Idle
  BY <1>1, FinishMoves DEF CommitAdd, CommitDispatch
<1>5. \A p \in Requests : RunExists(p)' /\ LegsClaimed(p)'
  BY <1>1, <1>2, <1>4, RunsStayCreated, ClaimsKept DEF IInv
<1>6. RunAndManifestAgree'
  BY <1>1, <1>2, AgreementKept DEF IInv
<1>7. NothingMovesOnADraft'
  BY <1>1, <1>2, DraftsKept DEF IInv
<1>8. Crewed' /\ CrewOnTheRoad'
  BY <1>1, <1>2, CrewKept DEF IInv
<1> QED BY <1>1, <1>3, <1>5, <1>6, <1>7, <1>8 DEF IInv

LEMMA NextInv == IInv /\ [Next]_vars => IInv'
<1> SUFFICES ASSUME IInv, [Next]_vars PROVE IInv'
  OBVIOUS
<1>1. CASE UNCHANGED vars
  BY <1>1 DEF vars, rows, IInv, Typed, Tables, RowLocksExclusive, RunExists, LegsClaimed,
              RunAndManifestAgree, NothingMovesOnADraft, Crewed, CrewOnTheRoad, Legs
<1>2. ASSUME NEW r \in Runs, CreateTransportRun(r) PROVE IInv'
  BY <1>2, CreateKeepsInv
<1>3. ASSUME NEW q \in Requests, Arrival(q) \/ Step(q) \/ Abort(q) PROVE IInv'
  BY <1>3, RequestKeepsInv
<1> QED BY <1>1, <1>2, <1>3 DEF Next

THEOREM Invariance == Spec => []IInv
<1> QED BY InitInv, NextInv, PTL DEF Spec

\* Whatever interleaves, fails or is picked as a deadlock victim, a manifest
\* and its run tell the same story.
THEOREM RunsAndManifestsAgree == Spec => []RunAndManifestAgree
<1>1. IInv => RunAndManifestAgree
  BY DEF IInv
<1> QED BY <1>1, Invariance, PTL

\* No leg is on the road, and no item past ASSIGNED, on a manifest that is
\* still a draft: the row locks keep links and departures from crossing.
THEOREM DraftsStandStill == Spec => []NothingMovesOnADraft
<1>1. IInv => NothingMovesOnADraft
  BY DEF IInv
<1> QED BY <1>1, Invariance, PTL

\* The vehicle and the driver of a run on the road are marked so, unless
\* another run names them too.
THEOREM CrewsAreMarked == Spec => []CrewOnTheRoad
<1>1. IInv => CrewOnTheRoad
  BY DEF IInv
<1> QED BY <1>1, Invariance, PTL

-----------------------------------------------------------------------------
(* One request at a time.                                                  *)

OneAtATime == \A p, q \in Requests : p = q

Holds(x, s) == ItemRow(x.run, s) \in x.held

\* A manifest that a request adds to or takes from may be edited.
Editable(x) ==
  /\ x.op = "add" => IF x.pc = "addManifest" THEN run[x.run] \in {"PLANNED", "LOADED"}
                                             ELSE manifest[x.run] = "DRAFT"
  /\ x.op = "remove" => manifest[x.run] \notin {"NONE", "LOCKED", "DISPATCHED"}

\* An add has inserted the item that was not there, a removal deleted the one
\* that was, and the other handlers write only items that are there.
ItemsHeld(x) ==
  /\ x.op \in OnRun \ {"add"} => \A s \in Shipments : Holds(x, s) => item[x.run][s] # "NONE"
  /\ x.op \in {"add", "remove"} => \A s \in Shipments : Holds(x, s) => s = x.ship
  /\ x.op = "add" /\ x.pc \in {"link", "count", "manifest", "run", "commit"} => Holds(x, x.ship)
  /\ x.op = "remove" /\ x.pc # "delete" /\ item[x.run][x.ship] # "NONE" => Holds(x, x.ship)

\* What is stored as the total is what the commit will leave.
Recounted(x) ==
  x.pc \in {"manifest", "run", "commit"} =>
    /\ x.op = "add" => x.count = Cardinality(ItemsOf(x.run) \cup {x.ship})
    /\ x.op = "remove" => x.count = Cardinality(ItemsOf(x.run) \ {x.ship})

\* The loop of a handler misses no item: each is to come, in hand or written.
Swept(x) ==
  /\ x.op \in {"dispatch", "receive"} \/ (x.op = "lock" /\ x.pc \in Loop \cup {"commit"}) =>
       \A s \in ItemsOf(x.run) : s \in x.todo \/ Holds(x, s) \/ (x.pc = "item" /\ x.ship = s)
  /\ x.op \in {"lock", "dispatch"} /\ x.pc = "commit" => x.todo = {}
  /\ x.op = "receive" /\ x.pc \in {"manifest", "run", "driver", "vehicle", "commit"} => x.todo = {}

\* A receipt that found nothing short has received every item it has written.
NotShort(x) == x.op = "receive" /\ ~x.short => \A s \in Shipments : Holds(x, s) => s \in x.recv

\* The status about to be written is one the table allows.
Legal(x) == x.pc = "write" => Allows(status[x.ship], x.aim)

\* What a request has read is still so.
Stands(x) == Editable(x) /\ ItemsHeld(x) /\ Recounted(x) /\ Swept(x) /\ NotShort(x) /\ Legal(x)

\* Nothing is on a manifest before it exists.
NoItemsBefore == \A r \in Runs : manifest[r] = "NONE" => ItemsOf(r) = {}

SerialInv ==
  /\ ManifestAddsUp /\ NoItemsBefore
  /\ \A q \in Requests : Stands(req[q])

LEMMA IdleStands == Stands(Idle)
  BY DEF Stands, Idle, Editable, ItemsHeld, Recounted, Swept, NotShort, Legal, OnRun, Holds

\* What stands goes on standing while nobody else writes.
LEMMA StandsOn ==
  ASSUME NEW x, Stands(x), UNCHANGED <<run, manifest, item>>, UNCHANGED status \/ x.pc # "write"
  PROVE  Stands(x)'
<1>1. \A r : ItemsOf(r)' = ItemsOf(r) BY DEF ItemsOf
<1>2. Editable(x)' /\ ItemsHeld(x)' /\ NotShort(x)'
  BY DEF Stands, Editable, ItemsHeld, NotShort, Holds
<1>3. Recounted(x)' BY <1>1 DEF Stands, Recounted
<1>4. Swept(x)' BY <1>1 DEF Stands, Swept, Holds
<1>5. Legal(x)' BY DEF Stands, Legal
<1> QED BY <1>2, <1>3, <1>4, <1>5 DEF Stands

\* y is x gone on to statement pc, having written no item.
Passed(x, y, pc) ==
  /\ y.pc = pc /\ y.op = x.op /\ y.run = x.run /\ y.ship = x.ship /\ y.aim = x.aim
  /\ y.todo = x.todo /\ y.recv = x.recv /\ y.short = x.short /\ y.count = x.count
  /\ \A s : Holds(y, s) <=> Holds(x, s)

LEMMA PassedStands ==
  ASSUME NEW x, NEW y, NEW pc, Stands(x), Passed(x, y, pc),
         x.op = "add" => pc # "addManifest" /\ manifest[x.run] = "DRAFT",
         x.op = "add" /\ pc \in {"link", "count", "manifest", "run", "commit"}
           => x.pc \in {"link", "count", "manifest", "run", "commit"},
         x.op = "remove" => x.pc # "delete",
         x.op \in {"add", "remove"} /\ pc \in {"manifest", "run", "commit"}
           => x.pc \in {"manifest", "run", "commit"},
         x.op = "lock" /\ pc \in Loop \cup {"commit"} => x.pc \in Loop \cup {"commit"},
         x.pc # "item",
         x.op \in {"lock", "dispatch"} /\ pc = "commit" => x.todo = {},
         x.op = "receive" /\ pc \in {"manifest", "run", "driver", "vehicle", "commit"} => x.todo = {},
         pc = "write" => Allows(status[x.ship], x.aim)
  PROVE  Stands(y)
<1>1. Editable(y) BY DEF Stands, Editable, Passed
<1>2. ItemsHeld(y)
  <2>1. y.run = x.run /\ y.op = x.op /\ y.ship = x.ship /\ y.pc = pc
        /\ \A s : Holds(y, s) <=> Holds(x, s)
    BY DEF Passed
  <2> QED BY <2>1 DEF Stands, ItemsHeld
<1>3. Recounted(y) BY DEF Stands, Recounted, Passed
<1>4. Swept(y) BY DEF Stands, Swept, Passed, ItemsOf
<1>5. NotShort(y) BY DEF Stands, NotShort, Passed
<1>6. Legal(y) BY DEF Legal, Passed
<1> QED BY <1>1, <1>2, <1>3, <1>4, <1>5, <1>6 DEF Stands

\* The items among the rows a statement writes.
LEMMA WantedItems ==
  ASSUME NEW q \in Requests, NEW s
  PROVE  ItemRow(req[q].run, s) \in Wants(q) <=>
           /\ s = req[q].ship
           /\ \/ req[q].pc = "insert"
              \/ req[q].pc \in {"delete", "item"} /\ item[req[q].run][s] # "NONE"
<1>1. CASE req[q].pc \in {"insert", "delete", "item"}
  BY <1>1 DEF Wants, StoredItem, ItemRow
<1>2. CASE req[q].pc \in {"link", "depart", "close"}
  BY <1>2 DEF Wants, LegRow, ItemRow
<1>3. CASE req[q].pc \in {"manifest", "run", "vehicle", "driver"}
  BY <1>3 DEF Wants, RowsOf, ItemRow, ManifestRow, RunRow, VehicleRow, DriverRow
<1>4. CASE req[q].pc \notin {"insert", "delete", "item", "link", "depart", "close", "manifest",
                            "run", "vehicle", "driver"}
  BY <1>4 DEF Wants
<1> QED BY <1>1, <1>2, <1>3, <1>4

LEMMA GotoPasses ==
  ASSUME NEW q \in Requests, Typed, NEW pc, Goto(q, pc)
  PROVE  Passed(req[q], req'[q], pc)
<1>1. req[q] \in Request BY DEF Typed
<1>2. req'[q] = [req[q] EXCEPT !.pc = pc] BY DEF Goto, Typed
<1> QED BY <1>1, <1>2 DEF Passed, Request, Holds

LEMMA LockingPasses ==
  ASSUME NEW q \in Requests, Typed, NEW pc, Locking(q, pc), req[q].pc \notin {"insert", "delete", "item"}
  PROVE  Passed(req[q], req'[q], pc)
<1>1. req[q] \in Request BY DEF Typed
<1>2. req'[q] = [req[q] EXCEPT !.pc = pc, !.held = @ \cup Wants(q)] BY DEF Locking, Typed
<1>3. \A s : ItemRow(req[q].run, s) \notin Wants(q) BY WantedItems
<1> QED BY <1>1, <1>2, <1>3 DEF Passed, Request, Holds

\* What the request q goes on with stands.
GoesOn(q) == \E y : req' = [req EXCEPT ![q] = y] /\ Stands(y)

LEMMA FinishGoesOn ==
  ASSUME NEW q \in Requests, Finish(q)
  PROVE  GoesOn(q)
BY IdleStands DEF Finish, GoesOn

LEMMA PassGoesOn ==
  ASSUME NEW q \in Requests, Typed, Only(q), Stands(req'[q])
  PROVE  GoesOn(q)
BY DEF Only, GoesOn

LEMMA ArrivalGoesOn ==
  ASSUME NEW q \in Requests, Typed, RunAndManifestAgree, Arrival(q)
  PROVE  GoesOn(q)
<1> USE DEF GoesOn, Stands, Editable, ItemsHeld, Recounted, Swept, NotShort, Legal, OnRun, Holds, Loop
<1>1. ASSUME NEW r \in Runs, NEW s \in Shipments, AddReadRun(q, r, s)
      PROVE  GoesOn(q)
  <2> DEFINE y == [Idle EXCEPT !.op = "add", !.run = r, !.ship = s, !.pc = "addManifest", !.todo = {}]
  <2>1. req' = [req EXCEPT ![q] = y] BY <1>1 DEF AddReadRun, Begin
  <2>2. y.op = "add" /\ y.run = r /\ y.pc = "addManifest" /\ y.held = {} BY DEF Idle
  <2>3. run[r] \in {"PLANNED", "LOADED"} BY <1>1 DEF AddReadRun, Typed, Tables, RunStatuses
  <2> HIDE DEF y
  <2> QED BY <2>1, <2>2, <2>3
<1>2. ASSUME NEW r \in Runs, NEW s \in Shipments, RemoveRead(q, r, s)
      PROVE  GoesOn(q)
  <2> DEFINE y == [Idle EXCEPT !.op = "remove", !.run = r, !.ship = s, !.pc = "delete", !.todo = {}]
  <2>1. req' = [req EXCEPT ![q] = y] BY <1>2 DEF RemoveRead, Begin
  <2>2. y.op = "remove" /\ y.run = r /\ y.pc = "delete" /\ y.held = {} BY DEF Idle
  <2>3. manifest[r] \notin {"NONE", "LOCKED", "DISPATCHED"} BY <1>2 DEF RemoveRead
  <2> HIDE DEF y
  <2> QED BY <2>1, <2>2, <2>3
<1>3. ASSUME NEW r \in Runs, LockRead(q, r)
      PROVE  GoesOn(q)
  <2> DEFINE y == [Idle EXCEPT !.op = "lock", !.run = r, !.ship = NoOne, !.pc = "manifest", !.todo = {}]
  <2>1. req' = [req EXCEPT ![q] = y] BY <1>3 DEF LockRead, Begin
  <2>2. y.op = "lock" /\ y.run = r /\ y.pc = "manifest" /\ y.held = {} BY DEF Idle
  <2> HIDE DEF y
  <2> QED BY <2>1, <2>2
<1>4. ASSUME NEW r \in Runs, DispatchRead(q, r)
      PROVE  GoesOn(q)
  <2> DEFINE y == [Idle EXCEPT !.op = "dispatch", !.run = r, !.ship = NoOne, !.pc = "run", !.todo = ItemsOf(r)]
  <2>1. req' = [req EXCEPT ![q] = y] BY <1>4 DEF DispatchRead, Begin
  <2>2. y.op = "dispatch" /\ y.run = r /\ y.pc = "run" /\ y.held = {} /\ y.todo = ItemsOf(r) BY DEF Idle
  <2> HIDE DEF y
  <2> QED BY <2>1, <2>2
<1>5. ASSUME NEW r \in Runs, ArriveRead(q, r)
      PROVE  GoesOn(q)
  <2> DEFINE y == [Idle EXCEPT !.op = "arrive", !.run = r, !.ship = NoOne, !.pc = "run", !.todo = {}]
  <2>1. req' = [req EXCEPT ![q] = y] BY <1>5 DEF ArriveRead, Begin
  <2>2. y.op = "arrive" /\ y.run = r /\ y.pc = "run" /\ y.held = {} BY DEF Idle
  <2> HIDE DEF y
  <2> QED BY <2>1, <2>2
<1>6. ASSUME NEW r \in Runs, NEW received \in SUBSET Shipments, ReceiveRead(q, r, received)
      PROVE  GoesOn(q)
  <2> DEFINE known == {s \in ItemsOf(r) : status[s] = "EXCEPTION"}
             y == [Idle EXCEPT !.op = "receive", !.run = r, !.pc = "items",
                               !.todo = ItemsOf(r), !.recv = received, !.known = known]
  <2>1. req' = [req EXCEPT ![q] = y] BY <1>6 DEF ReceiveRead
  <2> HIDE DEF known
  <2>2. y.op = "receive" /\ y.run = r /\ y.pc = "items" /\ y.held = {} /\ y.todo = ItemsOf(r) BY DEF Idle
  <2> HIDE DEF y
  <2> QED BY <2>1, <2>2
<1>7. ASSUME NEW s \in Shipments, NEW aim \in StaffTargets, StaffTransition(q, s, aim)
      PROVE  GoesOn(q)
  <2> DEFINE y == [Idle EXCEPT !.op = "transition", !.ship = s, !.aim = aim, !.pc = "write"]
  <2>1. req' = [req EXCEPT ![q] = y] BY <1>7 DEF StaffTransition
  <2>2. y.op = "transition" /\ y.ship = s /\ y.pc = "write" /\ y.held = {} /\ y.aim = aim BY DEF Idle
  <2>3. Allows(status[s], aim) BY <1>7 DEF StaffTransition
  <2> HIDE DEF y
  <2> QED BY <2>1, <2>2, <2>3
<1> QED BY <1>1, <1>2, <1>3, <1>4, <1>5, <1>6, <1>7 DEF Arrival

\* The statements that write no item.
LEMMA PassingSteps ==
  ASSUME NEW q \in Requests, Typed, RunAndManifestAgree, Stands(req[q]),
         \/ AddReadManifest(q) \/ AddReadShipment(q) \/ AddLinkLegs(q) \/ UpdateRow(q)
         \/ DepartLegs(q) \/ ItemsDone(q) \/ PickLeg(q) \/ CloseLeg(q) \/ ReadStatus(q)
         \/ WriteStatus(q) \/ CommitLeg(q)
  PROVE  GoesOn(q)
<1> DEFINE x == req[q]
           y == req'[q]
<1>0. /\ x.pc \in Stage[x.op] /\ x.op \in DOMAIN Stage
      /\ x \in Request
      /\ Editable(x)
  BY DEF Typed, WellFormed, Request, Stage, Stands
<1> HIDE DEF y
<1>g. ASSUME NEW pc, Goto(q, pc) PROVE Passed(x, y, pc) /\ Only(q)
  BY <1>g, GotoPasses DEF Goto, Only, Typed, y
<1>l. ASSUME NEW pc, Locking(q, pc), x.pc \notin {"insert", "delete", "item"} PROVE Passed(x, y, pc) /\ Only(q)
  BY <1>l, LockingPasses DEF Locking, Only, Typed, y
<1>p. Only(q) /\ Stands(y) => GoesOn(q) BY PassGoesOn DEF y
<1>1. CASE AddReadManifest(q)
  <2>1. x.op = "add" /\ x.pc = "addManifest" BY <1>1, StageOf DEF AddReadManifest, At
  <2>2. CASE Goto(q, "addShipment") /\ manifest[x.run] # "LOCKED"
    <3>1. manifest[x.run] = "DRAFT"
      <4>1. x.run \in Runs /\ run[x.run] \in {"PLANNED", "LOADED"} BY <1>0, <2>1, StageOf DEF Editable, OnRun
      <4> QED BY <4>1, <2>2 DEF RunAndManifestAgree, Typed, Tables, ManifestStatuses
    <3> QED BY <1>g, <1>p, <2>1, <2>2, <3>1, PassedStands
  <2> QED BY <1>1, <2>2, FinishGoesOn DEF AddReadManifest
<1>2. CASE AddReadShipment(q)
  <2>1. x.op = "add" /\ x.pc = "addShipment" BY <1>2, StageOf DEF AddReadShipment, At
  <2>2. CASE Goto(q, "insert")
    BY <1>0, <1>g, <1>p, <2>1, <2>2, PassedStands DEF Editable
  <2> QED BY <1>2, <2>2, FinishGoesOn DEF AddReadShipment
<1>3. CASE AddLinkLegs(q)
  <2>1. x.op = "add" /\ x.pc = "link" /\ Locking(q, "count") BY <1>3, StageOf DEF AddLinkLegs, At
  <2> QED BY <1>0, <1>l, <1>p, <2>1, PassedStands DEF Editable
<1>4. CASE UpdateRow(q)
  <2>1. x.pc \in {"manifest", "run", "vehicle", "driver"} /\ Locking(q, Then(x.op, x.pc))
    BY <1>4 DEF UpdateRow
  <2>2. Passed(x, y, Then(x.op, x.pc)) /\ Only(q) BY <1>l, <2>1
  <2>3. CASE x.op \in {"add", "remove"}
    <3>1. x.pc \in {"manifest", "run"} BY <1>0, <2>1, <2>3 DEF Stage
    <3>2. Then(x.op, x.pc) \in {"run", "commit"} BY <2>3, <3>1 DEF Then
    <3> QED BY <1>0, <1>p, <2>2, <2>3, <3>1, <3>2, PassedStands DEF Editable
  <2>4. CASE x.op = "lock"
    <3>1. x.pc \in {"manifest", "run"} BY <1>0, <2>1, <2>4 DEF Stage, Loop
    <3>2. Then(x.op, x.pc) \in {"run", "fetch"} BY <2>4, <3>1 DEF Then
    <3> QED BY <1>p, <2>2, <2>4, <3>1, <3>2, PassedStands DEF Loop
  <2>5. CASE x.op = "dispatch"
    <3>1. Then(x.op, x.pc) \in {"manifest", "vehicle", "driver", "items"} BY <2>1, <2>5 DEF Then
    <3> QED BY <1>p, <2>1, <2>2, <2>5, <3>1, PassedStands
  <2>6. CASE x.op = "arrive"
    <3>1. x.pc \in {"run", "vehicle"} BY <1>0, <2>1, <2>6 DEF Stage
    <3>2. Then(x.op, x.pc) \in {"vehicle", "commit"} BY <2>6, <3>1 DEF Then
    <3> QED BY <1>p, <2>1, <2>2, <2>6, <3>2, PassedStands
  <2>7. CASE x.op = "receive"
    <3>1. Then(x.op, x.pc) \in {"run", "driver", "vehicle", "commit"} BY <2>1, <2>7 DEF Then
    <3>2. x.todo = {} BY <2>1, <2>7 DEF Stands, Swept
    <3> QED BY <1>p, <2>1, <2>2, <2>7, <3>1, <3>2, PassedStands
  <2> QED BY <1>0, <2>1, <2>3, <2>4, <2>5, <2>6, <2>7 DEF Stage
<1>5. CASE DepartLegs(q)
  <2>1. x.op = "dispatch" /\ x.pc = "depart" /\ Locking(q, "read") BY <1>5, StageOf DEF DepartLegs, At
  <2> QED BY <1>l, <1>p, <2>1, PassedStands
<1>6. CASE ItemsDone(q)
  <2>1. x.pc = "items" /\ x.todo = {} /\ Goto(q, Then(x.op, "items")) BY <1>6 DEF ItemsDone, At
  <2>2. x.op \in {"lock", "dispatch", "receive"} BY <2>1, StageOf
  <2>3. Then(x.op, "items") \in {"commit", "manifest"} BY <2>2 DEF Then
  <2> QED BY <1>g, <1>p, <2>1, <2>2, <2>3, PassedStands DEF Loop
<1>7. CASE PickLeg(q)
  <2>1. PICK k : req' = [req EXCEPT ![q].pc = "close", ![q].pick = k] BY <1>7 DEF PickLeg
  <2>2. y = [x EXCEPT !.pc = "close", !.pick = k] /\ Only(q) BY <2>1 DEF Typed, Only, y
  <2>3. Passed(x, y, "close") BY <1>0, <2>2 DEF Passed, Request, Holds
  <2>4. x.op = "receive" /\ x.pc = "pick" BY <1>7, StageOf DEF PickLeg, At
  <2> QED BY SMTT(40), <1>p, <2>2, <2>3, <2>4, PassedStands
<1>8. CASE CloseLeg(q)
  <2>1. x.op = "receive" /\ x.pc = "close" /\ Locking(q, "read") BY <1>8, StageOf DEF CloseLeg, At
  <2> QED BY <1>l, <1>p, <2>1, PassedStands
<1>9. CASE ReadStatus(q)
  <2>1. x.op \in {"lock", "dispatch", "receive"} /\ x.pc = "read" BY <1>9, StageOf DEF ReadStatus, At
  <2>2. CASE Goto(q, "write") /\ Allows(status[x.ship], x.aim)
    BY <1>g, <1>p, <2>1, <2>2, PassedStands DEF Loop
  <2> QED BY <1>9, <2>2, FinishGoesOn DEF ReadStatus
<1>10. CASE WriteStatus(q)
  <2>1. x.op \in {"lock", "dispatch", "receive", "transition"} /\ x.pc = "write"
    BY <1>10, StageOf DEF WriteStatus, At
  <2>2. CASE x.op # "transition" /\ Goto(q, "items")
    BY <1>g, <1>p, <2>1, <2>2, PassedStands DEF Loop
  <2>3. CASE x.op = "receive" /\ Goto(q, "closed")
    BY <1>g, <1>p, <2>1, <2>3, PassedStands
  <2>4. x.aim = "AT_HUB" => x.op \in {"receive", "transition"} BY DEF Typed, WellFormed
  <2> QED BY <1>10, <2>2, <2>3, <2>4, FinishGoesOn DEF WriteStatus
<1>11. CASE CommitLeg(q)
  <2> DEFINE gone == {LegRow(x.ship, k) : k \in Legs(x.ship)}
  <2>1. req' = [req EXCEPT ![q].pc = "items", ![q].held = @ \ gone] BY <1>11 DEF CommitLeg
  <2>2. \A s : ItemRow(x.run, s) \notin gone BY DEF ItemRow, LegRow
  <2> HIDE DEF gone
  <2>3. y = [x EXCEPT !.pc = "items", !.held = @ \ gone] /\ Only(q) BY <2>1 DEF Typed, Only, y
  <2>4. Passed(x, y, "items") BY <1>0, <2>2, <2>3 DEF Passed, Request, Holds
  <2>5. x.op = "receive" /\ x.pc = "closed" BY <1>11, StageOf DEF CommitLeg, At
  <2> QED BY <1>p, <2>3, <2>4, <2>5, PassedStands
<1> QED BY <1>1, <1>2, <1>3, <1>4, <1>5, <1>6, <1>7, <1>8, <1>9, <1>10, <1>11

LEMMA InsertGoesOn ==
  ASSUME NEW q \in Requests, Typed, Stands(req[q]), AddInsert(q)
  PROVE  GoesOn(q)
<1> DEFINE x == req[q]
           y == [x EXCEPT !.pc = "link", !.held = @ \cup Wants(q)]
<1>1. x \in Request /\ x.op = "add" /\ x.pc = "insert" BY StageOf DEF AddInsert, At, Typed
<1>2. CASE Locking(q, "link")
  <2>1. req' = [req EXCEPT ![q] = y] BY <1>2 DEF Locking
  <2>2. /\ y.pc = "link" /\ y.op = "add" /\ y.run = x.run /\ y.ship = x.ship
        /\ \A s : Holds(y, s) <=> Holds(x, s) \/ s = x.ship
    BY <1>1, WantedItems DEF Request, Holds
  <2> HIDE DEF y
  <2>3. Editable(y) BY <1>1, <2>2 DEF Stands, Editable
  <2>4. ItemsHeld(y) BY <1>1, <2>2 DEF Stands, ItemsHeld
  <2>5. Recounted(y) /\ Swept(y) /\ NotShort(y) /\ Legal(y)
    BY <2>2 DEF Recounted, Swept, NotShort, Legal
  <2> QED BY <2>1, <2>3, <2>4, <2>5 DEF Stands, GoesOn
<1> QED BY <1>2, FinishGoesOn DEF AddInsert

LEMMA DeleteGoesOn ==
  ASSUME NEW q \in Requests, Typed, Stands(req[q]), RemoveDelete(q)
  PROVE  GoesOn(q)
<1> DEFINE x == req[q]
           y == [x EXCEPT !.pc = "count", !.held = @ \cup Wants(q)]
<1>1. x \in Request /\ x.op = "remove" /\ x.pc = "delete" BY StageOf DEF RemoveDelete, At, Typed
<1>2. req' = [req EXCEPT ![q] = y] BY DEF RemoveDelete, Locking
<1>3. /\ y.pc = "count" /\ y.op = "remove" /\ y.run = x.run /\ y.ship = x.ship
      /\ \A s : Holds(y, s) <=> Holds(x, s) \/ (s = x.ship /\ item[x.run][s] # "NONE")
  BY <1>1, WantedItems DEF Request, Holds
<1> HIDE DEF y
<1>4. Editable(y) BY <1>1, <1>3 DEF Stands, Editable
<1>5. ItemsHeld(y) BY <1>1, <1>3 DEF Stands, ItemsHeld
<1>6. Recounted(y) /\ Swept(y) /\ NotShort(y) /\ Legal(y)
  BY <1>3 DEF Recounted, Swept, NotShort, Legal
<1> QED BY <1>2, <1>4, <1>5, <1>6 DEF Stands, GoesOn

LEMMA RecountGoesOn ==
  ASSUME NEW q \in Requests, Typed, Stands(req[q]), Recount(q)
  PROVE  GoesOn(q)
<1> DEFINE x == req[q]
           n == Cardinality(IF x.op = "add" THEN ItemsOf(x.run) \cup {x.ship} ELSE ItemsOf(x.run) \ {x.ship})
           y == [x EXCEPT !.pc = "manifest", !.count = n]
<1>1. x \in Request /\ x.op \in {"add", "remove"} /\ x.pc = "count" BY StageOf DEF Recount, At, Typed
<1>2. req' = [req EXCEPT ![q] = y] BY DEF Recount
<1> HIDE DEF n
<1>3. /\ y.pc = "manifest" /\ y.op = x.op /\ y.run = x.run /\ y.ship = x.ship /\ y.count = n
      /\ \A s : Holds(y, s) <=> Holds(x, s)
  BY <1>1 DEF Request, Holds
<1> HIDE DEF y
<1>4. Editable(y) BY <1>1, <1>3 DEF Stands, Editable
<1>5. ItemsHeld(y) BY <1>1, <1>3 DEF Stands, ItemsHeld
<1>6. Recounted(y) BY <1>1, <1>3 DEF Recounted, n
<1>7. Swept(y) /\ NotShort(y) /\ Legal(y) BY <1>1, <1>3 DEF Swept, NotShort, Legal
<1> QED BY <1>2, <1>4, <1>5, <1>6, <1>7 DEF Stands, GoesOn

LEMMA FetchGoesOn ==
  ASSUME NEW q \in Requests, Typed, Stands(req[q]), LockFetchItems(q)
  PROVE  GoesOn(q)
<1> DEFINE x == req[q]
           y == [x EXCEPT !.pc = "items", !.todo = ItemsOf(x.run)]
<1>1. x \in Request /\ x.op = "lock" /\ x.pc = "fetch" BY StageOf DEF LockFetchItems, At, Typed
<1>2. req' = [req EXCEPT ![q] = y] BY DEF LockFetchItems
<1>3. /\ y.pc = "items" /\ y.op = "lock" /\ y.run = x.run /\ y.todo = ItemsOf(x.run)
      /\ \A s : Holds(y, s) <=> Holds(x, s)
  BY <1>1 DEF Request, Holds
<1> HIDE DEF y
<1>4. ItemsHeld(y) BY <1>1, <1>3 DEF Stands, ItemsHeld
<1>5. Editable(y) /\ Recounted(y) /\ NotShort(y) /\ Legal(y)
  BY <1>3 DEF Editable, Recounted, NotShort, Legal
<1>6. Swept(y) BY <1>3 DEF Swept
<1> QED BY <1>2, <1>4, <1>5, <1>6 DEF Stands, GoesOn

LEMMA NextItemGoesOn ==
  ASSUME NEW q \in Requests, Typed, Stands(req[q]), NEW s \in req[q].todo, NextItem(q, s)
  PROVE  GoesOn(q)
<1> DEFINE x == req[q]
           y == [x EXCEPT !.pc = "item", !.ship = s, !.todo = @ \ {s}]
<1>1. x \in Request /\ x.op \in {"lock", "dispatch", "receive"} /\ x.pc = "items"
  BY StageOf DEF NextItem, At, Typed
<1>2. req' = [req EXCEPT ![q] = y] BY DEF NextItem
<1>3. /\ y.pc = "item" /\ y.op = x.op /\ y.run = x.run /\ y.ship = s /\ y.todo = x.todo \ {s}
      /\ y.recv = x.recv /\ y.short = x.short
      /\ \A t : Holds(y, t) <=> Holds(x, t)
  BY <1>1 DEF Request, Holds
<1> HIDE DEF y
<1>4. ItemsHeld(y) BY <1>1, <1>3 DEF Stands, ItemsHeld
<1>5. Editable(y) /\ Recounted(y) /\ Legal(y) BY <1>1, <1>3 DEF Editable, Recounted, Legal
<1>6. NotShort(y) BY <1>3 DEF Stands, NotShort
<1>7. Swept(y) BY <1>1, <1>3 DEF Stands, Swept, Loop
<1> QED BY <1>2, <1>4, <1>5, <1>6, <1>7 DEF Stands, GoesOn

LEMMA ItemGoesOn ==
  ASSUME NEW q \in Requests, Typed, Stands(req[q]), UpdateItem(q)
  PROVE  GoesOn(q)
<1> DEFINE x == req[q]
<1>1. x \in Request /\ x.op \in {"lock", "dispatch", "receive"} /\ x.pc = "item"
  BY StageOf DEF UpdateItem, At, Typed
<1>2. PICK pc \in {"read", "depart", "pick", "items"},
          aim \in {"LOADED", "IN_TRANSIT", "AT_HUB", "EXCEPTION"}, short \in BOOLEAN :
        /\ req' = [req EXCEPT ![q].pc = pc, ![q].aim = aim, ![q].short = short,
                              ![q].held = @ \cup Wants(q)]
        /\ x.op = "receive" => short \/ (short = x.short /\ x.ship \in x.recv)
        /\ pc \in {"depart", "pick"} => x.op # "lock"
  <2>1. CASE x.op = "lock" BY <2>1 DEF UpdateItem
  <2>2. CASE x.op = "dispatch" BY <2>2 DEF UpdateItem
  <2>3. CASE x.op = "receive" /\ x.ship \in x.recv
    <3>1. x.short \in BOOLEAN BY <1>1 DEF Request
    <3> QED BY <2>3, <3>1 DEF UpdateItem
  <2>4. CASE x.op = "receive" /\ x.ship \notin x.recv BY <2>4 DEF UpdateItem
  <2> QED BY <1>1, <2>1, <2>2, <2>3, <2>4
<1> DEFINE y == [x EXCEPT !.pc = pc, !.aim = aim, !.short = short, !.held = @ \cup Wants(q)]
<1>3. req' = [req EXCEPT ![q] = y] BY <1>2
<1>4. /\ y.pc = pc /\ y.op = x.op /\ y.run = x.run /\ y.ship = x.ship /\ y.todo = x.todo
      /\ y.recv = x.recv /\ y.short = short
      /\ \A s : Holds(y, s) <=> Holds(x, s) \/ (s = x.ship /\ item[x.run][s] # "NONE")
  BY <1>1, WantedItems DEF Request, Holds
<1> HIDE DEF y
<1>5. Editable(y) /\ Recounted(y) /\ Legal(y) BY <1>1, <1>2, <1>4 DEF Editable, Recounted, Legal
<1>6. ItemsHeld(y) BY <1>1, <1>4 DEF Stands, ItemsHeld, OnRun
<1>7. NotShort(y) BY <1>2, <1>4 DEF Stands, NotShort
<1>8. Swept(y)
  <2>1. \A s \in ItemsOf(x.run) : s \in x.todo \/ Holds(x, s) \/ x.ship = s
    BY <1>1 DEF Stands, Swept, Loop
  <2>2. \A s \in ItemsOf(x.run) : s \in y.todo \/ Holds(y, s)
    BY <1>4, <2>1 DEF ItemsOf
  <2> QED BY <1>1, <1>2, <1>4, <2>2 DEF Swept
<1> QED BY <1>3, <1>5, <1>6, <1>7, <1>8 DEF Stands, GoesOn

\* An item is where its manifest is.
Fits(m, i) ==
  \/ m = "DRAFT" /\ i = "ASSIGNED"
  \/ m = "LOCKED" /\ i = "LOADED"
  \/ m = "DISPATCHED" /\ i = "IN_TRANSIT"
  \/ m = "RECONCILED" /\ i = "RECEIVED"
  \/ m = "DISCREPANCY" /\ i \in {"RECEIVED", "SHORTAGE"}

LEMMA ItemsFit ==
  ASSUME Tables, ManifestAddsUp, NoItemsBefore, NEW r \in Runs, NEW s \in ItemsOf(r)
  PROVE  Fits(manifest[r], item[r][s])
BY DEF Tables, ManifestStatuses, ManifestAddsUp, ItemsFollowManifest, NoItemsBefore, Fits

\* A step that changes one manifest leaves the others adding up.
LEMMA AddsUpAgain ==
  ASSUME Tables, ManifestAddsUp, NoItemsBefore, NEW r \in Runs,
         \A o \in Runs \ {r} : manifest'[o] = manifest[o] /\ item'[o] = item[o] /\ total'[o] = total[o],
         manifest'[r] # "NONE", total'[r] = Cardinality(ItemsOf(r)'),
         \A s \in ItemsOf(r)' : Fits(manifest'[r], item'[r][s])
  PROVE  ManifestAddsUp' /\ NoItemsBefore'
<1>1. \A o \in Runs \ {r} : ItemsOf(o)' = ItemsOf(o) BY DEF ItemsOf
<1>2. TotalsCountItems'
  <2>1. ASSUME NEW o \in Runs \ {r} PROVE total'[o] = Cardinality(ItemsOf(o)')
    <3>1. total[o] = Cardinality(ItemsOf(o)) BY DEF ManifestAddsUp, TotalsCountItems
    <3> QED BY <1>1, <3>1
  <2> QED BY <2>1 DEF TotalsCountItems
<1>3. NoItemsBefore' BY <1>1 DEF NoItemsBefore
<1>4. ASSUME NEW o \in Runs, NEW s \in ItemsOf(o)' PROVE Fits(manifest'[o], item'[o][s])
  <2>1. CASE o # r
    <3>1. Fits(manifest[o], item[o][s]) BY <1>1, <2>1, ItemsFit
    <3> QED BY <2>1, <3>1
  <2> QED BY <2>1
<1>5. ItemsFollowManifest' BY <1>4 DEF ItemsFollowManifest, Fits
<1> QED BY <1>2, <1>3, <1>5 DEF ManifestAddsUp

LEMMA AddsUpStill ==
  ASSUME UNCHANGED <<manifest, item, total>>, ManifestAddsUp, NoItemsBefore
  PROVE  ManifestAddsUp' /\ NoItemsBefore' /\ \A r : ItemsOf(r)' = ItemsOf(r)
<1>1. \A r : ItemsOf(r)' = ItemsOf(r) BY DEF ItemsOf
<1> QED BY <1>1 DEF ManifestAddsUp, TotalsCountItems, ItemsFollowManifest, NoItemsBefore

\* What a request may change of the items of a manifest.
Sealed == \A r \in Runs : manifest[r] \in {"LOCKED", "DISPATCHED"} => ItemsOf(r)' = ItemsOf(r)

LEMMA AddAddsUp ==
  ASSUME NEW q \in Requests, Typed, Stands(req[q]), ManifestAddsUp, NoItemsBefore, CommitAdd(q)
  PROVE  ManifestAddsUp' /\ NoItemsBefore' /\ Sealed
<1>0. PICK x : x = req[q] OBVIOUS
<1> DEFINE r == x.run
<1>a. Stands(x) BY <1>0
<1>1. x.op = "add" /\ x.pc = "commit" BY <1>0 DEF CommitAdd, Committing, At
<1>2. r \in Runs /\ x.ship \in Shipments /\ Tables /\ x \in Request
  <2>1. x.op \in OnRun BY <1>1 DEF OnRun
  <2>2. r \in Runs /\ Tables /\ x \in Request BY <1>0, <2>1, StageOf DEF Typed
  <2>3. Holds(x, x.ship) BY <1>a, <1>1 DEF Stands, ItemsHeld
  <2>4. x.held \subseteq Rows BY <2>2 DEF Request
  <2>5. x.ship \in Shipments
    BY <2>3, <2>4 DEF Holds, Rows, ItemRow, ManifestRow, RunRow, LegRow
  <2> QED BY <2>2, <2>5
<1>3. /\ manifest[r] = "DRAFT"
      /\ \A s \in Shipments : Holds(x, s) <=> s = x.ship
      /\ x.count = Cardinality(ItemsOf(r) \cup {x.ship})
  BY <1>a, <1>1, <1>2 DEF Stands, Editable, ItemsHeld, Recounted
<1>4. /\ item' = [item EXCEPT ![r] = [s \in Shipments |-> IF Holds(x, s) THEN "ASSIGNED" ELSE item[r][s]]]
      /\ total' = [total EXCEPT ![r] = x.count] /\ manifest' = manifest
  BY <1>0 DEF CommitAdd, Written, Holds
<1>5. \A s \in Shipments : item'[r][s] = IF s = x.ship THEN "ASSIGNED" ELSE item[r][s]
  BY <1>2, <1>3, <1>4 DEF Tables
<1>6. ItemsOf(r)' = ItemsOf(r) \cup {x.ship} BY <1>2, <1>5 DEF ItemsOf
<1>7. total'[r] = x.count /\ manifest'[r] = "DRAFT" BY <1>2, <1>3, <1>4 DEF Tables
<1>8. \A o \in Runs \ {r} : manifest'[o] = manifest[o] /\ item'[o] = item[o] /\ total'[o] = total[o]
  BY <1>4 DEF Tables
<1>9. ASSUME NEW s \in ItemsOf(r)' PROVE Fits(manifest'[r], item'[r][s])
  <2>1. CASE s = x.ship BY <1>2, <1>5, <1>7, <2>1 DEF Fits
  <2>2. CASE s # x.ship
    <3>1. s \in ItemsOf(r) BY <1>6, <2>2
    <3>2. Fits(manifest[r], item[r][s]) BY <1>2, <3>1, ItemsFit
    <3> QED BY <1>4, <1>5, <2>2, <3>1, <3>2 DEF ItemsOf
  <2> QED BY <2>1, <2>2
<1>10. total'[r] = Cardinality(ItemsOf(r)') BY <1>3, <1>6, <1>7
<1>11. ManifestAddsUp' /\ NoItemsBefore' BY <1>2, <1>7, <1>8, <1>9, <1>10, AddsUpAgain
<1>12. Sealed BY <1>3, <1>8 DEF Sealed, ItemsOf
<1> QED BY <1>11, <1>12

LEMMA RemoveAddsUp ==
  ASSUME NEW q \in Requests, Typed, Stands(req[q]), ManifestAddsUp, NoItemsBefore, CommitRemove(q)
  PROVE  ManifestAddsUp' /\ NoItemsBefore' /\ Sealed
<1>0. PICK x : x = req[q] OBVIOUS
<1> DEFINE r == x.run
<1>a. Stands(x) BY <1>0
<1>1. x.op = "remove" /\ x.pc = "commit" BY <1>0 DEF CommitRemove, Committing, At
<1>2. r \in Runs /\ Tables
  <2>1. x.op \in OnRun BY <1>1 DEF OnRun
  <2> QED BY <1>0, <2>1, StageOf DEF Typed
<1>3. /\ manifest[r] \notin {"NONE", "LOCKED", "DISPATCHED"}
      /\ \A s \in Shipments : Holds(x, s) => s = x.ship
      /\ item[r][x.ship] # "NONE" => Holds(x, x.ship)
      /\ x.count = Cardinality(ItemsOf(r) \ {x.ship})
  BY <1>a, <1>1 DEF Stands, Editable, ItemsHeld, Recounted
<1>4. /\ item' = [item EXCEPT ![r] = [s \in Shipments |-> IF Holds(x, s) THEN "NONE" ELSE item[r][s]]]
      /\ total' = [total EXCEPT ![r] = x.count] /\ manifest' = manifest
  BY <1>0 DEF CommitRemove, Written, Holds
<1>5. \A s \in Shipments : item'[r][s] = IF s = x.ship THEN "NONE" ELSE item[r][s]
  BY <1>2, <1>3, <1>4 DEF Tables
<1>6. ItemsOf(r)' = ItemsOf(r) \ {x.ship} BY <1>5 DEF ItemsOf
<1>7. total'[r] = x.count /\ manifest'[r] = manifest[r] BY <1>2, <1>4 DEF Tables
<1>8. \A o \in Runs \ {r} : manifest'[o] = manifest[o] /\ item'[o] = item[o] /\ total'[o] = total[o]
  BY <1>4 DEF Tables
<1>9. ASSUME NEW s \in ItemsOf(r)' PROVE Fits(manifest'[r], item'[r][s])
  <2>1. s \in ItemsOf(r) /\ s # x.ship BY <1>6
  <2>2. Fits(manifest[r], item[r][s]) BY <1>2, <2>1, ItemsFit
  <2> QED BY <1>5, <1>7, <2>1, <2>2 DEF ItemsOf
<1>10. total'[r] = Cardinality(ItemsOf(r)') BY <1>3, <1>6, <1>7
<1>11. ManifestAddsUp' /\ NoItemsBefore' BY <1>2, <1>3, <1>7, <1>8, <1>9, <1>10, AddsUpAgain
<1>12. Sealed BY <1>3, <1>8 DEF Sealed, ItemsOf
<1> QED BY <1>11, <1>12

\* The commit of x takes its manifest and the items it has written to m.
WritesItems(x, m) ==
  /\ manifest' = [manifest EXCEPT ![x.run] = m] /\ total' = total
  /\ \A o \in Runs \ {x.run} : item'[o] = item[o]
  /\ \A s \in Shipments : Holds(x, s) => item'[x.run][s] # "NONE" /\ Fits(m, item'[x.run][s])
  /\ \A s \in Shipments : ~Holds(x, s) => item'[x.run][s] = item[x.run][s]

\* A handler that has swept the items of its manifest has written each of them.
LEMMA SweptWrites ==
  ASSUME NEW q \in Requests, Typed, Stands(req[q]), ManifestAddsUp, NoItemsBefore,
         NEW x, x = req[q], x.op \in {"lock", "dispatch", "receive"}, x.pc = "commit",
         NEW m \in ManifestStatuses \ {"NONE"}, WritesItems(x, m)
  PROVE  ManifestAddsUp' /\ NoItemsBefore' /\ Sealed
<1> DEFINE r == x.run
<1>1. r \in Runs /\ Tables
  <2>1. x.op \in OnRun BY DEF OnRun
  <2> QED BY <2>1, StageOf DEF Typed
<1>2. \A s \in ItemsOf(r) : Holds(x, s)
  <2>1. Swept(x) BY DEF Stands
  <2>2. x.todo = {} BY <2>1 DEF Swept
  <2>3. x.pc \in Loop \cup {"commit"} BY DEF Loop
  <2>4. \A s \in ItemsOf(x.run) : s \in x.todo \/ Holds(x, s) \/ (x.pc = "item" /\ x.ship = s)
    BY <2>1, <2>3 DEF Swept
  <2> QED BY <2>2, <2>4
<1>3. \A s \in Shipments : Holds(x, s) => item[r][s] # "NONE" BY DEF Stands, ItemsHeld, OnRun
<1>4. ItemsOf(r)' = ItemsOf(r)
  <2>1. \A s \in Shipments : item'[r][s] # "NONE" <=> item[r][s] # "NONE" BY <1>3 DEF WritesItems
  <2> QED BY <2>1 DEF ItemsOf
<1>5. \A s \in ItemsOf(r)' : Fits(m, item'[r][s]) BY <1>2, <1>4 DEF ItemsOf, WritesItems
<1>6. manifest'[r] = m /\ \A o \in Runs \ {r} : manifest'[o] = manifest[o] BY <1>1 DEF Tables, WritesItems
<1>7. total'[r] = Cardinality(ItemsOf(r)')
  <2>1. total[r] = Cardinality(ItemsOf(r)) BY <1>1 DEF ManifestAddsUp, TotalsCountItems
  <2> QED BY <1>4, <2>1 DEF WritesItems
<1>8. ManifestAddsUp' /\ NoItemsBefore' BY <1>1, <1>5, <1>6, <1>7, AddsUpAgain DEF WritesItems
<1>9. \A o \in Runs \ {r} : ItemsOf(o)' = ItemsOf(o) BY DEF ItemsOf, WritesItems
<1> QED BY <1>4, <1>8, <1>9 DEF Sealed

LEMMA SweepAddsUp ==
  ASSUME NEW q \in Requests, Typed, Stands(req[q]), ManifestAddsUp, NoItemsBefore,
         CommitLock(q) \/ CommitDispatch(q) \/ CommitReceive(q)
  PROVE  ManifestAddsUp' /\ NoItemsBefore' /\ Sealed
<1>0. PICK x : x = req[q] OBVIOUS
<1> DEFINE r == x.run
<1>a. Stands(x) BY <1>0
<1>1. x.op \in {"lock", "dispatch", "receive"} /\ x.pc = "commit" /\ x.op \in OnRun
  BY <1>0 DEF CommitLock, CommitDispatch, CommitReceive, Committing, At, OnRun
<1>2. r \in Runs /\ Tables /\ x \in Request BY <1>0, <1>1, StageOf DEF Typed
<1>3. CASE CommitLock(q)
  <2>1. /\ item' = [item EXCEPT ![r] = [s \in Shipments |-> IF Holds(x, s) THEN "LOADED" ELSE item[r][s]]]
        /\ total' = total /\ manifest' = [manifest EXCEPT ![r] = "LOCKED"]
    BY <1>0, <1>3 DEF CommitLock, Written, Holds
  <2>2. \A s \in Shipments : item'[r][s] = IF Holds(x, s) THEN "LOADED" ELSE item[r][s]
    BY <1>2, <2>1 DEF Tables
  <2>3. Fits("LOCKED", "LOADED") BY DEF Fits
  <2>4. \A o \in Runs \ {r} : item'[o] = item[o] BY <2>1
  <2>5. WritesItems(x, "LOCKED") BY <2>1, <2>2, <2>3, <2>4 DEF WritesItems
  <2> QED BY <1>0, <1>1, <2>5, SweptWrites DEF ManifestStatuses
<1>4. CASE CommitDispatch(q)
  <2>1. /\ item' = [item EXCEPT ![r] = [s \in Shipments |-> IF Holds(x, s) THEN "IN_TRANSIT" ELSE item[r][s]]]
        /\ total' = total /\ manifest' = [manifest EXCEPT ![r] = "DISPATCHED"]
    BY <1>0, <1>4 DEF CommitDispatch, Written, Holds
  <2>2. \A s \in Shipments : item'[r][s] = IF Holds(x, s) THEN "IN_TRANSIT" ELSE item[r][s]
    BY <1>2, <2>1 DEF Tables
  <2>3. Fits("DISPATCHED", "IN_TRANSIT") BY DEF Fits
  <2>4. \A o \in Runs \ {r} : item'[o] = item[o] BY <2>1
  <2>5. WritesItems(x, "DISPATCHED") BY <2>1, <2>2, <2>3, <2>4 DEF WritesItems
  <2> QED BY <1>0, <1>1, <2>5, SweptWrites DEF ManifestStatuses
<1>5. CASE CommitReceive(q)
  <2> DEFINE got(s) == IF s \in x.recv THEN "RECEIVED" ELSE "SHORTAGE"
  <2>1. /\ item' = [item EXCEPT ![r] = [s \in Shipments |-> IF Holds(x, s) THEN got(s) ELSE item[r][s]]]
        /\ total' = total
        /\ manifest' = [manifest EXCEPT ![r] = IF x.short THEN "DISCREPANCY" ELSE "RECONCILED"]
    BY <1>0, <1>5 DEF CommitReceive, Written, Holds
  <2>2. \A s \in Shipments : item'[r][s] = IF Holds(x, s) THEN got(s) ELSE item[r][s]
    BY <1>2, <2>1 DEF Tables
  <2>3. \A o \in Runs \ {r} : item'[o] = item[o] BY <2>1
  <2>4. CASE x.short
    <3>1. \A s : got(s) # "NONE" /\ Fits("DISCREPANCY", got(s)) BY DEF Fits
    <3> HIDE DEF got
    <3>2. WritesItems(x, "DISCREPANCY") BY <2>1, <2>2, <2>3, <2>4, <3>1 DEF WritesItems
    <3> QED BY <1>0, <1>1, <3>2, SweptWrites DEF ManifestStatuses
  <2>5. CASE ~x.short
    <3>1. x.op = "receive" BY <1>0, <1>5 DEF CommitReceive, Committing
    <3>2. \A s \in Shipments : Holds(x, s) => s \in x.recv BY <1>a, <2>5, <3>1 DEF Stands, NotShort
    <3>3. \A s \in Shipments : Holds(x, s) => got(s) = "RECEIVED" BY <3>2
    <3>4. Fits("RECONCILED", "RECEIVED") BY DEF Fits
    <3> HIDE DEF got
    <3>5. WritesItems(x, "RECONCILED") BY <2>1, <2>2, <2>3, <2>5, <3>3, <3>4 DEF WritesItems
    <3> QED BY <1>0, <1>1, <3>5, SweptWrites DEF ManifestStatuses
  <2> QED BY <2>4, <2>5
<1> QED BY <1>3, <1>4, <1>5

-----------------------------------------------------------------------------
(* The steps of the only request.                                          *)

\* What a step does with one request at a time.
Orderly(q) ==
  /\ ManifestAddsUp' /\ NoItemsBefore'
  /\ Stands(req[q])'
  /\ Sealed
  /\ status' = status \/ Lifecycle!Next

\* The abstract specification reads the same table.
LEMMA SameTable ==
  /\ Lifecycle!SHIPMENT_STATUSES = SHIPMENT_STATUSES
  /\ \A from, to : Lifecycle!Allows(from, to) <=> Allows(from, to)
<1>1. Lifecycle!ALLOWED_TRANSITIONS = ALLOWED_TRANSITIONS
  BY DEF Lifecycle!ALLOWED_TRANSITIONS, ALLOWED_TRANSITIONS
<1> QED BY <1>1 DEF Lifecycle!SHIPMENT_STATUSES, SHIPMENT_STATUSES, Lifecycle!Allows, Allows

LEMMA QuietIsOrderly ==
  ASSUME NEW q \in Requests, Typed, Stands(req[q]), ManifestAddsUp, NoItemsBefore, GoesOn(q),
         UNCHANGED <<run, manifest, item, total>>,
         \/ UNCHANGED status
         \/ WriteStatus(q)
  PROVE  Orderly(q)
<1>1. PICK y : req' = [req EXCEPT ![q] = y] /\ Stands(y) BY DEF GoesOn
<1>2. req'[q] = y BY <1>1 DEF Typed
<1>3. UNCHANGED status \/ y.pc # "write"
  <2>1. CASE WriteStatus(q)
    <3>1. req[q] \in Request BY DEF Typed
    <3>2. y = Idle \/ y = [req[q] EXCEPT !.pc = "closed"] \/ y = [req[q] EXCEPT !.pc = "items"]
      BY <1>2, <2>1 DEF WriteStatus, Finish, Goto, Typed
    <3> QED BY <3>1, <3>2 DEF Idle, Request
  <2> QED BY <2>1
<1>4. Stands(y)' BY <1>1, <1>3, StandsOn
<1>5. ManifestAddsUp' /\ NoItemsBefore' /\ Sealed BY AddsUpStill DEF Sealed
<1>6. status' = status \/ Lifecycle!Next
  <2>1. CASE WriteStatus(q)
    <3>1. req[q].ship \in Shipments /\ req[q].aim \in SHIPMENT_STATUSES
      BY <2>1, StageOf DEF WriteStatus, At, OnShipment, Aiming
    <3>2. Allows(status[req[q].ship], req[q].aim) BY <2>1 DEF WriteStatus, At, Stands, Legal
    <3>3. status' = [status EXCEPT ![req[q].ship] = req[q].aim] BY <2>1 DEF WriteStatus
    <3> QED BY <3>1, <3>2, <3>3, SameTable DEF Lifecycle!Next, Lifecycle!Transition
  <2> QED BY <2>1
<1> QED BY <1>2, <1>4, <1>5, <1>6 DEF Orderly

LEMMA CommitIsOrderly ==
  ASSUME NEW q \in Requests, Typed, Stands(req[q]), ManifestAddsUp, NoItemsBefore,
         CommitAdd(q) \/ CommitRemove(q) \/ CommitLock(q) \/ CommitDispatch(q) \/ CommitReceive(q)
  PROVE  Orderly(q)
<1>1. ManifestAddsUp' /\ NoItemsBefore' /\ Sealed BY AddAddsUp, RemoveAddsUp, SweepAddsUp
<1>2. req'[q] = Idle /\ UNCHANGED status
  BY DEF CommitAdd, CommitRemove, CommitLock, CommitDispatch, CommitReceive, Finish, Typed
<1>3. Stands(Idle)'
  BY DEF Stands, Idle, Editable, ItemsHeld, Recounted, Swept, NotShort, Legal, OnRun, Holds
<1> QED BY <1>1, <1>2, <1>3 DEF Orderly

LEMMA StepIsOrderly ==
  ASSUME NEW q \in Requests, Typed, RunAndManifestAgree, Stands(req[q]), ManifestAddsUp, NoItemsBefore,
         Arrival(q) \/ Step(q) \/ Abort(q)
  PROVE  Orderly(q)
<1>1. CASE Arrival(q)
  <2>1. GoesOn(q) BY SMTT(40), <1>1, ArrivalGoesOn
  <2>2. UNCHANGED <<status, rows>>
    BY <1>1 DEF Arrival, AddReadRun, RemoveRead, LockRead, DispatchRead, ArriveRead, ReceiveRead,
                StaffTransition, Begin
  <2> QED BY <2>1, <2>2, QuietIsOrderly DEF rows
<1>2. CASE \/ AddReadManifest(q) \/ AddReadShipment(q) \/ AddLinkLegs(q) \/ UpdateRow(q)
           \/ DepartLegs(q) \/ ItemsDone(q) \/ PickLeg(q) \/ CloseLeg(q) \/ ReadStatus(q)
           \/ WriteStatus(q) \/ CommitLeg(q)
  <2>1. GoesOn(q) BY SMTT(40), <1>2, PassingSteps
  <2>2. UNCHANGED <<run, manifest, item, total>> /\ (UNCHANGED status \/ WriteStatus(q))
    BY <1>2 DEF AddReadManifest, AddReadShipment, AddLinkLegs, UpdateRow, DepartLegs, ItemsDone,
                PickLeg, CloseLeg, ReadStatus, WriteStatus, CommitLeg, Locking, rows
  <2> QED BY <2>1, <2>2, QuietIsOrderly
<1>3. CASE \/ AddInsert(q) \/ RemoveDelete(q) \/ Recount(q) \/ LockFetchItems(q)
           \/ (\E s \in req[q].todo : NextItem(q, s)) \/ UpdateItem(q)
  <2>1. GoesOn(q)
    BY <1>3, InsertGoesOn, DeleteGoesOn, RecountGoesOn, FetchGoesOn, NextItemGoesOn, ItemGoesOn
  <2>2. UNCHANGED <<status, rows>>
    BY <1>3 DEF AddInsert, RemoveDelete, Recount, LockFetchItems, NextItem, UpdateItem, Locking
  <2> QED BY <2>1, <2>2, QuietIsOrderly DEF rows
<1>4. CASE Abort(q)
  BY <1>4, FinishGoesOn, QuietIsOrderly DEF Abort, rows
<1>5. CASE CommitArrive(q)
  <2>1. /\ req'[q] = Idle /\ UNCHANGED <<manifest, item, total, status>>
    BY <1>5 DEF CommitArrive, Finish, Typed
  <2>2. Stands(Idle)'
    BY DEF Stands, Idle, Editable, ItemsHeld, Recounted, Swept, NotShort, Legal, OnRun, Holds
  <2> QED BY <2>1, <2>2, AddsUpStill DEF Orderly, Sealed
<1>6. CASE CommitAdd(q) \/ CommitRemove(q) \/ CommitLock(q) \/ CommitDispatch(q) \/ CommitReceive(q)
  BY <1>6, CommitIsOrderly
<1> QED BY <1>1, <1>2, <1>3, <1>4, <1>5, <1>6 DEF Step

\* A new run has no items, and disturbs no request: each works on a run that exists.
LEMMA CreateAddsUp ==
  ASSUME NEW r \in Runs, IInv, ManifestAddsUp, NoItemsBefore, CreateTransportRun(r)
  PROVE  /\ ManifestAddsUp' /\ NoItemsBefore' /\ Sealed
         /\ \A o : ItemsOf(o)' = ItemsOf(o)
<1>1. Typed /\ run[r] = "NONE" /\ Tables BY DEF IInv, CreateTransportRun, Typed
<1>2. manifest[r] = "NONE" BY <1>1 DEF IInv, RunAndManifestAgree, Tables, ManifestStatuses
<1>3. manifest' = [manifest EXCEPT ![r] = "DRAFT"] /\ UNCHANGED <<total, item>>
  BY DEF CreateTransportRun
<1>4. ItemsOf(r) = {} /\ ItemsOf(r)' = {} /\ \A o : ItemsOf(o)' = ItemsOf(o)
  BY <1>2, <1>3 DEF NoItemsBefore, ItemsOf
<1>5. ManifestAddsUp' /\ NoItemsBefore'
  <2>1. manifest'[r] = "DRAFT" /\ \A o \in Runs \ {r} : manifest'[o] = manifest[o]
    BY <1>1, <1>3 DEF Tables
  <2>2. total'[r] = Cardinality(ItemsOf(r)')
    <3>1. total[r] = Cardinality(ItemsOf(r)) BY DEF ManifestAddsUp, TotalsCountItems
    <3> QED BY <1>3, <1>4, <3>1
  <2>3. \A s \in ItemsOf(r)' : Fits(manifest'[r], item'[r][s]) BY <1>4
  <2> QED BY <1>1, <1>3, <2>1, <2>2, <2>3, AddsUpAgain
<1> QED BY <1>4, <1>5 DEF Sealed

LEMMA CreateStands ==
  ASSUME NEW r \in Runs, NEW q \in Requests, IInv, Stands(req[q]), CreateTransportRun(r),
         \A o : ItemsOf(o)' = ItemsOf(o)
  PROVE  Stands(req[q])'
<1>1. Typed /\ RunExists(q) /\ run[r] = "NONE" /\ Tables BY DEF IInv, CreateTransportRun, Typed
<1>2. /\ run' = [run EXCEPT ![r] = "PLANNED"] /\ manifest' = [manifest EXCEPT ![r] = "DRAFT"]
      /\ UNCHANGED <<status, item, req>>
  BY DEF CreateTransportRun
<1>3. PICK x : x = req[q] OBVIOUS
<1>4. Stands(x)'
  <2>1. x.op \in OnRun => x.run \in Runs /\ x.run # r
    BY <1>1, <1>3, StageOf DEF RunExists
  <2>2. x.op \in OnRun => run'[x.run] = run[x.run] /\ manifest'[x.run] = manifest[x.run]
    BY <1>1, <1>2, <2>1 DEF Tables
  <2>3. Editable(x)' BY <1>3, <2>2 DEF Stands, Editable, OnRun
  <2>4. ItemsHeld(x)' /\ NotShort(x)' BY <1>2, <1>3 DEF Stands, ItemsHeld, NotShort, Holds
  <2>5. Recounted(x)' BY <1>3 DEF Stands, Recounted
  <2>6. Swept(x)' BY <1>3 DEF Stands, Swept, Holds
  <2>7. Legal(x)' BY <1>2, <1>3 DEF Stands, Legal
  <2> QED BY <2>3, <2>4, <2>5, <2>6, <2>7 DEF Stands
<1> QED BY <1>2, <1>3, <1>4

LEMMA SerialInit ==
  ASSUME Init
  PROVE  SerialInv
<1>1. \A r \in Runs : ItemsOf(r) = {} /\ manifest[r] = "NONE" /\ total[r] = 0
  BY DEF Init, ItemsOf
<1>2. NoItemsBefore BY <1>1 DEF NoItemsBefore
<1>3. ManifestAddsUp
  <2>1. Cardinality({}) = 0 BY FS_EmptySet
  <2>2. TotalsCountItems
    <3>1. ASSUME NEW r \in Runs PROVE total[r] = Cardinality(ItemsOf(r))
      <4>1. ItemsOf(r) = {} /\ total[r] = 0 BY <1>1
      <4> QED BY <2>1, <4>1
    <3> QED BY <3>1 DEF TotalsCountItems
  <2>3. ItemsFollowManifest BY <1>1 DEF ItemsFollowManifest
  <2> QED BY <2>2, <2>3 DEF ManifestAddsUp
<1>4. \A q \in Requests : Stands(req[q]) BY IdleStands DEF Init
<1> QED BY <1>2, <1>3, <1>4 DEF SerialInv

\* A step of the system keeps the manifests adding up and sealed, and moves a
\* shipment only as the abstract specification does.
LEMMA SerialNext ==
  ASSUME OneAtATime, IInv, SerialInv, Next
  PROVE  SerialInv' /\ Sealed /\ (status' = status \/ Lifecycle!Next)
<1>1. ASSUME NEW r \in Runs, CreateTransportRun(r)
      PROVE  SerialInv' /\ Sealed /\ status' = status
  <2>1. /\ ManifestAddsUp' /\ NoItemsBefore' /\ Sealed
        /\ \A o : ItemsOf(o)' = ItemsOf(o)
    BY <1>1, CreateAddsUp DEF SerialInv
  <2>2. \A q \in Requests : Stands(req[q])' BY <1>1, <2>1, CreateStands DEF SerialInv
  <2>3. status' = status BY <1>1 DEF CreateTransportRun
  <2> QED BY <2>1, <2>2, <2>3 DEF SerialInv
<1>2. ASSUME NEW q \in Requests, Arrival(q) \/ Step(q) \/ Abort(q)
      PROVE  SerialInv' /\ Sealed /\ (status' = status \/ Lifecycle!Next)
  <2>1. Typed /\ RunAndManifestAgree BY DEF IInv
  <2>2. Orderly(q) BY <1>2, <2>1, StepIsOrderly DEF SerialInv
  <2>3. ASSUME NEW p \in Requests PROVE Stands(req[p])'
    <3>1. p = q BY DEF OneAtATime
    <3> QED BY <2>2, <3>1 DEF Orderly
  <2> QED BY <2>2, <2>3 DEF Orderly, SerialInv
<1> QED BY <1>1, <1>2 DEF Next

LEMMA SerialStutter ==
  ASSUME SerialInv, UNCHANGED vars
  PROVE  SerialInv' /\ Sealed /\ status' = status
<1>1. UNCHANGED <<status, run, manifest, item, total, req>> BY DEF vars, rows
<1>2. ManifestAddsUp' /\ NoItemsBefore' /\ \A r : ItemsOf(r)' = ItemsOf(r)
  BY <1>1, AddsUpStill DEF SerialInv
<1>3. ASSUME NEW q \in Requests PROVE Stands(req[q])'
  <2>1. PICK x : x = req[q] OBVIOUS
  <2>2. Stands(x)' BY <1>1, <2>1, StandsOn DEF SerialInv
  <2> QED BY <1>1, <2>1, <2>2
<1> QED BY <1>1, <1>2, <1>3 DEF SerialInv, Sealed

LEMMA SerialInvariance == ASSUME OneAtATime PROVE Spec => []SerialInv
<1>1. Init => SerialInv BY SerialInit
<1>2. IInv /\ SerialInv /\ [Next]_vars => SerialInv' BY SerialNext, SerialStutter
<1> QED BY <1>1, <1>2, Invariance, PTL DEF Spec

\* Where requests come one at a time and any of them may fail anywhere, the items
\* of a manifest are where it is and its stored total counts them.
THEOREM ManifestsAddUp == ASSUME OneAtATime PROVE Spec => []ManifestAddsUp
<1>1. SerialInv => ManifestAddsUp BY DEF SerialInv
<1> QED BY <1>1, SerialInvariance, PTL

\* One request at a time never adds a parcel to a locked or dispatched manifest or
\* takes one from it.  (Two requests do: the run of sealed_race.cfg.)
THEOREM ManifestsStaySealed == ASSUME OneAtATime PROVE Spec => ManifestSealed
<1>1. IInv /\ SerialInv /\ [Next]_vars => [Sealed]_vars BY SerialNext
<1>2. Spec => [][Sealed]_vars BY <1>1, SerialInvariance, Invariance, PTL DEF Spec
<1> QED BY <1>2 DEF ManifestSealed, Sealed

\* Loading, dispatch, receipt and staff move a shipment along the transition table,
\* one request at a time: Linehaul implements ShipmentLifecycle.
THEOREM LinehaulFollowsLifecycle == ASSUME OneAtATime PROVE Spec => FollowsLifecycle
<1>1. Init => Lifecycle!Init
  BY SameTable DEF Init, Lifecycle!Init
<1>2. IInv /\ SerialInv /\ [Next]_vars => [Lifecycle!Next]_status
  BY SerialNext, SerialStutter
<1> QED BY <1>1, <1>2, SerialInvariance, Invariance, PTL DEF Spec, FollowsLifecycle, Lifecycle!Spec
=============================================================================
