------------------------------- MODULE Inbound -------------------------------
(***************************************************************************)
(* Parcels on their way into a hub: barcode scans, receiving sessions and  *)
(* manual sortation (server/services/custodyService.js), the receipt of    *)
(* the manifest and the customs handling of a cross-border leg             *)
(* (receiveManifest and the customs handlers of transportService.js), and  *)
(* the staff who move shipments, all over the same rows.                   *)
(*                                                                         *)
(* Handlers read what they check outside their transaction.  A bay scan    *)
(* writes AT_HUB whatever the status is; completing a session, receiving a *)
(* manifest and a customs hold call transitionShipmentStatus, which checks *)
(* the table and commits on a connection of its own, so that what it moved *)
(* stays moved when the transaction around it rolls back.                  *)
(***************************************************************************)
EXTENDS ShipmentStatus, Naturals, Sequences, FiniteSets, SequencesExt

CONSTANTS
  Requests,     \* requests that may be in progress at once
  Shipments,
  Manifest,     \* shipments on the dispatched manifest
  CrossBorder,  \* shipments whose leg crosses a border
  Outbound,     \* shipments with a further leg out of this hub
  Sessions,     \* receiving sessions, all attached to the manifest
  Scans,        \* scan_uuids
  ScanOf,       \* scan -> the shipment and the scan_type
  Batches,      \* sequences of scans a device syncs together
  Starts,       \* where the shipments may be at first
  StaffTargets, \* targets staff send to POST /shipments/:id/transition
  Marks,        \* the customs statuses written by submit, inspect and clear
  MaxRepeats,   \* bound: rows of one kind for a shipment, holds of a leg
  MaxRequests,  \* bound: requests made
  AfterRace     \* bound: new requests once two on one shipment have overlapped?

ScanTypes == {"INTAKE", "SORT", "RECEIVE", "AUDIT"}

ASSUME InboundAssumption ==
  /\ IsFiniteSet(Shipments) /\ "none" \notin Shipments
  /\ Manifest \subseteq Shipments /\ CrossBorder \subseteq Shipments /\ Outbound \subseteq Shipments
  /\ ScanOf \in [Scans -> [ship : Shipments, type : ScanTypes]]
  /\ Batches \subseteq Seq(Scans)
  /\ Starts \subseteq [Shipments -> SHIPMENT_STATUSES]
  /\ StaffTargets \subseteq SHIPMENT_STATUSES
  /\ Marks \subseteq {"SUBMITTED", "INSPECTION", "CLEARED"}
  /\ MaxRepeats \in Nat /\ MaxRequests \in Nat

VARIABLES
  status,      \* shipments.status
  item,        \* manifest_items.status
  manifest,    \* manifests.status
  session,     \* hub_receiving_sessions: status and counters
  unload,      \* hub_receiving_items: rows in good condition and not, per session and shipment
  missing,     \* discrepancies of type MISSING_MANIFEST_ITEM, per session and shipment
  variance,    \* the other discrepancies of a session, per shipment
  scanned,     \* rows of scan_events with each scan_uuid
  customs,     \* shipment_legs.customs_status
  exceptions,  \* exceptions of type CUSTOMS_HOLD
  req,         \* the requests in progress
  asked,       \* requests made, for the bound
  contended,   \* history: shipments on which two requests overlapped
  late,        \* history: bay scans that committed after the session's completion had read it
  excepted,    \* history: shipments the completion of a session moved to EXCEPTION
  stranded     \* history: shipments a transaction moved before it rolled back

hub == <<session, unload, missing, variance>>
border == <<customs, exceptions>>
rows == <<item, manifest, hub, scanned, border>>
history == <<contended, late, excepted, stranded>>
vars == <<status, rows, req, asked, history>>

NewSession == [status |-> "NONE", scanned |-> 0, intact |-> 0, damaged |-> 0, unexpected |-> 0]
NoRows == [s \in Shipments |-> 0]

Idle == [pc |-> "idle", op |-> "none", ship |-> "none", aim |-> "none", sess |-> "none",
         scan |-> "none", good |-> FALSE, known |-> "none", todo |-> {}, recv |-> {},
         lost |-> {}, moved |-> {}, flagged |-> FALSE]

Init ==
  /\ status \in Starts
  /\ item = [s \in Manifest |-> "IN_TRANSIT"] /\ manifest = "DISPATCHED"
  /\ session = [n \in Sessions |-> NewSession]
  /\ unload = [n \in Sessions |-> [s \in Shipments |-> [good |-> 0, bad |-> 0]]]
  /\ missing = [n \in Sessions |-> NoRows] /\ variance = [n \in Sessions |-> NoRows]
  /\ scanned = [u \in Scans |-> 0]
  /\ customs = [s \in CrossBorder |-> "PENDING"] /\ exceptions = [s \in CrossBorder |-> 0]
  /\ req = [q \in Requests |-> Idle] /\ asked = 0
  /\ contended = {} /\ late = {} /\ excepted = {} /\ stranded = {}

-----------------------------------------------------------------------------
(* Requests.                                                               *)

At(q, op, pc) == req[q].op = op /\ req[q].pc = pc
Become(q, r) == req' = [req EXCEPT ![q] = r] /\ UNCHANGED asked
End(q) == Become(q, Idle)
Goto(q, pc) == Become(q, [req[q] EXCEPT !.pc = pc])

\* The shipments a request is about.
Touched(r) == {r.ship} \cup r.todo \cup r.moved

Begin(q, r) ==
  /\ req[q] = Idle /\ asked < MaxRequests
  /\ AfterRace \/ contended = {}
  /\ req' = [req EXCEPT ![q] = r] /\ asked' = asked + 1
  /\ contended' = contended \cup
       (Shipments \cap Touched(r) \cap UNION {Touched(req[p]) : p \in Requests})
  /\ UNCHANGED <<status, rows, late, excepted, stranded>>

\* The transaction rolls back; what its nested calls moved stays moved.
RollBack(q) ==
  /\ End(q)
  /\ stranded' = stranded \cup req[q].moved
  /\ UNCHANGED <<contended, late, excepted>>

\* A statement of an open transaction fails.
Fail(q) ==
  /\ req[q].moved # {}
  /\ RollBack(q)
  /\ UNCHANGED <<status, rows>>

-----------------------------------------------------------------------------
(* transitionShipmentStatus, on its own connection.                        *)

\* A refusal throws and the caller's transaction rolls back; only the customs
\* hold catches it and goes on.
CheckTransition(q) ==
  /\ req[q].pc = "check"
  /\ IF Allows(status[req[q].ship], req[q].aim) THEN Goto(q, "move") /\ UNCHANGED history
     ELSE IF req[q].op = "hold" THEN Goto(q, "commit") /\ UNCHANGED history
     ELSE RollBack(q)
  /\ UNCHANGED <<status, rows>>

MoveShipment(q) ==
  LET s == req[q].ship
      op == req[q].op
  IN /\ req[q].pc = "move"
     /\ status' = [status EXCEPT ![s] = req[q].aim]
     /\ IF op \in {"staff", "sort"} THEN End(q)
        ELSE Become(q, [req[q] EXCEPT !.moved = req[q].moved \cup {s},
                                      !.pc = IF op \in {"complete", "receipt"} THEN "items" ELSE "commit"])
     /\ excepted' = excepted \cup (IF op = "complete" THEN {<<req[q].sess, s>>} ELSE {})
     /\ UNCHANGED <<rows, contended, late, stranded>>

\* POST /shipments/:id/transition.
StaffTransition(q, s, aim) ==
  Begin(q, [Idle EXCEPT !.op = "staff", !.pc = "check", !.ship = s, !.aim = aim])

-----------------------------------------------------------------------------
(* recordScanEvent, recordBatchScans, confirmManualSortation.              *)

\* Mutant: the scan type alone decides.
ScannedByType(type, st) ==
  CASE type = "INTAKE" -> "AT_ORIGIN_HUB" [] type = "SORT" -> "SORTED"
    [] type = "RECEIVE" -> "AT_HUB" [] OTHER -> st

\* Mutant: the code of the tracking event is stored as the status.
ScannedAsEvent(type, st) ==
  IF type = "RECEIVE" /\ st = "IN_TRANSIT" THEN "RECEIVED_AT_HUB" ELSE st

\* Where a scan of this type moves a shipment it found in status st.
Scanned(type, st) ==
  CASE type = "INTAKE" /\ st = "BOOKED" -> "AT_ORIGIN_HUB"
    [] type = "SORT" /\ st \in {"ACCEPTED", "AT_ORIGIN_HUB", "AT_HUB"} -> "SORTED"
    [] type = "RECEIVE" /\ st = "IN_TRANSIT" -> "AT_HUB"
    [] OTHER -> st

\* A known scan_uuid is answered as a duplicate.
ReadScan(q, u) ==
  /\ scanned[u] = 0
  /\ Begin(q, [Idle EXCEPT !.op = "scan", !.pc = "commit", !.scan = u, !.ship = ScanOf[u].ship,
                           !.known = status[ScanOf[u].ship]])

\* scan_uuid is UNIQUE: the INSERT of a second one fails.  The status written
\* follows from the one read, whatever it has become.
CommitScan(q) ==
  LET s == req[q].ship
      to == Scanned(ScanOf[req[q].scan].type, req[q].known)
  IN /\ At(q, "scan", "commit")
     /\ IF scanned[req[q].scan] > 0 THEN UNCHANGED <<scanned, status>>
        ELSE /\ scanned' = [scanned EXCEPT ![req[q].scan] = 1]
             /\ status' = IF to = req[q].known THEN status ELSE [status EXCEPT ![s] = to]
     /\ End(q)
     /\ UNCHANGED <<item, manifest, hub, border, history>>

\* Is the k-th scan of a batch one that has not been recorded?
New(batch, k) == scanned[batch[k]] = 0 /\ \A j \in 1..(k - 1) : batch[j] # batch[k]

\* The statuses once a batch is scanned, one scan after the other.
ScannedBatch(batch) ==
  LET after[k \in 0..Len(batch)] ==
        IF k = 0 THEN status
        ELSE IF ~New(batch, k) THEN after[k - 1]
        ELSE [after[k - 1] EXCEPT ![ScanOf[batch[k]].ship] = Scanned(ScanOf[batch[k]].type, @)]
  IN after[Len(batch)]

\* The scans of a device that was offline, in one transaction.  A request that
\* has read a shipment before is overtaken.
BatchScan(batch) ==
  LET fresh == {u \in ToSet(batch) : scanned[u] = 0}
      ships == {ScanOf[u].ship : u \in fresh}
  IN /\ fresh # {}
     /\ AfterRace \/ contended = {}
     /\ status' = ScannedBatch(batch)
     /\ scanned' = [u \in Scans |-> IF u \in fresh THEN 1 ELSE scanned[u]]
     /\ contended' = contended \cup (ships \cap UNION {Touched(req[p]) : p \in Requests})
     /\ UNCHANGED <<item, manifest, hub, border, req, asked, late, excepted, stranded>>

ConfirmManualSortation(q, s) ==
  /\ s \in Outbound /\ status[s] \in {"ACCEPTED", "AT_ORIGIN_HUB", "AT_HUB"}
  /\ Begin(q, [Idle EXCEPT !.op = "sort", !.pc = "check", !.ship = s, !.aim = "SORTED"])

-----------------------------------------------------------------------------
(* Receiving sessions.                                                     *)

Rows(n, s) == unload[n][s].good + unload[n][s].bad

OpenReceivingSession(n) ==
  /\ session[n].status = "NONE"
  /\ session' = [session EXCEPT ![n].status = "IN_PROGRESS"]
  /\ UNCHANGED <<status, item, manifest, unload, missing, variance, scanned, border, req, asked, history>>

\* scanReceivingItem: its checks, before its transaction.
ReadItem(q, n, s, good) ==
  /\ session[n].status = "IN_PROGRESS" /\ Rows(n, s) = 0
  /\ Begin(q, [Idle EXCEPT !.op = "unload", !.pc = "commit", !.sess = n, !.ship = s, !.good = good])

One(b) == IF b THEN 1 ELSE 0

\* Mutant: the counters are stored as they were read, plus one.
CountFromRead(old, good, expected) ==
  [old EXCEPT !.scanned = 1, !.intact = One(good), !.damaged = One(~good), !.unexpected = One(~expected)]

\* The counters of a session are incremented where they are stored.
Count(old, good, expected) ==
  [old EXCEPT !.scanned = old.scanned + 1, !.intact = old.intact + One(good),
              !.damaged = old.damaged + One(~good), !.unexpected = old.unexpected + One(~expected)]

Completing(n) == \E p \in Requests : req[p].op = "complete" /\ req[p].sess = n

CommitItem(q) ==
  LET n == req[q].sess
      s == req[q].ship
      good == req[q].good
  IN /\ At(q, "unload", "commit")
     /\ unload' = [unload EXCEPT ![n][s] = [good |-> unload[n][s].good + One(good),
                                            bad |-> unload[n][s].bad + One(~good)]]
     /\ session' = [session EXCEPT ![n] = Count(session[n], good, s \in Manifest)]
     /\ variance' = [variance EXCEPT ![n][s] = variance[n][s] + One(~good \/ s \notin Manifest)]
     /\ status' = [status EXCEPT ![s] = "AT_HUB"]
     /\ late' = late \cup (IF Completing(n) \/ session[n].status # "IN_PROGRESS" THEN {<<n, s>>} ELSE {})
     /\ End(q)
     /\ UNCHANGED <<item, manifest, missing, scanned, border, contended, excepted, stranded>>

\* completeReceivingSession: only COMPLETED is refused; a flagged session may
\* be completed again.
ReadComplete(q, n) ==
  /\ session[n].status \notin {"NONE", "COMPLETED"}
  /\ \A s \in Shipments : missing[n][s] < MaxRepeats
  /\ Begin(q, [Idle EXCEPT !.op = "complete", !.pc = "find", !.sess = n, !.todo = Manifest,
                           !.flagged = session[n].damaged > 0 \/ session[n].unexpected > 0])

\* Mutant: nothing is missing once as many parcels as expected were scanned.
FindByCount(q) ==
  LET n == req[q].sess
  IN /\ At(q, "complete", "find")
     /\ Become(q, [req[q] EXCEPT !.pc = "items",
                  !.todo = {s \in Manifest : Rows(n, s) = 0 /\ session[n].scanned < Cardinality(Manifest)}])
     /\ UNCHANGED <<status, rows, history>>

FindMissing(q) ==
  /\ At(q, "complete", "find")
  /\ Become(q, [req[q] EXCEPT !.pc = "items", !.todo = {s \in Manifest : Rows(req[q].sess, s) = 0}])
  /\ UNCHANGED <<status, rows, history>>

\* The next parcel that was not scanned: its discrepancy, then its transition.
NextMissing(q, s) ==
  /\ At(q, "complete", "items") /\ s \in req[q].todo
  /\ Become(q, [req[q] EXCEPT !.pc = "check", !.ship = s, !.aim = "EXCEPTION",
                              !.todo = req[q].todo \ {s}, !.lost = req[q].lost \cup {s}])
  /\ UNCHANGED <<status, rows, history>>

FinalStatus(r) == IF r.flagged \/ r.lost # {} THEN "DISCREPANCY_FLAGGED" ELSE "COMPLETED"

CommitComplete(q) ==
  LET n == req[q].sess
  IN /\ At(q, "complete", "items") /\ req[q].todo = {}
     /\ session' = [session EXCEPT ![n].status = FinalStatus(req[q])]
     /\ missing' = [missing EXCEPT ![n] = [s \in Shipments |-> missing[n][s] + One(s \in req[q].lost)]]
     /\ End(q)
     /\ UNCHANGED <<status, item, manifest, unload, variance, scanned, border, history>>

-----------------------------------------------------------------------------
(* receiveManifest.                                                        *)

\* The statuses its query finds say which parcels are in EXCEPTION already.
ReadReceipt(q, received) ==
  Begin(q, [Idle EXCEPT !.op = "receipt", !.pc = "items", !.todo = Manifest, !.recv = received,
                        !.lost = {s \in Manifest : status[s] = "EXCEPTION"}])

\* The rows of the items come in one order: a second receipt waits at the first.
NextReceived(q, s) ==
  /\ At(q, "receipt", "items") /\ s \in req[q].todo
  /\ \A p \in Requests \ {q} : req[p].op = "receipt" => req[p].todo = Manifest
  /\ LET rest == [req[q] EXCEPT !.todo = req[q].todo \ {s}, !.ship = s]
     IN Become(q, IF s \in req[q].recv THEN [rest EXCEPT !.pc = "check", !.aim = "AT_HUB"]
                  ELSE IF s \in req[q].lost THEN rest
                  ELSE [rest EXCEPT !.pc = "check", !.aim = "EXCEPTION"])
  /\ UNCHANGED <<status, rows, history>>

CommitReceipt(q) ==
  /\ At(q, "receipt", "items") /\ req[q].todo = {}
  /\ item' = [s \in Manifest |-> IF s \in req[q].recv THEN "RECEIVED" ELSE "SHORTAGE"]
  /\ manifest' = IF Manifest \subseteq req[q].recv THEN "RECONCILED" ELSE "DISCREPANCY"
  /\ End(q)
  /\ UNCHANGED <<status, hub, scanned, border, history>>

-----------------------------------------------------------------------------
(* Customs.                                                                *)

\* A transaction that has updated the leg holds its row.
LegLocked(s) == \E p \in Requests : req[p].op \in {"hold", "release"} /\ req[p].ship = s

\* submitCustomsDeclaration, inspectCustomsLeg and clearCustomsLeg write their
\* status whatever it was.
MarkCustoms(s, to) ==
  /\ ~LegLocked(s)
  /\ customs' = [customs EXCEPT ![s] = to]
  /\ UNCHANGED <<status, item, manifest, hub, scanned, exceptions, req, asked, history>>

HoldCustomsLeg(q, s) ==
  /\ ~LegLocked(s) /\ exceptions[s] < MaxRepeats
  /\ Begin(q, [Idle EXCEPT !.op = "hold", !.pc = "check", !.ship = s, !.aim = "ON_HOLD"])

CommitHold(q) ==
  LET s == req[q].ship
  IN /\ At(q, "hold", "commit")
     /\ customs' = [customs EXCEPT ![s] = "CUSTOMS_HOLD"]
     /\ exceptions' = [exceptions EXCEPT ![s] = exceptions[s] + 1]
     /\ End(q)
     /\ UNCHANGED <<status, item, manifest, hub, scanned, history>>

\* The status is read once the row of the leg is locked.
ReleaseCustomsLeg(q, s) ==
  /\ ~LegLocked(s)
  /\ Begin(q, [Idle EXCEPT !.op = "release", !.ship = s, !.aim = "IN_TRANSIT",
                           !.pc = IF status[s] = "ON_HOLD" THEN "check" ELSE "commit"])

CommitRelease(q) ==
  /\ At(q, "release", "commit")
  /\ customs' = [customs EXCEPT ![req[q].ship] = "RELEASED"]
  /\ End(q)
  /\ UNCHANGED <<status, item, manifest, hub, scanned, exceptions, history>>

-----------------------------------------------------------------------------
Ask(q) ==
  \/ \E u \in Scans : ReadScan(q, u)
  \/ \E s \in Shipments :
       \/ ConfirmManualSortation(q, s)
       \/ \E aim \in StaffTargets : StaffTransition(q, s, aim)
       \/ \E n \in Sessions, good \in BOOLEAN : ReadItem(q, n, s, good)
  \/ \E n \in Sessions : ReadComplete(q, n)
  \/ \E received \in SUBSET Manifest : ReadReceipt(q, received)
  \/ \E s \in CrossBorder : HoldCustomsLeg(q, s) \/ ReleaseCustomsLeg(q, s)

Proceed(q) ==
  \/ CheckTransition(q) \/ MoveShipment(q) \/ Fail(q)
  \/ CommitScan(q) \/ CommitItem(q)
  \/ FindMissing(q) \/ CommitComplete(q)
  \/ \E s \in Manifest : NextMissing(q, s) \/ NextReceived(q, s)
  \/ CommitReceipt(q) \/ CommitHold(q) \/ CommitRelease(q)

Next ==
  \/ \E q \in Requests : Ask(q) \/ Proceed(q)
  \/ \E batch \in Batches : BatchScan(batch)
  \/ \E n \in Sessions : OpenReceivingSession(n)
  \/ \E s \in CrossBorder, to \in Marks : MarkCustoms(s, to)

Spec == Init /\ [][Next]_vars

-----------------------------------------------------------------------------
(* Properties.                                                             *)

\* Types of the variables.
TypeOK ==
  /\ status \in [Shipments -> SHIPMENT_STATUSES]
  /\ item \in [Manifest -> {"IN_TRANSIT", "RECEIVED", "SHORTAGE"}]
  /\ manifest \in {"DISPATCHED", "RECONCILED", "DISCREPANCY"}
  /\ session \in [Sessions -> [status : {"NONE", "IN_PROGRESS", "COMPLETED", "DISCREPANCY_FLAGGED"},
                               scanned : Nat, intact : Nat, damaged : Nat, unexpected : Nat]]
  /\ unload \in [Sessions -> [Shipments -> [good : Nat, bad : Nat]]]
  /\ missing \in [Sessions -> [Shipments -> Nat]] /\ variance \in [Sessions -> [Shipments -> Nat]]
  /\ scanned \in [Scans -> Nat]
  /\ customs \in [CrossBorder -> {"PENDING", "SUBMITTED", "INSPECTION", "CUSTOMS_HOLD", "CLEARED", "RELEASED"}]
  /\ exceptions \in [CrossBorder -> Nat]
  /\ contended \subseteq Shipments /\ stranded \subseteq Shipments
  /\ late \subseteq Sessions \X Shipments /\ excepted \subseteq Sessions \X Shipments

Sum(f, S) ==
  LET sum[T \in SUBSET S] ==
        IF T = {} THEN 0 ELSE LET s == CHOOSE s \in T : TRUE IN f[s] + sum[T \ {s}]
  IN sum[S]

\* The counters of a session are the numbers of its rows, however many terminals
\* scan into it at once.
CountersMatchItems ==
  \A n \in Sessions :
    LET all == [s \in Shipments |-> Rows(n, s)]
    IN /\ session[n].scanned = Sum(all, Shipments)
       /\ session[n].damaged = Sum([s \in Shipments |-> unload[n][s].bad], Shipments)
       /\ session[n].intact = Sum([s \in Shipments |-> unload[n][s].good], Shipments)
       /\ session[n].unexpected = Sum(all, Shipments \ Manifest)

\* A session counts a parcel twice only when two scans of it overlapped.
CountedTwiceOnlyByOverlap ==
  \A n \in Sessions, s \in Shipments : Rows(n, s) > 1 => s \in contended

\* BR-013: a scan that a device sends again, even while the first is under way,
\* is recorded once.
ScannedOnce == \A u \in Scans : scanned[u] <= 1

\* What is scanned is counted, and once: the counters of a session are the parcels
\* it unloaded, and no device scan has two events.
CountersAgree == CountersMatchItems /\ CountedTwiceOnlyByOverlap /\ ScannedOnce

Closed(n) == session[n].status \in {"COMPLETED", "DISCREPANCY_FLAGGED"}

\* BR-006: when a session is closed every parcel of the manifest was scanned in it
\* or is reported missing by it - although parcels off the manifest were counted
\* too and scans go on meanwhile.
AccountedFor ==
  \A n \in Sessions : Closed(n) => \A s \in Manifest : Rows(n, s) > 0 \/ missing[n][s] > 0

\* A session that closed without a flag has no damaged or unexpected parcel, but
\* for those scanned after its completion had read the counters, and misses none:
\* a flagged session may be completed again, and only a scan that overlapped its
\* first completion can clear the flag.
CleanSessionIsClean ==
  \A n \in Sessions : session[n].status = "COMPLETED" =>
    \A s \in Shipments : /\ missing[n][s] > 0 => s \in contended
                         /\ variance[n][s] > 0 => <<n, s>> \in late

\* A parcel reported missing was put into EXCEPTION by that session; and one that
\* was has its report, unless the completion rolled back after it.
ShortagesAgree ==
  \A n \in Sessions, s \in Shipments :
    /\ missing[n][s] > 0 => <<n, s>> \in excepted
    /\ <<n, s>> \in excepted =>
         \/ missing[n][s] > 0 \/ s \in stranded
         \/ \E q \in Requests : req[q].op = "complete" /\ req[q].sess = n /\ s \in req[q].moved

\* What a closed session says of its parcels - all there, missing, damaged or
\* unexpected - is what happened, although scans go on while it is being closed
\* and its shipments move in transactions of their own.
ReportAgrees == AccountedFor /\ CleanSessionIsClean /\ ShortagesAgree

\* The scans of a batch commit together and may take a shipment two steps.
Together == \E u, v \in Scans : u # v /\ scanned'[u] # scanned[u] /\ scanned'[v] # scanned[v]
Leads(from, to) == \E via \in SHIPMENT_STATUSES : Allows(from, via) /\ Allows(via, to)

\* A shipment moves along the transition table, whoever moves it, except by a bay
\* scan, which asks nothing, or when two requests overlapped on it; and customs that
\* release a leg do not leave its shipment on hold.
MovesAreLegal ==
  [][/\ \A s \in Shipments : status'[s] # status[s] =>
          \/ Allows(status[s], status'[s])
          \/ Together /\ Leads(status[s], status'[s])
          \/ unload' # unload
          \/ s \in contended'
     /\ \A s \in CrossBorder \ contended :
          customs[s] # "RELEASED" /\ customs'[s] = "RELEASED" => status[s] # "ON_HOLD"]_vars
=============================================================================
