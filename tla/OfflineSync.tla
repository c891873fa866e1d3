----------------------------- MODULE OfflineSync -----------------------------
(***************************************************************************)
(* Offline field operations: the queue a browser keeps while disconnected  *)
(* (client/src/services/offlineQueue.js and offlineSyncService.js), and    *)
(* the gateway that executes the batches it sends                          *)
(* (server/services/offlineSyncService.js).                                *)
(*                                                                         *)
(* The gateway runs one operation after another with no transaction around *)
(* them: it looks the operation up in offline_sync_logs, calls the domain  *)
(* service, which commits by itself, and then inserts the log row, whose   *)
(* operation id is unique.  Every statement is a step, so concurrent calls *)
(* interleave between any two of them.                                     *)
(***************************************************************************)
EXTENDS Naturals, FiniteSets

CONSTANTS
  Ops,        \* operations, numbered in the order of their client timestamps
  Guarded,    \* those whose domain call refuses to be done twice: HUB_RECEIVE,
              \* DELIVERY_POD, a SCAN with a scan_uuid; hand-offs and delivery
              \* attempts are not
  Callers,    \* who calls syncOfflineQueue: the heartbeat, the button, a tab
  Calls,      \* POST /offline/sync requests that may be in progress at once
  Faults      \* what may go wrong: a subset of AllFaults

AllFaults == {"lost",      \* the caller hears nothing: connection, tab closed
              "refusal",   \* the domain call throws
              "database",  \* an insert into offline_sync_logs fails
              "crash",     \* the server process dies
              "indexeddb"} \* a browser transaction fails

ASSUME OpsAssumption ==
  /\ Ops \subseteq Nat
  /\ Guarded \subseteq Ops
  /\ Faults \subseteq AllFaults

VARIABLES
  made,       \* operations recorded on the device
  store,      \* the object store offline_queue of IndexedDB
  fallback,   \* the localStorage copy used when IndexedDB fails
  log,        \* offline_sync_logs.status, "NONE" when there is no row
  effect,     \* commits of the domain call: 0, 1, or 2 for more than one
  call,
  overlapped  \* history: operations that two calls were executing at once

device == <<made, store, fallback>>
syncVars == <<device, log, effect, call, overlapped>>

Free == [pc |-> "free", by |-> "none", waiting |-> FALSE, todo |-> {}, op |-> 0, ack |-> {}]

SyncInit ==
  /\ made = {} /\ store = {} /\ fallback = {}
  /\ log = [o \in Ops |-> "NONE"]
  /\ effect = [o \in Ops |-> 0]
  /\ call = [c \in Calls |-> Free]
  /\ overlapped = {}

-----------------------------------------------------------------------------
(* The device.                                                             *)

\* enqueueOfflineOperation: into IndexedDB, or into localStorage when the
\* transaction throws.
Enqueue(o) ==
  /\ o \notin made
  /\ \A p \in Ops : p < o => p \in made
  /\ made' = made \cup {o}
  /\ \/ store' = store \cup {o} /\ UNCHANGED fallback
     \/ "indexeddb" \in Faults /\ fallback' = fallback \cup {o} /\ UNCHANGED store
  /\ UNCHANGED <<log, effect, call, overlapped>>

\* syncOfflineQueue sends the whole queue.  A caller waits for its own call
\* (isSyncing, or the button's state), and for no other caller's.
StartSync(a, c, batch) ==
  /\ call[c] = Free
  /\ \A d \in Calls : ~(call[d].waiting /\ call[d].by = a)
  /\ batch # {}
  /\ call' = [call EXCEPT ![c] = [Free EXCEPT !.pc = "check", !.by = a, !.waiting = TRUE,
                                             !.todo = batch]]
  /\ UNCHANGED <<device, log, effect, overlapped>>

\* getQueuedOperations reads IndexedDB, or localStorage when that fails.
Sync(a, c) ==
  \/ StartSync(a, c, store)
  \/ "indexeddb" \in Faults /\ StartSync(a, c, fallback)

Done(c) == call[c].pc = "check" /\ call[c].todo = {}

\* The answer arrives: what it acknowledges, or calls a duplicate, is removed
\* from IndexedDB, or from localStorage when that transaction fails.
Receive(c) ==
  /\ Done(c)
  /\ call[c].waiting
  /\ \/ store' = store \ call[c].ack /\ UNCHANGED fallback
     \/ "indexeddb" \in Faults /\ fallback' = fallback \ call[c].ack /\ UNCHANGED store
  /\ call' = [call EXCEPT ![c] = Free]
  /\ UNCHANGED <<made, log, effect, overlapped>>

\* The caller hears no answer; the gateway goes on with the batch.
GiveUp(c) ==
  /\ "lost" \in Faults
  /\ call[c].waiting
  /\ call' = [call EXCEPT ![c].waiting = FALSE]
  /\ UNCHANGED <<device, log, effect, overlapped>>

-----------------------------------------------------------------------------
(* The gateway: processOfflineSyncBatch.                                   *)

CallAt(c, pc) == call[c].pc = pc
CallGoesTo(c, pc) == call' = [call EXCEPT ![c].pc = pc]

\* The current operation is answered, and the loop goes on.
Acknowledge(c, o) ==
  call' = [call EXCEPT ![c].pc = "check", ![c].todo = @ \ {o}, ![c].ack = @ \cup {o}]
Reject(c, o) ==
  call' = [call EXCEPT ![c].pc = "check", ![c].todo = @ \ {o}]

Executing(c, o) == call[c].op = o /\ call[c].pc \in {"domain", "apply"}

NoteOverlap ==
  overlapped' = overlapped \cup
    {o \in Ops : \E c, d \in Calls : c # d /\ Executing(c, o)' /\ Executing(d, o)'}

\* Mutant: an operation found in the log is answered, but not acknowledged.
LookUpRejecting(c) ==
  /\ CallAt(c, "check")
  /\ \E o \in call[c].todo :
       /\ \A p \in call[c].todo : o <= p
       /\ IF log[o] # "NONE" THEN Reject(c, o)
          ELSE call' = [call EXCEPT ![c].pc = "domain", ![c].op = o]
  /\ NoteOverlap
  /\ UNCHANGED <<device, log, effect>>

\* Mutant: the batch is taken in any order.
LookUpUnsorted(c) ==
  /\ CallAt(c, "check")
  /\ \E o \in call[c].todo :
       IF log[o] # "NONE" THEN Acknowledge(c, o)
       ELSE call' = [call EXCEPT ![c].pc = "domain", ![c].op = o]
  /\ NoteOverlap
  /\ UNCHANGED <<device, log, effect>>

\* Any log row for the next operation, a FAILED one too, answers DUPLICATE.
LookUp(c) ==
  /\ CallAt(c, "check")
  /\ \E o \in call[c].todo :
       /\ \A p \in call[c].todo : o <= p
       /\ IF log[o] # "NONE" THEN Acknowledge(c, o)
          ELSE call' = [call EXCEPT ![c].pc = "domain", ![c].op = o]
  /\ NoteOverlap
  /\ UNCHANGED <<device, log, effect>>

\* Mutant: the domain services do not look whether the work is done.
DomainUnguarded(c) == CallAt(c, "domain") /\ CallGoesTo(c, "apply") /\ UNCHANGED <<device, log, effect, overlapped>>

\* Mutant: the operation is logged as processed before it is executed.
DomainAfterRecord(c) ==
  /\ CallAt(c, "domain")
  /\ log' = [log EXCEPT ![call[c].op] = "PROCESSED"]
  /\ CallGoesTo(c, "apply")
  /\ UNCHANGED <<device, effect, overlapped>>

\* The domain service reads its rows before its transaction, and may refuse.
\* Work already done makes a guarded service throw, or answer with what it finds.
DomainCheck(c) ==
  /\ CallAt(c, "domain")
  /\ IF call[c].op \in Guarded /\ effect[call[c].op] > 0
     THEN CallGoesTo(c, "failed") \/ CallGoesTo(c, "record")
     ELSE CallGoesTo(c, "apply") \/ ("refusal" \in Faults /\ CallGoesTo(c, "failed"))
  /\ UNCHANGED <<device, log, effect, overlapped>>

\* Its transaction commits.
Apply(c) ==
  /\ CallAt(c, "apply")
  /\ effect' = [effect EXCEPT ![call[c].op] = IF @ = 0 THEN 1 ELSE 2]
  /\ CallGoesTo(c, "record")
  /\ UNCHANGED <<device, log, overlapped>>

\* INSERT ... 'PROCESSED'; the unique operation id, or the database, may refuse.
RecordProcessed(c) ==
  LET o == call[c].op
  IN /\ CallAt(c, "record")
     /\ \/ /\ log[o] = "NONE"
           /\ log' = [log EXCEPT ![o] = "PROCESSED"]
           /\ Acknowledge(c, o)
        \/ /\ log[o] # "NONE" \/ "database" \in Faults
           /\ CallGoesTo(c, "failed")
           /\ UNCHANGED log
     /\ UNCHANGED <<device, effect, overlapped>>

\* The catch block: INSERT ... 'FAILED', its own errors ignored.
RecordFailed(c) ==
  LET o == call[c].op
  IN /\ CallAt(c, "failed")
     /\ \/ log' = [log EXCEPT ![o] = IF @ = "NONE" THEN "FAILED" ELSE @]
        \/ "database" \in Faults /\ UNCHANGED log
     /\ Reject(c, o)
     /\ UNCHANGED <<device, effect, overlapped>>

\* The last operation is answered and nobody listens any more.
Abandoned(c) ==
  /\ Done(c)
  /\ ~call[c].waiting
  /\ call' = [call EXCEPT ![c] = Free]
  /\ UNCHANGED <<device, log, effect, overlapped>>

\* The server process dies with every call in progress; what committed stays.
Crash ==
  /\ "crash" \in Faults
  /\ \E c \in Calls : call[c] # Free
  /\ call' = [c \in Calls |-> Free]
  /\ UNCHANGED <<device, log, effect, overlapped>>

Gateway(c) ==
  \/ LookUp(c) \/ DomainCheck(c) \/ Apply(c)
  \/ RecordProcessed(c) \/ RecordFailed(c) \/ Abandoned(c)

SyncNext ==
  \/ \E o \in Ops : Enqueue(o)
  \/ \E c \in Calls : (\E a \in Callers : Sync(a, c)) \/ Receive(c) \/ GiveUp(c) \/ Gateway(c)
  \/ Crash

SyncSpec == SyncInit /\ [][SyncNext]_syncVars

\* The heartbeat syncs every 30 s while the queue is not empty, a handler that
\* can run does, and from some time on the device stays connected.
Fairness ==
  /\ \A a \in Callers : WF_syncVars(\E c \in Calls : StartSync(a, c, store))
  /\ \A c \in Calls : WF_syncVars(Gateway(c)) /\ WF_syncVars(Receive(c))
Reconnects == <>[][\A c \in Calls : ~GiveUp(c)]_syncVars
FairSpec == SyncSpec /\ Fairness /\ Reconnects

-----------------------------------------------------------------------------
(* Properties.                                                             *)

Call ==
  [pc : {"free", "check", "domain", "apply", "record", "failed"},
   by : Callers \cup {"none"}, waiting : BOOLEAN, todo : SUBSET Ops, op : Ops \cup {0},
   ack : SUBSET Ops]

\* The queue, the log and the calls hold values of their types.
SyncTypeOK ==
  /\ made \subseteq Ops /\ store \subseteq made /\ fallback \subseteq made
  /\ log \in [Ops -> {"NONE", "PROCESSED", "FAILED"}]
  /\ effect \in [Ops -> 0..2]
  /\ call \in [Calls -> Call] /\ overlapped \subseteq Ops

\* Whatever is lost, fails or crashes, and however many calls overlap, an
\* operation leaves the device only after the gateway has written it down.
LeavesOnlyLogged == \A o \in made \ (store \cup fallback) : log[o] # "NONE"

\* A row PROCESSED is never a promise: the operation has taken effect.
ProcessedTookEffect == \A o \in Ops : log[o] = "PROCESSED" => effect[o] > 0

\* The log and the device tell the truth: what is gone was written down, and what
\* is written down as PROCESSED was done.
LogIsTrue == LeavesOnlyLogged /\ ProcessedTookEffect

\* An operation with a domain guard takes effect at most once, through crashes
\* between its commit and its log row and retries of either, unless two calls were
\* executing it at once: the guard is read before the transaction that it guards.
GuardedOnce == \A o \in Guarded \ overlapped : effect[o] < 2

\* With one call at a time and answers lost, the queue and the gateway do what
\* FieldWork promises: each operation once, in order, and released when done.
Promise == INSTANCE FieldWork WITH device <- store \cup fallback, times <- effect
KeepsPromise == Promise!Spec

\* Every operation recorded is answered and leaves the device.
EveryOperationLeaves == \A o \in Ops : o \in made ~> o \notin store \cup fallback
=============================================================================
