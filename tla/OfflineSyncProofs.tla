-------------------------- MODULE OfflineSyncProofs --------------------------
(***************************************************************************)
(* Proofs about OfflineSync for any operations, callers and calls, and     *)
(* every fault.  The invariant says what a call in progress may rely on:   *)
(* what it has acknowledged is in the log, and the operation it is about   *)
(* to record has taken effect.  A second part proves what the server's     *)
(* side of the guarded operations rests on: Inbound, the hub.              *)
(***************************************************************************)
EXTENDS OfflineSync, Inbound, FiniteSetTheorems, WellFoundedInduction, TLAPS

Acknowledged == \A c \in Calls : \A o \in call[c].ack : log[o] # "NONE"

AtWork ==
  \A c \in Calls : call[c].pc \in {"domain", "apply", "record", "failed"} => call[c].op \in Ops

Performed == \A c \in Calls : call[c].pc = "record" => effect[call[c].op] > 0

IInv ==
  /\ SyncTypeOK /\ AtWork
  /\ Acknowledged /\ Performed
  /\ LeavesOnlyLogged /\ ProcessedTookEffect

-----------------------------------------------------------------------------

LEMMA ReceiveKeepsInv ==
  ASSUME IInv, NEW c \in Calls, Receive(c)
  PROVE  IInv'
<1>0. SyncTypeOK /\ AtWork BY DEF IInv
<1>1. SyncTypeOK'
  BY <1>0, OpsAssumption DEF SyncTypeOK, Call, AtWork, device, Receive, Done, Free
<1>2. AtWork'
  BY <1>0 DEF SyncTypeOK, Call, AtWork, device, Receive, Done, Free
<1>3. Acknowledged'
  BY <1>0 DEF IInv, Acknowledged, SyncTypeOK, Call, AtWork, device, Receive, Done, Free
<1>4. Performed'
  BY <1>0 DEF IInv, Performed, SyncTypeOK, Call, AtWork, device, Receive, Done, Free
<1>5. LeavesOnlyLogged'
  BY <1>0 DEF IInv, LeavesOnlyLogged, Acknowledged, SyncTypeOK, Call, AtWork, device, Receive,
     Done, Free
<1>6. ProcessedTookEffect'
  BY <1>0 DEF IInv, ProcessedTookEffect, Performed, SyncTypeOK, Call, AtWork, device, Receive,
     Done, Free
<1> QED BY <1>1, <1>2, <1>3, <1>4, <1>5, <1>6 DEF IInv

LEMMA GiveUpKeepsInv ==
  ASSUME IInv, NEW c \in Calls, GiveUp(c)
  PROVE  IInv'
<1>0. SyncTypeOK /\ AtWork BY DEF IInv
<1>1. SyncTypeOK'
  BY ZenonT(40), <1>0, OpsAssumption DEF SyncTypeOK, Call, AtWork, device, GiveUp
<1>2. AtWork'
  BY <1>0 DEF SyncTypeOK, Call, AtWork, device, GiveUp
<1>3. Acknowledged'
  BY <1>0 DEF IInv, Acknowledged, SyncTypeOK, Call, AtWork, device, GiveUp
<1>4. Performed'
  BY <1>0 DEF IInv, Performed, SyncTypeOK, Call, AtWork, device, GiveUp
<1>5. LeavesOnlyLogged'
  BY <1>0 DEF IInv, LeavesOnlyLogged, Acknowledged, SyncTypeOK, Call, AtWork, device, GiveUp
<1>6. ProcessedTookEffect'
  BY <1>0 DEF IInv, ProcessedTookEffect, Performed, SyncTypeOK, Call, AtWork, device, GiveUp
<1> QED BY <1>1, <1>2, <1>3, <1>4, <1>5, <1>6 DEF IInv

LEMMA LookUpKeepsInv ==
  ASSUME IInv, NEW c \in Calls, LookUp(c)
  PROVE  IInv'
<1>0. SyncTypeOK /\ AtWork BY DEF IInv
<1>1. SyncTypeOK'
  BY <1>0, OpsAssumption DEF SyncTypeOK, Call, AtWork, device, LookUp, NoteOverlap, Acknowledge, CallAt
<1>2. AtWork'
  BY <1>0 DEF SyncTypeOK, Call, AtWork, device, LookUp, Acknowledge, CallAt
<1>3. Acknowledged'
  BY <1>0 DEF IInv, Acknowledged, SyncTypeOK, Call, AtWork, device, LookUp, Acknowledge, CallAt
<1>4. Performed'
  BY <1>0 DEF IInv, Performed, SyncTypeOK, Call, AtWork, device, LookUp, Acknowledge, CallAt
<1>5. LeavesOnlyLogged'
  BY <1>0 DEF IInv, LeavesOnlyLogged, Acknowledged, SyncTypeOK, Call, AtWork, device, LookUp,
     Acknowledge, CallAt
<1>6. ProcessedTookEffect'
  BY <1>0 DEF IInv, ProcessedTookEffect, Performed, SyncTypeOK, Call, AtWork, device, LookUp,
     Acknowledge, CallAt
<1> QED BY <1>1, <1>2, <1>3, <1>4, <1>5, <1>6 DEF IInv

LEMMA DomainCheckKeepsInv ==
  ASSUME IInv, NEW c \in Calls, DomainCheck(c)
  PROVE  IInv'
<1>0. SyncTypeOK /\ AtWork BY DEF IInv
<1>1. SyncTypeOK'
  BY <1>0, OpsAssumption DEF SyncTypeOK, Call, AtWork, device, DomainCheck, CallAt, CallGoesTo
<1>2. AtWork'
  BY <1>0 DEF SyncTypeOK, Call, AtWork, device, DomainCheck, CallAt, CallGoesTo
<1>3. Acknowledged'
  BY <1>0 DEF IInv, Acknowledged, SyncTypeOK, Call, AtWork, device, DomainCheck, CallAt, CallGoesTo
<1>4. Performed'
  BY <1>0 DEF IInv, Performed, SyncTypeOK, Call, AtWork, device, DomainCheck, CallAt, CallGoesTo
<1>5. LeavesOnlyLogged'
  BY <1>0 DEF IInv, LeavesOnlyLogged, Acknowledged, SyncTypeOK, Call, AtWork, device, DomainCheck,
     CallAt, CallGoesTo
<1>6. ProcessedTookEffect'
  BY <1>0 DEF IInv, ProcessedTookEffect, Performed, SyncTypeOK, Call, AtWork, device, DomainCheck,
     CallAt, CallGoesTo
<1> QED BY <1>1, <1>2, <1>3, <1>4, <1>5, <1>6 DEF IInv

LEMMA ApplyKeepsInv ==
  ASSUME IInv, NEW c \in Calls, Apply(c)
  PROVE  IInv'
<1>0. SyncTypeOK /\ AtWork BY DEF IInv
<1>1. SyncTypeOK'
  BY <1>0, OpsAssumption DEF SyncTypeOK, Call, AtWork, device, Apply, CallAt, CallGoesTo
<1>2. AtWork'
  BY <1>0 DEF SyncTypeOK, Call, AtWork, device, Apply, CallAt, CallGoesTo
<1>3. Acknowledged'
  BY <1>0 DEF IInv, Acknowledged, SyncTypeOK, Call, AtWork, device, Apply, CallAt, CallGoesTo
<1>4. Performed'
  BY <1>0 DEF IInv, Performed, SyncTypeOK, Call, AtWork, device, Apply, CallAt, CallGoesTo
<1>5. LeavesOnlyLogged'
  BY <1>0 DEF IInv, LeavesOnlyLogged, Acknowledged, SyncTypeOK, Call, AtWork, device, Apply,
     CallAt, CallGoesTo
<1>6. ProcessedTookEffect'
  BY <1>0 DEF IInv, ProcessedTookEffect, Performed, SyncTypeOK, Call, AtWork, device, Apply,
     CallAt, CallGoesTo
<1> QED BY <1>1, <1>2, <1>3, <1>4, <1>5, <1>6 DEF IInv

LEMMA RecordProcessedKeepsInv ==
  ASSUME IInv, NEW c \in Calls, RecordProcessed(c)
  PROVE  IInv'
<1>0. SyncTypeOK /\ AtWork BY DEF IInv
<1>1. SyncTypeOK'
  BY <1>0, OpsAssumption DEF SyncTypeOK, Call, AtWork, device, RecordProcessed, Acknowledge,
     CallAt, CallGoesTo
<1>2. AtWork'
  BY <1>0 DEF SyncTypeOK, Call, AtWork, device, RecordProcessed, Acknowledge, CallAt, CallGoesTo
<1>3. Acknowledged'
  BY <1>0 DEF IInv, Acknowledged, SyncTypeOK, Call, AtWork, device, RecordProcessed, Acknowledge,
     CallAt, CallGoesTo
<1>4. Performed'
  BY <1>0 DEF IInv, Performed, SyncTypeOK, Call, AtWork, device, RecordProcessed, Acknowledge,
     CallAt, CallGoesTo
<1>5. LeavesOnlyLogged'
  BY <1>0 DEF IInv, LeavesOnlyLogged, Acknowledged, SyncTypeOK, Call, AtWork, device, RecordProcessed,
     Acknowledge, CallAt, CallGoesTo
<1>6. ProcessedTookEffect'
  BY <1>0 DEF IInv, ProcessedTookEffect, Performed, SyncTypeOK, Call, AtWork, device, RecordProcessed,
     Acknowledge, CallAt, CallGoesTo
<1> QED BY <1>1, <1>2, <1>3, <1>4, <1>5, <1>6 DEF IInv

LEMMA RecordFailedKeepsInv ==
  ASSUME IInv, NEW c \in Calls, RecordFailed(c)
  PROVE  IInv'
<1>0. SyncTypeOK /\ AtWork BY DEF IInv
<1>1. SyncTypeOK'
  <2>1. call[c].op \in Ops
    BY <1>0 DEF AtWork, RecordFailed, CallAt
  <2>2. log' \in [Ops -> {"NONE", "PROCESSED", "FAILED"}]
    BY <1>0, <2>1 DEF SyncTypeOK, RecordFailed
  <2>3. Reject(c, call[c].op)
    BY DEF RecordFailed
  <2>4. call' \in [Calls -> Call]
    <3>1. call[c] \in Call BY <1>0 DEF SyncTypeOK
    <3>2. call'[c] = [call[c] EXCEPT !.pc = "check", !.todo = @ \ {call[c].op}]
      BY <1>0, <2>3 DEF SyncTypeOK, Reject
    <3>3. call'[c] \in Call BY <3>1, <3>2 DEF Call
    <3>4. \A d \in Calls \ {c} : call'[d] = call[d] BY <1>0, <2>3 DEF SyncTypeOK, Reject
    <3> QED BY <1>0, <2>3, <3>3, <3>4 DEF SyncTypeOK, Reject
  <2> QED BY <1>0, <2>2, <2>4 DEF SyncTypeOK, RecordFailed, device
<1>2. AtWork'
  BY <1>0 DEF SyncTypeOK, Call, AtWork, device, RecordFailed, Reject, CallAt
<1>3. Acknowledged'
  BY <1>0 DEF IInv, Acknowledged, SyncTypeOK, Call, AtWork, device, RecordFailed, Reject, CallAt
<1>4. Performed'
  BY <1>0 DEF IInv, Performed, SyncTypeOK, Call, AtWork, device, RecordFailed, Reject, CallAt
<1>5. LeavesOnlyLogged'
  BY <1>0 DEF IInv, LeavesOnlyLogged, Acknowledged, SyncTypeOK, Call, AtWork, device, RecordFailed,
     Reject,
     CallAt
<1>6. ProcessedTookEffect'
  BY <1>0 DEF IInv, ProcessedTookEffect, Performed, SyncTypeOK, Call, AtWork, device, RecordFailed,
     Reject,
     CallAt
<1> QED BY <1>1, <1>2, <1>3, <1>4, <1>5, <1>6 DEF IInv

LEMMA AbandonedKeepsInv ==
  ASSUME IInv, NEW c \in Calls, Abandoned(c)
  PROVE  IInv'
<1>0. SyncTypeOK /\ AtWork BY DEF IInv
<1>1. SyncTypeOK'
  BY <1>0, OpsAssumption DEF SyncTypeOK, Call, AtWork, device, Abandoned, Done, Free
<1>2. AtWork'
  BY <1>0 DEF SyncTypeOK, Call, AtWork, device, Abandoned, Done, Free
<1>3. Acknowledged'
  BY <1>0 DEF IInv, Acknowledged, SyncTypeOK, Call, AtWork, device, Abandoned, Done, Free
<1>4. Performed'
  BY <1>0 DEF IInv, Performed, SyncTypeOK, Call, AtWork, device, Abandoned, Done, Free
<1>5. LeavesOnlyLogged'
  BY <1>0 DEF IInv, LeavesOnlyLogged, Acknowledged, SyncTypeOK, Call, AtWork, device, Abandoned,
     Done, Free
<1>6. ProcessedTookEffect'
  BY <1>0 DEF IInv, ProcessedTookEffect, Performed, SyncTypeOK, Call, AtWork, device, Abandoned,
     Done, Free
<1> QED BY <1>1, <1>2, <1>3, <1>4, <1>5, <1>6 DEF IInv

LEMMA CrashKeepsInv ==
  ASSUME IInv, Crash
  PROVE  IInv'
<1>0. SyncTypeOK /\ AtWork BY DEF IInv
<1>1. SyncTypeOK'
  BY <1>0, OpsAssumption DEF SyncTypeOK, Call, AtWork, device, Crash, Free
<1>2. AtWork'
  BY <1>0 DEF SyncTypeOK, Call, AtWork, device, Crash, Free
<1>3. Acknowledged'
  BY <1>0 DEF IInv, Acknowledged, SyncTypeOK, Call, AtWork, device, Crash, Free
<1>4. Performed'
  BY <1>0 DEF IInv, Performed, SyncTypeOK, Call, AtWork, device, Crash, Free
<1>5. LeavesOnlyLogged'
  BY <1>0 DEF IInv, LeavesOnlyLogged, Acknowledged, SyncTypeOK, Call, AtWork, device, Crash, Free
<1>6. ProcessedTookEffect'
  BY <1>0 DEF IInv, ProcessedTookEffect, Performed, SyncTypeOK, Call, AtWork, device, Crash, Free
<1> QED BY <1>1, <1>2, <1>3, <1>4, <1>5, <1>6 DEF IInv

LEMMA EnqueueKeepsInv ==
  ASSUME IInv, NEW o \in Ops, Enqueue(o)
  PROVE  IInv'
<1>0. SyncTypeOK /\ AtWork BY DEF IInv
<1>1. SyncTypeOK'
  BY <1>0, OpsAssumption DEF SyncTypeOK, Call, AtWork, device, Enqueue
<1>2. AtWork'
  BY <1>0 DEF SyncTypeOK, Call, AtWork, device, Enqueue
<1>3. Acknowledged'
  BY <1>0 DEF IInv, Acknowledged, SyncTypeOK, Call, AtWork, device, Enqueue
<1>4. Performed'
  BY <1>0 DEF IInv, Performed, SyncTypeOK, Call, AtWork, device, Enqueue
<1>5. LeavesOnlyLogged'
  BY <1>0 DEF IInv, LeavesOnlyLogged, Acknowledged, SyncTypeOK, Call, AtWork, device, Enqueue
<1>6. ProcessedTookEffect'
  BY <1>0 DEF IInv, ProcessedTookEffect, Performed, SyncTypeOK, Call, AtWork, device, Enqueue
<1> QED BY <1>1, <1>2, <1>3, <1>4, <1>5, <1>6 DEF IInv

LEMMA StartSyncKeepsInv ==
  ASSUME IInv, NEW a \in Callers, NEW c \in Calls, NEW batch \in {store, fallback}, StartSync(a, c, batch)
  PROVE  IInv'
<1>0. SyncTypeOK /\ AtWork BY DEF IInv
<1>1. SyncTypeOK'
  BY <1>0, OpsAssumption DEF SyncTypeOK, Call, AtWork, device, StartSync, Free
<1>2. AtWork'
  BY <1>0 DEF SyncTypeOK, Call, AtWork, device, StartSync, Free
<1>3. Acknowledged'
  BY <1>0 DEF IInv, Acknowledged, SyncTypeOK, Call, AtWork, device, StartSync, Free
<1>4. Performed'
  BY <1>0 DEF IInv, Performed, SyncTypeOK, Call, AtWork, device, StartSync, Free
<1>5. LeavesOnlyLogged'
  BY <1>0 DEF IInv, LeavesOnlyLogged, Acknowledged, SyncTypeOK, Call, AtWork, device, StartSync, Free
<1>6. ProcessedTookEffect'
  BY <1>0 DEF IInv, ProcessedTookEffect, Performed, SyncTypeOK, Call, AtWork, device, StartSync, Free
<1> QED BY <1>1, <1>2, <1>3, <1>4, <1>5, <1>6 DEF IInv

-----------------------------------------------------------------------------

\* Types hold and no call has acknowledged what the log does not have.
THEOREM Invariance == SyncSpec => []IInv
<1>1. SyncInit => IInv
  BY OpsAssumption DEF SyncInit, Free, IInv, SyncTypeOK, Call, AtWork, Acknowledged, Performed,
                       LeavesOnlyLogged, ProcessedTookEffect
<1>2. ASSUME IInv, [SyncNext]_syncVars PROVE IInv'
  <2>1. ASSUME NEW o \in Ops, Enqueue(o) PROVE IInv'
    BY <1>2, <2>1, EnqueueKeepsInv
  <2>2. ASSUME NEW c \in Calls, NEW a \in Callers, Sync(a, c) PROVE IInv'
    BY <1>2, <2>2, StartSyncKeepsInv DEF Sync
  <2>3. ASSUME NEW c \in Calls, Receive(c) \/ GiveUp(c) PROVE IInv'
    BY <1>2, <2>3, ReceiveKeepsInv, GiveUpKeepsInv
  <2>4. ASSUME NEW c \in Calls, Gateway(c) PROVE IInv'
    BY <1>2, <2>4, LookUpKeepsInv, DomainCheckKeepsInv, ApplyKeepsInv,
       RecordProcessedKeepsInv, RecordFailedKeepsInv, AbandonedKeepsInv DEF Gateway
  <2>5. ASSUME Crash PROVE IInv'
    BY <1>2, <2>5, CrashKeepsInv
  <2>6. ASSUME UNCHANGED syncVars PROVE IInv'
    BY <1>2, <2>6 DEF syncVars, device, IInv, SyncTypeOK, AtWork, Acknowledged, Performed,
                      LeavesOnlyLogged, ProcessedTookEffect
  <2> QED BY <1>2, <2>1, <2>2, <2>3, <2>4, <2>5, <2>6 DEF SyncNext
<1> QED BY <1>1, <1>2, PTL DEF SyncSpec

\* Every variable of the offline gateway keeps its type.
THEOREM TypeCorrect == SyncSpec => []SyncTypeOK
<1>1. IInv => SyncTypeOK BY DEF IInv
<1> QED BY <1>1, Invariance, PTL

\* An operation leaves the device only after the gateway has written it down,
\* whatever is lost, fails or crashes.
THEOREM NothingLeavesUnlogged == SyncSpec => []LeavesOnlyLogged
<1>1. IInv => LeavesOnlyLogged BY DEF IInv
<1> QED BY <1>1, Invariance, PTL

\* A row PROCESSED stands for an operation that took effect.
THEOREM ProcessedIsDone == SyncSpec => []ProcessedTookEffect
<1>1. IInv => ProcessedTookEffect BY DEF IInv
<1> QED BY <1>1, Invariance, PTL

-----------------------------------------------------------------------------
(* Between the check of a guarded operation and its commit nobody else     *)
(* performs it, unless two calls were executing it at once.                *)

Working(pc) == pc \in {"domain", "apply"}

OverlapNoted ==
  \A c, d \in Calls :
    c # d /\ Working(call[c].pc) /\ Working(call[d].pc) /\ call[c].op = call[d].op
      => call[c].op \in overlapped

CheckStands ==
  \A c \in Calls :
    call[c].pc = "apply" /\ call[c].op \in Guarded \ overlapped => effect[call[c].op] = 0

GuardInv == OverlapNoted /\ CheckStands /\ GuardedOnce

\* No call takes up an operation.
Onward ==
  \A c \in Calls : Working(call'[c].pc) => Working(call[c].pc) /\ call'[c].op = call[c].op

\* A call that goes to its transaction has checked.
Checked ==
  \A c \in Calls : call'[c].pc = "apply" =>
    \/ call[c].pc = "apply" /\ call'[c].op = call[c].op
    \/ call'[c].op \in Guarded => effect[call'[c].op] = 0

LEMMA GuardFrame ==
  ASSUME IInv, GuardInv, effect' = effect, Checked, overlapped \subseteq overlapped', OverlapNoted'
  PROVE  GuardInv'
<1>1. GuardedOnce' BY DEF GuardInv, GuardedOnce
<1>2. CheckStands'
  <2>1. SUFFICES ASSUME NEW c \in Calls, call'[c].pc = "apply", call'[c].op \in Guarded \ overlapped'
                 PROVE  effect[call'[c].op] = 0
    BY DEF CheckStands
  <2> QED BY <2>1 DEF Checked, GuardInv, CheckStands
<1> QED BY <1>1, <1>2 DEF GuardInv

LEMMA OverlapFrame ==
  ASSUME GuardInv, Onward, overlapped' = overlapped
  PROVE  OverlapNoted'
BY DEF GuardInv, OverlapNoted, Onward

LEMMA ApplyKeepsGuard ==
  ASSUME IInv, GuardInv, NEW c \in Calls, Apply(c)
  PROVE  GuardInv'
<1> DEFINE o == call[c].op
<1>0. /\ call \in [Calls -> Call] /\ effect \in [Ops -> 0..2] /\ o \in Ops /\ call[c].pc = "apply"
      /\ Guarded \subseteq Ops
  BY OpsAssumption DEF IInv, SyncTypeOK, AtWork, Apply, CallAt
<1>1. /\ effect' = [effect EXCEPT ![o] = IF @ = 0 THEN 1 ELSE 2]
      /\ call' = [call EXCEPT ![c].pc = "record"] /\ overlapped' = overlapped
  BY DEF Apply, CallGoesTo
<1>2. call'[c].pc = "record" /\ \A d \in Calls \ {c} : call'[d] = call[d] BY <1>0, <1>1 DEF Call
<1>3. Onward BY <1>2 DEF Onward, Working
<1>4. OverlapNoted' BY <1>1, <1>3, OverlapFrame
<1>5. \A p \in Ops \ {o} : effect'[p] = effect[p] BY <1>0, <1>1
<1>6. GuardedOnce'
  <2>1. o \in Guarded \ overlapped => effect'[o] = 1 BY <1>0, <1>1 DEF GuardInv, CheckStands
  <2> QED BY <1>0, <1>1, <1>5, <2>1 DEF GuardInv, GuardedOnce
<1>7. CheckStands'
  <2>1. SUFFICES ASSUME NEW d \in Calls, call'[d].pc = "apply", call'[d].op \in Guarded \ overlapped'
                 PROVE  effect'[call'[d].op] = 0
    BY DEF CheckStands
  <2>2. d # c /\ call'[d] = call[d] BY <1>2, <2>1
  <2>3. call[d].op # o BY <1>0, <1>1, <2>1, <2>2 DEF GuardInv, OverlapNoted, Working
  <2>4. effect[call[d].op] = 0 BY <1>1, <2>1, <2>2 DEF GuardInv, CheckStands
  <2> QED BY <1>0, <1>5, <2>1, <2>2, <2>3, <2>4
<1> QED BY <1>4, <1>6, <1>7 DEF GuardInv

LEMMA LookUpKeepsGuard ==
  ASSUME IInv, GuardInv, NEW c \in Calls, LookUp(c)
  PROVE  GuardInv'
<1>0. call \in [Calls -> Call] BY DEF IInv, SyncTypeOK
<1>1. effect' = effect /\ overlapped \subseteq overlapped' BY DEF LookUp, NoteOverlap
<1>2. /\ \A d \in Calls \ {c} : call'[d] = call[d]
      /\ call'[c].pc \in {"check", "domain"} /\ (call'[c].pc = "domain" => call'[c].op \in Ops)
  BY <1>0 DEF LookUp, Acknowledge, Call
<1>3. Checked BY <1>2 DEF Checked
<1>4. OverlapNoted'
  <2>1. SUFFICES ASSUME NEW d \in Calls, NEW e \in Calls, d # e, Working(call'[d].pc), Working(call'[e].pc),
                        call'[d].op = call'[e].op
                 PROVE  call'[d].op \in overlapped'
    BY DEF OverlapNoted
  <2>2. call'[d].op \in Ops BY <1>2, <2>1 DEF IInv, AtWork, Working
  <2> QED BY <2>1, <2>2 DEF LookUp, NoteOverlap, Executing, Working
<1> QED BY <1>1, <1>3, <1>4, GuardFrame

\* The other steps of the gateway and of the device.
LEMMA OthersKeepGuard ==
  ASSUME IInv, GuardInv, effect' = effect, overlapped' = overlapped, NEW c \in Calls,
         \A d \in Calls \ {c} : call'[d] = call[d],
         \/ ~Working(call'[c].pc)
         \/ call'[c].pc = call[c].pc /\ call'[c].op = call[c].op
         \/ /\ call'[c].op = call[c].op /\ call[c].pc = "domain" /\ call'[c].pc = "apply"
            /\ call[c].op \in Guarded => effect[call[c].op] = 0
  PROVE  GuardInv'
<1>1. Onward BY DEF Onward, Working
<1>2. Checked BY DEF Checked, Working
<1>3. OverlapNoted' BY <1>1, OverlapFrame
<1> QED BY <1>2, <1>3, GuardFrame

LEMMA GuardStep ==
  ASSUME IInv, GuardInv, [SyncNext]_syncVars
  PROVE  GuardInv'
<1>0. call \in [Calls -> Call] /\ Guarded \subseteq Ops /\ effect \in [Ops -> 0..2]
  BY OpsAssumption DEF IInv, SyncTypeOK
<1>1. ASSUME UNCHANGED <<effect, call, overlapped>> PROVE GuardInv'
  BY <1>1 DEF GuardInv, OverlapNoted, CheckStands, GuardedOnce
<1>2. ASSUME NEW c \in Calls, DomainCheck(c) PROVE GuardInv'
  <2>1. effect' = effect /\ overlapped' = overlapped /\ call[c].pc = "domain" /\ call[c].op \in Ops
    BY <1>2 DEF DomainCheck, CallAt, IInv, AtWork
  <2>2. \E p \in {"failed", "record", "apply"} :
          /\ call' = [call EXCEPT ![c].pc = p]
          /\ p = "apply" => (call[c].op \in Guarded => ~(effect[call[c].op] > 0))
    BY <1>2 DEF DomainCheck, CallGoesTo
  <2>3. PICK p \in {"failed", "record", "apply"} :
          /\ call' = [call EXCEPT ![c].pc = p]
          /\ p = "apply" => (call[c].op \in Guarded => ~(effect[call[c].op] > 0))
    BY <2>2
  <2>4. call'[c].pc = p /\ call'[c].op = call[c].op /\ \A d \in Calls \ {c} : call'[d] = call[d]
    BY <1>0, <2>3 DEF Call
  <2>5. p = "apply" => (call[c].op \in Guarded => effect[call[c].op] = 0) BY <1>0, <2>1, <2>3
  <2> QED BY <2>1, <2>3, <2>4, <2>5, OthersKeepGuard DEF Working
<1>3. ASSUME NEW c \in Calls, RecordProcessed(c) PROVE GuardInv'
  <2>1. effect' = effect /\ overlapped' = overlapped BY <1>3 DEF RecordProcessed
  <2>2. call'[c].pc \in {"check", "failed"} /\ \A d \in Calls \ {c} : call'[d] = call[d]
    BY <1>0, <1>3 DEF RecordProcessed, Acknowledge, CallGoesTo, Call
  <2> QED BY <2>1, <2>2, OthersKeepGuard DEF Working
<1>4. ASSUME NEW c \in Calls, RecordFailed(c) PROVE GuardInv'
  <2>1. effect' = effect /\ overlapped' = overlapped /\ Reject(c, call[c].op) BY <1>4 DEF RecordFailed
  <2>2. call'[c].pc = "check" /\ \A d \in Calls \ {c} : call'[d] = call[d]
    BY <1>0, <2>1 DEF Reject, Call
  <2> QED BY <2>1, <2>2, OthersKeepGuard DEF Working
<1>5. ASSUME NEW c \in Calls, Receive(c) \/ Abandoned(c) \/ \E a \in Callers : Sync(a, c) PROVE GuardInv'
  <2>1. effect' = effect /\ overlapped' = overlapped
    BY <1>5 DEF Receive, Abandoned, Sync, StartSync, device
  <2>2. call'[c].pc \in {"free", "check"} /\ \A d \in Calls \ {c} : call'[d] = call[d]
    <3>1. CASE Receive(c) \/ Abandoned(c) BY <1>0, <3>1 DEF Receive, Abandoned, Free
    <3>2. ASSUME NEW a \in Callers, NEW batch, StartSync(a, c, batch)
          PROVE  call'[c].pc \in {"free", "check"} /\ \A d \in Calls \ {c} : call'[d] = call[d]
      <4> DEFINE x == [Free EXCEPT !.pc = "check", !.by = a, !.waiting = TRUE, !.todo = batch]
      <4>1. x.pc = "check" BY DEF Free
      <4>2. call' = [call EXCEPT ![c] = x] BY <3>2 DEF StartSync
      <4> HIDE DEF x
      <4> QED BY <1>0, <4>1, <4>2
    <3> QED BY <1>5, <3>1, <3>2 DEF Sync
  <2> QED BY SMTT(40), <2>1, <2>2, OthersKeepGuard DEF Working
<1>6. ASSUME NEW c \in Calls, GiveUp(c) PROVE GuardInv'
  <2>1. effect' = effect /\ overlapped' = overlapped /\ call' = [call EXCEPT ![c].waiting = FALSE]
    BY <1>6 DEF GiveUp
  <2>2. call'[c].pc = call[c].pc /\ call'[c].op = call[c].op /\ \A d \in Calls \ {c} : call'[d] = call[d]
    BY <1>0, <2>1 DEF Call
  <2> QED BY <2>1, <2>2, OthersKeepGuard
<1>7. ASSUME Crash PROVE GuardInv'
  <2>1. effect' = effect /\ overlapped' = overlapped /\ call' = [c \in Calls |-> Free] BY <1>7 DEF Crash
  <2>2. Onward /\ Checked BY <2>1 DEF Onward, Checked, Working, Free
  <2> QED BY <2>1, <2>2, OverlapFrame, GuardFrame
<1>8. ASSUME NEW o \in Ops, Enqueue(o) PROVE GuardInv'
  BY <1>1, <1>8 DEF Enqueue
<1>9. CASE UNCHANGED syncVars BY <1>1, <1>9 DEF syncVars
<1> QED BY <1>2, <1>3, <1>4, <1>5, <1>6, <1>7, <1>8, <1>9, ApplyKeepsGuard, LookUpKeepsGuard
     DEF SyncNext, Gateway

\* A guarded operation takes effect at most once, through crashes between its
\* commit and its log row, as long as two calls do not execute it at once.
THEOREM GuardedAtMostOnce == SyncSpec => []GuardedOnce
<1>1. SyncInit => GuardInv
  BY OpsAssumption DEF SyncInit, Free, GuardInv, OverlapNoted, CheckStands, GuardedOnce, Working
<1>2. IInv /\ GuardInv /\ [SyncNext]_syncVars => GuardInv'
  BY GuardStep
<1>3. GuardInv => GuardedOnce BY DEF GuardInv
<1> QED BY <1>1, <1>2, <1>3, Invariance, PTL DEF SyncSpec

\* Under every fault the log and the device tell the truth.
THEOREM LogTellsTruth == SyncSpec => []LogIsTrue
  BY NothingLeavesUnlogged, ProcessedIsDone, PTL DEF LogIsTrue

-----------------------------------------------------------------------------
(* One call at a time, answers lost.  If no domain service does the same   *)
(* work twice, the server may also die and the log refuse a row.           *)

OneCall == \A c, d \in Calls : c = d

Mild ==
  /\ Faults \subseteq {"lost", "crash", "database"}
  /\ Faults \subseteq {"lost"} \/ Guarded = Ops

\* Operations are recorded in their order, and none leaves the queue undone.
InOrder == \A o \in made, p \in Ops : p < o => p \in made
Kept == fallback = {} /\ \A o \in made : o \in store \/ effect[o] > 0

\* Each was done at most once, when it was recorded, and before it was logged.
DoneOnce == \A o \in Ops : effect[o] < 2 /\ (effect[o] > 0 => o \in made)
LoggedIsDone == \A o \in Ops : log[o] # "NONE" => effect[o] > 0

\* Work that is not logged yet is about to be, or would not be done again.
DoneIsLogged ==
  \A o \in Ops : effect[o] > 0 /\ log[o] = "NONE" =>
    (\E c \in Calls : call[c].pc = "record" /\ call[c].op = o) \/ Guarded = Ops

\* A call works on the first of the operations it has left, which is not done.
Batch(x) ==
  /\ x.pc = "free" => x.todo = {}
  /\ x.pc # "free" =>
       /\ x.todo \subseteq store
       /\ \A p \in store \ x.todo : effect[p] > 0 \/ \A o \in x.todo : o < p
  /\ x.pc \in {"domain", "apply", "record", "failed"} =>
       x.op \in x.todo /\ log[x.op] = "NONE" /\ \A p \in x.todo : x.op <= p
  /\ x.pc = "apply" => effect[x.op] = 0
  /\ x.pc = "failed" => effect[x.op] > 0

PromiseInv ==
  /\ InOrder /\ Kept /\ DoneOnce /\ LoggedIsDone /\ DoneIsLogged
  /\ \A c \in Calls : Batch(call[c])

\* What the call c becomes.
Becomes(c, x) == call' = [call EXCEPT ![c] = x]

\* Nothing is recorded or released, done or logged: only the call goes on.
LEMMA CallGoesOn ==
  ASSUME OneCall, IInv, PromiseInv, NEW c \in Calls, NEW x, Becomes(c, x),
         UNCHANGED <<device, log, effect>>, Batch(x),
         call[c].pc = "record" => (x.pc = "record" /\ x.op = call[c].op) \/ Guarded = Ops
  PROVE  PromiseInv'
<1>1. \A d \in Calls : call'[d] = x BY DEF OneCall, Becomes, IInv, SyncTypeOK
<1>2. InOrder' /\ Kept' /\ DoneOnce' /\ LoggedIsDone'
  BY DEF PromiseInv, InOrder, Kept, DoneOnce, LoggedIsDone, device
<1>3. DoneIsLogged'
  <2>1. SUFFICES ASSUME NEW o \in Ops, effect[o] > 0, log[o] = "NONE", Guarded # Ops
                 PROVE  \E d \in Calls : call'[d].pc = "record" /\ call'[d].op = o
    BY DEF DoneIsLogged
  <2>2. PICK d \in Calls : call[d].pc = "record" /\ call[d].op = o
    BY <2>1 DEF PromiseInv, DoneIsLogged
  <2> QED BY <1>1, <2>1, <2>2 DEF OneCall
<1>4. \A d \in Calls : Batch(call[d])' BY <1>1 DEF Batch, device
<1> QED BY <1>2, <1>3, <1>4 DEF PromiseInv

LEMMA EnqueueKeepsPromise ==
  ASSUME OneCall, Mild, IInv, PromiseInv, NEW o \in Ops, Enqueue(o)
  PROVE  PromiseInv' /\ Promise!Next
<1>1. /\ o \notin made /\ made' = made \cup {o} /\ store' = store \cup {o} /\ fallback' = fallback
      /\ \A p \in Ops : p < o => p \in made
      /\ UNCHANGED <<log, effect, call>>
  BY DEF Enqueue, Mild
<1>2. made \subseteq Ops /\ store \subseteq made /\ Ops \subseteq Nat /\ effect \in [Ops -> 0..2] /\ fallback = {}
  BY OpsAssumption DEF IInv, SyncTypeOK, PromiseInv, Kept
<1>3. InOrder' /\ Kept' /\ DoneOnce' /\ LoggedIsDone' /\ DoneIsLogged'
  BY <1>1, <1>2 DEF PromiseInv, InOrder, Kept, DoneOnce, LoggedIsDone, DoneIsLogged
<1>4. ASSUME NEW c \in Calls PROVE Batch(call[c])'
  <2>1. Batch(call[c]) BY DEF PromiseInv
  <2>2. call[c].pc # "free" => \A p \in call[c].todo : p < o
    <3>1. \A p \in made : p < o
      <4>1. SUFFICES ASSUME NEW p \in made, o < p PROVE FALSE BY <1>1, <1>2
      <4> QED BY <1>1, <4>1 DEF PromiseInv, InOrder
    <3> QED BY <1>2, <2>1, <3>1 DEF Batch
  <2> QED BY <1>1, <2>1, <2>2 DEF Batch
<1>5. ~Promise!Recorded(o) BY <1>1, <1>2 DEF PromiseInv, DoneOnce, Promise!Recorded
<1>6. Promise!Record(o) BY <1>1, <1>2, <1>5 DEF Promise!Record
<1> QED BY <1>3, <1>4, <1>6 DEF PromiseInv, Promise!Next

LEMMA SyncKeepsPromise ==
  ASSUME OneCall, Mild, IInv, PromiseInv, NEW a \in Callers, NEW c \in Calls, Sync(a, c)
  PROVE  PromiseInv' /\ UNCHANGED <<device, effect>>
<1> DEFINE x == [Free EXCEPT !.pc = "check", !.by = a, !.waiting = TRUE, !.todo = store]
<1>1. StartSync(a, c, store) BY DEF Sync, Mild
<1>2. Becomes(c, x) /\ UNCHANGED <<device, log, effect>> /\ call[c].pc # "record"
  BY <1>1 DEF StartSync, Becomes, Free
<1>3. Batch(x) BY DEF Batch, Free
<1> HIDE DEF x
<1> QED BY <1>2, <1>3, CallGoesOn

LEMMA ReceiveKeepsPromise ==
  ASSUME OneCall, Mild, IInv, PromiseInv, NEW c \in Calls, Receive(c)
  PROVE  PromiseInv' /\ Promise!Next
<1>1. /\ store' = store \ call[c].ack /\ call' = [call EXCEPT ![c] = Free]
      /\ UNCHANGED <<made, fallback, log, effect>>
  BY DEF Receive, Mild
<1>2. \A o \in call[c].ack : o \in Ops /\ log[o] # "NONE" /\ effect[o] = 1
  BY DEF IInv, SyncTypeOK, Call, Acknowledged, PromiseInv, LoggedIsDone, DoneOnce
<1>3. \A d \in Calls : call'[d] = Free BY <1>1 DEF OneCall, IInv, SyncTypeOK
<1>4. InOrder' /\ Kept' /\ DoneOnce' /\ LoggedIsDone'
  BY <1>1, <1>2 DEF PromiseInv, InOrder, Kept, DoneOnce, LoggedIsDone
<1>5. DoneIsLogged'
  <2>1. \A d \in Calls : call[d].pc # "record" BY DEF Receive, Done, OneCall
  <2> QED BY <1>1, <2>1 DEF PromiseInv, DoneIsLogged
<1>6. \A d \in Calls : Batch(call[d])' BY <1>3 DEF Batch, Free
<1>7. Promise!Release(call[c].ack \cap store)
  BY <1>1, <1>2 DEF Promise!Release, PromiseInv, Kept
<1>8. call[c].ack \cap store \in SUBSET (store \cup fallback) OBVIOUS
<1> QED BY <1>4, <1>5, <1>6, <1>7, <1>8 DEF PromiseInv, Promise!Next

LEMMA ApplyKeepsPromise ==
  ASSUME OneCall, Mild, IInv, PromiseInv, NEW c \in Calls, Apply(c)
  PROVE  PromiseInv' /\ Promise!Next
<1> DEFINE o == call[c].op
<1>1. call[c].pc = "apply" /\ Batch(call[c]) BY DEF Apply, CallAt, PromiseInv
<1>2. o \in call[c].todo /\ o \in store /\ log[o] = "NONE" /\ effect[o] = 0
  BY <1>1 DEF Batch
<1>3. o \in made /\ o \in Ops /\ made \subseteq Ops /\ Ops \subseteq Nat /\ effect \in [Ops -> 0..2]
  BY <1>2, OpsAssumption DEF IInv, SyncTypeOK
<1>4. effect' = [effect EXCEPT ![o] = 1] /\ UNCHANGED <<device, log>>
  BY <1>2, <1>3 DEF Apply
<1>5. \A d \in Calls : d = c /\ call'[d] = [call[c] EXCEPT !.pc = "record"]
  BY DEF Apply, CallGoesTo, OneCall, IInv, SyncTypeOK
<1>6. /\ call'[c].pc = "record" /\ call'[c].op = o /\ call'[c].todo = call[c].todo
  BY <1>5 DEF IInv, SyncTypeOK, Call
<1>7. effect'[o] = 1 /\ \A p \in Ops \ {o} : effect'[p] = effect[p] BY <1>3, <1>4
<1>8. InOrder' /\ Kept' /\ DoneOnce' /\ LoggedIsDone'
  BY <1>3, <1>4, <1>7 DEF PromiseInv, InOrder, Kept, DoneOnce, LoggedIsDone, device
<1>9. DoneIsLogged'
  <2>1. \A d \in Calls : call[d].pc # "record" BY <1>1, <1>5
  <2> QED BY <1>4, <1>6, <1>7, <2>1 DEF PromiseInv, DoneIsLogged
<1>10. Batch(call[c])'
  <2>1. store' = store /\ log' = log /\ store \subseteq Ops BY <1>3, <1>4 DEF device, IInv, SyncTypeOK
  <2> QED BY <1>1, <1>2, <1>6, <1>7, <2>1 DEF Batch
<1>11. Promise!TakeEffect(o)
  <2>1. ASSUME NEW p \in Ops, p < o PROVE effect[p] = 1
    <3>1. p \in made BY <1>3, <2>1 DEF PromiseInv, InOrder
    <3>4. p \in Nat /\ o \in Nat BY <1>3
    <3>5. \A b \in call[c].todo : o <= b BY <1>1 DEF Batch
    <3>2. p \notin call[c].todo BY <2>1, <3>4, <3>5
    <3>3. effect[p] > 0
      <4>1. CASE p \notin store BY <3>1, <4>1 DEF PromiseInv, Kept
      <4>2. CASE p \in store
        <5>1. effect[p] > 0 \/ o < p BY <1>1, <1>2, <3>2, <4>2 DEF Batch
        <5> QED BY <2>1, <3>4, <5>1
      <4> QED BY <4>1, <4>2
    <3> QED BY <1>3, <3>3 DEF PromiseInv, DoneOnce
  <2>2. store' \cup fallback' = store \cup fallback BY <1>4 DEF device
  <2> QED BY <1>2, <1>4, <2>1, <2>2 DEF Promise!TakeEffect
<1> QED BY <1>3, <1>5, <1>8, <1>9, <1>10, <1>11 DEF PromiseInv, Promise!Next

LEMMA LookUpKeepsPromise ==
  ASSUME OneCall, IInv, PromiseInv, NEW c \in Calls, LookUp(c)
  PROVE  PromiseInv' /\ UNCHANGED <<device, effect>>
<1>1. PICK o \in call[c].todo :
        /\ \A p \in call[c].todo : o <= p
        /\ IF log[o] # "NONE" THEN Acknowledge(c, o)
           ELSE call' = [call EXCEPT ![c].pc = "domain", ![c].op = o]
  BY DEF LookUp
<1>2. call[c].pc = "check" /\ UNCHANGED <<device, log, effect>> BY DEF LookUp, CallAt
<1>3. call \in [Calls -> Call] /\ Batch(call[c]) BY DEF IInv, SyncTypeOK, PromiseInv
<1>4. o \in store /\ o \in Ops BY <1>2, <1>3, <1>1 DEF Batch, Call
<1>5. CASE log[o] # "NONE"
  <2> DEFINE x == [call[c] EXCEPT !.pc = "check", !.todo = @ \ {o}, !.ack = @ \cup {o}]
  <2>1. Becomes(c, x) BY <1>1, <1>3, <1>5 DEF Acknowledge, Becomes
  <2>2. x.pc = "check" /\ x.todo = call[c].todo \ {o} BY <1>3 DEF Call
  <2>3. effect[o] > 0 BY <1>4, <1>5 DEF PromiseInv, LoggedIsDone
  <2> HIDE DEF x
  <2>4. Batch(x) BY <1>2, <1>3, <2>2, <2>3 DEF Batch
  <2> QED BY <1>2, <2>1, <2>4, CallGoesOn
<1>6. CASE log[o] = "NONE"
  <2> DEFINE x == [call[c] EXCEPT !.pc = "domain", !.op = o]
  <2>1. Becomes(c, x) BY <1>1, <1>3, <1>6 DEF Becomes
  <2>2. x.pc = "domain" /\ x.op = o /\ x.todo = call[c].todo BY <1>3 DEF Call
  <2> HIDE DEF x
  <2>4. Batch(x) BY <1>1, <1>2, <1>3, <1>6, <2>2 DEF Batch
  <2> QED BY <1>2, <2>1, <2>4, CallGoesOn
<1> QED BY <1>5, <1>6

\* The call goes to another statement on the same operation.
LEMMA GotoKeepsPromise ==
  ASSUME OneCall, IInv, PromiseInv, NEW c \in Calls, NEW pc \in {"apply", "record", "failed"}, CallGoesTo(c, pc),
         UNCHANGED <<device, log, effect>>, call[c].pc \in {"domain", "record"},
         pc = "apply" => effect[call[c].op] = 0, pc = "failed" => effect[call[c].op] > 0,
         call[c].pc = "record" => Guarded = Ops
  PROVE  PromiseInv'
<1> DEFINE x == [call[c] EXCEPT !.pc = pc]
<1>1. call \in [Calls -> Call] /\ Batch(call[c]) BY DEF IInv, SyncTypeOK, PromiseInv
<1>2. Becomes(c, x) BY <1>1 DEF CallGoesTo, Becomes
<1>3. x.pc = pc /\ x.op = call[c].op /\ x.todo = call[c].todo BY <1>1 DEF Call
<1> HIDE DEF x
<1>4. Batch(x) BY <1>1, <1>3 DEF Batch
<1> QED BY <1>2, <1>4, CallGoesOn

LEMMA DomainKeepsPromise ==
  ASSUME OneCall, Mild, IInv, PromiseInv, NEW c \in Calls, DomainCheck(c)
  PROVE  PromiseInv' /\ UNCHANGED <<device, effect>>
<1>1. call[c].pc = "domain" /\ UNCHANGED <<device, log, effect>> BY DEF DomainCheck, CallAt
<1>2. call[c].op \in Ops /\ log[call[c].op] = "NONE" /\ effect \in [Ops -> 0..2]
  BY <1>1 DEF PromiseInv, Batch, IInv, AtWork, SyncTypeOK
<1>3. CASE call[c].op \in Guarded /\ effect[call[c].op] > 0
  BY <1>1, <1>3, GotoKeepsPromise DEF DomainCheck
<1>4. CASE ~(call[c].op \in Guarded /\ effect[call[c].op] > 0)
  <2>1. CallGoesTo(c, "apply") BY <1>4 DEF DomainCheck, Mild
  <2>2. ~(effect[call[c].op] > 0)
    <3>1. ~\E d \in Calls : call[d].pc = "record" BY <1>1 DEF OneCall
    <3> QED BY <1>2, <1>4, <3>1 DEF PromiseInv, DoneIsLogged
  <2>3. effect[call[c].op] = 0 BY <1>2, <2>2
  <2> QED BY <1>1, <2>1, <2>3, GotoKeepsPromise
<1> QED BY <1>3, <1>4

\* The operation at hand is logged, and the loop goes on.
LEMMA LoggingKeepsPromise ==
  ASSUME OneCall, IInv, PromiseInv, NEW c \in Calls, NEW x, Becomes(c, x), UNCHANGED <<device, effect>>,
         call[c].pc \in {"record", "failed"},
         x.pc = "check", x.todo = call[c].todo \ {call[c].op},
         \A p \in Ops \ {call[c].op} : log'[p] = log[p],
         log'[call[c].op] # "NONE" \/ Guarded = Ops
  PROVE  PromiseInv'
<1> DEFINE o == call[c].op
<1>1. \A d \in Calls : d = c /\ call'[d] = x BY DEF OneCall, Becomes, IInv, SyncTypeOK
<1>2. Batch(call[c]) /\ effect[o] > 0 /\ o \in Ops BY DEF PromiseInv, Batch, IInv, Performed, AtWork
<1>3. InOrder' /\ Kept' /\ DoneOnce' BY DEF PromiseInv, InOrder, Kept, DoneOnce, device
<1>4. LoggedIsDone' BY <1>2 DEF PromiseInv, LoggedIsDone
<1>5. DoneIsLogged'
  <2>1. SUFFICES ASSUME NEW p \in Ops, effect[p] > 0, log'[p] = "NONE" PROVE Guarded = Ops
    BY DEF DoneIsLogged
  <2>2. CASE p # o BY <1>1, <2>1, <2>2 DEF PromiseInv, DoneIsLogged
  <2>3. CASE p = o BY <2>1, <2>3
  <2> QED BY <2>2, <2>3
<1>6. Batch(x)' BY <1>2 DEF Batch, device
<1>7. \A d \in Calls : Batch(call[d])' BY <1>1, <1>6 DEF Batch
<1> QED BY <1>3, <1>4, <1>5, <1>7 DEF PromiseInv

LEMMA RecordsKeepPromise ==
  ASSUME OneCall, Mild, IInv, PromiseInv, NEW c \in Calls, RecordProcessed(c) \/ RecordFailed(c)
  PROVE  PromiseInv' /\ UNCHANGED <<device, effect>>
<1> DEFINE o == call[c].op
<1>1. /\ call[c].pc \in {"record", "failed"} /\ UNCHANGED <<device, effect>>
      /\ log \in [Ops -> {"NONE", "PROCESSED", "FAILED"}] /\ call \in [Calls -> Call]
  BY DEF RecordProcessed, RecordFailed, CallAt, IInv, SyncTypeOK
<1>2. o \in Ops /\ log[o] = "NONE" /\ (call[c].pc = "record" => effect[o] > 0)
  BY <1>1 DEF PromiseInv, Batch, IInv, AtWork, Performed
<1>3. CASE log' = [log EXCEPT ![o] = "PROCESSED"] /\ Acknowledge(c, o)
  <2> DEFINE x == [call[c] EXCEPT !.pc = "check", !.todo = @ \ {o}, !.ack = @ \cup {o}]
  <2>1. Becomes(c, x) BY <1>1, <1>3 DEF Acknowledge, Becomes
  <2>2. x.pc = "check" /\ x.todo = call[c].todo \ {o} BY <1>1 DEF Call
  <2>3. log'[o] # "NONE" /\ \A p \in Ops \ {o} : log'[p] = log[p] BY <1>1, <1>2, <1>3
  <2> HIDE DEF x
  <2> QED BY <1>1, <2>1, <2>2, <2>3, LoggingKeepsPromise
<1>4. CASE call[c].pc = "record" /\ CallGoesTo(c, "failed") /\ UNCHANGED log /\ "database" \in Faults
  <2>1. Guarded = Ops BY <1>4 DEF Mild
  <2> QED BY <1>1, <1>2, <1>4, <2>1, GotoKeepsPromise
<1>5. CASE RecordFailed(c)
  <2> DEFINE x == [call[c] EXCEPT !.pc = "check", !.todo = @ \ {o}]
  <2>1. Becomes(c, x) BY <1>1, <1>5 DEF RecordFailed, Reject, Becomes
  <2>2. x.pc = "check" /\ x.todo = call[c].todo \ {o} BY <1>1 DEF Call
  <2>3. log'[o] # "NONE" \/ Guarded = Ops BY <1>1, <1>2, <1>5 DEF RecordFailed, Mild
  <2>4. \A p \in Ops \ {o} : log'[p] = log[p] BY <1>1, <1>2, <1>5 DEF RecordFailed
  <2> HIDE DEF x
  <2> QED BY <1>1, <2>1, <2>2, <2>3, <2>4, LoggingKeepsPromise
<1> QED BY <1>1, <1>2, <1>3, <1>4, <1>5 DEF RecordProcessed, CallAt

LEMMA OthersKeepPromise ==
  ASSUME OneCall, Mild, IInv, PromiseInv, NEW c \in Calls, GiveUp(c) \/ Abandoned(c) \/ Crash
  PROVE  PromiseInv' /\ UNCHANGED <<device, effect>>
<1>1. call \in [Calls -> Call] /\ Batch(call[c]) /\ UNCHANGED <<device, log, effect>>
  BY DEF IInv, SyncTypeOK, PromiseInv, GiveUp, Abandoned, Crash
<1>2. Batch(Free) /\ Free.pc = "free" BY DEF Batch, Free
<1>3. CASE GiveUp(c)
  <2> DEFINE x == [call[c] EXCEPT !.waiting = FALSE]
  <2>1. Becomes(c, x) BY <1>1, <1>3 DEF GiveUp, Becomes
  <2>2. x.pc = call[c].pc /\ x.op = call[c].op /\ x.todo = call[c].todo BY <1>1 DEF Call
  <2> HIDE DEF x
  <2>3. Batch(x) BY <1>1, <2>2 DEF Batch
  <2> QED BY <1>1, <2>1, <2>2, <2>3, CallGoesOn
<1>4. CASE Abandoned(c)
  <2>1. Becomes(c, Free) /\ call[c].pc # "record" BY <1>4 DEF Abandoned, Done, Becomes
  <2> QED BY <1>1, <1>2, <2>1, CallGoesOn
<1>5. CASE Crash
  <2>1. Becomes(c, Free) BY <1>1, <1>5 DEF Crash, Becomes, OneCall
  <2>2. Guarded = Ops BY <1>5 DEF Crash, Mild
  <2> QED BY <1>1, <1>2, <2>1, <2>2, CallGoesOn
<1> QED BY <1>3, <1>4, <1>5

LEMMA PromiseStep ==
  ASSUME OneCall, Mild, IInv, PromiseInv, [SyncNext]_syncVars
  PROVE  PromiseInv' /\ [Promise!Next]_<<store \cup fallback, effect>>
<1>1. ASSUME NEW c \in Calls, NEW a \in Callers, Sync(a, c)
      PROVE  PromiseInv' /\ UNCHANGED <<device, effect>>
  BY <1>1, SyncKeepsPromise
<1>2. ASSUME NEW c \in Calls, Gateway(c), ~Apply(c)
      PROVE  PromiseInv' /\ UNCHANGED <<device, effect>>
  BY <1>2, LookUpKeepsPromise, DomainKeepsPromise, RecordsKeepPromise, OthersKeepPromise DEF Gateway
<1>3. ASSUME NEW c \in Calls, GiveUp(c) \/ Crash
      PROVE  PromiseInv' /\ UNCHANGED <<device, effect>>
  BY <1>3, OthersKeepPromise
<1>4. ASSUME UNCHANGED syncVars PROVE PromiseInv' /\ UNCHANGED <<device, effect>>
  BY <1>4 DEF syncVars, device, PromiseInv, InOrder, Kept, DoneOnce, LoggedIsDone, DoneIsLogged, Batch
<1>5. UNCHANGED <<device, effect>> => UNCHANGED <<store \cup fallback, effect>> BY DEF device
<1>6. Crash => \E c \in Calls : Crash BY DEF Crash
<1> QED BY <1>1, <1>2, <1>3, <1>4, <1>5, <1>6, EnqueueKeepsPromise, ReceiveKeepsPromise, ApplyKeepsPromise
     DEF SyncNext, Gateway

\* One sync after another, whatever answers are lost: each operation recorded takes
\* effect once, in order, and leaves the device only then.  The same holds through
\* crashes and refused log rows if every domain service is guarded.
THEOREM PromiseKept == ASSUME OneCall, Mild PROVE SyncSpec => KeepsPromise
<1>1. SyncInit => PromiseInv /\ Promise!Init
  BY DEF SyncInit, PromiseInv, InOrder, Kept, DoneOnce, LoggedIsDone, DoneIsLogged, Batch, Free,
     Promise!Init
<1>2. IInv /\ PromiseInv /\ [SyncNext]_syncVars => PromiseInv' /\ [Promise!Next]_<<store \cup fallback, effect>>
  BY PromiseStep
<1> QED BY <1>1, <1>2, Invariance, PTL DEF SyncSpec, KeepsPromise, Promise!Spec

-----------------------------------------------------------------------------
(***************************************************************************)
(* The hub.  A SCAN with a scan_uuid and a HUB_RECEIVE count as guarded    *)
(* above because recordScanEvent refuses a scan_uuid it has recorded and   *)
(* scanReceivingItem a parcel its session has unloaded.  What the hub then *)
(* does with them is the module Inbound: proved of it is that a scan is    *)
(* recorded once, a parcel unloaded twice only by scans that overlapped,   *)
(* and the counters, reports and moves that follow, for any parcels,       *)
(* sessions, scans and requests in progress.                               *)
(***************************************************************************)
RequestRecords ==
  [pc : {"none", "check", "move", "commit", "find", "items", "idle"},
   op : {"none", "staff", "scan", "sort", "unload", "complete", "receipt", "hold", "release"},
   ship : Shipments \cup {"none"}, aim : SHIPMENT_STATUSES \cup {"none"},
   sess : Sessions \cup {"none"}, scan : Scans \cup {"none"}, good : BOOLEAN,
   known : SHIPMENT_STATUSES \cup {"none"}, todo : SUBSET Manifest, recv : SUBSET Manifest,
   lost : SUBSET Manifest, moved : SUBSET Shipments, flagged : BOOLEAN]

\* What a request has chosen by the time it needs it.
Chosen(r) ==
  /\ r.pc \in {"check", "move"} => r.ship \in Shipments /\ r.aim \in SHIPMENT_STATUSES
  /\ r.pc \in {"find", "items"} => r.op \in {"complete", "receipt"}
  /\ r.op = "scan" => r.scan \in Scans /\ r.ship = ScanOf[r.scan].ship
                      /\ r.known \in SHIPMENT_STATUSES /\ r.pc = "commit"
  /\ r.op = "unload" => r.sess \in Sessions /\ r.ship \in Shipments /\ r.pc = "commit"
  /\ r.op = "complete" => r.sess \in Sessions /\ r.pc \in {"find", "items", "check", "move"}
  /\ r.op = "receipt" => r.pc \in {"items", "check", "move"}
  /\ r.op \in {"hold", "release"} => r.ship \in CrossBorder /\ r.pc \in {"check", "move", "commit"}

TypeInv ==
  /\ InboundAssumption
  /\ TypeOK
  /\ req \in [Requests -> RequestRecords]
  /\ \A q \in Requests : Chosen(req[q])

\* Requests that are about the same shipment have contended for it.
Overlaps ==
  \A p, q \in Requests : p # q =>
    \A s \in Shipments : s \in Touched(req[p]) /\ s \in Touched(req[q]) => s \in contended

-----------------------------------------------------------------------------
(* What a request relies on.                                               *)

\* The move it has checked is still in the table.
MoveStands(r) == r.pc = "move" /\ r.ship \notin contended => Allows(status[r.ship], r.aim)

\* What it read of the shipment is still stored.
KnownStands(r) == r.op = "scan" /\ r.ship \notin contended => r.known = status[r.ship]
ReleaseStands(r) ==
  r.op = "release" =>
    /\ r.aim = "IN_TRANSIT"
    /\ r.pc = "commit" /\ r.ship \notin contended => status[r.ship] # "ON_HOLD"
ItemStands(r) ==
  r.op = "unload" /\ r.ship \notin contended
    => Rows(r.sess, r.ship) = 0 /\ missing[r.sess][r.ship] = 0

\* A completion has every parcel that was not scanned before it, or behind it as
\* lost; those were not scanned since.
Found(r) ==
  r.op = "complete" =>
    IF r.pc = "find" THEN r.todo = Manifest
    ELSE
    /\ \A s \in Manifest : Rows(r.sess, s) > 0 \/ s \in r.todo \cup r.lost
    /\ \A s \in (r.todo \cup r.lost) \ contended : Rows(r.sess, s) = 0

\* The parcels a completion has lost are those it has moved, or is moving.
LostAreMoved(r) ==
  r.op = "complete" =>
    /\ r.moved \subseteq r.lost
    /\ r.lost \subseteq r.moved \cup (IF r.pc \in {"check", "move"} THEN {r.ship} ELSE {})
    /\ r.pc \in {"check", "move"} => r.ship \in r.lost
    /\ r.pc = "find" => r.lost = {}
    /\ \A s \in r.moved : <<r.sess, s>> \in excepted

\* Nothing was wrong with the parcels of a session before its completion read
\* the counters.
CleanSoFar(r) ==
  r.op = "complete" /\ ~r.flagged =>
    \A s \in Shipments : variance[r.sess][s] > 0 => <<r.sess, s>> \in late

Relies(r) ==
  /\ MoveStands(r) /\ KnownStands(r) /\ ReleaseStands(r) /\ ItemStands(r)
  /\ Found(r) /\ LostAreMoved(r) /\ CleanSoFar(r)

\* A discrepancy of a session is of a damaged parcel or one it did not expect.
VarianceInv ==
  \A n \in Sessions, s \in Shipments :
    variance[n][s] > 0 => unload[n][s].bad > 0 \/ (s \notin Manifest /\ Rows(n, s) > 0)

\* Only a closed session reports parcels missing, and those were not scanned.
MissingInv ==
  \A n \in Sessions, s \in Shipments : missing[n][s] > 0 =>
    /\ s \in Manifest /\ Closed(n)
    /\ s \notin contended => Rows(n, s) = 0

HubInv ==
  /\ TypeInv /\ Overlaps /\ \A q \in Requests : Relies(req[q])
  /\ VarianceInv /\ MissingInv
  /\ CountersAgree /\ ReportAgrees

-----------------------------------------------------------------------------
(* Types.                                                                  *)

LEMMA IdleTyped == Idle \in RequestRecords /\ Chosen(Idle)
BY DEF Idle, RequestRecords, Chosen

\* One request becomes another.
LEMMA BecomeTyped ==
  ASSUME TypeInv, NEW q \in Requests, NEW r \in RequestRecords, Chosen(r),
         req' = [req EXCEPT ![q] = r]
  PROVE  /\ req' \in [Requests -> RequestRecords] /\ \A p \in Requests : Chosen(req'[p])
         /\ req'[q] = r /\ \A p \in Requests : p # q => req'[p] = req[p]
BY DEF TypeInv

\* A request begins as r.
LEMMA BeginTyped ==
  ASSUME TypeInv, NEW q \in Requests, NEW r \in RequestRecords, Chosen(r), Begin(q, r)
  PROVE  TypeInv'
<1>1. /\ req' \in [Requests -> RequestRecords] /\ \A p \in Requests : Chosen(req'[p])
  BY BecomeTyped DEF Begin
<1>2. contended' \subseteq Shipments BY DEF Begin, TypeInv, TypeOK
<1>3. TypeOK'
  BY <1>2 DEF Begin, TypeInv, TypeOK, rows, hub, border
<1> QED BY <1>1, <1>3 DEF TypeInv

\* The requests that may begin.
Beginning(r) ==
  \/ \E u \in Scans :
       r = [Idle EXCEPT !.op = "scan", !.pc = "commit", !.scan = u, !.ship = ScanOf[u].ship,
                        !.known = status[ScanOf[u].ship]]
  \/ \E s \in Outbound :
       r = [Idle EXCEPT !.op = "sort", !.pc = "check", !.ship = s, !.aim = "SORTED"]
  \/ \E s \in Shipments, aim \in StaffTargets :
       r = [Idle EXCEPT !.op = "staff", !.pc = "check", !.ship = s, !.aim = aim]
  \/ \E n \in Sessions, s \in Shipments, good \in BOOLEAN :
       /\ session[n].status = "IN_PROGRESS" /\ Rows(n, s) = 0
       /\ r = [Idle EXCEPT !.op = "unload", !.pc = "commit", !.sess = n, !.ship = s, !.good = good]
  \/ \E n \in Sessions :
       r = [Idle EXCEPT !.op = "complete", !.pc = "find", !.sess = n, !.todo = Manifest,
                        !.flagged = session[n].damaged > 0 \/ session[n].unexpected > 0]
  \/ \E received \in SUBSET Manifest :
       r = [Idle EXCEPT !.op = "receipt", !.pc = "items", !.todo = Manifest, !.recv = received,
                        !.lost = {s \in Manifest : status[s] = "EXCEPTION"}]
  \/ \E s \in CrossBorder :
       r = [Idle EXCEPT !.op = "hold", !.pc = "check", !.ship = s, !.aim = "ON_HOLD"]
  \/ \E s \in CrossBorder :
       r = [Idle EXCEPT !.op = "release", !.ship = s, !.aim = "IN_TRANSIT",
                        !.pc = IF status[s] = "ON_HOLD" THEN "check" ELSE "commit"]

LEMMA AskBegins ==
  ASSUME NEW q \in Requests, Ask(q)
  PROVE  \E r : Beginning(r) /\ Begin(q, r)
BY DEF Ask, ReadScan, ConfirmManualSortation, StaffTransition, ReadItem,
   ReadComplete, ReadReceipt,
       HoldCustomsLeg, ReleaseCustomsLeg, Beginning

LEMMA BeginningTyped ==
  ASSUME TypeInv, NEW r, Beginning(r)
  PROVE  r \in RequestRecords /\ Chosen(r)
<1>0. /\ {"SORTED", "ON_HOLD", "IN_TRANSIT"} \subseteq SHIPMENT_STATUSES
      /\ Manifest \subseteq Shipments /\ CrossBorder \subseteq Shipments /\ Outbound \subseteq Shipments
      /\ StaffTargets \subseteq SHIPMENT_STATUSES
      /\ \A u \in Scans : ScanOf[u].ship \in Shipments
      /\ \A s \in Shipments : status[s] \in SHIPMENT_STATUSES
  BY DEF SHIPMENT_STATUSES, ALLOWED_TRANSITIONS, TypeInv, InboundAssumption, TypeOK
<1> USE <1>0
<1>1. CASE \E u \in Scans :
       r = [Idle EXCEPT !.op = "scan", !.pc = "commit", !.scan = u, !.ship = ScanOf[u].ship,
                        !.known = status[ScanOf[u].ship]]
  <2>1. PICK u \in Scans :
          r = [Idle EXCEPT !.op = "scan", !.pc = "commit", !.scan = u, !.ship = ScanOf[u].ship,
                           !.known = status[ScanOf[u].ship]]
    BY <1>1
  <2>2. PICK s \in Shipments : s = ScanOf[u].ship OBVIOUS
  <2>3. PICK v \in SHIPMENT_STATUSES : v = status[s] OBVIOUS
  <2> HIDE <1>0
  <2>4. /\ r.op = "scan" /\ r.pc = "commit" /\ r.scan = u /\ r.ship = s /\ r.known = v
    BY <2>1, <2>2, <2>3 DEF Idle
  <2>5. Chosen(r) BY <2>2, <2>4 DEF Chosen
  <2>6. r \in RequestRecords BY <2>1, <2>2, <2>3 DEF Idle, RequestRecords
  <2> QED BY <2>5, <2>6
<1>2. CASE \E s \in Outbound :
       r = [Idle EXCEPT !.op = "sort", !.pc = "check", !.ship = s, !.aim = "SORTED"]
  BY ZenonT(60), <1>2 DEF Idle, RequestRecords, Chosen
<1>3. CASE \E s \in Shipments, aim \in StaffTargets :
       r = [Idle EXCEPT !.op = "staff", !.pc = "check", !.ship = s, !.aim = aim]
  BY ZenonT(60), <1>3 DEF Idle, RequestRecords, Chosen
<1>4. CASE \E n \in Sessions, s \in Shipments, good \in BOOLEAN :
       r = [Idle EXCEPT !.op = "unload", !.pc = "commit", !.sess = n, !.ship = s, !.good = good]
  BY ZenonT(60), <1>4 DEF Idle, RequestRecords, Chosen
<1>5. CASE \E n \in Sessions :
       r = [Idle EXCEPT !.op = "complete", !.pc = "find", !.sess = n, !.todo = Manifest,
                        !.flagged = session[n].damaged > 0 \/ session[n].unexpected > 0]
  BY ZenonT(60), <1>5 DEF Idle, RequestRecords, Chosen
<1>6. CASE \E received \in SUBSET Manifest :
       r = [Idle EXCEPT !.op = "receipt", !.pc = "items", !.todo = Manifest, !.recv = received,
                        !.lost = {s \in Manifest : status[s] = "EXCEPTION"}]
  BY ZenonT(60), <1>6 DEF Idle, RequestRecords, Chosen
<1>7. CASE \E s \in CrossBorder :
       r = [Idle EXCEPT !.op = "hold", !.pc = "check", !.ship = s, !.aim = "ON_HOLD"]
  BY ZenonT(60), <1>7 DEF Idle, RequestRecords, Chosen
<1>8. CASE \E s \in CrossBorder :
       r = [Idle EXCEPT !.op = "release", !.ship = s, !.aim = "IN_TRANSIT",
                        !.pc = IF status[s] = "ON_HOLD" THEN "check" ELSE "commit"]
  BY ZenonT(60), <1>8 DEF Idle, RequestRecords, Chosen
<1> QED
  <2> HIDE <1>0
  <2> QED BY <1>1, <1>2, <1>3, <1>4, <1>5, <1>6, <1>7, <1>8 DEF Beginning

\* A request that goes on as r, or ends.
LEMMA GoesOnTyped ==
  ASSUME TypeInv, NEW q \in Requests, NEW r \in RequestRecords, Chosen(r), Become(q, r), TypeOK'
  PROVE  TypeInv'
BY BecomeTyped DEF Become, TypeInv

LEMMA EndTyped ==
  ASSUME TypeInv, NEW q \in Requests, End(q), TypeOK'
  PROVE  TypeInv'
BY IdleTyped, GoesOnTyped DEF End

\* A request that only moves on to another statement.
LEMMA GotoTyped ==
  ASSUME TypeInv, NEW q \in Requests, NEW pc \in {"move", "commit"}, req[q].pc = "check",
         pc = "commit" => req[q].op = "hold"
  PROVE  [req[q] EXCEPT !.pc = pc] \in RequestRecords /\ Chosen([req[q] EXCEPT !.pc = pc])
<1>1. req[q] \in RequestRecords /\ Chosen(req[q]) BY DEF TypeInv
<1>2. PICK r \in RequestRecords : r = req[q] BY <1>1
<1>3. [r EXCEPT !.pc = pc] \in RequestRecords BY DEF RequestRecords
<1>4. Chosen([r EXCEPT !.pc = pc]) BY <1>1, <1>2 DEF Chosen, RequestRecords
<1> QED BY <1>2, <1>3, <1>4

LEMMA RollBackTyped ==
  ASSUME TypeInv, NEW q \in Requests, RollBack(q), UNCHANGED <<status, rows>>
  PROVE  TypeInv'
<1>1. req[q].moved \subseteq Shipments BY DEF TypeInv, RequestRecords
<1>2. TypeOK' BY <1>1 DEF RollBack, TypeInv, TypeOK, rows, hub, border
<1> QED BY <1>2, EndTyped DEF RollBack

LEMMA CheckTyped ==
  ASSUME TypeInv, NEW q \in Requests, CheckTransition(q)
  PROVE  TypeInv'
<1>1. CASE RollBack(q) BY <1>1, RollBackTyped DEF CheckTransition
<1>2. CASE ~RollBack(q)
  <2>1. TypeOK'
    BY <1>2 DEF CheckTransition, TypeInv, TypeOK, rows, hub, border, history
  <2>2. PICK pc \in {"move", "commit"} : Goto(q, pc) /\ (pc = "commit" => req[q].op = "hold")
    BY <1>2 DEF CheckTransition
  <2> QED BY <2>1, <2>2, GotoTyped, GoesOnTyped DEF CheckTransition, Goto
<1> QED BY <1>1, <1>2

\* What the request has become once it has moved its shipment.
Moved(r) ==
  IF r.op \in {"staff", "sort"} THEN Idle
  ELSE [r EXCEPT !.moved = r.moved \cup {r.ship},
                 !.pc = IF r.op \in {"complete", "receipt"} THEN "items" ELSE "commit"]

LEMMA MoveEffect ==
  ASSUME TypeInv, NEW q \in Requests, MoveShipment(q)
  PROVE  /\ TypeInv' /\ req[q].ship \in Shipments /\ req[q].pc = "move"
         /\ req[q].aim \in SHIPMENT_STATUSES
         /\ status' = [status EXCEPT ![req[q].ship] = req[q].aim]
         /\ Become(q, Moved(req[q])) /\ UNCHANGED <<rows, contended, late, stranded>>
         /\ excepted' = excepted \cup
              (IF req[q].op = "complete" THEN {<<req[q].sess, req[q].ship>>} ELSE {})
<1>1. /\ req[q].ship \in Shipments /\ req[q].aim \in SHIPMENT_STATUSES /\ req[q].pc = "move"
      /\ req[q].op = "complete" => req[q].sess \in Sessions
      /\ req[q] \in RequestRecords /\ Chosen(req[q])
  BY DEF MoveShipment, TypeInv, Chosen
<1>2. Become(q, Moved(req[q])) BY DEF MoveShipment, Moved, End
<1>3. PICK r \in RequestRecords : r = req[q] BY <1>1
<1>4. Moved(r) \in RequestRecords
  <2>1. r.moved \cup {r.ship} \subseteq Shipments BY <1>1, <1>3 DEF RequestRecords
  <2>2. PICK m \in SUBSET Shipments : m = r.moved \cup {r.ship} BY <2>1
  <2>3. \A pc \in {"items", "commit"} : [r EXCEPT !.moved = m, !.pc = pc] \in RequestRecords
    BY DEF RequestRecords
  <2> QED BY <2>2, <2>3, IdleTyped DEF Moved
<1>5. Chosen(Moved(r))
  <2>1. CASE r.op \in {"staff", "sort"} BY <2>1, IdleTyped DEF Moved
  <2>2. CASE r.op \notin {"staff", "sort"}
    BY <1>1, <1>3, <2>2 DEF Moved, Chosen, RequestRecords
  <2> QED BY <2>1, <2>2
<1>6. TypeOK'
  BY SMTT(40), <1>1 DEF MoveShipment, TypeInv, TypeOK, rows, hub, border
<1> QED BY <1>1, <1>2, <1>3, <1>4, <1>5, <1>6, GoesOnTyped DEF MoveShipment

\* Where a scan moves a shipment the table allows.
LEMMA ScanMoves ==
  ASSUME NEW type \in ScanTypes, NEW st \in SHIPMENT_STATUSES
  PROVE  /\ Scanned(type, st) \in SHIPMENT_STATUSES
         /\ Scanned(type, st) = st \/ Allows(st, Scanned(type, st))
BY DEF ScanTypes, Scanned, SHIPMENT_STATUSES, ALLOWED_TRANSITIONS, Allows

LEMMA ScanEffect ==
  ASSUME TypeInv, NEW q \in Requests, CommitScan(q)
  PROVE  /\ TypeInv' /\ req[q].op = "scan" /\ req[q].scan \in Scans /\ req[q].ship \in Shipments
         /\ ScanOf[req[q].scan].type \in ScanTypes /\ req[q].known \in SHIPMENT_STATUSES
         /\ \/ UNCHANGED status
            \/ status' = [status EXCEPT ![req[q].ship]
                            = Scanned(ScanOf[req[q].scan].type, req[q].known)]
         /\ scanned' = scanned \/ scanned' = [scanned EXCEPT ![req[q].scan] = 1]
         /\ End(q) /\ UNCHANGED <<item, manifest, hub, border, history>>
<1> DEFINE s == req[q].ship
           u == req[q].scan
           to == Scanned(ScanOf[u].type, req[q].known)
<1>1. req[q].op = "scan" /\ u \in Scans /\ s = ScanOf[u].ship /\ req[q].known \in SHIPMENT_STATUSES
  BY DEF CommitScan, At, TypeInv, Chosen
<1>2. ScanOf[u].ship \in Shipments /\ ScanOf[u].type \in ScanTypes
  BY <1>1 DEF TypeInv, InboundAssumption
<1>3. to \in SHIPMENT_STATUSES BY <1>1, <1>2, ScanMoves
<1> HIDE DEF to
<1>4. /\ UNCHANGED status \/ status' = [status EXCEPT ![s] = to]
      /\ scanned' = scanned \/ scanned' = [scanned EXCEPT ![u] = 1]
      /\ End(q) /\ UNCHANGED <<item, manifest, hub, border, history>>
  BY DEF CommitScan, to
<1>5. status' \in [Shipments -> SHIPMENT_STATUSES] /\ scanned' \in [Scans -> Nat]
  <2>1. status \in [Shipments -> SHIPMENT_STATUSES] /\ scanned \in [Scans -> Nat]
    BY DEF TypeInv, TypeOK
  <2>2. [status EXCEPT ![s] = to] \in [Shipments -> SHIPMENT_STATUSES] BY <1>3, <2>1
  <2>3. [scanned EXCEPT ![u] = 1] \in [Scans -> Nat] BY <2>1
  <2> QED BY <1>4, <2>1, <2>2, <2>3
<1>6. TypeOK' BY <1>4, <1>5 DEF TypeInv, TypeOK, hub, border, history
<1> QED BY <1>1, <1>2, <1>4, <1>6, EndTyped DEF to

LEMMA ItemEffect ==
  ASSUME TypeInv, NEW q \in Requests, CommitItem(q)
  PROVE  /\ TypeInv' /\ req[q].op = "unload" /\ req[q].sess \in Sessions /\ req[q].ship \in Shipments
         /\ req[q].good \in BOOLEAN /\ End(q)
<1> DEFINE n == req[q].sess
           s == req[q].ship
           good == req[q].good
<1>1. req[q].op = "unload" /\ n \in Sessions /\ s \in Shipments /\ good \in BOOLEAN
  BY DEF CommitItem, At, TypeInv, Chosen, RequestRecords
<1>2. One(good) \in Nat /\ One(~good) \in Nat /\ One(s \notin Manifest) \in Nat
      /\ One(~good \/ s \notin Manifest) \in Nat
  BY DEF One
<1>3. unload' \in [Sessions -> [Shipments -> [good : Nat, bad : Nat]]]
  <2>0. unload[n][s] \in [good : Nat, bad : Nat] BY <1>1 DEF TypeInv, TypeOK
  <2>1. /\ unload[n][s].good + One(good) \in Nat /\ unload[n][s].bad + One(~good) \in Nat
    BY <2>0 DEF One
  <2>2. PICK x \in [good : Nat, bad : Nat] :
          x = [good |-> unload[n][s].good + One(good), bad |-> unload[n][s].bad + One(~good)]
    BY <2>1
  <2>3. unload' = [unload EXCEPT ![n][s] = x] BY <2>2 DEF CommitItem
  <2> QED BY <1>1, <2>3 DEF TypeInv, TypeOK
<1>4. session' \in [Sessions -> [status : {"NONE", "IN_PROGRESS", "COMPLETED", "DISCREPANCY_FLAGGED"},
                                 scanned : Nat, intact : Nat, damaged : Nat, unexpected : Nat]]
  <2>1. PICK old : old = session[n] OBVIOUS
  <2>2. Count(old, good, s \in Manifest)
          \in [status : {"NONE", "IN_PROGRESS", "COMPLETED", "DISCREPANCY_FLAGGED"},
               scanned : Nat, intact : Nat, damaged : Nat, unexpected : Nat]
    <3>1. /\ old \in [status : {"NONE", "IN_PROGRESS", "COMPLETED", "DISCREPANCY_FLAGGED"},
                      scanned : Nat, intact : Nat, damaged : Nat, unexpected : Nat]
      BY <1>1, <2>1 DEF TypeInv, TypeOK
    <3>2. /\ old.scanned + 1 \in Nat /\ old.intact + One(good) \in Nat
          /\ old.damaged + One(~good) \in Nat /\ old.unexpected + One(~(s \in Manifest)) \in Nat
      BY <3>1 DEF One
    <3> QED BY <3>1, <3>2 DEF Count
  <2>3. session' = [session EXCEPT ![n] = Count(old, good, s \in Manifest)]
    BY <2>1 DEF CommitItem
  <2> HIDE <1>2
  <2>4. PICK c : c = Count(old, good, s \in Manifest) OBVIOUS
  <2> QED BY <1>1, <2>2, <2>3, <2>4 DEF TypeInv, TypeOK
<1>5. variance' \in [Sessions -> [Shipments -> Nat]]
  <2>1. variance[n][s] + One(~good \/ s \notin Manifest) \in Nat
    BY SMTT(40), <1>1, <1>2 DEF TypeInv, TypeOK
  <2> QED BY <1>1, <2>1 DEF CommitItem, TypeInv, TypeOK
<1>6. status' \in [Shipments -> SHIPMENT_STATUSES]
  <2>1. "AT_HUB" \in SHIPMENT_STATUSES BY DEF SHIPMENT_STATUSES, ALLOWED_TRANSITIONS
  <2> QED BY <2>1 DEF CommitItem, TypeInv, TypeOK
<1>7. late' \subseteq Sessions \X Shipments BY <1>1 DEF CommitItem, TypeInv, TypeOK
<1>8. End(q) /\ UNCHANGED <<item, manifest, missing, scanned, border, contended, excepted, stranded>>
  BY DEF CommitItem
<1>9. TypeOK' BY <1>3, <1>4, <1>5, <1>6, <1>7, <1>8 DEF TypeInv, TypeOK, border
<1> QED BY <1>1, <1>8, <1>9, EndTyped

LEMMA FindEffect ==
  ASSUME TypeInv, NEW q \in Requests, FindMissing(q)
  PROVE  /\ TypeInv' /\ req[q].op = "complete" /\ req[q].pc = "find" /\ req[q].sess \in Sessions
         /\ UNCHANGED <<status, rows, history>>
         /\ Become(q, [req[q] EXCEPT !.pc = "items", !.todo = {s \in Manifest : Rows(req[q].sess, s) = 0}])
<1>1. req[q] \in RequestRecords /\ Chosen(req[q]) /\ req[q].op = "complete" /\ req[q].pc = "find"
  BY DEF FindMissing, At, TypeInv
<1>2. PICK r \in RequestRecords : r = req[q] BY <1>1
<1>3. PICK t \in SUBSET Manifest : t = {s \in Manifest : Rows(req[q].sess, s) = 0} OBVIOUS
<1>4. [r EXCEPT !.pc = "items", !.todo = t] \in RequestRecords BY DEF RequestRecords
<1>5. Chosen([r EXCEPT !.pc = "items", !.todo = t]) BY <1>1, <1>2 DEF Chosen, RequestRecords
<1>6. TypeOK' BY DEF FindMissing, TypeInv, TypeOK, rows, hub, border, history
<1>7. Become(q, [r EXCEPT !.pc = "items", !.todo = t]) BY <1>2, <1>3 DEF FindMissing
<1>8. TypeInv' BY <1>4, <1>5, <1>6, <1>7, GoesOnTyped
<1> QED BY <1>1, <1>8 DEF FindMissing, Chosen

LEMMA NextMissingEffect ==
  ASSUME TypeInv, NEW q \in Requests, NEW s \in Manifest, NextMissing(q, s)
  PROVE  /\ TypeInv' /\ req[q].op = "complete" /\ req[q].pc = "items" /\ req[q].sess \in Sessions
         /\ s \in req[q].todo /\ UNCHANGED <<status, rows, history>>
         /\ Become(q, [req[q] EXCEPT !.pc = "check", !.ship = s, !.aim = "EXCEPTION",
                                     !.todo = req[q].todo \ {s}, !.lost = req[q].lost \cup {s}])
<1>1. req[q] \in RequestRecords /\ Chosen(req[q]) /\ req[q].op = "complete" /\ req[q].pc = "items"
  BY DEF NextMissing, At, TypeInv
<1>2. PICK r \in RequestRecords : r = req[q] BY <1>1
<1>3. PICK t \in SUBSET Manifest : t = req[q].todo \ {s} BY <1>1 DEF RequestRecords
<1>4. PICK l \in SUBSET Manifest : l = req[q].lost \cup {s} BY <1>1 DEF RequestRecords
<1>5. "EXCEPTION" \in SHIPMENT_STATUSES /\ s \in Shipments
  BY DEF SHIPMENT_STATUSES, ALLOWED_TRANSITIONS, TypeInv, InboundAssumption
<1> DEFINE x == [r EXCEPT !.pc = "check", !.ship = s, !.aim = "EXCEPTION", !.todo = t, !.lost = l]
<1>6. x \in RequestRecords BY <1>5 DEF RequestRecords
<1>7. Chosen(x) BY <1>1, <1>2, <1>5 DEF Chosen, RequestRecords
<1>8. TypeOK' BY DEF NextMissing, TypeInv, TypeOK, rows, hub, border, history
<1>9. Become(q, x) BY <1>2, <1>3, <1>4 DEF NextMissing
<1> HIDE DEF x
<1>10. TypeInv' BY <1>6, <1>7, <1>8, <1>9, GoesOnTyped
<1> QED BY <1>1, <1>10 DEF NextMissing, Chosen

LEMMA CompleteEffect ==
  ASSUME TypeInv, NEW q \in Requests, CommitComplete(q)
  PROVE  /\ TypeInv' /\ req[q].op = "complete" /\ req[q].pc = "items" /\ req[q].sess \in Sessions
         /\ req[q].todo = {} /\ req[q].lost \subseteq Manifest
         /\ session' = [session EXCEPT ![req[q].sess].status = FinalStatus(req[q])]
         /\ missing' = [missing EXCEPT ![req[q].sess] =
                          [s \in Shipments |-> missing[req[q].sess][s] + One(s \in req[q].lost)]]
         /\ End(q)
         /\ UNCHANGED <<status, item, manifest, unload, variance, scanned, border, history>>
<1> DEFINE n == req[q].sess
<1>1. /\ req[q].op = "complete" /\ req[q].pc = "items" /\ n \in Sessions
      /\ req[q].lost \subseteq Manifest
  BY DEF CommitComplete, At, TypeInv, Chosen, RequestRecords
<1>2. session' \in [Sessions -> [status : {"NONE", "IN_PROGRESS", "COMPLETED", "DISCREPANCY_FLAGGED"},
                                 scanned : Nat, intact : Nat, damaged : Nat, unexpected : Nat]]
  <2>1. PICK f \in {"COMPLETED", "DISCREPANCY_FLAGGED"} : f = FinalStatus(req[q])
    BY DEF FinalStatus
  <2>2. session' = [session EXCEPT ![n] = [session[n] EXCEPT !.status = f]]
    BY <2>1 DEF CommitComplete
  <2>3. PICK old \in [status : {"NONE", "IN_PROGRESS", "COMPLETED", "DISCREPANCY_FLAGGED"},
                      scanned : Nat, intact : Nat, damaged : Nat, unexpected : Nat] : old = session[n]
    BY <1>1 DEF TypeInv, TypeOK
  <2>4. PICK x \in [status : {"NONE", "IN_PROGRESS", "COMPLETED", "DISCREPANCY_FLAGGED"},
                    scanned : Nat, intact : Nat, damaged : Nat, unexpected : Nat] :
          x = [old EXCEPT !.status = f]
    OBVIOUS
  <2> QED BY <1>1, <2>2, <2>3, <2>4 DEF TypeInv, TypeOK
<1>3. missing' \in [Sessions -> [Shipments -> Nat]]
  <2>1. \A s \in Shipments : missing[n][s] + One(s \in req[q].lost) \in Nat
    BY <1>1 DEF One, TypeInv, TypeOK
  <2>2. PICK m \in [Shipments -> Nat] : m = [s \in Shipments |-> missing[n][s] + One(s \in req[q].lost)]
    BY <2>1
  <2>3. missing' = [missing EXCEPT ![n] = m] BY <2>2 DEF CommitComplete
  <2> QED BY <1>1, <2>3 DEF TypeInv, TypeOK
<1>4. /\ End(q) /\ req[q].todo = {}
      /\ UNCHANGED <<status, item, manifest, unload, variance, scanned, border, history>>
  BY DEF CommitComplete
<1>5. TypeOK' BY <1>2, <1>3, <1>4 DEF TypeInv, TypeOK, border, history
<1> QED BY <1>1, <1>4, <1>5, EndTyped DEF CommitComplete

\* What a receipt goes on as once it has looked at a parcel.
Receives(r, s) ==
  LET rest == [r EXCEPT !.todo = r.todo \ {s}, !.ship = s]
  IN IF s \in r.recv THEN [rest EXCEPT !.pc = "check", !.aim = "AT_HUB"]
     ELSE IF s \in r.lost THEN rest
     ELSE [rest EXCEPT !.pc = "check", !.aim = "EXCEPTION"]

LEMMA NextReceivedEffect ==
  ASSUME TypeInv, NEW q \in Requests, NEW s \in Manifest, NextReceived(q, s)
  PROVE  /\ TypeInv' /\ req[q].op = "receipt" /\ req[q].pc = "items"
         /\ s \in req[q].todo /\ UNCHANGED <<status, rows, history>>
         /\ Become(q, Receives(req[q], s))
<1>1. req[q] \in RequestRecords /\ Chosen(req[q]) /\ req[q].op = "receipt" /\ req[q].pc = "items"
  BY DEF NextReceived, At, TypeInv
<1>2. PICK r \in RequestRecords : r = req[q] BY <1>1
<1>3. PICK t \in SUBSET Manifest : t = r.todo \ {s} BY DEF RequestRecords
<1>4. {"EXCEPTION", "AT_HUB"} \subseteq SHIPMENT_STATUSES /\ s \in Shipments
  BY DEF SHIPMENT_STATUSES, ALLOWED_TRANSITIONS, TypeInv, InboundAssumption
<1> DEFINE rest == [r EXCEPT !.todo = t, !.ship = s]
<1>5. rest \in RequestRecords /\ rest.op = "receipt" /\ rest.pc = "items" /\ rest.ship = s
  BY ZenonT(60), <1>1, <1>2, <1>4 DEF RequestRecords
<1>6. Receives(r, s) \in {rest, [rest EXCEPT !.pc = "check", !.aim = "AT_HUB"],
                          [rest EXCEPT !.pc = "check", !.aim = "EXCEPTION"]}
  BY <1>3 DEF Receives
<1> HIDE DEF rest
<1>7. ASSUME NEW aim \in {"AT_HUB", "EXCEPTION"}
      PROVE  /\ [rest EXCEPT !.pc = "check", !.aim = aim] \in RequestRecords
             /\ Chosen([rest EXCEPT !.pc = "check", !.aim = aim])
  <2>1. PICK x \in RequestRecords : x = rest BY <1>5
  <2>2. PICK y : y = [x EXCEPT !.pc = "check", !.aim = aim] OBVIOUS
  <2>3. y \in RequestRecords BY ZenonT(60), <1>4, <2>2 DEF RequestRecords
  <2>4. y.op = "receipt" /\ y.pc = "check" /\ y.ship = s /\ y.aim = aim
    BY <1>5, <2>1, <2>2 DEF RequestRecords
  <2>5. Chosen(y) BY <1>4, <2>4 DEF Chosen
  <2> QED BY <2>1, <2>2, <2>3, <2>5
<1>8. Chosen(rest) BY <1>5 DEF Chosen
<1>9. Receives(r, s) \in RequestRecords /\ Chosen(Receives(r, s)) BY <1>5, <1>6, <1>7, <1>8
<1>10. TypeOK'
  BY DEF NextReceived, TypeInv, TypeOK, rows, hub, border, history
<1>11. Become(q, Receives(r, s)) BY <1>2 DEF NextReceived, Receives
<1>12. TypeInv' BY <1>9, <1>10, <1>11, GoesOnTyped
<1> QED BY <1>1, <1>2, <1>11, <1>12 DEF NextReceived

LEMMA ReceiptEffect ==
  ASSUME TypeInv, NEW q \in Requests, CommitReceipt(q)
  PROVE  TypeInv' /\ End(q) /\ UNCHANGED <<status, hub, scanned, border, history>>
<1>1. TypeOK' BY DEF CommitReceipt, TypeInv, TypeOK, hub, border, history
<1> QED BY <1>1, EndTyped DEF CommitReceipt

LEMMA HoldEffect ==
  ASSUME TypeInv, NEW q \in Requests, CommitHold(q)
  PROVE  /\ TypeInv' /\ End(q) /\ UNCHANGED <<status, item, manifest, hub, scanned, history>>
         /\ customs' = [customs EXCEPT ![req[q].ship] = "CUSTOMS_HOLD"]
<1>1. req[q].ship \in CrossBorder BY DEF CommitHold, At, TypeInv, Chosen
<1>2. exceptions[req[q].ship] + 1 \in Nat BY <1>1 DEF TypeInv, TypeOK
<1>3. TypeOK' BY <1>1, <1>2 DEF CommitHold, TypeInv, TypeOK, hub, history
<1> QED BY <1>3, EndTyped DEF CommitHold

LEMMA ReleaseEffect ==
  ASSUME TypeInv, NEW q \in Requests, CommitRelease(q)
  PROVE  /\ TypeInv' /\ End(q)
         /\ UNCHANGED <<status, item, manifest, hub, scanned, exceptions, history>>
         /\ req[q].op = "release" /\ req[q].pc = "commit"
         /\ customs' = [customs EXCEPT ![req[q].ship] = "RELEASED"]
<1>1. TypeOK' BY DEF CommitRelease, TypeInv, TypeOK, hub, history
<1> QED BY <1>1, EndTyped DEF CommitRelease, At

LEMMA OpenEffect ==
  ASSUME TypeInv, NEW n \in Sessions, OpenReceivingSession(n)
  PROVE  TypeInv'
<1>1. PICK old \in [status : {"NONE", "IN_PROGRESS", "COMPLETED", "DISCREPANCY_FLAGGED"},
                    scanned : Nat, intact : Nat, damaged : Nat, unexpected : Nat] : old = session[n]
  BY DEF TypeInv, TypeOK
<1>2. PICK x \in [status : {"NONE", "IN_PROGRESS", "COMPLETED", "DISCREPANCY_FLAGGED"},
                  scanned : Nat, intact : Nat, damaged : Nat, unexpected : Nat] :
        x = [old EXCEPT !.status = "IN_PROGRESS"]
  OBVIOUS
<1>3. session' = [session EXCEPT ![n] = x] BY <1>1, <1>2 DEF OpenReceivingSession
<1>4. session' \in [Sessions -> [status : {"NONE", "IN_PROGRESS", "COMPLETED", "DISCREPANCY_FLAGGED"},
                                 scanned : Nat, intact : Nat, damaged : Nat, unexpected : Nat]]
  BY <1>3 DEF TypeInv, TypeOK
<1>5. TypeOK' BY <1>4 DEF OpenReceivingSession, TypeInv, TypeOK, border, history
<1> QED BY <1>5 DEF OpenReceivingSession, TypeInv

LEMMA MarkEffect ==
  ASSUME TypeInv, NEW s \in CrossBorder, NEW to \in Marks, MarkCustoms(s, to)
  PROVE  TypeInv' /\ to # "RELEASED"
<1>1. to \in {"SUBMITTED", "INSPECTION", "CLEARED"} BY DEF TypeInv, InboundAssumption
<1> QED BY <1>1 DEF MarkCustoms, TypeInv, TypeOK, hub, history

LEMMA FailEffect ==
  ASSUME TypeInv, NEW q \in Requests, Fail(q)
  PROVE  TypeInv' /\ RollBack(q) /\ UNCHANGED <<status, rows>>
BY RollBackTyped DEF Fail

-----------------------------------------------------------------------------
(* A batch of scans.                                                       *)

\* Induction over a set of numbers: the least number outside it has a
\* predecessor inside it.
LEMMA Induction ==
  ASSUME NEW S \in SUBSET Nat, 0 \in S, \A n \in S : n + 1 \in S
  PROVE  S = Nat
<1> SUFFICES ASSUME Nat \ S # {} PROVE FALSE OBVIOUS
<1>1. PICK n \in Nat \ S : \A m \in Nat \ S : ~(<<m, n>> \in OpToRel(<, Nat))
  BY WFMin, NatLessThanWellFounded, Zenon
<1>2. n # 0 OBVIOUS
<1>3. n - 1 \in Nat /\ n - 1 < n /\ (n - 1) + 1 = n BY <1>2
<1>4. <<n - 1, n>> \in OpToRel(<, Nat) BY <1>3, Zenon DEF OpToRel
<1>5. n - 1 \in S BY <1>1, <1>3, <1>4
<1> QED BY <1>3, <1>5

Statuses == [Shipments -> SHIPMENT_STATUSES]

\* The statuses after the k-th scan of a batch, from those before it.
ScanStep(batch, a, k) ==
  IF ~New(batch, k) THEN a
  ELSE [a EXCEPT ![ScanOf[batch[k]].ship] = Scanned(ScanOf[batch[k]].type, @)]

\* The scans recorded by the first k of a batch.
Recorded(batch, k) == {batch[j] : j \in {i \in 1..k : New(batch, i)}}

\* Where those may have taken shipment s: nowhere, a step, or two.
Reached(batch, k, s, to) ==
  \/ to = status[s]
  \/ /\ Allows(status[s], to) /\ to \in {"AT_ORIGIN_HUB", "AT_HUB", "SORTED"}
     /\ \E u \in Recorded(batch, k) : ScanOf[u].ship = s
  \/ /\ to = "SORTED" /\ Leads(status[s], to)
     /\ \E u, v \in Recorded(batch, k) : u # v /\ ScanOf[u].ship = s

\* A scan moves a shipment to a hub or sorts it, and nothing moves a sorted one.
LEMMA ScanTargets ==
  ASSUME NEW type \in ScanTypes, NEW st \in SHIPMENT_STATUSES
  PROVE  /\ Scanned(type, st) = st \/ Scanned(type, st) \in {"AT_ORIGIN_HUB", "AT_HUB", "SORTED"}
         /\ st \in {"AT_ORIGIN_HUB", "AT_HUB", "SORTED"} =>
              Scanned(type, st) = st \/ (Scanned(type, st) = "SORTED" /\ st # "SORTED")
BY DEF ScanTypes, Scanned

LEMMA ScanStepReaches ==
  ASSUME TypeInv, NEW batch \in Batches, NEW k \in Nat, k + 1 \in 1..Len(batch),
         NEW a \in Statuses, \A s \in Shipments : Reached(batch, k, s, a[s])
  PROVE  /\ ScanStep(batch, a, k + 1) \in Statuses
         /\ \A s \in Shipments : Reached(batch, k + 1, s, ScanStep(batch, a, k + 1)[s])
<1> DEFINE u == batch[k + 1]
           here == ScanOf[u].ship
           type == ScanOf[u].type
           b == ScanStep(batch, a, k + 1)
<1>1. batch \in Seq(Scans) BY DEF TypeInv, InboundAssumption
<1>2. u \in Scans BY <1>1
<1>3. here \in Shipments /\ type \in ScanTypes BY <1>2 DEF TypeInv, InboundAssumption
<1>4. \A s \in Shipments : status[s] \in SHIPMENT_STATUSES /\ a[s] \in SHIPMENT_STATUSES
  BY DEF TypeInv, TypeOK, Statuses
<1>5. Recorded(batch, k) \subseteq Recorded(batch, k + 1)
  <2>1. \A i \in 1..k : i \in 1..(k + 1) OBVIOUS
  <2> QED BY <2>1 DEF Recorded
<1>6. CASE ~New(batch, k + 1)
  <2>1. b = a BY <1>6 DEF ScanStep
  <2> HIDE DEF b
  <2>2. ASSUME NEW s \in Shipments PROVE Reached(batch, k + 1, s, a[s])
    BY <1>5 DEF Reached
  <2> QED BY <2>1, <2>2 DEF b
<1>7. CASE New(batch, k + 1)
  <2>1. b = [a EXCEPT ![here] = Scanned(type, a[here])] BY <1>7 DEF ScanStep
  <2>2. Scanned(type, a[here]) \in SHIPMENT_STATUSES BY <1>3, <1>4, ScanMoves
  <2>3. u \in Recorded(batch, k + 1) /\ u \notin Recorded(batch, k)
    <3>1. k + 1 \in 1..(k + 1) /\ \A j \in 1..k : j \in 1..((k + 1) - 1) OBVIOUS
    <3>2. \A j \in 1..k : batch[j] # u BY <1>7, <3>1 DEF New
    <3> QED BY <1>7, <3>1, <3>2 DEF Recorded
  <2> HIDE DEF b, u, type
  <2>4. b \in Statuses BY <1>3, <2>1, <2>2 DEF Statuses
  <2>5. ASSUME NEW s \in Shipments PROVE Reached(batch, k + 1, s, b[s])
    <3>1. CASE s # here
      <4>1. b[s] = a[s] BY <2>1, <3>1 DEF Statuses
      <4> QED BY <1>5, <4>1 DEF Reached
    <3>2. CASE s = here
      <4>1. b[s] = Scanned(type, a[s]) BY <2>1, <3>2 DEF Statuses
      <4>2. CASE a[s] = status[s]
        BY <1>3, <1>4, <2>3, <3>2, <4>1, <4>2, ScanMoves, ScanTargets DEF Reached
      <4>3. CASE /\ Allows(status[s], a[s]) /\ a[s] \in {"AT_ORIGIN_HUB", "AT_HUB", "SORTED"}
                 /\ \E v \in Recorded(batch, k) : ScanOf[v].ship = s
        <5>1. CASE b[s] = a[s] BY <1>5, <4>3, <5>1 DEF Reached
        <5>2. CASE b[s] # a[s]
          <6>1. b[s] = "SORTED" BY <1>3, <1>4, <4>1, <4>3, <5>2, ScanTargets
          <6>2. Allows(a[s], b[s]) BY <1>3, <1>4, <4>1, <5>2, ScanMoves
          <6>3. Leads(status[s], b[s]) BY <1>4, <4>3, <6>2 DEF Leads
          <6>4. \E w, v \in Recorded(batch, k + 1) : w # v /\ ScanOf[w].ship = s
            BY <1>5, <2>3, <4>3
          <6> QED BY <6>1, <6>3, <6>4 DEF Reached
        <5> QED BY <5>1, <5>2
      <4>4. CASE /\ a[s] = "SORTED" /\ Leads(status[s], a[s])
                 /\ \E w, v \in Recorded(batch, k) : w # v /\ ScanOf[w].ship = s
        <5>1. b[s] = a[s] BY <1>3, <1>4, <4>1, <4>4, ScanTargets
        <5> QED BY <1>5, <4>4, <5>1 DEF Reached
      <4> QED BY <4>2, <4>3, <4>4 DEF Reached
    <3> QED BY <3>1, <3>2
  <2> QED BY <2>4, <2>5 DEF b
<1> QED BY <1>6, <1>7

\* a follows the scans of a batch up to the m-th.
Follows(batch, a, m) ==
  /\ a \in [0..m -> Statuses]
  /\ a[0] = status /\ \A k \in 1..m : a[k] = ScanStep(batch, a[k - 1], k)
  /\ \A k \in 0..m, s \in Shipments : Reached(batch, k, s, a[k][s])

LEMMA FollowOn ==
  ASSUME TypeInv, NEW batch \in Batches, NEW m \in Nat, m + 1 <= Len(batch),
         NEW a, Follows(batch, a, m)
  PROVE  \E b : Follows(batch, b, m + 1)
<1> DEFINE next == ScanStep(batch, a[m], m + 1)
           b == [k \in 0..(m + 1) |-> IF k = m + 1 THEN next ELSE a[k]]
<1>1. m \in 0..m /\ m + 1 \in 1..Len(batch)
  <2>1. Len(batch) \in Nat BY DEF TypeInv, InboundAssumption
  <2> QED BY <2>1
<1>2. /\ next \in Statuses /\ \A s \in Shipments : Reached(batch, m + 1, s, next[s])
  <2>1. a[m] \in Statuses /\ \A s \in Shipments : Reached(batch, m, s, a[m][s])
    BY <1>1 DEF Follows
  <2> QED BY <1>1, <2>1, ScanStepReaches
<1>3. b[m + 1] = next /\ \A k \in 0..m : b[k] = a[k] OBVIOUS
<1>4. b \in [0..(m + 1) -> Statuses] BY <1>2 DEF Follows
<1> HIDE DEF b
<1>5. b[0] = status BY <1>3 DEF Follows
<1>6. ASSUME NEW k \in 1..(m + 1) PROVE b[k] = ScanStep(batch, b[k - 1], k)
  <2>1. CASE k = m + 1
    <3>1. k - 1 = m BY <2>1
    <3> QED BY <1>1, <1>3, <2>1, <3>1
  <2>2. CASE k # m + 1
    <3>1. k \in 1..m /\ k \in 0..m /\ k - 1 \in 0..m BY <2>2
    <3> QED BY <1>3, <3>1 DEF Follows
  <2> QED BY <2>1, <2>2
<1>7. ASSUME NEW k \in 0..(m + 1), NEW s \in Shipments PROVE Reached(batch, k, s, b[k][s])
  <2>1. CASE k = m + 1 BY <1>2, <1>3, <2>1
  <2>2. CASE k # m + 1
    <3>1. k \in 0..m BY <2>2
    <3> QED BY <1>3, <3>1 DEF Follows
  <2> QED BY <2>1, <2>2
<1> QED BY <1>4, <1>5, <1>6, <1>7 DEF Follows

LEMMA BatchFollows ==
  ASSUME TypeInv, NEW batch \in Batches
  PROVE  \E a : Follows(batch, a, Len(batch))
<1> DEFINE S == {m \in Nat : m <= Len(batch) => \E a : Follows(batch, a, m)}
<1>1. Len(batch) \in Nat BY DEF TypeInv, InboundAssumption
<1>2. \E a : Follows(batch, a, 0)
  <2> DEFINE a == [k \in 0..0 |-> status]
  <2>1. status \in Statuses BY DEF TypeInv, TypeOK, Statuses
  <2>2. a \in [0..0 -> Statuses] /\ a[0] = status BY <2>1
  <2>3. \A k \in 1..0 : FALSE OBVIOUS
  <2>4. \A k \in 0..0, s \in Shipments : Reached(batch, k, s, a[k][s]) BY DEF Reached
  <2> HIDE DEF a
  <2> QED BY <2>2, <2>3, <2>4 DEF Follows
<1>3. 0 \in S BY <1>2
<1>4. ASSUME NEW m \in S PROVE m + 1 \in S
  <2>1. m \in Nat /\ m + 1 \in Nat /\ (m + 1 <= Len(batch) => m <= Len(batch)) BY <1>1
  <2> QED BY <2>1, FollowOn
<1>5. S \in SUBSET Nat OBVIOUS
<1>6. S = Nat
  <2> HIDE DEF S
  <2> QED BY <1>3, <1>4, <1>5, Induction
<1> QED BY <1>1, <1>6

\* A batch leaves every shipment where its scans may have taken it.
LEMMA BatchReaches ==
  ASSUME TypeInv, NEW batch \in Batches
  PROVE  /\ ScannedBatch(batch) \in Statuses
         /\ \A s \in Shipments : Reached(batch, Len(batch), s, ScannedBatch(batch)[s])
<1> DEFINE Is(a) == a = [k \in 0..Len(batch) |->
                           IF k = 0 THEN status
                           ELSE IF ~New(batch, k) THEN a[k - 1]
                           ELSE [a[k - 1] EXCEPT ![ScanOf[batch[k]].ship]
                                   = Scanned(ScanOf[batch[k]].type, @)]]
           after == CHOOSE a : Is(a)
<1>0. Len(batch) \in Nat BY DEF TypeInv, InboundAssumption
<1>1. ASSUME NEW a
      PROVE  Is(a) <=> a = [k \in 0..Len(batch) |->
                              IF k = 0 THEN status ELSE ScanStep(batch, a[k - 1], k)]
  BY DEF ScanStep
<1>2. \E a : Is(a)
  <2>1. PICK a : Follows(batch, a, Len(batch)) BY BatchFollows
  <2>2. a = [k \in 0..Len(batch) |-> IF k = 0 THEN status ELSE ScanStep(batch, a[k - 1], k)]
    <3>1. \A k \in 0..Len(batch) : k = 0 \/ k \in 1..Len(batch) BY <1>0
    <3>2. a \in [0..Len(batch) -> Statuses] /\ a[0] = status
          /\ \A k \in 1..Len(batch) : a[k] = ScanStep(batch, a[k - 1], k)
      BY <2>1 DEF Follows
    <3> QED BY <3>1, <3>2
  <2> QED BY SMTT(40), <1>1, <2>2
<1>3. Is(after) BY <1>2
<1>4. ScannedBatch(batch) = after[Len(batch)] BY DEF ScannedBatch
<1> HIDE DEF Is, after
<1> DEFINE S == {m \in Nat : m <= Len(batch) =>
                   after[m] \in Statuses /\ \A s \in Shipments : Reached(batch, m, s, after[m][s])}
<1>5. after[0] = status /\ \A k \in 1..Len(batch) : after[k] = ScanStep(batch, after[k - 1], k)
  <2>1. after = [k \in 0..Len(batch) |-> IF k = 0 THEN status ELSE ScanStep(batch, after[k - 1], k)]
    BY <1>1, <1>3
  <2> QED BY <1>0, <2>1
<1>6. 0 \in S BY <1>5 DEF Reached, TypeInv, TypeOK, Statuses
<1>7. ASSUME NEW m \in S PROVE m + 1 \in S
  <2>1. m \in Nat /\ m + 1 \in Nat /\ (m + 1 <= Len(batch) => m <= Len(batch) /\ m + 1 \in 1..Len(batch))
        /\ (m + 1) - 1 = m
    BY <1>0
  <2>2. m + 1 <= Len(batch) => after[m + 1] = ScanStep(batch, after[m], m + 1) BY <1>5, <2>1
  <2> QED BY <2>1, <2>2, ScanStepReaches
<1>8. S \in SUBSET Nat OBVIOUS
<1>9. S = Nat
  <2> HIDE DEF S
  <2> QED BY <1>6, <1>7, <1>8, Induction
<1> QED BY <1>0, <1>4, <1>9

LEMMA BatchEffect ==
  ASSUME TypeInv, NEW batch \in Batches, BatchScan(batch)
  PROVE  /\ TypeInv' /\ UNCHANGED <<item, manifest, hub, border, req, asked, late, excepted, stranded>>
         /\ contended \subseteq contended'
         /\ \A u \in Scans : scanned'[u] \in {1, scanned[u]}
         /\ \A s \in Shipments : status'[s] # status[s] =>
              /\ \A p \in Requests : s \in Touched(req[p]) => s \in contended'
              /\ \/ Allows(status[s], status'[s])
                 \/ Together /\ Leads(status[s], status'[s])
<1> DEFINE fresh == {u \in ToSet(batch) : scanned[u] = 0}
<1>1. batch \in Seq(Scans) /\ Len(batch) \in Nat BY DEF TypeInv, InboundAssumption
<1>2. Recorded(batch, Len(batch)) \subseteq fresh BY <1>1 DEF Recorded, New, ToSet
<1>3. fresh \subseteq Scans BY <1>1 DEF ToSet
<1>4. /\ scanned' = [u \in Scans |-> IF u \in fresh THEN 1 ELSE scanned[u]]
      /\ status' = ScannedBatch(batch)
      /\ contended' = contended \cup ({ScanOf[u].ship : u \in fresh}
                                       \cap UNION {Touched(req[p]) : p \in Requests})
      /\ UNCHANGED <<item, manifest, hub, border, req, asked, late, excepted, stranded>>
  BY DEF BatchScan
<1>5. \A u \in fresh : scanned'[u] = 1 /\ scanned[u] = 0 BY <1>3, <1>4
<1>6. \A u \in Scans : scanned'[u] \in {1, scanned[u]} BY <1>4
<1>7. TypeInv'
  <2>1. status' \in [Shipments -> SHIPMENT_STATUSES] BY <1>4, BatchReaches DEF Statuses
  <2>2. scanned' \in [Scans -> Nat] BY <1>4 DEF TypeInv, TypeOK
  <2>3. contended' \subseteq Shipments
    <3>1. \A u \in fresh : ScanOf[u].ship \in Shipments BY <1>3 DEF TypeInv, InboundAssumption
    <3> HIDE DEF fresh
    <3> QED BY <1>4, <3>1 DEF TypeInv, TypeOK
  <2>4. TypeOK' BY <1>4, <2>1, <2>2, <2>3 DEF TypeInv, TypeOK, hub, border
  <2> QED BY <1>4, <2>4 DEF TypeInv
<1>8. ASSUME NEW s \in Shipments, status'[s] # status[s]
      PROVE  /\ \A p \in Requests : s \in Touched(req[p]) => s \in contended'
             /\ \/ Allows(status[s], status'[s])
                \/ Together /\ Leads(status[s], status'[s])
  <2>1. Reached(batch, Len(batch), s, status'[s]) BY <1>4, BatchReaches
  <2>2. \E u \in fresh : ScanOf[u].ship = s
    BY <1>2, <1>8, <2>1 DEF Reached
  <2>3. \A p \in Requests : s \in Touched(req[p]) => s \in contended'
    <3> HIDE DEF fresh
    <3> QED BY <1>4, <2>2
  <2>4. CASE Allows(status[s], status'[s]) BY <2>3, <2>4
  <2>5. CASE Leads(status[s], status'[s])
             /\ \E u, v \in Recorded(batch, Len(batch)) : u # v /\ ScanOf[u].ship = s
    <3>1. PICK u, v \in fresh : u # v BY <1>2, <2>5
    <3>2. u \in Scans /\ v \in Scans /\ scanned'[u] # scanned[u] /\ scanned'[v] # scanned[v]
      BY <1>3, <1>5, <3>1
    <3>3. Together BY <3>1, <3>2 DEF Together
    <3> QED BY <2>3, <2>5, <3>3
  <2> QED BY <1>8, <2>1, <2>4, <2>5 DEF Reached
<1> QED BY <1>4, <1>6, <1>7, <1>8

-----------------------------------------------------------------------------
(* Requests about the same shipment.                                       *)

\* No request comes to be about a shipment it was not about.
LEMMA OverlapsStay ==
  ASSUME Overlaps, contended \subseteq contended',
         \A p \in Requests : Shipments \cap Touched(req'[p]) \subseteq Touched(req[p])
  PROVE  Overlaps'
<1>1. ASSUME NEW p \in Requests, NEW s \in Shipments
      PROVE  s \in Touched(req[p])' => s \in Touched(req[p])
  BY DEF Touched
<1> QED BY <1>1 DEF Overlaps

LEMMA BeginOverlaps ==
  ASSUME TypeInv, Overlaps, NEW q \in Requests, NEW r, Begin(q, r)
  PROVE  Overlaps' /\ contended \subseteq contended'
<1> DEFINE both == Shipments \cap Touched(r) \cap UNION {Touched(req[p]) : p \in Requests}
<1>1. contended' = contended \cup both BY DEF Begin
<1>2. \A p \in Requests, s \in Shipments :
        s \in Touched(req[p]) /\ s \in Touched(r) => s \in contended'
  BY <1>1
<1> HIDE DEF both
<1>3. req'[q] = r /\ \A p \in Requests : p # q => req'[p] = req[p] BY DEF Begin, TypeInv
<1>4. \A p \in Requests : Touched(req[p])' = IF p = q THEN Touched(r) ELSE Touched(req[p])
  BY <1>3 DEF Touched
<1>5. ASSUME NEW p \in Requests, NEW o \in Requests, p # o, NEW s \in Shipments,
             s \in Touched(req[p])', s \in Touched(req[o])'
      PROVE  s \in contended'
  <2>1. CASE p = q BY <1>2, <1>4, <1>5, <2>1
  <2>2. CASE o = q BY <1>2, <1>4, <1>5, <2>2
  <2>3. CASE p # q /\ o # q BY <1>1, <1>4, <1>5, <2>3 DEF Overlaps
  <2> QED BY <2>1, <2>2, <2>3
<1> QED BY <1>1, <1>5 DEF Overlaps

\* One request goes on as a record that is about no other shipment.
LEMMA GoesOnOverlaps ==
  ASSUME TypeInv, Overlaps, NEW q \in Requests, NEW r, Become(q, r),
         Shipments \cap Touched(r) \subseteq Touched(req[q]), contended \subseteq contended'
  PROVE  Overlaps'
<1>1. req'[q] = r /\ \A p \in Requests : p # q => req'[p] = req[p] BY DEF Become, TypeInv
<1>2. ASSUME NEW p \in Requests
      PROVE  Shipments \cap Touched(req'[p]) \subseteq Touched(req[p])
  <2>1. CASE p = q BY <1>1, <2>1
  <2>2. CASE p # q BY <1>1, <2>2
  <2> QED BY <2>1, <2>2
<1> QED BY <1>2, OverlapsStay

LEMMA IdleTouches ==
  ASSUME TypeInv PROVE Shipments \cap Touched(Idle) = {}
BY DEF TypeInv, InboundAssumption, Touched, Idle

-----------------------------------------------------------------------------
(* What the others rely on.                                                *)

\* A step leaves alone what a request r relies on.
Leaves(r) ==
  /\ contended \subseteq contended' /\ excepted \subseteq excepted' /\ late \subseteq late'
  /\ \A s \in Shipments : s \in Touched(r) /\ s \notin contended' =>
       /\ status'[s] = status[s]
       /\ \A n \in Sessions : Rows(n, s)' = Rows(n, s) /\ missing'[n][s] = missing[n][s]
  /\ \A n \in Sessions, s \in Shipments : Rows(n, s) > 0 => Rows(n, s)' > 0
  /\ r.op = "complete" =>
       \A s \in Shipments : variance'[r.sess][s] > 0 =>
         variance[r.sess][s] > 0 \/ <<r.sess, s>> \in late'

LEMMA OthersRely ==
  ASSUME TypeInv, NEW r \in RequestRecords, Chosen(r), Relies(r), Leaves(r)
  PROVE  Relies(r)'
<1>0. /\ contended \subseteq contended' /\ excepted \subseteq excepted' /\ late \subseteq late'
      /\ Manifest \subseteq Shipments /\ CrossBorder \subseteq Shipments
      /\ \A u \in Scans : ScanOf[u].ship \in Shipments
  BY DEF Leaves, TypeInv, InboundAssumption
<1>1. \A s \in Shipments : s \in Touched(r) /\ s \notin contended' =>
        /\ status'[s] = status[s] /\ s \notin contended
        /\ \A n \in Sessions : Rows(n, s)' = Rows(n, s) /\ missing'[n][s] = missing[n][s]
  BY <1>0 DEF Leaves
<1>2. r.ship \in Touched(r) /\ r.todo \subseteq Touched(r) /\ r.moved \subseteq Touched(r)
  BY DEF Touched
<1>3. MoveStands(r)' BY <1>0, <1>1, <1>2 DEF Relies, MoveStands, Chosen
<1>4. KnownStands(r)' BY <1>0, <1>1, <1>2 DEF Relies, KnownStands, Chosen
<1>5. ReleaseStands(r)' BY <1>0, <1>1, <1>2 DEF Relies, ReleaseStands, Chosen
<1>6. ItemStands(r)'
  <2>1. SUFFICES ASSUME r.op = "unload", r.ship \notin contended'
                 PROVE  Rows(r.sess, r.ship)' = 0 /\ missing'[r.sess][r.ship] = 0
    BY DEF ItemStands
  <2>2. r.sess \in Sessions /\ r.ship \in Shipments BY <2>1 DEF Chosen
  <2>3. Rows(r.sess, r.ship) = 0 /\ missing[r.sess][r.ship] = 0
    BY <1>0, <2>1 DEF Relies, ItemStands
  <2> QED BY <1>1, <1>2, <2>1, <2>2, <2>3
<1>7. Found(r)'
  <2>1. CASE r.op = "complete" /\ r.pc # "find"
    <3>1. r.sess \in Sessions BY <2>1 DEF Chosen
    <3>2. r.lost \subseteq Touched(r) BY <1>2, <2>1 DEF Relies, LostAreMoved
    <3>3. /\ \A s \in Manifest : Rows(r.sess, s) > 0 \/ s \in r.todo \cup r.lost
          /\ \A s \in (r.todo \cup r.lost) \ contended : Rows(r.sess, s) = 0
      BY <2>1 DEF Relies, Found
    <3>4. \A s \in Manifest : Rows(r.sess, s)' > 0 \/ s \in r.todo \cup r.lost
      BY <1>0, <3>1, <3>3 DEF Leaves
    <3>5. r.todo \cup r.lost \subseteq Shipments /\ r.todo \cup r.lost \subseteq Touched(r)
      BY <1>0, <1>2, <3>2 DEF RequestRecords
    <3>6. \A s \in (r.todo \cup r.lost) \ contended' : Rows(r.sess, s)' = 0
      BY <1>1, <3>1, <3>3, <3>5
    <3> QED BY <2>1, <3>4, <3>6 DEF Found
  <2>2. CASE ~(r.op = "complete" /\ r.pc # "find") BY <2>2 DEF Relies, Found
  <2> QED BY <2>1, <2>2
<1>8. LostAreMoved(r)' BY <1>0 DEF Relies, LostAreMoved
<1>9. CleanSoFar(r)' BY <1>0 DEF Leaves, Relies, CleanSoFar
<1> QED BY <1>3, <1>4, <1>5, <1>6, <1>7, <1>8, <1>9 DEF Relies

LEMMA IdleRelies == Relies(Idle)'
BY DEF Relies, MoveStands, KnownStands, ReleaseStands, ItemStands, Found, LostAreMoved, CleanSoFar,
   Idle

-----------------------------------------------------------------------------
(* Sums over the parcels.                                                  *)

\* g gives the sum of f over each subset of S.
IsSum(g, f, S) ==
  g = [T \in SUBSET S |-> IF T = {} THEN 0
                          ELSE LET s == CHOOSE s \in T : TRUE IN f[s] + g[T \ {s}]]

First(T) == CHOOSE s \in T : TRUE

LEMMA FirstOf ==
  ASSUME NEW S, IsFiniteSet(S), NEW T \in SUBSET S, T # {}
  PROVE  /\ First(T) \in T /\ T \ {First(T)} \in SUBSET S
         /\ Cardinality(T) \in Nat /\ Cardinality(T) > 0
         /\ Cardinality(T \ {First(T)}) = Cardinality(T) - 1
<1>1. First(T) \in T BY DEF First
<1>2. IsFiniteSet(T) BY FS_Subset
<1>3. Cardinality(T) \in Nat /\ Cardinality(T \ {First(T)}) = Cardinality(T) - 1
  BY <1>1, <1>2, FS_CardinalityType, FS_RemoveElement
<1>4. Cardinality(T) # 0 BY <1>2, FS_EmptySet
<1> QED BY <1>1, <1>3, <1>4

LEMMA SubsetSizes ==
  ASSUME NEW S, IsFiniteSet(S)
  PROVE  \A T \in SUBSET S : Cardinality(T) \in Nat /\ (Cardinality(T) = 0 <=> T = {})
BY FS_Subset, FS_CardinalityType, FS_EmptySet

LEMMA SumExists ==
  ASSUME NEW S, IsFiniteSet(S), NEW f, \A s \in S : f[s] \in Nat
  PROVE  \E g \in [SUBSET S -> Nat] : IsSum(g, f, S)
<1> DEFINE Upto(k) == {T \in SUBSET S : Cardinality(T) <= k}
           Good(k) == \E g \in [Upto(k) -> Nat] : \A T \in Upto(k) :
                        g[T] = IF T = {} THEN 0 ELSE f[First(T)] + g[T \ {First(T)}]
           A == {k \in Nat : Good(k)}
<1>1. Good(0)
  <2>1. \A T \in Upto(0) : T = {} BY SubsetSizes
  <2> DEFINE g == [T \in Upto(0) |-> 0]
  <2>2. g \in [Upto(0) -> Nat] /\ \A T \in Upto(0) : g[T] = 0 OBVIOUS
  <2> HIDE DEF g
  <2> QED BY <2>1, <2>2
<1>2. ASSUME NEW k \in Nat, Good(k) PROVE Good(k + 1)
  <2>1. PICK g \in [Upto(k) -> Nat] : \A T \in Upto(k) :
               g[T] = IF T = {} THEN 0 ELSE f[First(T)] + g[T \ {First(T)}]
    BY <1>2
  <2> DEFINE h == [T \in Upto(k + 1) |-> IF T = {} THEN 0 ELSE f[First(T)] + g[T \ {First(T)}]]
  <2>2. ASSUME NEW T \in Upto(k + 1), T # {}
        PROVE  /\ First(T) \in S /\ T \ {First(T)} \in Upto(k)
    BY <2>2, FirstOf
  <2>3. h \in [Upto(k + 1) -> Nat]
    <3>1. ASSUME NEW T \in Upto(k + 1), T # {} PROVE f[First(T)] + g[T \ {First(T)}] \in Nat
      <4>1. f[First(T)] \in Nat BY <2>2, <3>1
      <4>2. g[T \ {First(T)}] \in Nat BY <2>1, <2>2, <3>1
      <4> QED BY <4>1, <4>2
    <3> HIDE DEF Upto
    <3> QED BY <3>1
  <2>4. \A T \in Upto(k) : T \in Upto(k + 1) /\ h[T] = g[T]
    <3>1. \A T \in Upto(k) : T \in Upto(k + 1) BY SubsetSizes
    <3> HIDE DEF Upto
    <3> QED BY <2>1, <3>1
  <2>5. ASSUME NEW T \in Upto(k + 1)
        PROVE  h[T] = IF T = {} THEN 0 ELSE f[First(T)] + h[T \ {First(T)}]
    <3> HIDE DEF Upto
    <3>1. h[T] = IF T = {} THEN 0 ELSE f[First(T)] + g[T \ {First(T)}] OBVIOUS
    <3> HIDE DEF h
    <3> QED BY <2>2, <2>4, <3>1
  <2> HIDE DEF h, Upto
  <2> QED BY <2>3, <2>5
<1> HIDE DEF Good
<1>3. A = Nat
  <2>1. A \in SUBSET Nat /\ 0 \in A BY <1>1
  <2>2. ASSUME NEW k \in A PROVE k + 1 \in A
    <3>1. k \in Nat /\ k + 1 \in Nat /\ Good(k) OBVIOUS
    <3> QED BY <1>2, <3>1
  <2> HIDE DEF A
  <2> QED BY <2>1, <2>2, Induction
<1>4. Cardinality(S) \in Nat BY FS_CardinalityType
<1>5. Good(Cardinality(S)) BY <1>3, <1>4
<1>6. Upto(Cardinality(S)) = SUBSET S
  <2>1. \A T \in SUBSET S : Cardinality(T) <= Cardinality(S) BY FS_Subset
  <2> QED BY <2>1
<1>7. PICK g \in [SUBSET S -> Nat] : \A T \in SUBSET S :
               g[T] = IF T = {} THEN 0 ELSE f[First(T)] + g[T \ {First(T)}]
  <2> HIDE DEF Upto
  <2> QED BY <1>5, <1>6 DEF Good
<1>8. IsSum(g, f, S) BY <1>7 DEF IsSum, First
<1> QED BY <1>8

\* The sum of a finite set takes one of its elements after the other.
Sums(g, f, S) ==
  /\ Sum(f, S) = g[S] /\ g[{}] = 0
  /\ \A T \in SUBSET S : T # {} => g[T] = f[First(T)] + g[T \ {First(T)}]

LEMMA SumIs ==
  ASSUME NEW S, IsFiniteSet(S), NEW f, \A s \in S : f[s] \in Nat
  PROVE  \E g : Sums(g, f, S)
<1> DEFINE sum == CHOOSE g : IsSum(g, f, S)
<1>1. IsSum(sum, f, S) BY SumExists
<1>2. Sum(f, S) = sum[S] BY DEF Sum, IsSum
<1> HIDE DEF sum
<1>3. sum[{}] = 0 BY <1>1 DEF IsSum
<1>4. \A T \in SUBSET S : T # {} => sum[T] = f[First(T)] + sum[T \ {First(T)}]
  BY <1>1 DEF IsSum, First
<1> QED BY <1>2, <1>3, <1>4 DEF Sums

\* Where one set of subsets of S has the empty set, and a set with the one that
\* its first element is missing from, it has them all.
LEMMA SubsetInduction ==
  ASSUME NEW S, IsFiniteSet(S), NEW P \in SUBSET SUBSET S, {} \in P,
         \A T \in SUBSET S : T # {} /\ T \ {First(T)} \in P => T \in P
  PROVE  S \in P
<1> DEFINE A == {k \in Nat : \A T \in SUBSET S : Cardinality(T) = k => T \in P}
<1>1. 0 \in A BY SubsetSizes
<1>2. ASSUME NEW k \in A PROVE k + 1 \in A
  <2>1. k \in Nat /\ \A T \in SUBSET S : Cardinality(T) = k => T \in P OBVIOUS
  <2>2. ASSUME NEW T \in SUBSET S, Cardinality(T) = k + 1 PROVE T \in P
    <3>1. T # {} BY <2>1, <2>2, SubsetSizes
    <3>2. T \ {First(T)} \in SUBSET S /\ Cardinality(T \ {First(T)}) = k
      BY <2>1, <2>2, <3>1, FirstOf
    <3> QED BY <2>1, <3>1, <3>2
  <2> QED BY <2>1, <2>2
<1>3. A \in SUBSET Nat OBVIOUS
<1> HIDE DEF A
<1>4. A = Nat BY <1>1, <1>2, <1>3, Induction
<1>5. Cardinality(S) \in Nat BY FS_CardinalityType
<1> QED BY <1>4, <1>5 DEF A

\* A sum is zero when all it adds is.
LEMMA SumZero ==
  ASSUME NEW S, IsFiniteSet(S), NEW f, \A s \in S : f[s] \in Nat
  PROVE  Sum(f, S) \in Nat /\ (Sum(f, S) = 0 <=> \A s \in S : f[s] = 0)
<1>1. PICK g : Sums(g, f, S) BY SumIs
<1> DEFINE P == {T \in SUBSET S : g[T] \in Nat /\ (g[T] = 0 <=> \A s \in T : f[s] = 0)}
<1>2. {} \in P BY <1>1 DEF Sums
<1>3. ASSUME NEW T \in SUBSET S, T # {}, T \ {First(T)} \in P PROVE T \in P
  <2>1. First(T) \in T BY <1>3 DEF First
  <2>2. f[First(T)] \in Nat /\ g[T \ {First(T)}] \in Nat /\ g[T] = f[First(T)] + g[T \ {First(T)}]
    BY <1>1, <1>3, <2>1 DEF Sums
  <2>3. g[T] \in Nat /\ (g[T] = 0 <=> f[First(T)] = 0 /\ g[T \ {First(T)}] = 0) BY <2>2
  <2>4. g[T \ {First(T)}] = 0 <=> \A s \in T \ {First(T)} : f[s] = 0 BY <1>3
  <2> QED BY <2>1, <2>3, <2>4
<1>4. P \in SUBSET SUBSET S OBVIOUS
<1> HIDE DEF P
<1>5. S \in P BY <1>2, <1>3, <1>4, SubsetInduction
<1> QED BY <1>1, <1>5 DEF P, Sums

\* A sum grows by what one of its values grows by.
LEMMA SumGrows ==
  ASSUME NEW S, IsFiniteSet(S), NEW f, NEW h, NEW d \in Nat, NEW e,
         \A s \in S : f[s] \in Nat /\ h[s] = f[s] + (IF s = e THEN d ELSE 0)
  PROVE  Sum(h, S) = Sum(f, S) + (IF e \in S THEN d ELSE 0)
<1>0. \A s \in S : f[s] \in Nat /\ h[s] \in Nat OBVIOUS
<1>1. PICK g : Sums(g, f, S) BY SumIs
<1>2. PICK k : Sums(k, h, S) BY <1>0, SumIs
<1> DEFINE P == {T \in SUBSET S : g[T] \in Nat /\ k[T] = g[T] + (IF e \in T THEN d ELSE 0)}
<1>3. {} \in P BY <1>1, <1>2 DEF Sums
<1>4. ASSUME NEW T \in SUBSET S, T # {}, T \ {First(T)} \in P PROVE T \in P
  <2>1. First(T) \in T BY <1>4 DEF First
  <2>2. f[First(T)] \in Nat /\ g[T \ {First(T)}] \in Nat /\ g[T] = f[First(T)] + g[T \ {First(T)}]
    BY <1>1, <1>4, <2>1 DEF Sums
  <2>3. k[T] = h[First(T)] + k[T \ {First(T)}] BY <1>2, <1>4 DEF Sums
  <2>4. k[T \ {First(T)}] = g[T \ {First(T)}] + (IF e \in T \ {First(T)} THEN d ELSE 0) BY <1>4
  <2>5. CASE First(T) = e
    <3>1. h[First(T)] = f[First(T)] + d BY <2>1, <2>5
    <3>2. k[T \ {First(T)}] = g[T \ {First(T)}] BY <2>2, <2>4, <2>5
    <3>3. k[T] = g[T] + d BY <2>2, <2>3, <3>1, <3>2
    <3> QED BY <2>1, <2>2, <2>5, <3>3
  <2>6. CASE First(T) # e
    <3>1. h[First(T)] = f[First(T)] BY <2>1, <2>2, <2>6
    <3>2. e \in T \ {First(T)} <=> e \in T BY <2>6
    <3>3. k[T] = g[T] + (IF e \in T THEN d ELSE 0) BY <2>2, <2>3, <2>4, <3>1, <3>2
    <3> QED BY <2>2, <3>3
  <2> QED BY <2>5, <2>6
<1>5. P \in SUBSET SUBSET S OBVIOUS
<1> HIDE DEF P
<1>6. S \in P BY <1>3, <1>4, <1>5, SubsetInduction
<1> QED BY <1>1, <1>2, <1>6 DEF P, Sums

-----------------------------------------------------------------------------
(* What every step shares.                                                 *)

LEMMA RowsTyped ==
  ASSUME TypeInv
  PROVE  /\ \A n \in Sessions, s \in Shipments : Rows(n, s) \in Nat
         /\ \A n \in Sessions, s \in Manifest : Rows(n, s) \in Nat
<1>1. Manifest \subseteq Shipments BY DEF TypeInv, InboundAssumption
<1>2. \A n \in Sessions, s \in Shipments : Rows(n, s) \in Nat BY DEF TypeInv, TypeOK, Rows
<1> QED BY <1>1, <1>2

LEMMA ReliesOf ==
  ASSUME NEW q \in Requests, NEW r, req'[q] = r, Relies(r)'
  PROVE  Relies(req[q])'
<1>1. MoveStands(req[q])' BY DEF Relies, MoveStands
<1>2. KnownStands(req[q])' BY DEF Relies, KnownStands
<1>3. ReleaseStands(req[q])' BY DEF Relies, ReleaseStands
<1>4. ItemStands(req[q])' BY DEF Relies, ItemStands, Rows
<1>5. Found(req[q])' BY DEF Relies, Found, Rows
<1>6. LostAreMoved(req[q])' BY DEF Relies, LostAreMoved
<1>7. CleanSoFar(req[q])' BY DEF Relies, CleanSoFar
<1> QED BY <1>1, <1>2, <1>3, <1>4, <1>5, <1>6, <1>7 DEF Relies

LEMMA UntouchedRelies ==
  ASSUME HubInv, NEW p \in Requests, req'[p] = req[p], Leaves(req[p])
  PROVE  Relies(req[p])'
<1>1. req[p] \in RequestRecords /\ Chosen(req[p]) /\ Relies(req[p]) BY DEF HubInv, TypeInv
<1>2. PICK r \in RequestRecords : r = req[p] BY <1>1
<1>3. Chosen(r) /\ Relies(r) /\ Leaves(r) BY <1>1, <1>2
<1>4. Relies(r)' BY <1>3, OthersRely DEF HubInv
<1>5. req'[p] = r BY <1>2
<1> QED BY <1>4, <1>5, ReliesOf

\* One request becomes r; the others rely on nothing that changed.
LEMMA AllRely ==
  ASSUME HubInv, NEW q \in Requests, NEW r, req' = [req EXCEPT ![q] = r], Relies(r)',
         \A p \in Requests : p # q => Leaves(req[p])
  PROVE  \A p \in Requests : Relies(req[p])'
<1>1. req'[q] = r /\ \A p \in Requests : p # q => req'[p] = req[p] BY DEF HubInv, TypeInv
<1>2. ASSUME NEW p \in Requests PROVE Relies(req[p])'
  <2>1. CASE p = q BY <1>1, <2>1, ReliesOf
  <2>2. CASE p # q BY <1>1, <2>2, UntouchedRelies
  <2> QED BY <2>1, <2>2
<1> QED BY <1>2

LEMMA LeavesAlone ==
  ASSUME NEW r, UNCHANGED <<status, hub, late>>, contended \subseteq contended',
         excepted \subseteq excepted'
  PROVE  Leaves(r)
BY DEF Leaves, hub, Rows

\* A step that changes the status of s only.
LEMMA LeavesStatus ==
  ASSUME TypeInv, NEW r, NEW s \in Shipments, UNCHANGED <<hub, late>>,
         \A t \in Shipments : t # s => status'[t] = status[t],
         contended \subseteq contended', excepted \subseteq excepted',
         s \in Touched(r) => s \in contended'
  PROVE  Leaves(r)
BY DEF Leaves, hub, Rows

\* The rows of the sessions did not change.
LEMMA Quiet ==
  ASSUME HubInv, UNCHANGED <<hub, late>>, contended \subseteq contended'
  PROVE  /\ VarianceInv' /\ MissingInv' /\ CountersMatchItems' /\ CountedTwiceOnlyByOverlap'
         /\ AccountedFor' /\ CleanSessionIsClean'
<1>1. UNCHANGED <<session, unload, missing, variance>> /\ late' = late BY DEF hub
<1>2. VarianceInv' BY <1>1 DEF HubInv, VarianceInv, Rows
<1>3. MissingInv' BY <1>1 DEF HubInv, MissingInv, Rows, Closed
<1>4. CountersMatchItems' BY <1>1 DEF HubInv, CountersAgree, CountersMatchItems, Rows
<1>5. CountedTwiceOnlyByOverlap'
  BY <1>1 DEF HubInv, CountersAgree, CountedTwiceOnlyByOverlap, Rows
<1>6. AccountedFor' BY <1>1 DEF HubInv, ReportAgrees, AccountedFor, Rows, Closed
<1>7. CleanSessionIsClean'
  <2>1. CleanSessionIsClean BY DEF HubInv, ReportAgrees
  <2>2. ASSUME NEW n \in Sessions, session'[n].status = "COMPLETED", NEW s \in Shipments
        PROVE  /\ missing'[n][s] > 0 => s \in contended'
               /\ variance'[n][s] > 0 => <<n, s>> \in late'
    <3>1. session[n].status = "COMPLETED" /\ missing'[n][s] = missing[n][s]
          /\ variance'[n][s] = variance[n][s]
      BY <1>1, <2>2
    <3> QED BY <1>1, <2>1, <3>1 DEF CleanSessionIsClean
  <2> QED BY <2>2 DEF CleanSessionIsClean
<1> QED BY <1>2, <1>3, <1>4, <1>5, <1>6, <1>7

\* A completion goes on with what it has moved, or its moves are stranded.
LEMMA ShortagesStay ==
  ASSUME HubInv, UNCHANGED <<missing, excepted>>, stranded \subseteq stranded',
         \A q \in Requests : req[q].op = "complete" =>
           \/ /\ req'[q].op = "complete" /\ req'[q].sess = req[q].sess
              /\ req[q].moved \subseteq req'[q].moved
           \/ req[q].moved \subseteq stranded'
  PROVE  ShortagesAgree'
<1>1. ShortagesAgree BY DEF HubInv, ReportAgrees
<1>2. ASSUME NEW n \in Sessions, NEW s \in Shipments, <<n, s>> \in excepted,
             ~(missing[n][s] > 0), s \notin stranded'
      PROVE  \E q \in Requests : req'[q].op = "complete" /\ req'[q].sess = n /\ s \in req'[q].moved
  <2>1. PICK q \in Requests : req[q].op = "complete" /\ req[q].sess = n /\ s \in req[q].moved
    BY <1>1, <1>2 DEF ShortagesAgree
  <2> QED BY <1>2, <2>1
<1> QED BY <1>1, <1>2 DEF ShortagesAgree

LEMMA ScannedStays ==
  ASSUME HubInv, UNCHANGED scanned PROVE ScannedOnce'
BY DEF HubInv, CountersAgree, ScannedOnce

\* One request goes on as r, about no other shipment; statuses and sessions stay.
LEMMA CalmStep ==
  ASSUME HubInv, NEW q \in Requests, NEW r, Become(q, r), TypeInv',
         Shipments \cap Touched(r) \subseteq Touched(req[q]), Relies(r)',
         UNCHANGED <<status, hub, scanned, contended, late, excepted>>,
         stranded \subseteq stranded',
         req[q].op = "complete" =>
           \/ r.op = "complete" /\ r.sess = req[q].sess /\ req[q].moved \subseteq r.moved
           \/ req[q].moved \subseteq stranded'
  PROVE  HubInv'
<1>1. req' = [req EXCEPT ![q] = r] /\ TypeInv BY DEF Become, HubInv
<1>2. req'[q] = r /\ \A p \in Requests : p # q => req'[p] = req[p] BY <1>1 DEF TypeInv
<1>3. Overlaps' BY GoesOnOverlaps DEF HubInv
<1>4. \A p \in Requests : p # q => Leaves(req[p]) BY LeavesAlone
<1>5. \A p \in Requests : Relies(req[p])' BY <1>1, <1>4, AllRely
<1>6. ShortagesAgree'
  <2>1. \A p \in Requests : req[p].op = "complete" =>
          \/ /\ req'[p].op = "complete" /\ req'[p].sess = req[p].sess
             /\ req[p].moved \subseteq req'[p].moved
          \/ req[p].moved \subseteq stranded'
    BY <1>2
  <2>2. UNCHANGED missing BY DEF hub
  <2> QED BY <2>1, <2>2, ShortagesStay
<1> QED BY <1>3, <1>5, <1>6, Quiet, ScannedStays DEF HubInv, CountersAgree, ReportAgrees

-----------------------------------------------------------------------------
(* One lemma per action.                                                   *)

\* Nothing was wrong with a session whose counters are zero.
LEMMA CountersTell ==
  ASSUME HubInv, NEW n \in Sessions, session[n].damaged = 0, session[n].unexpected = 0,
         NEW s \in Shipments
  PROVE  ~(variance[n][s] > 0)
<1> DEFINE all == [t \in Shipments |-> Rows(n, t)]
           bad == [t \in Shipments |-> unload[n][t].bad]
<1>1. \A t \in Shipments : Rows(n, t) \in Nat /\ unload[n][t].bad \in Nat
  BY DEF HubInv, TypeInv, TypeOK, Rows
<1>2. IsFiniteSet(Shipments) /\ IsFiniteSet(Shipments \ Manifest)
  BY FS_Difference DEF HubInv, TypeInv, InboundAssumption
<1>3. Sum(bad, Shipments) = 0 /\ Sum(all, Shipments \ Manifest) = 0
  BY DEF HubInv, CountersAgree, CountersMatchItems
<1>4. \A t \in Shipments : bad[t] = unload[n][t].bad /\ all[t] = Rows(n, t) OBVIOUS
<1> HIDE DEF all, bad
<1>5. \A t \in Shipments : bad[t] = 0 BY <1>1, <1>2, <1>3, <1>4, SumZero
<1>6. \A t \in Shipments \ Manifest : all[t] = 0 BY <1>1, <1>2, <1>3, <1>4, SumZero
<1>7. ~(unload[n][s].bad > 0) /\ (s \notin Manifest => ~(Rows(n, s) > 0)) BY SMTT(40), <1>4, <1>5, <1>6
<1> QED BY <1>7 DEF HubInv, VarianceInv

LEMMA BeginningRelies ==
  ASSUME HubInv, NEW r, Beginning(r), UNCHANGED <<status, hub, late>>, contended \subseteq contended'
  PROVE  Relies(r)'
<1>1. UNCHANGED <<session, unload, missing, variance>> BY DEF hub
<1>2. CASE \E u \in Scans :
       r = [Idle EXCEPT !.op = "scan", !.pc = "commit", !.scan = u, !.ship = ScanOf[u].ship,
                        !.known = status[ScanOf[u].ship]]
  <2>1. r.op = "scan" /\ r.pc = "commit" /\ r.known = status[r.ship] BY <1>2 DEF Idle
  <2> QED BY <2>1 DEF Relies, MoveStands, KnownStands, ReleaseStands, ItemStands, Found, LostAreMoved,
                      CleanSoFar
<1>3. CASE r.op \in {"sort", "staff", "receipt", "hold"} /\ r.pc \in {"check", "items"}
  BY <1>3 DEF Relies, MoveStands, KnownStands, ReleaseStands, ItemStands, Found, LostAreMoved,
     CleanSoFar
<1>4. CASE \E n \in Sessions, s \in Shipments, good \in BOOLEAN :
       /\ session[n].status = "IN_PROGRESS" /\ Rows(n, s) = 0
       /\ r = [Idle EXCEPT !.op = "unload", !.pc = "commit", !.sess = n, !.ship = s, !.good = good]
  <2>1. PICK n \in Sessions, s \in Shipments :
          /\ session[n].status = "IN_PROGRESS" /\ Rows(n, s) = 0
          /\ r.op = "unload" /\ r.pc = "commit" /\ r.sess = n /\ r.ship = s
    BY <1>4 DEF Idle
  <2>2. ~(missing[n][s] > 0) BY <2>1 DEF HubInv, MissingInv, Closed
  <2>3. missing[n][s] \in Nat BY DEF HubInv, TypeInv, TypeOK
  <2>4. missing'[n][s] = 0 /\ Rows(n, s)' = 0 BY <1>1, <2>1, <2>2, <2>3 DEF Rows
  <2>5. ItemStands(r)' BY <2>1, <2>4 DEF ItemStands
  <2> QED BY <2>1, <2>5 DEF Relies, MoveStands, KnownStands, ReleaseStands, Found, LostAreMoved,
                            CleanSoFar
<1>5. CASE \E n \in Sessions :
       r = [Idle EXCEPT !.op = "complete", !.pc = "find", !.sess = n, !.todo = Manifest,
                        !.flagged = session[n].damaged > 0 \/ session[n].unexpected > 0]
  <2>1. PICK n \in Sessions :
          /\ r.op = "complete" /\ r.pc = "find" /\ r.sess = n /\ r.todo = Manifest
          /\ r.lost = {} /\ r.moved = {}
          /\ r.flagged = (session[n].damaged > 0 \/ session[n].unexpected > 0)
    BY <1>5 DEF Idle
  <2>2. session[n].damaged \in Nat /\ session[n].unexpected \in Nat BY DEF HubInv, TypeInv, TypeOK
  <2>3. ~r.flagged => session[n].damaged = 0 /\ session[n].unexpected = 0
    <3>1. ~r.flagged => ~(session[n].damaged > 0 \/ session[n].unexpected > 0) BY <2>1, Zenon
    <3> QED BY <2>2, <3>1
  <2>4. ~r.flagged => \A s \in Shipments : ~(variance'[n][s] > 0) BY <1>1, <2>3, CountersTell
  <2>5. CleanSoFar(r)' BY <2>1, <2>4 DEF CleanSoFar
  <2>6. Found(r)' BY <2>1 DEF Found
  <2>7. LostAreMoved(r)' BY <2>1 DEF LostAreMoved
  <2> QED BY <2>1, <2>5, <2>6, <2>7 DEF Relies, MoveStands, KnownStands, ReleaseStands, ItemStands
<1>6. CASE \E s \in CrossBorder :
       r = [Idle EXCEPT !.op = "release", !.ship = s, !.aim = "IN_TRANSIT",
                        !.pc = IF status[s] = "ON_HOLD" THEN "check" ELSE "commit"]
  <2>1. PICK s \in CrossBorder :
          /\ r.op = "release" /\ r.aim = "IN_TRANSIT" /\ r.ship = s /\ r.pc \in {"check", "commit"}
          /\ r.pc = "commit" => status[s] # "ON_HOLD"
    BY <1>6 DEF Idle
  <2>2. ReleaseStands(r)' BY <2>1 DEF ReleaseStands
  <2> QED BY <2>1, <2>2 DEF Relies, MoveStands, KnownStands, ItemStands, Found, LostAreMoved, CleanSoFar
<1> QED
  <2>1. \/ \E s \in Outbound :
             r = [Idle EXCEPT !.op = "sort", !.pc = "check", !.ship = s, !.aim = "SORTED"]
        \/ \E s \in Shipments, aim \in StaffTargets :
             r = [Idle EXCEPT !.op = "staff", !.pc = "check", !.ship = s, !.aim = aim]
        \/ \E received \in SUBSET Manifest :
             r = [Idle EXCEPT !.op = "receipt", !.pc = "items", !.todo = Manifest, !.recv = received,
                              !.lost = {s \in Manifest : status[s] = "EXCEPTION"}]
        \/ \E s \in CrossBorder :
             r = [Idle EXCEPT !.op = "hold", !.pc = "check", !.ship = s, !.aim = "ON_HOLD"]
        => r.op \in {"sort", "staff", "receipt", "hold"} /\ r.pc \in {"check", "items"}
    BY DEF Idle
  <2> QED BY <1>2, <1>3, <1>4, <1>5, <1>6, <2>1 DEF Beginning

LEMMA AskStep ==
  ASSUME HubInv, NEW q \in Requests, Ask(q)
  PROVE  HubInv'
<1>1. PICK r : Beginning(r) /\ Begin(q, r) BY AskBegins
<1>2. TypeInv' BY <1>1, BeginningTyped, BeginTyped DEF HubInv
<1>3. Overlaps' /\ contended \subseteq contended' BY <1>1, BeginOverlaps DEF HubInv
<1>4. /\ UNCHANGED <<status, hub, scanned, late, excepted, stranded>>
      /\ req[q] = Idle /\ req' = [req EXCEPT ![q] = r]
  BY <1>1 DEF Begin, rows
<1>5. Relies(r)' BY <1>1, <1>3, <1>4, BeginningRelies
<1>6. \A p \in Requests : p # q => Leaves(req[p]) BY <1>3, <1>4, LeavesAlone
<1>7. \A p \in Requests : Relies(req[p])' BY <1>4, <1>5, <1>6, AllRely
<1>8. ShortagesAgree'
  <2>1. req[q].op # "complete" BY <1>4 DEF Idle
  <2>2. \A p \in Requests : req[p].op = "complete" => req'[p] = req[p]
    BY <1>4, <2>1 DEF HubInv, TypeInv
  <2>3. UNCHANGED missing BY <1>4 DEF hub
  <2> QED BY <1>4, <2>2, <2>3, ShortagesStay
<1> QED BY <1>2, <1>3, <1>4, <1>7, <1>8, Quiet, ScannedStays DEF HubInv, CountersAgree, ReportAgrees

\* A request ends where nothing but the manifest, the items and customs change.
LEMMA EndStep ==
  ASSUME HubInv, NEW q \in Requests, End(q), TypeInv', req[q].op # "complete",
         UNCHANGED <<status, hub, scanned, history>>
  PROVE  HubInv'
<1>1. Shipments \cap Touched(Idle) \subseteq Touched(req[q]) BY IdleTouches DEF HubInv
<1>2. UNCHANGED <<contended, late, excepted, stranded>> BY DEF history
<1> QED BY <1>1, <1>2, IdleRelies, CalmStep DEF End

LEMMA RollBackStep ==
  ASSUME HubInv, NEW q \in Requests, RollBack(q), UNCHANGED <<status, rows>>
  PROVE  HubInv'
<1>1. Shipments \cap Touched(Idle) \subseteq Touched(req[q]) BY IdleTouches DEF HubInv
<1>2. TypeInv' BY RollBackTyped DEF HubInv
<1>3. Become(q, Idle) /\ UNCHANGED <<hub, scanned, contended, late, excepted>>
      /\ stranded' = stranded \cup req[q].moved
  BY DEF RollBack, End, rows
<1> QED BY <1>1, <1>2, <1>3, IdleRelies, CalmStep

LEMMA CheckStep ==
  ASSUME HubInv, NEW q \in Requests, CheckTransition(q)
  PROVE  HubInv'
<1>1. CASE RollBack(q) BY <1>1, RollBackStep DEF CheckTransition
<1>2. CASE ~RollBack(q)
  <2>1. PICK pc \in {"move", "commit"} :
          /\ Goto(q, pc)
          /\ pc = "commit" => req[q].op = "hold"
          /\ pc = "move" => Allows(status[req[q].ship], req[q].aim)
    BY <1>2 DEF CheckTransition
  <2>2. TypeInv' /\ req[q].pc = "check" BY CheckTyped DEF HubInv, CheckTransition
  <2>3. UNCHANGED <<status, hub, scanned, contended, late, excepted, stranded>>
    BY <1>2 DEF CheckTransition, rows, history
  <2>4. UNCHANGED <<session, unload, missing, variance>> BY <2>3 DEF hub
  <2>5. PICK old \in RequestRecords : old = req[q] BY DEF HubInv, TypeInv
  <2>6. PICK r : r = [old EXCEPT !.pc = pc] OBVIOUS
  <2>7. /\ r.op = old.op /\ r.ship = old.ship /\ r.todo = old.todo /\ r.moved = old.moved
        /\ r.lost = old.lost /\ r.sess = old.sess /\ r.flagged = old.flagged /\ r.aim = old.aim
        /\ r.pc = pc
    BY <2>6 DEF RequestRecords
  <2>8. Become(q, r) BY <2>1, <2>5, <2>6 DEF Goto
  <2>9. Chosen(old) /\ Relies(old) /\ old.pc = "check" BY <2>2, <2>5 DEF HubInv, TypeInv
  <2>10. Relies(r)'
    <3>1. MoveStands(r)' BY <2>1, <2>3, <2>5, <2>7 DEF MoveStands
    <3>2. KnownStands(r)' BY <2>7, <2>9 DEF KnownStands, Chosen
    <3>3. ReleaseStands(r)' BY <2>1, <2>5, <2>7, <2>9 DEF Relies, ReleaseStands
    <3>4. ItemStands(r)' BY <2>7, <2>9 DEF ItemStands, Chosen
    <3>5. Found(r)' BY <2>3, <2>4, <2>7, <2>9 DEF Relies, Found, Rows
    <3>6. LostAreMoved(r)' BY <2>1, <2>3, <2>5, <2>7, <2>9 DEF Relies, LostAreMoved
    <3>7. CleanSoFar(r)' BY <2>3, <2>4, <2>7, <2>9 DEF Relies, CleanSoFar
    <3> QED BY <3>1, <3>2, <3>3, <3>4, <3>5, <3>6, <3>7 DEF Relies
  <2>11. Touched(r) = Touched(req[q]) BY <2>5, <2>7 DEF Touched
  <2> QED BY <2>2, <2>3, <2>5, <2>7, <2>8, <2>10, <2>11, CalmStep
<1> QED BY <1>1, <1>2

LEMMA FindStep ==
  ASSUME HubInv, NEW q \in Requests, FindMissing(q)
  PROVE  HubInv'
<1>1. /\ TypeInv' /\ req[q].op = "complete" /\ req[q].pc = "find" /\ req[q].sess \in Sessions
      /\ UNCHANGED <<status, rows, history>>
      /\ Become(q, [req[q] EXCEPT !.pc = "items", !.todo = {s \in Manifest : Rows(req[q].sess, s) = 0}])
  BY FindEffect DEF HubInv
<1>2. UNCHANGED <<hub, scanned, contended, late, excepted, stranded, session, unload, missing, variance>>
  BY <1>1 DEF rows, history, hub
<1>3. PICK old \in RequestRecords : old = req[q] BY DEF HubInv, TypeInv
<1>4. PICK t \in SUBSET Manifest : t = {s \in Manifest : Rows(req[q].sess, s) = 0} OBVIOUS
<1>5. PICK r : r = [old EXCEPT !.pc = "items", !.todo = t] OBVIOUS
<1>6. /\ r.op = "complete" /\ r.pc = "items" /\ r.todo = t /\ r.moved = old.moved /\ r.ship = old.ship
      /\ r.lost = old.lost /\ r.sess = old.sess /\ r.flagged = old.flagged
  BY <1>1, <1>3, <1>5 DEF RequestRecords
<1>7. Become(q, r) BY <1>1, <1>3, <1>4, <1>5
<1>8. Relies(old) BY <1>3 DEF HubInv
<1>9. old.todo = Manifest /\ old.lost = {} /\ old.sess \in Sessions /\ old.op = "complete" /\ old.pc = "find"
  BY <1>1, <1>3, <1>8 DEF Relies, Found, LostAreMoved
<1>10. Touched(r) \subseteq Touched(req[q]) BY <1>3, <1>6, <1>9 DEF Touched
<1>11. Found(r)'
  <2>1. \A s \in Manifest : Rows(r.sess, s)' \in Nat /\ Rows(r.sess, s)' = Rows(req[q].sess, s)
    <3>1. \A s \in Manifest : Rows(req[q].sess, s) \in Nat BY <1>1, RowsTyped DEF HubInv
    <3>2. r.sess = req[q].sess /\ unload' = unload BY <1>2, <1>3, <1>6
    <3>3. \A s \in Manifest : Rows(r.sess, s)' = Rows(req[q].sess, s) BY <3>2 DEF Rows
    <3> QED BY <3>1, <3>3
  <2>2. \A s \in Manifest : s \in t <=> Rows(r.sess, s)' = 0 BY <1>4, <2>1
  <2>3. \A s \in Manifest : Rows(r.sess, s)' > 0 \/ s \in r.todo \cup r.lost BY <1>6, <2>1, <2>2
  <2>4. \A s \in (r.todo \cup r.lost) \ contended' : Rows(r.sess, s)' = 0 BY <1>6, <1>9, <2>2
  <2> QED BY <1>6, <2>3, <2>4 DEF Found
<1>12. LostAreMoved(r)' BY <1>2, <1>6, <1>8, <1>9 DEF Relies, LostAreMoved
<1>13. CleanSoFar(r)' BY <1>2, <1>6, <1>8, <1>9 DEF Relies, CleanSoFar
<1>14. Relies(r)'
  BY <1>6, <1>11, <1>12, <1>13 DEF Relies, MoveStands, KnownStands, ReleaseStands, ItemStands
<1> QED BY <1>1, <1>2, <1>3, <1>6, <1>7, <1>10, <1>14, CalmStep

LEMMA NextMissingStep ==
  ASSUME HubInv, NEW q \in Requests, NEW s \in Manifest, NextMissing(q, s)
  PROVE  HubInv'
<1>1. /\ TypeInv' /\ req[q].op = "complete" /\ req[q].pc = "items" /\ req[q].sess \in Sessions
      /\ s \in req[q].todo /\ UNCHANGED <<status, rows, history>>
      /\ Become(q, [req[q] EXCEPT !.pc = "check", !.ship = s, !.aim = "EXCEPTION",
                                  !.todo = req[q].todo \ {s}, !.lost = req[q].lost \cup {s}])
  BY NextMissingEffect DEF HubInv
<1>2. UNCHANGED <<hub, scanned, contended, late, excepted, stranded, session, unload, missing, variance>>
  BY <1>1 DEF rows, history, hub
<1>3. PICK old \in RequestRecords : old = req[q] BY DEF HubInv, TypeInv
<1>4. PICK r : r = [old EXCEPT !.pc = "check", !.ship = s, !.aim = "EXCEPTION",
                               !.todo = old.todo \ {s}, !.lost = old.lost \cup {s}]
  OBVIOUS
<1>5. /\ r.op = "complete" /\ r.pc = "check" /\ r.ship = s /\ r.todo = old.todo \ {s}
      /\ r.lost = old.lost \cup {s} /\ r.moved = old.moved
      /\ r.sess = old.sess /\ r.flagged = old.flagged
  BY <1>1, <1>3, <1>4 DEF RequestRecords
<1>6. Become(q, r) BY <1>1, <1>3, <1>4
<1>7. Relies(old) /\ old.op = "complete" /\ old.pc = "items" /\ s \in old.todo BY <1>1, <1>3 DEF HubInv
<1>8. Touched(r) \subseteq Touched(req[q]) BY <1>3, <1>5, <1>7 DEF Touched
<1>9. r.todo \cup r.lost = old.todo \cup old.lost BY <1>5, <1>7
<1>10. Found(r)' BY <1>2, <1>5, <1>7, <1>9 DEF Relies, Found, Rows
<1>11. LostAreMoved(r)' BY <1>2, <1>5, <1>7 DEF Relies, LostAreMoved
<1>12. CleanSoFar(r)' BY <1>2, <1>5, <1>7 DEF Relies, CleanSoFar
<1>13. Relies(r)'
  BY <1>5, <1>10, <1>11, <1>12 DEF Relies, MoveStands, KnownStands, ReleaseStands, ItemStands
<1> QED BY <1>1, <1>2, <1>3, <1>5, <1>6, <1>8, <1>13, CalmStep

LEMMA NextReceivedStep ==
  ASSUME HubInv, NEW q \in Requests, NEW s \in Manifest, NextReceived(q, s)
  PROVE  HubInv'
<1>1. /\ TypeInv' /\ req[q].op = "receipt" /\ req[q].pc = "items"
      /\ s \in req[q].todo /\ UNCHANGED <<status, rows, history>>
      /\ Become(q, Receives(req[q], s))
  BY NextReceivedEffect DEF HubInv
<1>2. UNCHANGED <<hub, scanned, contended, late, excepted, stranded>>
  BY <1>1 DEF rows, history
<1>3. PICK old \in RequestRecords : old = req[q] BY DEF HubInv, TypeInv
<1>4. PICK r : r = Receives(old, s) OBVIOUS
<1>5. /\ r.op = "receipt" /\ r.pc \in {"items", "check"} /\ r.ship = s /\ r.todo = old.todo \ {s}
      /\ r.moved = old.moved
  BY <1>1, <1>3, <1>4 DEF Receives, RequestRecords
<1>6. Become(q, r) BY <1>1, <1>3, <1>4
<1>7. Touched(r) \subseteq Touched(req[q]) BY <1>1, <1>3, <1>5 DEF Touched
<1>8. Relies(r)'
  BY <1>5 DEF Relies, MoveStands, KnownStands, ReleaseStands, ItemStands, Found, LostAreMoved,
     CleanSoFar
<1> QED BY <1>1, <1>2, <1>6, <1>7, <1>8, CalmStep

\* Another request that is about the shipment of q has contended for it.
LEMMA SharedIsContended ==
  ASSUME HubInv, NEW q \in Requests, NEW p \in Requests, p # q, NEW s \in Shipments,
         s \in Touched(req[q]), s \in Touched(req[p])
  PROVE  s \in contended
BY DEF HubInv, Overlaps

\* A request goes on as r and the shipment it is about has a new status.
LEMMA StatusStep ==
  ASSUME HubInv, NEW q \in Requests, NEW r, Become(q, r), TypeInv',
         NEW s \in Shipments, s \in Touched(req[q]),
         \A t \in Shipments : t # s => status'[t] = status[t],
         UNCHANGED <<hub, late, contended>>, excepted \subseteq excepted',
         Shipments \cap Touched(r) \subseteq Touched(req[q]), Relies(r)',
         ScannedOnce', ShortagesAgree'
  PROVE  HubInv'
<1>1. req' = [req EXCEPT ![q] = r] BY DEF Become
<1>2. Overlaps' BY GoesOnOverlaps DEF HubInv
<1>3. ASSUME NEW p \in Requests, p # q PROVE Leaves(req[p])
  <2>1. s \in Touched(req[p]) => s \in contended' BY <1>3, SharedIsContended
  <2> QED BY <2>1, LeavesStatus DEF HubInv
<1>4. \A p \in Requests : Relies(req[p])' BY <1>1, <1>3, AllRely
<1> QED BY <1>2, <1>4, Quiet DEF HubInv, CountersAgree, ReportAgrees

\* What a request relies on once it has moved its shipment.
LEMMA MovedRelies ==
  ASSUME HubInv, NEW q \in Requests, MoveShipment(q), NEW old \in RequestRecords, old = req[q]
  PROVE  Relies(Moved(old))' /\ Shipments \cap Touched(Moved(old)) \subseteq Touched(old)
<1>1. /\ old.ship \in Shipments /\ old.pc = "move"
      /\ status' = [status EXCEPT ![old.ship] = old.aim]
      /\ UNCHANGED <<rows, contended, late>>
      /\ excepted' = excepted \cup (IF old.op = "complete" THEN {<<old.sess, old.ship>>} ELSE {})
  BY MoveEffect DEF HubInv
<1>2. UNCHANGED <<session, unload, missing, variance>> BY <1>1 DEF rows, hub
<1>3. PICK r : r = Moved(old) OBVIOUS
<1>4. PICK m : m = old.moved \cup {old.ship} OBVIOUS
<1>5. Relies(old) /\ Chosen(old) BY DEF HubInv, TypeInv
<1>6. CASE old.op \in {"staff", "sort"}
  <2>1. r = Idle BY <1>3, <1>6 DEF Moved
  <2>2. Relies(r)'
    BY <2>1 DEF Relies, MoveStands, KnownStands, ReleaseStands, ItemStands, Found, LostAreMoved,
       CleanSoFar,
                Idle
  <2>3. Shipments \cap Touched(r) \subseteq Touched(old) BY <2>1, IdleTouches DEF HubInv
  <2> QED BY <1>3, <2>2, <2>3 DEF Relies, MoveStands, KnownStands, ReleaseStands, ItemStands, Found,
                                  LostAreMoved, CleanSoFar, Rows
<1>7. CASE old.op \notin {"staff", "sort"}
  <2>1. /\ r.op = old.op /\ r.ship = old.ship /\ r.moved = m /\ r.todo = old.todo /\ r.lost = old.lost
        /\ r.sess = old.sess /\ r.flagged = old.flagged /\ r.aim = old.aim
        /\ r.pc = IF old.op \in {"complete", "receipt"} THEN "items" ELSE "commit"
    BY <1>3, <1>4, <1>7 DEF Moved, RequestRecords
  <2>2. Touched(r) = Touched(old) BY <1>4, <2>1 DEF Touched
  <2>3. MoveStands(r)' /\ KnownStands(r)' /\ ItemStands(r)'
    BY <1>1, <1>5, <2>1 DEF MoveStands, KnownStands, ItemStands, Chosen
  <2>4. ReleaseStands(r)'
    <3>1. old.op = "release" => status'[r.ship] = "IN_TRANSIT" /\ r.aim = "IN_TRANSIT"
      BY <1>1, <1>5, <2>1 DEF Relies, ReleaseStands, HubInv, TypeInv, TypeOK
    <3> QED BY <2>1, <3>1 DEF ReleaseStands
  <2>5. Found(r)' BY <1>1, <1>2, <1>5, <2>1 DEF Relies, Found, Rows
  <2>6. LostAreMoved(r)'
    <3>1. SUFFICES ASSUME old.op = "complete" PROVE LostAreMoved(r)' BY <2>1 DEF LostAreMoved
    <3>2. old.moved \subseteq old.lost /\ old.lost \subseteq m /\ m \subseteq old.lost
      BY <1>1, <1>4, <1>5, <3>1 DEF Relies, LostAreMoved
    <3>3. \A s \in m : <<old.sess, s>> \in excepted'
      BY <1>1, <1>4, <1>5, <3>1 DEF Relies, LostAreMoved
    <3> QED BY <2>1, <3>1, <3>2, <3>3 DEF LostAreMoved
  <2>7. CleanSoFar(r)' BY <1>1, <1>2, <1>5, <2>1 DEF Relies, CleanSoFar
  <2>8. Relies(r)' BY <2>3, <2>4, <2>5, <2>6, <2>7 DEF Relies
  <2> QED BY <1>3, <2>2, <2>8
<1> QED BY <1>6, <1>7

LEMMA MoveStep ==
  ASSUME HubInv, NEW q \in Requests, MoveShipment(q)
  PROVE  HubInv'
<1>1. /\ TypeInv' /\ req[q].ship \in Shipments /\ req[q].pc = "move"
      /\ status' = [status EXCEPT ![req[q].ship] = req[q].aim]
      /\ Become(q, Moved(req[q])) /\ UNCHANGED <<rows, contended, late, stranded>>
      /\ excepted' = excepted \cup
           (IF req[q].op = "complete" THEN {<<req[q].sess, req[q].ship>>} ELSE {})
  BY MoveEffect DEF HubInv
<1>2. PICK old \in RequestRecords : old = req[q] BY DEF HubInv, TypeInv
<1>3. PICK r : r = Moved(old) OBVIOUS
<1>4. Relies(r)' /\ Shipments \cap Touched(r) \subseteq Touched(req[q])
  BY <1>2, <1>3, MovedRelies
<1>5. UNCHANGED <<hub, scanned, missing>> /\ excepted \subseteq excepted'
  BY <1>1 DEF rows, hub
<1>6. ScannedOnce' BY <1>5, ScannedStays
<1>7. \A t \in Shipments : t # old.ship => status'[t] = status[t]
  BY <1>1, <1>2 DEF HubInv, TypeInv, TypeOK
<1>8. Become(q, r) /\ req'[q] = r /\ \A p \in Requests : p # q => req'[p] = req[p]
  BY <1>1, <1>2, <1>3 DEF Become, HubInv, TypeInv
<1>9. ShortagesAgree'
  <2>1. ShortagesAgree BY DEF HubInv, ReportAgrees
  <2>2. old.op = "complete" =>
          r.op = "complete" /\ r.sess = old.sess /\ r.moved = old.moved \cup {old.ship}
    BY <1>3 DEF Moved, RequestRecords
  <2>3. ASSUME NEW n \in Sessions, NEW s \in Shipments, <<n, s>> \in excepted'
        PROVE  \/ missing'[n][s] > 0 \/ s \in stranded'
               \/ \E p \in Requests : req'[p].op = "complete" /\ req'[p].sess = n /\ s \in req'[p].moved
    <3>1. CASE <<n, s>> \in excepted
      <4>1. \/ missing[n][s] > 0 \/ s \in stranded
            \/ \E p \in Requests : req[p].op = "complete" /\ req[p].sess = n /\ s \in req[p].moved
        BY <2>1, <3>1 DEF ShortagesAgree
      <4>2. ASSUME NEW p \in Requests, req[p].op = "complete", req[p].sess = n, s \in req[p].moved
            PROVE  req'[p].op = "complete" /\ req'[p].sess = n /\ s \in req'[p].moved
        <5>1. CASE p = q BY <1>2, <1>8, <2>2, <4>2, <5>1
        <5>2. CASE p # q BY <1>8, <4>2, <5>2
        <5> QED BY <5>1, <5>2
      <4> QED BY <1>1, <1>5, <4>1, <4>2
    <3>2. CASE <<n, s>> \notin excepted
      <4>1. old.op = "complete" /\ n = old.sess /\ s = old.ship BY <1>1, <1>2, <2>3, <3>2
      <4> QED BY <1>8, <2>2, <4>1
    <3> QED BY <3>1, <3>2
  <2>4. \A n \in Sessions, s \in Shipments : missing'[n][s] > 0 => <<n, s>> \in excepted'
    BY <1>5, <2>1 DEF ShortagesAgree
  <2> QED BY <2>3, <2>4 DEF ShortagesAgree
<1>10. old.ship \in Touched(req[q]) /\ old.ship \in Shipments BY <1>1, <1>2 DEF Touched
<1> QED BY <1>1, <1>4, <1>5, <1>6, <1>7, <1>8, <1>9, <1>10, StatusStep

LEMMA CommitScanStep ==
  ASSUME HubInv, NEW q \in Requests, CommitScan(q)
  PROVE  HubInv'
<1> DEFINE s == req[q].ship
<1>1. /\ TypeInv' /\ req[q].op = "scan" /\ s \in Shipments
      /\ \/ UNCHANGED status
         \/ status' = [status EXCEPT ![s] = Scanned(ScanOf[req[q].scan].type, req[q].known)]
      /\ scanned' = scanned \/ scanned' = [scanned EXCEPT ![req[q].scan] = 1]
      /\ End(q) /\ UNCHANGED <<hub, history>>
  BY ScanEffect DEF HubInv
<1>2. \A t \in Shipments : t # s => status'[t] = status[t] BY <1>1 DEF HubInv, TypeInv, TypeOK
<1>3. s \in Touched(req[q]) BY DEF Touched
<1> HIDE DEF s
<1>4. ScannedOnce'
  <2>1. ScannedOnce /\ scanned \in [Scans -> Nat]
    BY DEF HubInv, CountersAgree, TypeInv, TypeOK
  <2> QED BY <1>1, <2>1 DEF ScannedOnce
<1>5. UNCHANGED <<contended, late, excepted, stranded, missing>> BY <1>1 DEF history, hub
<1>6. ShortagesAgree'
  <2>1. \A p \in Requests : req[p].op = "complete" => req'[p] = req[p]
    BY <1>1 DEF End, Become, HubInv, TypeInv
  <2> QED BY <1>5, <2>1, ShortagesStay
<1>7. Shipments \cap Touched(Idle) \subseteq Touched(req[q]) BY IdleTouches DEF HubInv
<1>8. Become(q, Idle) BY <1>1 DEF End
<1> QED BY <1>1, <1>2, <1>3, <1>4, <1>5, <1>6, <1>7, <1>8, IdleRelies, StatusStep

\* What a scan into a session counts.
LEMMA ItemRows ==
  ASSUME TypeInv, NEW q \in Requests, CommitItem(q), NEW n, n = req[q].sess, NEW s, s = req[q].ship,
         NEW good, good = req[q].good
  PROVE  /\ \A m \in Sessions, t \in Shipments : m # n \/ t # s =>
              unload'[m][t] = unload[m][t] /\ variance'[m][t] = variance[m][t]
         /\ unload'[n][s].good = unload[n][s].good + One(good)
         /\ unload'[n][s].bad = unload[n][s].bad + One(~good)
         /\ variance'[n][s] = variance[n][s] + One(~good \/ s \notin Manifest)
         /\ \A m \in Sessions : m # n => session'[m] = session[m]
         /\ session'[n] = Count(session[n], good, s \in Manifest)
         /\ \A t \in Shipments : t # s => status'[t] = status[t]
         /\ late' = late \cup
              (IF Completing(n) \/ session[n].status # "IN_PROGRESS" THEN {<<n, s>>} ELSE {})
         /\ UNCHANGED <<item, manifest, missing, scanned, border, contended, excepted, stranded>>
<1>1. n \in Sessions /\ s \in Shipments BY ItemEffect
<1>2. PICK x : x = [good |-> unload[n][s].good + One(good), bad |-> unload[n][s].bad + One(~good)]
  OBVIOUS
<1>3. unload' = [unload EXCEPT ![n][s] = x] BY <1>2 DEF CommitItem
<1>4. unload'[n][s] = x /\ \A m \in Sessions, t \in Shipments :
        m # n \/ t # s => unload'[m][t] = unload[m][t]
  BY <1>1, <1>3 DEF TypeInv, TypeOK
<1>5. PICK v : v = variance[n][s] + One(~good \/ s \notin Manifest) OBVIOUS
<1>6. variance' = [variance EXCEPT ![n][s] = v] BY <1>5 DEF CommitItem
<1>7. variance'[n][s] = v /\ \A m \in Sessions, t \in Shipments :
        m # n \/ t # s => variance'[m][t] = variance[m][t]
  BY <1>1, <1>6 DEF TypeInv, TypeOK
<1>8. PICK c : c = Count(session[n], good, s \in Manifest) OBVIOUS
<1>9. session' = [session EXCEPT ![n] = c] BY <1>8 DEF CommitItem
<1>10. session'[n] = c /\ \A m \in Sessions : m # n => session'[m] = session[m]
  BY <1>1, <1>9 DEF TypeInv, TypeOK
<1>11. status' = [status EXCEPT ![s] = "AT_HUB"] BY DEF CommitItem
<1>12. \A t \in Shipments : t # s => status'[t] = status[t] BY <1>11 DEF TypeInv, TypeOK
<1>13. /\ late' = late \cup
              (IF Completing(n) \/ session[n].status # "IN_PROGRESS" THEN {<<n, s>>} ELSE {})
       /\ UNCHANGED <<item, manifest, missing, scanned, border, contended, excepted, stranded>>
  BY DEF CommitItem
<1> QED BY <1>2, <1>4, <1>5, <1>7, <1>8, <1>10, <1>12, <1>13

LEMMA ItemRowsGrow ==
  ASSUME TypeInv, NEW q \in Requests, CommitItem(q)
  PROVE  /\ \A m \in Sessions, t \in Shipments :
              Rows(m, t)' = Rows(m, t) + (IF m = req[q].sess /\ t = req[q].ship THEN 1 ELSE 0)
         /\ \A m \in Sessions, t \in Shipments : Rows(m, t) \in Nat /\ Rows(m, t)' \in Nat
<1>0. PICK n, s, good : n = req[q].sess /\ s = req[q].ship /\ good = req[q].good OBVIOUS
<1>1. n \in Sessions /\ s \in Shipments BY <1>0, ItemEffect
<1>2. /\ unload'[n][s].good = unload[n][s].good + One(good)
      /\ unload'[n][s].bad = unload[n][s].bad + One(~good)
      /\ \A m \in Sessions, t \in Shipments : m # n \/ t # s => unload'[m][t] = unload[m][t]
  BY <1>0, ItemRows
<1>3. One(good) \in Nat /\ One(~good) \in Nat /\ One(good) + One(~good) = 1
  BY DEF One
<1>4. unload[n][s].good \in Nat /\ unload[n][s].bad \in Nat BY <1>1 DEF TypeInv, TypeOK
<1>5. Rows(n, s)' = Rows(n, s) + 1 BY <1>2, <1>3, <1>4 DEF Rows
<1>6. \A m \in Sessions, t \in Shipments : m # n \/ t # s => Rows(m, t)' = Rows(m, t)
  BY <1>2 DEF Rows
<1>7. \A m \in Sessions, t \in Shipments : Rows(m, t) \in Nat BY RowsTyped
<1>8. ASSUME NEW m \in Sessions, NEW t \in Shipments
      PROVE  Rows(m, t)' = Rows(m, t) + (IF m = n /\ t = s THEN 1 ELSE 0) /\ Rows(m, t)' \in Nat
  <2>1. CASE m = n /\ t = s BY <1>5, <1>7, <2>1
  <2>2. CASE m # n \/ t # s BY <1>6, <1>7, <2>2
  <2> QED BY <2>1, <2>2
<1> QED BY <1>0, <1>7, <1>8

\* The counters go on agreeing with the rows.
LEMMA ItemCounts ==
  ASSUME TypeInv, CountersMatchItems, NEW q \in Requests, CommitItem(q)
  PROVE  CountersMatchItems'
<1>0. PICK n, s, good : n = req[q].sess /\ s = req[q].ship /\ good = req[q].good OBVIOUS
<1> DEFINE all(m) == [t \in Shipments |-> Rows(m, t)]
           bad(m) == [t \in Shipments |-> unload[m][t].bad]
           fine(m) == [t \in Shipments |-> unload[m][t].good]
           all2(m) == [t \in Shipments |-> Rows(m, t)']
           bad2(m) == [t \in Shipments |-> unload'[m][t].bad]
           fine2(m) == [t \in Shipments |-> unload'[m][t].good]
<1>1. n \in Sessions /\ s \in Shipments BY <1>0, ItemEffect
<1>2. /\ unload'[n][s].good = unload[n][s].good + One(good)
      /\ unload'[n][s].bad = unload[n][s].bad + One(~good)
      /\ \A m \in Sessions, t \in Shipments : m # n \/ t # s => unload'[m][t] = unload[m][t]
      /\ \A m \in Sessions : m # n => session'[m] = session[m]
      /\ session'[n] = Count(session[n], good, s \in Manifest)
  BY <1>0, ItemRows
<1>3. IsFiniteSet(Shipments) /\ IsFiniteSet(Shipments \ Manifest)
  <2>1. IsFiniteSet(Shipments)
    BY DEF TypeInv, InboundAssumption
  <2> QED BY <2>1, FS_Difference
<1>4. One(good) \in Nat /\ One(~good) \in Nat BY DEF One
<1>5. \A m \in Sessions, t \in Shipments :
        Rows(m, t) \in Nat /\ unload[m][t].good \in Nat /\ unload[m][t].bad \in Nat
  <2>1. \A m \in Sessions, t \in Shipments : Rows(m, t) \in Nat BY RowsTyped
  <2>2. \A m \in Sessions, t \in Shipments : unload[m][t].good \in Nat /\ unload[m][t].bad \in Nat
    BY DEF TypeInv, TypeOK
  <2> QED BY <2>1, <2>2
<1>6. \A t \in Shipments : Rows(n, t)' = Rows(n, t) + (IF t = s THEN 1 ELSE 0)
  BY <1>0, <1>1, ItemRowsGrow
<1>7. ASSUME NEW m \in Sessions
      PROVE  /\ session[m].scanned = Sum(all(m), Shipments)
             /\ session[m].damaged = Sum(bad(m), Shipments)
             /\ session[m].intact = Sum(fine(m), Shipments)
             /\ session[m].unexpected = Sum(all(m), Shipments \ Manifest)
  BY DEF CountersMatchItems
<1>8. ASSUME NEW m \in Sessions
      PROVE  /\ session'[m].scanned = Sum(all2(m), Shipments)
             /\ session'[m].damaged = Sum(bad2(m), Shipments)
             /\ session'[m].intact = Sum(fine2(m), Shipments)
             /\ session'[m].unexpected = Sum(all2(m), Shipments \ Manifest)
  <2>1. CASE m # n
    <3>1. all2(m) = all(m) /\ bad2(m) = bad(m) /\ fine2(m) = fine(m) BY <1>2, <2>1 DEF Rows
    <3> HIDE DEF all, bad, fine, all2, bad2, fine2
    <3> QED BY <1>2, <1>7, <2>1, <3>1
  <2>2. CASE m = n
    <3>1. \A t \in Shipments :
            /\ all(n)[t] \in Nat /\ all2(n)[t] = all(n)[t] + (IF t = s THEN 1 ELSE 0)
            /\ bad(n)[t] \in Nat /\ bad2(n)[t] = bad(n)[t] + (IF t = s THEN One(~good) ELSE 0)
            /\ fine(n)[t] \in Nat /\ fine2(n)[t] = fine(n)[t] + (IF t = s THEN One(good) ELSE 0)
      <4>1. \A t \in Shipments : all(n)[t] = Rows(n, t) /\ all2(n)[t] = Rows(n, t)' OBVIOUS
      <4>2. \A t \in Shipments : bad(n)[t] = unload[n][t].bad /\ bad2(n)[t] = unload'[n][t].bad
              /\ fine(n)[t] = unload[n][t].good /\ fine2(n)[t] = unload'[n][t].good
        OBVIOUS
      <4> HIDE DEF all, bad, fine, all2, bad2, fine2
      <4>3. ASSUME NEW t \in Shipments
            PROVE  /\ all(n)[t] \in Nat /\ all2(n)[t] = all(n)[t] + (IF t = s THEN 1 ELSE 0)
                   /\ bad(n)[t] \in Nat /\ bad2(n)[t] = bad(n)[t] + (IF t = s THEN One(~good) ELSE 0)
                   /\ fine(n)[t] \in Nat /\ fine2(n)[t] = fine(n)[t] + (IF t = s THEN One(good) ELSE 0)
        <5>1. CASE t = s BY <1>1, <1>2, <1>5, <1>6, <4>1, <4>2, <5>1
        <5>2. CASE t # s
          <6>1. unload'[n][t] = unload[n][t] BY <1>1, <1>2, <5>2
          <6> QED BY <1>1, <1>5, <1>6, <4>1, <4>2, <5>2, <6>1
        <5> QED BY <5>1, <5>2
      <4> QED BY <4>3
    <3> HIDE DEF all, bad, fine, all2, bad2, fine2
    <3>2. Sum(all2(n), Shipments) = Sum(all(n), Shipments) + 1
      <4>1. 1 \in Nat OBVIOUS
      <4> QED BY <1>1, <1>3, <3>1, <4>1, SumGrows
    <3>3. Sum(bad2(n), Shipments) = Sum(bad(n), Shipments) + One(~good)
      BY <1>1, <1>3, <1>4, <3>1, SumGrows
    <3>4. Sum(fine2(n), Shipments) = Sum(fine(n), Shipments) + One(good)
      BY <1>1, <1>3, <1>4, <3>1, SumGrows
    <3>5. Sum(all2(n), Shipments \ Manifest)
            = Sum(all(n), Shipments \ Manifest) + (IF s \in Shipments \ Manifest THEN 1 ELSE 0)
      <4>1. \A t \in Shipments \ Manifest :
              all(n)[t] \in Nat /\ all2(n)[t] = all(n)[t] + (IF t = s THEN 1 ELSE 0)
        BY <3>1
      <4>2. 1 \in Nat OBVIOUS
      <4> QED BY <1>3, <4>1, <4>2, SumGrows
    <3>6. (IF s \in Shipments \ Manifest THEN 1 ELSE 0) = One(~(s \in Manifest)) BY <1>1 DEF One
    <3>7. PICK old : old = session[n] OBVIOUS
    <3>8. session'[n] = Count(old, good, s \in Manifest) BY <1>2, <3>7
    <3>9. old \in [status : {"NONE", "IN_PROGRESS", "COMPLETED", "DISCREPANCY_FLAGGED"},
                   scanned : Nat, intact : Nat, damaged : Nat, unexpected : Nat]
      BY <1>1, <3>7 DEF TypeInv, TypeOK
    <3>10. /\ session'[n].scanned = old.scanned + 1 /\ session'[n].intact = old.intact + One(good)
           /\ session'[n].damaged = old.damaged + One(~good)
           /\ session'[n].unexpected = old.unexpected + One(~(s \in Manifest))
      BY <3>8, <3>9 DEF Count
    <3> QED BY <1>1, <1>7, <2>2, <3>2, <3>3, <3>4, <3>5, <3>6, <3>7, <3>10
  <2> QED BY <2>1, <2>2
<1> QED BY <1>8 DEF CountersMatchItems

\* No other request relies on the parcel that is scanned into a session, unless
\* the two have contended for it.
LEMMA ItemLeaves ==
  ASSUME HubInv, NEW q \in Requests, CommitItem(q), NEW p \in Requests, p # q
  PROVE  Leaves(req[p])
<1>0. PICK n, s, good : n = req[q].sess /\ s = req[q].ship /\ good = req[q].good OBVIOUS
<1>1. n \in Sessions /\ s \in Shipments /\ TypeInv BY <1>0, ItemEffect DEF HubInv
<1>2. /\ \A m \in Sessions, t \in Shipments : m # n \/ t # s => variance'[m][t] = variance[m][t]
      /\ \A t \in Shipments : t # s => status'[t] = status[t]
      /\ late' = late \cup
           (IF Completing(n) \/ session[n].status # "IN_PROGRESS" THEN {<<n, s>>} ELSE {})
      /\ UNCHANGED <<missing, contended, excepted>>
  BY <1>0, <1>1, ItemRows
<1>3. \A m \in Sessions, t \in Shipments :
        /\ Rows(m, t)' = Rows(m, t) + (IF m = n /\ t = s THEN 1 ELSE 0)
        /\ Rows(m, t) \in Nat
  BY <1>0, <1>1, ItemRowsGrow
<1>4. s \in Touched(req[p]) => s \in contended'
  <2>1. s \in Touched(req[q]) BY <1>0 DEF Touched
  <2> QED BY <1>1, <1>2, <2>1, SharedIsContended
<1>5. ASSUME NEW t \in Shipments, t \in Touched(req[p]), t \notin contended'
      PROVE  /\ status'[t] = status[t]
             /\ \A m \in Sessions : Rows(m, t)' = Rows(m, t) /\ missing'[m][t] = missing[m][t]
  <2>1. t # s BY <1>4, <1>5
  <2> QED BY <1>2, <1>3, <2>1
<1>6. \A m \in Sessions, t \in Shipments : Rows(m, t) > 0 => Rows(m, t)' > 0
  BY <1>3
<1>7. ASSUME req[p].op = "complete", NEW t \in Shipments, variance'[req[p].sess][t] > 0
      PROVE  variance[req[p].sess][t] > 0 \/ <<req[p].sess, t>> \in late'
  <2>1. req[p].sess \in Sessions BY <1>1, <1>7 DEF TypeInv, Chosen
  <2>2. CASE req[p].sess = n /\ t = s
    <3>1. Completing(n) BY <1>7, <2>2 DEF Completing
    <3> QED BY <1>2, <2>2, <3>1
  <2>3. CASE req[p].sess # n \/ t # s BY <1>2, <1>7, <2>1, <2>3
  <2> QED BY <2>2, <2>3
<1>8. contended \subseteq contended' /\ excepted \subseteq excepted' /\ late \subseteq late' BY <1>2
<1> QED BY <1>5, <1>6, <1>7, <1>8 DEF Leaves

LEMMA ItemStep ==
  ASSUME HubInv, NEW q \in Requests, CommitItem(q)
  PROVE  HubInv'
<1>0. PICK n, s, good : n = req[q].sess /\ s = req[q].ship /\ good = req[q].good OBVIOUS
<1>1. /\ TypeInv' /\ TypeInv /\ req[q].op = "unload" /\ n \in Sessions /\ s \in Shipments
      /\ Become(q, Idle)
  BY <1>0, ItemEffect DEF HubInv, End
<1>2. /\ \A m \in Sessions, t \in Shipments : m # n \/ t # s =>
           unload'[m][t] = unload[m][t] /\ variance'[m][t] = variance[m][t]
      /\ unload'[n][s].bad = unload[n][s].bad + One(~good)
      /\ variance'[n][s] = variance[n][s] + One(~good \/ s \notin Manifest)
      /\ \A m \in Sessions : m # n => session'[m] = session[m]
      /\ session'[n] = Count(session[n], good, s \in Manifest)
      /\ late' = late \cup
           (IF Completing(n) \/ session[n].status # "IN_PROGRESS" THEN {<<n, s>>} ELSE {})
      /\ UNCHANGED <<missing, scanned, contended, excepted, stranded>>
  BY <1>0, <1>1, ItemRows
<1>3. \A m \in Sessions, t \in Shipments :
        /\ Rows(m, t)' = Rows(m, t) + (IF m = n /\ t = s THEN 1 ELSE 0)
        /\ Rows(m, t) \in Nat /\ Rows(m, t)' \in Nat
  BY <1>0, <1>1, ItemRowsGrow
<1>4. Overlaps'
  <2>1. Shipments \cap Touched(Idle) \subseteq Touched(req[q]) BY <1>1, IdleTouches
  <2>2. contended \subseteq contended' BY <1>2
  <2> QED BY <1>1, <2>1, <2>2, GoesOnOverlaps DEF HubInv
<1>5. \A p \in Requests : Relies(req[p])'
  <2>1. req' = [req EXCEPT ![q] = Idle] BY <1>1 DEF Become
  <2>2. \A p \in Requests : p # q => Leaves(req[p]) BY ItemLeaves
  <2> QED BY <2>1, <2>2, IdleRelies, AllRely
<1>6. \A m \in Sessions : session'[m].status = session[m].status
  <2>1. session'[n].status = session[n].status
    <3>1. PICK old \in [status : {"NONE", "IN_PROGRESS", "COMPLETED", "DISCREPANCY_FLAGGED"},
                        scanned : Nat, intact : Nat, damaged : Nat, unexpected : Nat] :
            old = session[n]
      BY <1>1 DEF TypeInv, TypeOK
    <3>2. Count(old, good, s \in Manifest).status = old.status BY DEF Count
    <3> QED BY <1>2, <3>1, <3>2
  <2> QED BY <1>2, <2>1
<1>7. \A m \in Sessions : Closed(m)' = Closed(m) BY <1>6 DEF Closed
<1>8. ItemStands(req[q]) BY DEF HubInv, Relies
<1>9. s \notin contended => Rows(n, s) = 0 /\ missing[n][s] = 0 BY <1>0, <1>1, <1>8 DEF ItemStands
<1>10. \A m \in Sessions, t \in Shipments :
         unload[m][t].bad \in Nat /\ variance[m][t] \in Nat /\ missing[m][t] \in Nat
  BY <1>1 DEF TypeInv, TypeOK
<1>11. VarianceInv'
  <2>1. ASSUME NEW m \in Sessions, NEW t \in Shipments, variance'[m][t] > 0
        PROVE  unload'[m][t].bad > 0 \/ (t \notin Manifest /\ Rows(m, t)' > 0)
    <3>1. CASE m # n \/ t # s
      <4>1. variance[m][t] > 0 /\ unload'[m][t].bad = unload[m][t].bad /\ Rows(m, t)' = Rows(m, t)
        BY <1>2, <1>3, <2>1, <3>1
      <4> QED BY <4>1 DEF HubInv, VarianceInv
    <3>2. CASE m = n /\ t = s
      <4>1. Rows(n, s)' > 0 BY <1>1, <1>3
      <4>2. CASE t \notin Manifest BY <3>2, <4>1, <4>2
      <4>3. CASE t \in Manifest /\ ~good
        <5>1. One(~good) = 1 BY <4>3 DEF One
        <5> QED BY <1>1, <1>2, <1>10, <3>2, <5>1
      <4>4. CASE t \in Manifest /\ good
        <5>1. One(~good) = 0 /\ One(~good \/ s \notin Manifest) = 0 BY <3>2, <4>4 DEF One
        <5>2. variance[n][s] > 0 /\ unload'[n][s].bad = unload[n][s].bad
          BY <1>1, <1>2, <1>10, <2>1, <3>2, <5>1
        <5>3. unload[n][s].bad > 0 BY <1>1, <3>2, <4>4, <5>2 DEF HubInv, VarianceInv
        <5> QED BY <3>2, <5>2, <5>3
      <4> QED BY <4>2, <4>3, <4>4
    <3> QED BY <3>1, <3>2
  <2> QED BY <2>1 DEF VarianceInv
<1>12. MissingInv'
  <2>1. ASSUME NEW m \in Sessions, NEW t \in Shipments, missing'[m][t] > 0
        PROVE  t \in Manifest /\ Closed(m)' /\ (t \notin contended' => Rows(m, t)' = 0)
    <3>1. missing[m][t] > 0 BY <1>2, <2>1
    <3>2. t \in Manifest /\ Closed(m) /\ (t \notin contended => Rows(m, t) = 0)
      BY <3>1 DEF HubInv, MissingInv
    <3>3. t \notin contended => m # n \/ t # s BY <1>9, <3>1
    <3> QED BY <1>2, <1>3, <1>7, <3>2, <3>3
  <2> QED BY <2>1 DEF MissingInv
<1>13. CountersAgree'
  <2>1. CountersMatchItems' BY <1>1, ItemCounts DEF HubInv, CountersAgree
  <2>2. CountedTwiceOnlyByOverlap'
    <3>1. ASSUME NEW m \in Sessions, NEW t \in Shipments, Rows(m, t)' > 1 PROVE t \in contended'
      <4>1. CASE m # n \/ t # s
        BY <1>2, <1>3, <3>1, <4>1 DEF HubInv, CountersAgree, CountedTwiceOnlyByOverlap
      <4>2. CASE m = n /\ t = s BY <1>1, <1>2, <1>3, <1>9, <3>1, <4>2
      <4> QED BY <4>1, <4>2
    <3> QED BY <3>1 DEF CountedTwiceOnlyByOverlap
  <2>3. ScannedOnce' BY <1>2, ScannedStays
  <2> QED BY <2>1, <2>2, <2>3 DEF CountersAgree
<1>14. AccountedFor'
  <2>1. AccountedFor /\ Manifest \subseteq Shipments
    BY <1>1 DEF HubInv, ReportAgrees, TypeInv, InboundAssumption
  <2>2. ASSUME NEW m \in Sessions, Closed(m)', NEW t \in Manifest
        PROVE  Rows(m, t)' > 0 \/ missing'[m][t] > 0
    <3>1. Rows(m, t) > 0 \/ missing[m][t] > 0 BY <1>7, <2>1, <2>2 DEF AccountedFor
    <3> QED BY <1>2, <1>3, <2>1, <3>1
  <2> QED BY <2>2 DEF AccountedFor
<1>15. CleanSessionIsClean'
  <2>1. CleanSessionIsClean BY DEF HubInv, ReportAgrees
  <2>2. ASSUME NEW m \in Sessions, session'[m].status = "COMPLETED", NEW t \in Shipments
        PROVE  /\ missing'[m][t] > 0 => t \in contended'
               /\ variance'[m][t] > 0 => <<m, t>> \in late'
    <3>1. session[m].status = "COMPLETED" BY <1>6, <2>2
    <3>2. /\ missing[m][t] > 0 => t \in contended
          /\ variance[m][t] > 0 => <<m, t>> \in late
      BY <2>1, <3>1 DEF CleanSessionIsClean
    <3>3. CASE m # n \/ t # s
      <4>1. variance'[m][t] = variance[m][t] BY <1>2, <3>3
      <4> QED BY <1>2, <3>2, <4>1
    <3>4. CASE m = n /\ t = s BY <1>2, <3>1, <3>2, <3>4
    <3> QED BY <3>3, <3>4
  <2> QED BY <2>2 DEF CleanSessionIsClean
<1>16. ShortagesAgree'
  <2>1. \A p \in Requests : req[p].op = "complete" => req'[p] = req[p]
    BY <1>1 DEF Become, TypeInv
  <2> QED BY <1>2, <2>1, ShortagesStay
<1> QED BY <1>1, <1>4, <1>5, <1>11, <1>12, <1>13, <1>14, <1>15, <1>16 DEF HubInv, ReportAgrees

\* What the completion of a session reports.
LEMMA CompleteRows ==
  ASSUME TypeInv, NEW q \in Requests, CommitComplete(q), NEW n, n = req[q].sess
  PROVE  /\ \A m \in Sessions, t \in Shipments :
              missing'[m][t] = missing[m][t] + (IF m = n /\ t \in req[q].lost THEN 1 ELSE 0)
         /\ \A m \in Sessions, t \in Shipments : missing[m][t] \in Nat
         /\ \A m \in Sessions : m # n => session'[m] = session[m]
         /\ session'[n].status = FinalStatus(req[q])
<1>1. n \in Sessions /\ session' = [session EXCEPT ![n].status = FinalStatus(req[q])]
      /\ missing' = [missing EXCEPT ![n] = [s \in Shipments |-> missing[n][s] + One(s \in req[q].lost)]]
  BY CompleteEffect
<1>2. PICK f : f = [s \in Shipments |-> missing[n][s] + One(s \in req[q].lost)] OBVIOUS
<1>3. missing'[n] = f /\ \A m \in Sessions : m # n => missing'[m] = missing[m]
  BY <1>1, <1>2 DEF TypeInv, TypeOK
<1>4. \A m \in Sessions, t \in Shipments : missing[m][t] \in Nat BY DEF TypeInv, TypeOK
<1>5. ASSUME NEW m \in Sessions, NEW t \in Shipments
      PROVE  missing'[m][t] = missing[m][t] + (IF m = n /\ t \in req[q].lost THEN 1 ELSE 0)
  <2>1. CASE m = n
    <3>1. missing'[m][t] = missing[m][t] + One(t \in req[q].lost) BY <1>2, <1>3, <2>1
    <3> QED BY <2>1, <3>1 DEF One
  <2>2. CASE m # n BY <1>3, <1>4, <2>2
  <2> QED BY <2>1, <2>2
<1>6. PICK old \in [status : {"NONE", "IN_PROGRESS", "COMPLETED", "DISCREPANCY_FLAGGED"},
                    scanned : Nat, intact : Nat, damaged : Nat, unexpected : Nat] : old = session[n]
  BY <1>1 DEF TypeInv, TypeOK
<1>7. PICK x : x = [old EXCEPT !.status = FinalStatus(req[q])] OBVIOUS
<1>8. session' = [session EXCEPT ![n] = x] BY <1>1, <1>6, <1>7
<1>9. session'[n] = x /\ \A m \in Sessions : m # n => session'[m] = session[m]
  BY <1>1, <1>8 DEF TypeInv, TypeOK
<1>10. x.status = FinalStatus(req[q]) BY <1>7
<1> QED BY <1>4, <1>5, <1>9, <1>10

LEMMA CompleteStep ==
  ASSUME HubInv, NEW q \in Requests, CommitComplete(q)
  PROVE  HubInv'
<1>0. PICK n, r : n = req[q].sess /\ r = req[q] OBVIOUS
<1>1. /\ TypeInv' /\ TypeInv /\ r.op = "complete" /\ r.pc = "items" /\ n \in Sessions
      /\ r.todo = {} /\ r.lost \subseteq Manifest /\ Become(q, Idle)
      /\ UNCHANGED <<status, unload, variance, scanned, contended, late, excepted, stranded>>
  BY <1>0, CompleteEffect DEF HubInv, End, history
<1>2. /\ \A m \in Sessions, t \in Shipments :
           missing'[m][t] = missing[m][t] + (IF m = n /\ t \in r.lost THEN 1 ELSE 0)
      /\ \A m \in Sessions, t \in Shipments : missing[m][t] \in Nat
      /\ \A m \in Sessions : m # n => session'[m] = session[m]
      /\ session'[n].status = FinalStatus(r)
  BY <1>0, <1>1, CompleteRows
<1>3. Relies(r) BY <1>0 DEF HubInv
<1>4. /\ r.lost = r.moved /\ \A s \in r.moved : <<n, s>> \in excepted
      /\ \A s \in Manifest : Rows(n, s) > 0 \/ s \in r.lost
      /\ \A s \in r.lost \ contended : Rows(n, s) = 0
      /\ ~r.flagged => \A s \in Shipments : variance[n][s] > 0 => <<n, s>> \in late
  BY <1>0, <1>1, <1>3 DEF Relies, LostAreMoved, Found, CleanSoFar
<1>5. /\ Manifest \subseteq Shipments
      /\ \A m \in Sessions, t \in Shipments : Rows(m, t)' = Rows(m, t) /\ Rows(m, t) \in Nat
  BY <1>1, RowsTyped DEF TypeInv, InboundAssumption, Rows
<1>6. ASSUME NEW p \in Requests, p # q PROVE Leaves(req[p])
  <2>1. ASSUME NEW t \in Shipments, t \in Touched(req[p]), t \notin contended', NEW m \in Sessions
        PROVE  missing'[m][t] = missing[m][t]
    <3>1. ~(m = n /\ t \in r.lost)
      <4>1. t \in r.lost => t \in Touched(req[q]) BY <1>0, <1>4 DEF Touched
      <4> QED BY <1>1, <1>6, <2>1, <4>1, SharedIsContended
    <3> QED BY <1>2, <3>1
  <2>2. \A s \in Shipments : s \in Touched(req[p]) /\ s \notin contended' =>
          /\ status'[s] = status[s]
          /\ \A m \in Sessions : Rows(m, s)' = Rows(m, s) /\ missing'[m][s] = missing[m][s]
    BY <1>1, <1>5, <2>1
  <2>3. \A m \in Sessions, s \in Shipments : Rows(m, s) > 0 => Rows(m, s)' > 0 BY <1>5
  <2> QED BY <1>1, <2>2, <2>3 DEF Leaves
<1>7. \A p \in Requests : Relies(req[p])'
  <2>1. req' = [req EXCEPT ![q] = Idle] BY <1>1 DEF Become
  <2> QED BY <1>6, <2>1, IdleRelies, AllRely
<1>8. Overlaps'
  <2>1. Shipments \cap Touched(Idle) \subseteq Touched(req[q]) BY <1>1, IdleTouches
  <2>2. contended \subseteq contended' BY <1>1
  <2> QED BY <1>1, <2>1, <2>2, GoesOnOverlaps DEF HubInv
<1>9. \A m \in Sessions : Closed(m)' <=> Closed(m) \/ m = n
  BY <1>2 DEF Closed, FinalStatus
<1>10. VarianceInv'
  <2>1. VarianceInv BY DEF HubInv
  <2> QED BY <1>1, <1>5, <2>1 DEF VarianceInv
<1>11. MissingInv'
  <2>1. ASSUME NEW m \in Sessions, NEW t \in Shipments, missing'[m][t] > 0
        PROVE  t \in Manifest /\ Closed(m)' /\ (t \notin contended' => Rows(m, t)' = 0)
    <3>1. CASE m = n /\ t \in r.lost BY <1>1, <1>4, <1>5, <1>9, <3>1
    <3>2. CASE ~(m = n /\ t \in r.lost)
      <4>1. missing[m][t] > 0 BY <1>2, <2>1, <3>2
      <4>2. t \in Manifest /\ Closed(m) /\ (t \notin contended => Rows(m, t) = 0)
        BY <4>1 DEF HubInv, MissingInv
      <4> QED BY <1>1, <1>5, <1>9, <4>2
    <3> QED BY <3>1, <3>2
  <2> QED BY <2>1 DEF MissingInv
<1>12. CountersAgree'
  <2>1. CountersMatchItems'
    <3>1. CountersMatchItems BY DEF HubInv, CountersAgree
    <3>2. \A m \in Sessions : /\ session'[m].scanned = session[m].scanned
                              /\ session'[m].damaged = session[m].damaged
                              /\ session'[m].intact = session[m].intact
                              /\ session'[m].unexpected = session[m].unexpected
      <4>1. session' = [session EXCEPT ![n] = [session[n] EXCEPT !.status = FinalStatus(r)]]
        BY <1>0, <1>1, CompleteEffect
      <4>2. PICK old \in [status : {"NONE", "IN_PROGRESS", "COMPLETED", "DISCREPANCY_FLAGGED"},
                          scanned : Nat, intact : Nat, damaged : Nat, unexpected : Nat] :
              old = session[n]
        BY <1>1 DEF TypeInv, TypeOK
      <4>3. PICK x : x = [old EXCEPT !.status = FinalStatus(r)] OBVIOUS
      <4>4. session'[n] = x BY <1>1, <4>1, <4>2, <4>3 DEF TypeInv, TypeOK
      <4>5. /\ x.scanned = old.scanned /\ x.damaged = old.damaged /\ x.intact = old.intact
            /\ x.unexpected = old.unexpected
        BY <4>3
      <4> QED BY <1>2, <4>2, <4>4, <4>5
    <3> QED BY ZenonT(60), <1>1, <3>1, <3>2 DEF CountersMatchItems, Rows
  <2>2. CountedTwiceOnlyByOverlap'
    <3>1. CountedTwiceOnlyByOverlap BY DEF HubInv, CountersAgree
    <3> QED BY <1>1, <1>5, <3>1 DEF CountedTwiceOnlyByOverlap
  <2>3. ScannedOnce' BY <1>1, ScannedStays
  <2> QED BY <2>1, <2>2, <2>3 DEF CountersAgree
<1>13. AccountedFor'
  <2>1. ASSUME NEW m \in Sessions, Closed(m)', NEW t \in Manifest
        PROVE  Rows(m, t)' > 0 \/ missing'[m][t] > 0
    <3>1. CASE m = n
      <4>1. Rows(n, t) > 0 \/ t \in r.lost BY <1>4
      <4>2. t \in r.lost => missing'[m][t] > 0 BY <1>2, <1>5, <2>1, <3>1
      <4> QED BY <1>1, <1>5, <2>1, <3>1, <4>1, <4>2
    <3>2. CASE m # n
      <4>1. Rows(m, t) > 0 \/ missing[m][t] > 0
        BY <1>9, <2>1, <3>2 DEF HubInv, ReportAgrees, AccountedFor
      <4> QED BY <1>2, <1>5, <2>1, <3>2, <4>1
    <3> QED BY <3>1, <3>2
  <2> QED BY <2>1 DEF AccountedFor
<1>14. CleanSessionIsClean'
  <2>1. ASSUME NEW m \in Sessions, session'[m].status = "COMPLETED", NEW t \in Shipments
        PROVE  /\ missing'[m][t] > 0 => t \in contended'
               /\ variance'[m][t] > 0 => <<m, t>> \in late'
    <3>1. CASE m = n
      <4>1. ~r.flagged /\ r.lost = {} BY <1>2, <2>1, <3>1 DEF FinalStatus
      <4>2. missing'[m][t] > 0 => missing[m][t] > 0 BY <1>2, <2>1, <4>1
      <4>3. missing[m][t] > 0 => t \in Manifest /\ (t \notin contended => Rows(m, t) = 0)
        BY <2>1 DEF HubInv, MissingInv
      <4>4. t \in Manifest => Rows(n, t) > 0 BY <1>4, <4>1
      <4>5. missing'[m][t] > 0 => t \in contended' BY <1>1, <1>5, <2>1, <3>1, <4>2, <4>3, <4>4
      <4>6. variance'[m][t] > 0 => <<m, t>> \in late' BY <1>1, <1>4, <2>1, <3>1, <4>1
      <4> QED BY <4>5, <4>6
    <3>2. CASE m # n
      <4>1. session[m].status = "COMPLETED" /\ missing'[m][t] = missing[m][t]
        BY <1>2, <2>1, <3>2
      <4>2. CleanSessionIsClean BY DEF HubInv, ReportAgrees
      <4>3. /\ missing[m][t] > 0 => t \in contended
            /\ variance[m][t] > 0 => <<m, t>> \in late
        BY <2>1, <4>1, <4>2 DEF CleanSessionIsClean
      <4> QED BY <1>1, <4>1, <4>3
    <3> QED BY <3>1, <3>2
  <2> QED BY <2>1 DEF CleanSessionIsClean
<1>15. ShortagesAgree'
  <2>1. ShortagesAgree BY DEF HubInv, ReportAgrees
  <2>2. ASSUME NEW m \in Sessions, NEW t \in Shipments, missing'[m][t] > 0
        PROVE  <<m, t>> \in excepted'
    <3>1. CASE m = n /\ t \in r.lost BY <1>1, <1>4, <3>1
    <3>2. CASE ~(m = n /\ t \in r.lost)
      <4>1. missing[m][t] > 0 BY <1>2, <2>2, <3>2
      <4> QED BY <1>1, <2>1, <4>1 DEF ShortagesAgree
    <3> QED BY <3>1, <3>2
  <2>3. ASSUME NEW m \in Sessions, NEW t \in Shipments, <<m, t>> \in excepted',
               ~(missing'[m][t] > 0), t \notin stranded'
        PROVE  \E p \in Requests : req'[p].op = "complete" /\ req'[p].sess = m /\ t \in req'[p].moved
    <3>1. ~(m = n /\ t \in r.lost) /\ ~(missing[m][t] > 0) BY <1>2, <2>3
    <3>2. PICK p \in Requests : req[p].op = "complete" /\ req[p].sess = m /\ t \in req[p].moved
      BY <1>1, <2>1, <2>3, <3>1 DEF ShortagesAgree
    <3>3. p # q BY <1>0, <1>4, <3>1, <3>2
    <3>4. req'[p] = req[p] BY <1>1, <3>3 DEF Become, TypeInv
    <3> QED BY <3>2, <3>4
  <2> QED BY <2>2, <2>3 DEF ShortagesAgree
<1> QED BY <1>1, <1>7, <1>8, <1>10, <1>11, <1>12, <1>13, <1>14, <1>15 DEF HubInv, ReportAgrees

\* No request moved, and none relies on what changed.
LEMMA StillRely ==
  ASSUME HubInv, UNCHANGED req, contended \subseteq contended', \A p \in Requests : Leaves(req[p])
  PROVE  Overlaps' /\ \A p \in Requests : Relies(req[p])'
<1>1. \A p \in Requests : Shipments \cap Touched(req'[p]) \subseteq Touched(req[p]) OBVIOUS
<1>2. Overlaps' BY <1>1, OverlapsStay DEF HubInv
<1> QED BY <1>2, UntouchedRelies

LEMMA OpenStep ==
  ASSUME HubInv, NEW n \in Sessions, OpenReceivingSession(n)
  PROVE  HubInv'
<1>1. /\ UNCHANGED <<status, unload, missing, variance, scanned, req, contended, late, excepted, stranded>>
      /\ session[n].status = "NONE" /\ session' = [session EXCEPT ![n].status = "IN_PROGRESS"]
  BY DEF OpenReceivingSession, history
<1>2. TypeInv' BY OpenEffect DEF HubInv
<1>3. PICK old \in [status : {"NONE", "IN_PROGRESS", "COMPLETED", "DISCREPANCY_FLAGGED"},
                    scanned : Nat, intact : Nat, damaged : Nat, unexpected : Nat] : old = session[n]
  BY DEF HubInv, TypeInv, TypeOK
<1>4. PICK x : x = [old EXCEPT !.status = "IN_PROGRESS"] OBVIOUS
<1>5. session'[n] = x /\ \A m \in Sessions : m # n => session'[m] = session[m]
  <2>1. session' = [session EXCEPT ![n] = x] BY <1>1, <1>3, <1>4
  <2> QED BY <2>1 DEF HubInv, TypeInv, TypeOK
<1>6. /\ x.scanned = old.scanned /\ x.damaged = old.damaged /\ x.intact = old.intact
      /\ x.unexpected = old.unexpected /\ x.status = "IN_PROGRESS"
  BY <1>4
<1>7. \A m \in Sessions : /\ session'[m].scanned = session[m].scanned
                          /\ session'[m].damaged = session[m].damaged
                          /\ session'[m].intact = session[m].intact
                          /\ session'[m].unexpected = session[m].unexpected
  BY <1>3, <1>5, <1>6
<1>8. \A m \in Sessions : /\ Closed(m)' <=> Closed(m)
                          /\ session'[m].status = "COMPLETED" => session[m].status = "COMPLETED"
  BY <1>1, <1>5, <1>6 DEF Closed
<1>9. \A m \in Sessions, t \in Shipments : Rows(m, t)' = Rows(m, t) BY <1>1 DEF Rows
<1>10. \A p \in Requests : Leaves(req[p])
  <2>1. \A m \in Sessions, t \in Shipments : Rows(m, t) > 0 => Rows(m, t)' > 0 BY <1>9
  <2>2. \A m \in Sessions, t \in Shipments :
          /\ status'[t] = status[t] /\ Rows(m, t)' = Rows(m, t) /\ missing'[m][t] = missing[m][t]
    BY <1>1, <1>9
  <2> QED BY <1>1, <2>1, <2>2 DEF Leaves
<1>11. Overlaps' /\ \A p \in Requests : Relies(req[p])' BY <1>1, <1>10, StillRely
<1>12. VarianceInv'
  <2>1. VarianceInv BY DEF HubInv
  <2> QED BY <1>1, <1>9, <2>1 DEF VarianceInv
<1>13. MissingInv'
  <2>1. MissingInv BY DEF HubInv
  <2> QED BY <1>1, <1>8, <1>9, <2>1 DEF MissingInv
<1>14. CountersAgree'
  <2>1. CountersMatchItems /\ CountedTwiceOnlyByOverlap BY DEF HubInv, CountersAgree
  <2>2. CountersMatchItems'
    <3>1. unload' = unload BY <1>1
    <3>2. ASSUME NEW m \in Sessions
          PROVE  LET all == [s \in Shipments |-> Rows(m, s)']
                 IN /\ session'[m].scanned = Sum(all, Shipments)
                    /\ session'[m].damaged = Sum([s \in Shipments |-> unload'[m][s].bad], Shipments)
                    /\ session'[m].intact = Sum([s \in Shipments |-> unload'[m][s].good], Shipments)
                    /\ session'[m].unexpected = Sum(all, Shipments \ Manifest)
      <4>1. [s \in Shipments |-> Rows(m, s)'] = [s \in Shipments |-> Rows(m, s)] BY <1>9
      <4>2. /\ session[m].scanned = Sum([s \in Shipments |-> Rows(m, s)], Shipments)
            /\ session[m].damaged = Sum([s \in Shipments |-> unload[m][s].bad], Shipments)
            /\ session[m].intact = Sum([s \in Shipments |-> unload[m][s].good], Shipments)
            /\ session[m].unexpected = Sum([s \in Shipments |-> Rows(m, s)], Shipments \ Manifest)
        BY <2>1 DEF CountersMatchItems
      <4>3. PICK u : u = unload[m] /\ u = unload'[m] BY <3>1
      <4>4. /\ session'[m].scanned = Sum([s \in Shipments |-> Rows(m, s)'], Shipments)
            /\ session'[m].unexpected = Sum([s \in Shipments |-> Rows(m, s)'], Shipments \ Manifest)
        BY <1>7, <4>1, <4>2
      <4>5. /\ session'[m].damaged = Sum([s \in Shipments |-> unload'[m][s].bad], Shipments)
            /\ session'[m].intact = Sum([s \in Shipments |-> unload'[m][s].good], Shipments)
        BY <1>7, <4>2, <4>3
      <4> QED BY <4>4, <4>5
    <3> QED BY <3>2 DEF CountersMatchItems
  <2>3. CountedTwiceOnlyByOverlap' BY <1>1, <1>9, <2>1 DEF CountedTwiceOnlyByOverlap
  <2>4. ScannedOnce' BY <1>1, ScannedStays
  <2> QED BY <2>2, <2>3, <2>4 DEF CountersAgree
<1>15. AccountedFor'
  <2>1. AccountedFor /\ Manifest \subseteq Shipments
    BY DEF HubInv, ReportAgrees, TypeInv, InboundAssumption
  <2>2. ASSUME NEW m \in Sessions, Closed(m)', NEW t \in Manifest
        PROVE  Rows(m, t)' > 0 \/ missing'[m][t] > 0
    <3>1. Rows(m, t) > 0 \/ missing[m][t] > 0 BY <1>8, <2>1, <2>2 DEF AccountedFor
    <3> QED BY <1>1, <1>9, <2>1, <3>1
  <2> QED BY <2>2 DEF AccountedFor
<1>16. CleanSessionIsClean'
  <2>1. CleanSessionIsClean BY DEF HubInv, ReportAgrees
  <2> QED BY <1>1, <1>8, <2>1 DEF CleanSessionIsClean
<1>17. ShortagesAgree'
  <2>1. \A p \in Requests : req[p].op = "complete" => req'[p] = req[p] BY <1>1
  <2> QED BY <1>1, <2>1, ShortagesStay
<1> QED BY <1>2, <1>11, <1>12, <1>13, <1>14, <1>15, <1>16, <1>17 DEF HubInv, ReportAgrees

LEMMA MarkStep ==
  ASSUME HubInv, NEW s \in CrossBorder, NEW to \in Marks, MarkCustoms(s, to)
  PROVE  HubInv'
<1>1. UNCHANGED <<status, hub, scanned, req, contended, late, excepted, stranded, missing>>
  BY DEF MarkCustoms, history, hub
<1>2. TypeInv' BY MarkEffect DEF HubInv
<1>3. \A p \in Requests : Leaves(req[p]) BY <1>1, LeavesAlone
<1>4. Overlaps' /\ \A p \in Requests : Relies(req[p])' BY <1>1, <1>3, StillRely
<1>5. ShortagesAgree'
  <2>1. \A p \in Requests : req[p].op = "complete" => req'[p] = req[p] BY <1>1
  <2> QED BY <1>1, <2>1, ShortagesStay
<1> QED BY <1>1, <1>2, <1>4, <1>5, Quiet, ScannedStays DEF HubInv, CountersAgree, ReportAgrees

LEMMA BatchStep ==
  ASSUME HubInv, NEW batch \in Batches, BatchScan(batch)
  PROVE  HubInv'
<1>1. /\ TypeInv' /\ UNCHANGED <<hub, req, late, excepted, stranded>> /\ contended \subseteq contended'
      /\ \A u \in Scans : scanned'[u] \in {1, scanned[u]}
      /\ \A s \in Shipments : status'[s] # status[s] =>
           \A p \in Requests : s \in Touched(req[p]) => s \in contended'
  BY BatchEffect DEF HubInv
<1>2. UNCHANGED <<session, unload, missing, variance>> BY <1>1 DEF hub
<1>3. ASSUME NEW p \in Requests PROVE Leaves(req[p])
  <2>1. \A s \in Shipments : s \in Touched(req[p]) /\ s \notin contended' => status'[s] = status[s]
    BY <1>1
  <2> QED BY <1>1, <1>2, <2>1 DEF Leaves, Rows
<1>4. Overlaps' /\ \A p \in Requests : Relies(req[p])' BY <1>1, <1>3, StillRely
<1>5. ShortagesAgree'
  <2>1. \A p \in Requests : req[p].op = "complete" => req'[p] = req[p] BY <1>1
  <2> QED BY <1>1, <1>2, <2>1, ShortagesStay
<1>6. ScannedOnce'
  <2>1. ScannedOnce BY DEF HubInv, CountersAgree
  <2> QED BY <1>1, <2>1 DEF ScannedOnce
<1> QED BY <1>1, <1>4, <1>5, <1>6, Quiet DEF HubInv, CountersAgree, ReportAgrees

LEMMA ProceedStep ==
  ASSUME HubInv, NEW q \in Requests, Proceed(q)
  PROVE  HubInv'
<1>1. CASE CheckTransition(q) BY <1>1, CheckStep
<1>2. CASE MoveShipment(q) BY <1>2, MoveStep
<1>3. CASE Fail(q) BY <1>3, RollBackStep DEF Fail
<1>4. CASE CommitScan(q) BY <1>4, CommitScanStep
<1>5. CASE CommitItem(q) BY <1>5, ItemStep
<1>6. CASE FindMissing(q) BY <1>6, FindStep
<1>7. CASE CommitComplete(q) BY <1>7, CompleteStep
<1>8. CASE \E s \in Manifest : NextMissing(q, s) BY <1>8, NextMissingStep
<1>9. CASE \E s \in Manifest : NextReceived(q, s) BY <1>9, NextReceivedStep
<1>10. CASE CommitReceipt(q)
  <2>1. req[q].op # "complete" BY <1>10 DEF CommitReceipt, At
  <2> QED BY <1>10, <2>1, ReceiptEffect, EndStep DEF HubInv
<1>11. CASE CommitHold(q)
  <2>1. req[q].op # "complete" BY <1>11 DEF CommitHold, At
  <2> QED BY <1>11, <2>1, HoldEffect, EndStep DEF HubInv
<1>12. CASE CommitRelease(q)
  <2>1. req[q].op # "complete" BY <1>12 DEF CommitRelease, At
  <2> QED BY <1>12, <2>1, ReleaseEffect, EndStep DEF HubInv
<1> QED
  BY <1>1, <1>2, <1>3, <1>4, <1>5, <1>6, <1>7, <1>8, <1>9, <1>10, <1>11, <1>12 DEF Proceed

LEMMA StutterStep ==
  ASSUME HubInv, UNCHANGED vars
  PROVE  HubInv'
<1>1. /\ UNCHANGED <<status, hub, item, manifest, scanned, customs, exceptions, req, asked,
                     contended, late, excepted, stranded>>
      /\ UNCHANGED <<session, unload, missing, variance>>
  BY DEF vars, rows, hub, border, history
<1>2. TypeInv'
  <2>1. TypeOK' BY <1>1 DEF HubInv, TypeInv, TypeOK
  <2> QED BY <1>1, <2>1 DEF HubInv, TypeInv
<1>3. \A p \in Requests : Leaves(req[p]) BY <1>1, LeavesAlone
<1>4. Overlaps' /\ \A p \in Requests : Relies(req[p])' BY <1>1, <1>3, StillRely
<1>5. ShortagesAgree'
  <2>1. \A p \in Requests : req[p].op = "complete" => req'[p] = req[p] BY <1>1
  <2> QED BY <1>1, <2>1, ShortagesStay
<1> QED BY <1>1, <1>2, <1>4, <1>5, Quiet, ScannedStays DEF HubInv, CountersAgree, ReportAgrees

\* Every step keeps the inductive invariant.
LEMMA NextStep ==
  ASSUME HubInv, [Next]_vars
  PROVE  HubInv'
<1>1. ASSUME NEW q \in Requests, Ask(q) \/ Proceed(q) PROVE HubInv' BY <1>1, AskStep, ProceedStep
<1>2. ASSUME NEW batch \in Batches, BatchScan(batch) PROVE HubInv' BY <1>2, BatchStep
<1>3. ASSUME NEW n \in Sessions, OpenReceivingSession(n) PROVE HubInv' BY <1>3, OpenStep
<1>4. ASSUME NEW s \in CrossBorder, NEW to \in Marks, MarkCustoms(s, to) PROVE HubInv'
  BY <1>4, MarkStep
<1>5. CASE UNCHANGED vars BY <1>5, StutterStep
<1> QED BY <1>1, <1>2, <1>3, <1>4, <1>5 DEF Next

-----------------------------------------------------------------------------
(* The initial states.                                                     *)

LEMMA InitTyped ==
  ASSUME InboundAssumption, Init PROVE TypeInv
<1>1. Starts \subseteq [Shipments -> SHIPMENT_STATUSES] /\ Manifest \subseteq Shipments
  BY DEF InboundAssumption
<1>2. \A q \in Requests : req[q] = Idle BY DEF Init
<1>3. req \in [Requests -> RequestRecords] BY IdleTyped DEF Init
<1>4. \A q \in Requests : Chosen(req[q]) BY <1>2, IdleTyped
<1>5. session \in [Sessions -> [status : {"NONE", "IN_PROGRESS", "COMPLETED", "DISCREPANCY_FLAGGED"},
                               scanned : Nat, intact : Nat, damaged : Nat, unexpected : Nat]]
  BY DEF Init, NewSession
<1>6. unload \in [Sessions -> [Shipments -> [good : Nat, bad : Nat]]] BY DEF Init
<1>7. missing \in [Sessions -> [Shipments -> Nat]] /\ variance \in [Sessions -> [Shipments -> Nat]]
  BY DEF Init, NoRows
<1>8. TypeOK BY <1>1, <1>5, <1>6, <1>7 DEF Init, TypeOK
<1> QED BY <1>3, <1>4, <1>8 DEF TypeInv

LEMMA InitCounters ==
  ASSUME TypeInv, Init PROVE CountersMatchItems
<1> SUFFICES ASSUME NEW n \in Sessions
             PROVE  LET all == [s \in Shipments |-> Rows(n, s)]
                    IN /\ session[n].scanned = Sum(all, Shipments)
                       /\ session[n].damaged = Sum([s \in Shipments |-> unload[n][s].bad], Shipments)
                       /\ session[n].intact = Sum([s \in Shipments |-> unload[n][s].good], Shipments)
                       /\ session[n].unexpected = Sum(all, Shipments \ Manifest)
  BY DEF CountersMatchItems
<1> DEFINE all == [s \in Shipments |-> Rows(n, s)]
           bad == [s \in Shipments |-> unload[n][s].bad]
           fine == [s \in Shipments |-> unload[n][s].good]
<1>1. \A s \in Shipments : unload[n][s].good = 0 /\ unload[n][s].bad = 0 BY DEF Init
<1>2. \A s \in Shipments : all[s] = 0 /\ bad[s] = 0 /\ fine[s] = 0 BY <1>1 DEF Rows
<1>3. IsFiniteSet(Shipments) /\ IsFiniteSet(Shipments \ Manifest)
  <2>1. IsFiniteSet(Shipments)
    BY DEF TypeInv, InboundAssumption
  <2> QED BY <2>1, FS_Difference
<1>4. session[n] = NewSession BY DEF Init
<1>5. session[n].scanned = 0 /\ session[n].damaged = 0 /\ session[n].intact = 0 /\ session[n].unexpected = 0
  BY <1>4 DEF NewSession
<1> HIDE DEF all, bad, fine
<1>6. Sum(all, Shipments) = 0 /\ Sum(bad, Shipments) = 0 /\ Sum(fine, Shipments) = 0
  BY <1>2, <1>3, SumZero
<1>7. Sum(all, Shipments \ Manifest) = 0 BY <1>2, <1>3, SumZero
<1> QED BY <1>5, <1>6, <1>7 DEF all, bad, fine

LEMMA InitInv ==
  ASSUME InboundAssumption, Init PROVE HubInv
<1>1. TypeInv BY InitTyped
<1>2. \A q \in Requests : req[q] = Idle BY DEF Init
<1>3. Overlaps BY <1>1, <1>2, IdleTouches DEF Overlaps
<1>4. Relies(Idle)
  BY DEF Relies, MoveStands, KnownStands, ReleaseStands, ItemStands, Found, LostAreMoved, CleanSoFar,
         Idle
<1>5. \A n \in Sessions, s \in Shipments :
        missing[n][s] = 0 /\ variance[n][s] = 0 /\ unload[n][s].good = 0 /\ unload[n][s].bad = 0
  BY DEF Init, NoRows
<1>6. \A n \in Sessions : session[n].status = "NONE" BY DEF Init, NewSession
<1>7. VarianceInv /\ MissingInv BY <1>5 DEF VarianceInv, MissingInv
<1>8. CountedTwiceOnlyByOverlap /\ ScannedOnce
  <2>1. \A n \in Sessions, s \in Shipments : Rows(n, s) = 0 BY <1>5 DEF Rows
  <2>2. \A u \in Scans : scanned[u] = 0 BY DEF Init
  <2> QED BY <2>1, <2>2 DEF CountedTwiceOnlyByOverlap, ScannedOnce
<1>9. CountersAgree BY <1>1, <1>8, InitCounters DEF CountersAgree
<1>10. AccountedFor /\ CleanSessionIsClean
  BY <1>6 DEF AccountedFor, CleanSessionIsClean, Closed
<1>11. ShortagesAgree
  <2>1. excepted = {} BY DEF Init
  <2> QED BY <1>5, <2>1 DEF ShortagesAgree
<1> QED BY <1>1, <1>2, <1>3, <1>4, <1>7, <1>9, <1>10, <1>11 DEF HubInv, ReportAgrees

-----------------------------------------------------------------------------
(* Moves.                                                                  *)

\* What MovesAreLegal says of a step.
Legal ==
  /\ \A s \in Shipments : status'[s] # status[s] =>
        \/ Allows(status[s], status'[s])
        \/ Together /\ Leads(status[s], status'[s])
        \/ unload' # unload
        \/ s \in contended'
  /\ \A s \in CrossBorder \ contended :
        customs[s] # "RELEASED" /\ customs'[s] = "RELEASED" => status[s] # "ON_HOLD"

LEMMA StillLegal == ASSUME UNCHANGED <<status, customs>> PROVE Legal
BY DEF Legal

LEMMA MoveLegal ==
  ASSUME HubInv, NEW q \in Requests, MoveShipment(q) PROVE Legal
<1>1. /\ req[q].ship \in Shipments /\ req[q].pc = "move"
      /\ status' = [status EXCEPT ![req[q].ship] = req[q].aim] /\ UNCHANGED <<customs, contended>>
  BY MoveEffect DEF HubInv, rows, border
<1>2. MoveStands(req[q]) BY DEF HubInv, Relies
<1>3. req[q].ship \notin contended => Allows(status[req[q].ship], req[q].aim)
  BY <1>1, <1>2 DEF MoveStands
<1>4. ASSUME NEW s \in Shipments, status'[s] # status[s]
      PROVE  Allows(status[s], status'[s]) \/ s \in contended'
  <2>1. s = req[q].ship /\ status'[s] = req[q].aim BY <1>1, <1>4 DEF HubInv, TypeInv, TypeOK
  <2> QED BY <1>1, <1>3, <2>1
<1> QED BY <1>1, <1>4 DEF Legal

LEMMA CommitScanLegal ==
  ASSUME HubInv, NEW q \in Requests, CommitScan(q) PROVE Legal
<1> DEFINE to == Scanned(ScanOf[req[q].scan].type, req[q].known)
<1>1. /\ req[q].op = "scan" /\ req[q].ship \in Shipments
      /\ ScanOf[req[q].scan].type \in ScanTypes /\ req[q].known \in SHIPMENT_STATUSES
      /\ \/ UNCHANGED status
         \/ status' = [status EXCEPT ![req[q].ship] = to]
      /\ UNCHANGED <<border, history>>
  BY ScanEffect DEF HubInv
<1>2. KnownStands(req[q]) BY DEF HubInv, Relies
<1>3. to = req[q].known \/ Allows(req[q].known, to) BY <1>1, ScanMoves
<1> HIDE DEF to
<1>4. ASSUME NEW s \in Shipments, status'[s] # status[s]
      PROVE  Allows(status[s], status'[s]) \/ s \in contended'
  <2>1. s = req[q].ship /\ status'[s] = to BY <1>1, <1>4 DEF HubInv, TypeInv, TypeOK
  <2>2. s \notin contended => req[q].known = status[s] BY <1>1, <1>2, <2>1 DEF KnownStands
  <2> QED BY <1>1, <1>3, <1>4, <2>1, <2>2 DEF history
<1> QED BY <1>1, <1>4 DEF Legal, border

LEMMA ItemLegal ==
  ASSUME HubInv, NEW q \in Requests, CommitItem(q) PROVE Legal
<1>0. PICK n, s : n = req[q].sess /\ s = req[q].ship OBVIOUS
<1>1. n \in Sessions /\ s \in Shipments BY <1>0, ItemEffect DEF HubInv
<1>2. Rows(n, s)' = Rows(n, s) + 1 /\ Rows(n, s) \in Nat
  BY <1>0, <1>1, ItemRowsGrow DEF HubInv
<1>3. unload' # unload
  <2>1. unload' = unload => Rows(n, s)' = Rows(n, s) BY DEF Rows
  <2> QED BY <1>2, <2>1
<1>4. UNCHANGED customs BY DEF CommitItem, border
<1> QED BY <1>3, <1>4 DEF Legal

LEMMA ReleaseLegal ==
  ASSUME HubInv, NEW q \in Requests, CommitRelease(q) PROVE Legal
<1>1. /\ UNCHANGED status /\ req[q].op = "release" /\ req[q].pc = "commit"
      /\ customs' = [customs EXCEPT ![req[q].ship] = "RELEASED"]
  BY ReleaseEffect DEF HubInv
<1>2. ReleaseStands(req[q]) BY DEF HubInv, Relies
<1>3. ASSUME NEW s \in CrossBorder \ contended, customs[s] # "RELEASED", customs'[s] = "RELEASED"
      PROVE  status[s] # "ON_HOLD"
  <2>1. s = req[q].ship BY <1>1, <1>3 DEF HubInv, TypeInv, TypeOK
  <2> QED BY <1>1, <1>2, <1>3, <2>1 DEF ReleaseStands
<1> QED BY <1>1, <1>3 DEF Legal

LEMMA ProceedLegal ==
  ASSUME HubInv, NEW q \in Requests, Proceed(q) PROVE Legal
<1>1. CASE MoveShipment(q) BY <1>1, MoveLegal
<1>2. CASE CommitScan(q) BY <1>2, CommitScanLegal
<1>3. CASE CommitItem(q) BY <1>3, ItemLegal
<1>4. CASE CommitRelease(q) BY <1>4, ReleaseLegal
<1>5. CASE CommitHold(q)
  <2>1. UNCHANGED status /\ customs' = [customs EXCEPT ![req[q].ship] = "CUSTOMS_HOLD"]
    BY <1>5, HoldEffect DEF HubInv
  <2>2. \A s \in CrossBorder : customs'[s] = "RELEASED" => customs[s] = "RELEASED"
    BY <2>1 DEF HubInv, TypeInv, TypeOK
  <2> QED BY <2>1, <2>2 DEF Legal
<1>6. CASE CheckTransition(q) BY <1>6, StillLegal DEF CheckTransition, rows, border
<1>7. CASE Fail(q) BY <1>7, StillLegal DEF Fail, rows, border
<1>8. CASE FindMissing(q) BY <1>8, StillLegal DEF FindMissing, rows, border
<1>9. CASE CommitComplete(q) BY <1>9, StillLegal DEF CommitComplete, border
<1>10. CASE \E s \in Manifest : NextMissing(q, s) \/ NextReceived(q, s)
  BY <1>10, StillLegal DEF NextMissing, NextReceived, rows, border
<1>11. CASE CommitReceipt(q) BY <1>11, StillLegal DEF CommitReceipt, border
<1> QED BY <1>1, <1>2, <1>3, <1>4, <1>5, <1>6, <1>7, <1>8, <1>9, <1>10, <1>11 DEF Proceed

LEMMA NextLegal ==
  ASSUME HubInv, [Next]_vars PROVE Legal
<1>1. ASSUME NEW q \in Requests, Ask(q) PROVE Legal
  <2>1. UNCHANGED <<status, customs>> BY <1>1, AskBegins DEF Begin, rows, border
  <2> QED BY <2>1, StillLegal
<1>2. ASSUME NEW q \in Requests, Proceed(q) PROVE Legal BY <1>2, ProceedLegal
<1>3. ASSUME NEW batch \in Batches, BatchScan(batch) PROVE Legal
  <2>1. /\ UNCHANGED customs
        /\ \A s \in Shipments : status'[s] # status[s] =>
             \/ Allows(status[s], status'[s])
             \/ Together /\ Leads(status[s], status'[s])
    BY <1>3, BatchEffect DEF HubInv, border
  <2> QED BY <2>1 DEF Legal
<1>4. ASSUME NEW n \in Sessions, OpenReceivingSession(n) PROVE Legal
  BY <1>4, StillLegal DEF OpenReceivingSession, border
<1>5. ASSUME NEW s \in CrossBorder, NEW to \in Marks, MarkCustoms(s, to) PROVE Legal
  <2>1. UNCHANGED status /\ customs' = [customs EXCEPT ![s] = to] /\ to # "RELEASED"
    BY <1>5, MarkEffect DEF HubInv, MarkCustoms
  <2>2. \A t \in CrossBorder : customs'[t] = "RELEASED" => customs[t] = "RELEASED"
    BY <2>1 DEF HubInv, TypeInv, TypeOK
  <2> QED BY <2>1, <2>2 DEF Legal
<1>6. CASE UNCHANGED vars BY <1>6, StillLegal DEF vars, rows, border
<1> QED BY <1>1, <1>2, <1>3, <1>4, <1>5, <1>6 DEF Next

-----------------------------------------------------------------------------
LEMMA HubInvariance ==
  ASSUME InboundAssumption PROVE Spec => []HubInv
<1>1. Init => HubInv BY InitInv
<1>2. HubInv /\ [Next]_vars => HubInv' BY NextStep
<1> QED BY <1>1, <1>2, PTL DEF Spec

\* Types of the rows, the sessions and the requests over them (custodyService.js,
\* receiveManifest and the customs handlers of transportService.js).
THEOREM HubTyped ==
  ASSUME InboundAssumption PROVE Spec => []TypeOK
<1>1. HubInv => TypeOK BY DEF HubInv, TypeInv
<1> QED BY <1>1, HubInvariance, PTL

\* The counters of a receiving session are the rows it unloaded, two rows for a
\* parcel come only of scans that overlapped, and a scan_uuid has one event, in any
\* number of terminals, sessions and batches (recordScanEvent, recordBatchScans,
\* scanReceivingItem).
THEOREM CountersAlwaysAgree ==
  ASSUME InboundAssumption PROVE Spec => []CountersAgree
<1>1. HubInv => CountersAgree BY DEF HubInv
<1> QED BY <1>1, HubInvariance, PTL

\* When completeReceivingSession has closed a session, every parcel of the manifest
\* was unloaded or is reported missing; those reported missing were put into
\* EXCEPTION; and one closed without a flag is clean but for late or overlapping
\* scans.
THEOREM ReportsAgree ==
  ASSUME InboundAssumption PROVE Spec => []ReportAgrees
<1>1. HubInv => ReportAgrees BY DEF HubInv
<1> QED BY <1>1, HubInvariance, PTL

\* Unless requests overlapped on a shipment or a bay scan moved it, every move of
\* scans, receipts, completions, customs and staff is in the transition table, and
\* releaseCustomsLeg leaves nothing on hold.
THEOREM MovesStayLegal ==
  ASSUME InboundAssumption PROVE Spec => MovesAreLegal
<1>1. HubInv /\ [Next]_vars =>
        (/\ \A s \in Shipments : status'[s] # status[s] =>
              \/ Allows(status[s], status'[s])
              \/ Together /\ Leads(status[s], status'[s])
              \/ unload' # unload
              \/ s \in contended'
         /\ \A s \in CrossBorder \ contended :
              customs[s] # "RELEASED" /\ customs'[s] = "RELEASED" => status[s] # "ON_HOLD")
  BY NextLegal DEF Legal
<1> QED BY <1>1, HubInvariance, PTL DEF Spec, MovesAreLegal
=============================================================================
