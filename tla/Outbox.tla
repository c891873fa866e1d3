------------------------------- MODULE Outbox -------------------------------
(***************************************************************************)
(* The notification outbox (server/services/notificationService.js) and    *)
(* the worker that drains it (server/workers/notificationWorker.js): a     *)
(* request that has moved a shipment queues the message afterwards, the    *)
(* worker sends what is due, an operator's resend drains on its own, and   *)
(* the carriers report what they could not deliver.                        *)
(*                                                                         *)
(* Every statement commits by itself.  A drain works from the rows it      *)
(* selected at its start; the guard isProcessing keeps the worker from     *)
(* overlapping itself but does not cover the resend.  A delivery report    *)
(* that confirms a message changes its log row only and is left out.       *)
(***************************************************************************)
EXTENDS Naturals, Sequences, FiniteSets

CONSTANTS
  MaxMessages, \* bound: messages that come to be owed
  BatchSize,   \* LIMIT of the worker's query
  MaxRetries,  \* max_retries
  MaxTrouble   \* bound: crashes, failing statements, resends and rejections

ASSUME OutboxAssumption ==
  /\ MaxMessages \in Nat /\ BatchSize \in Nat \ {0}
  /\ MaxRetries \in Nat \ {0} /\ MaxTrouble \in Nat

VARIABLES
  owed, lost, \* messages of committed transactions: to be queued, never queued
  outbox,     \* notification_outbox, by id: status, retry_count, backoff running?
  logs,       \* notification_logs of successful attempts: item and message
  mail,       \* messages of each item that may have reached a carrier
  drain,      \* the drains in progress
  rejecting,  \* reports of a rejected message that found its log row
  rejected,   \* history: messages whose rejection was written to the outbox
  trouble, resends,
  cause,      \* history: item -> reasons to send it once more
  unlogged    \* history: items a crash or a second failure may have left SENT with no log row

history == <<cause, unlogged>>
tables == <<owed, lost, outbox, logs, mail>>
vars == <<tables, drain, rejecting, rejected, trouble, resends, history>>

Items == 1..MaxMessages
Drains == {"worker", "resend"}
NoDrain == [pc |-> "idle", batch |-> << >>, n |-> 0]

Init ==
  /\ owed = 0 /\ lost = 0
  /\ outbox = << >> /\ logs = {} /\ mail = [k \in Items |-> 0]
  /\ drain = [d \in Drains |-> NoDrain]
  /\ rejecting = {} /\ rejected = {} /\ trouble = 0
  /\ resends = [k \in Items |-> 0] /\ cause = [k \in Items |-> 0]
  /\ unlogged = {}

-----------------------------------------------------------------------------
(* queueMilestoneNotification, after the transaction of its caller.        *)

Commit ==
  /\ owed + lost + Len(outbox) < MaxMessages
  /\ owed' = owed + 1
  /\ UNCHANGED <<lost, outbox, logs, mail, drain, rejecting, rejected, trouble, resends, history>>

Trouble == trouble < MaxTrouble /\ trouble' = trouble + 1

\* An INSERT that fails is only logged on the console.
Enqueue ==
  /\ owed > 0 /\ owed' = owed - 1
  /\ \/ /\ outbox' = Append(outbox, [status |-> "PENDING", retries |-> 0, waiting |-> FALSE])
        /\ UNCHANGED <<lost, trouble>>
     \/ Trouble /\ lost' = lost + 1 /\ UNCHANGED outbox
  /\ UNCHANGED <<logs, mail, drain, rejecting, rejected, resends, history>>

-----------------------------------------------------------------------------
(* processOutboxBatch.                                                     *)

At(d, pc) == drain[d].pc = pc
Goto(d, pc) == drain' = [drain EXCEPT ![d].pc = pc]

\* Mutant: a row that failed is not selected again.
DueOnce(k) == ~outbox[k].waiting /\ outbox[k].status = "PENDING"

\* The rows the query selects.
Due(k) ==
  /\ ~outbox[k].waiting
  /\ \/ outbox[k].status = "PENDING"
     \/ outbox[k].status = "FAILED" /\ outbox[k].retries < MaxRetries

InBatch(d, k) == \E j \in 1..Len(drain[d].batch) : drain[d].batch[j].item = k

\* s lists the first rows due, by id and at most limit of them.
FirstDue(s, n, limit) ==
  /\ \A i \in 1..n : Due(s[i])
  /\ \A i, j \in 1..n : i < j => s[i] < s[j]
  /\ \A k \in 1..Len(outbox) :
       Due(k) /\ (\A i \in 1..n : s[i] # k) => n = limit /\ \A i \in 1..n : s[i] < k

Batch(s, n) ==
  IF n = 0 THEN NoDrain
  ELSE [pc |-> "send", n |-> 0, batch |-> [i \in 1..n |-> [item |-> s[i], count |-> outbox[s[i]].retries]]]

\* The rows are selected with the retry_count they have now.
Select(d, limit) ==
  \E n \in 0..limit : \E s \in [1..n -> 1..Len(outbox)] :
    /\ FirstDue(s, n, limit)
    /\ drain' = [drain EXCEPT ![d] = Batch(s, n)]
    /\ cause' = [k \in Items |-> cause[k] +
                   (IF (\E i \in 1..n : s[i] = k) /\ (\E e \in Drains \ {d} : InBatch(e, k)) THEN 1 ELSE 0)]
    /\ UNCHANGED <<tables, rejecting, rejected, trouble, resends, unlogged>>

\* executeImmediateRun: the timer, or an operator, unless a run is in progress.
StartWorker == At("worker", "idle") /\ Select("worker", BatchSize)

Item(d) == drain[d].batch[1].item

\* On with the next row of the batch.
Onward(d) ==
  drain' = [drain EXCEPT ![d] = IF Len(drain[d].batch) = 1 THEN NoDrain
                                ELSE [pc |-> "send", batch |-> Tail(drain[d].batch), n |-> 0]]

\* Mutant: a call that times out throws, whether or not it reached the carrier.
SendOrThrow(d) ==
  LET k == Item(d)
  IN /\ At(d, "send")
     /\ \/ /\ mail' = [mail EXCEPT ![k] = mail[k] + 1]
           /\ drain' = [drain EXCEPT ![d].pc = "mark", ![d].n = mail[k] + 1]
        \/ /\ mail' = [mail EXCEPT ![k] = mail[k] + 1]
           /\ Goto(d, "fail")
     /\ UNCHANGED <<owed, lost, outbox, logs, rejecting, rejected, trouble, resends, history>>

\* sendViaChannel: the carrier accepts; or the call fails, perhaps after the
\* message went out, and the simulator answers; or the contact is refused.
Send(d) ==
  LET k == Item(d)
  IN /\ At(d, "send")
     /\ \/ /\ mail' = [mail EXCEPT ![k] = mail[k] + 1]
           /\ drain' = [drain EXCEPT ![d].pc = "mark", ![d].n = mail[k] + 1]
        \/ /\ mail' = [mail EXCEPT ![k] = mail[k] + 1]
           /\ Goto(d, "mark")
        \/ Goto(d, "fail") /\ UNCHANGED mail
     /\ UNCHANGED <<owed, lost, outbox, logs, rejecting, rejected, trouble, resends, cause, unlogged>>

\* A statement after the message went out fails: the row is marked FAILED.
AfterSending(d) ==
  /\ Trouble
  /\ drain' = [drain EXCEPT ![d].pc = "fail", ![d].n = 0]
  /\ cause' = [cause EXCEPT ![Item(d)] = cause[Item(d)] + 1]

MarkSent(d) ==
  /\ At(d, "mark")
  /\ \/ /\ outbox' = [outbox EXCEPT ![Item(d)].status = "SENT"]
        /\ Goto(d, "log")
        /\ UNCHANGED <<trouble, cause>>
     \/ AfterSending(d) /\ UNCHANGED outbox
  /\ UNCHANGED <<owed, lost, logs, mail, rejecting, rejected, resends, unlogged>>

LogAttempt(d) ==
  /\ At(d, "log")
  /\ \/ /\ logs' = logs \cup {[item |-> Item(d), n |-> drain[d].n]}
        /\ Onward(d)
        /\ UNCHANGED <<trouble, cause>>
     \/ AfterSending(d) /\ UNCHANGED logs
  /\ UNCHANGED <<owed, lost, outbox, mail, rejecting, rejected, resends, unlogged>>

Failed(k, count) == [outbox EXCEPT ![k] = [status |-> "FAILED", waiting |-> TRUE, retries |-> count + 1]]

\* The count is the one selected, plus one.  If this UPDATE, or the log row after
\* it, fails the exception leaves the loop: the rest of the batch waits.
MarkFailed(d) ==
  LET k == Item(d)
      count == drain[d].batch[1].count
  IN /\ At(d, "fail")
     /\ \/ outbox' = Failed(k, count) /\ Onward(d) /\ UNCHANGED <<trouble, unlogged>>
        \/ /\ Trouble /\ drain' = [drain EXCEPT ![d] = NoDrain]
           /\ \/ outbox' = Failed(k, count) /\ UNCHANGED unlogged
              \/ UNCHANGED outbox /\ unlogged' = unlogged \cup {k}
     /\ UNCHANGED <<owed, lost, logs, mail, rejecting, rejected, resends, cause>>

\* next_retry_at passes.
Elapse(k) ==
  /\ outbox[k].waiting
  /\ outbox' = [outbox EXCEPT ![k].waiting = FALSE]
  /\ UNCHANGED <<owed, lost, logs, mail, drain, rejecting, rejected, trouble, resends, history>>

-----------------------------------------------------------------------------
(* resendOutboxItem.                                                       *)

ResetForResend(k) ==
  /\ At("resend", "idle")
  /\ Trouble
  /\ resends' = [resends EXCEPT ![k] = resends[k] + 1]
  /\ outbox' = [outbox EXCEPT ![k] = [outbox[k] EXCEPT !.status = "PENDING", !.waiting = FALSE]]
  /\ cause' = [cause EXCEPT ![k] = cause[k] + 1]
  /\ Goto("resend", "select")
  /\ UNCHANGED <<owed, lost, logs, mail, rejecting, rejected, unlogged>>

\* It drains one row, the first one due - not always the one it reset.
StartResend == At("resend", "select") /\ Select("resend", 1)

-----------------------------------------------------------------------------
(* handleDeliveryReport, for a rejected message.  A report that finds no   *)
(* log row - it can come before the row - is acknowledged and changes      *)
(* nothing.                                                                *)

ReadReport(k, n) ==
  /\ [item |-> k, n |-> n] \in logs
  /\ <<k, n>> \notin rejecting
  /\ Trouble
  /\ rejecting' = rejecting \cup {<<k, n>>}
  /\ UNCHANGED <<tables, drain, rejected, resends, history>>

\* Mutant: the report is kept in the log and the row is left alone.
MarkRejectedInLog(k, n) ==
  /\ <<k, n>> \in rejecting
  /\ rejecting' = rejecting \ {<<k, n>>}
  /\ rejected' = rejected \cup {<<k, n>>}
  /\ UNCHANGED <<tables, drain, trouble, resends, history>>

\* The row becomes FAILED; its retry_count and next_retry_at stay.
MarkRejected(k, n) ==
  /\ <<k, n>> \in rejecting
  /\ rejecting' = rejecting \ {<<k, n>>}
  /\ outbox' = [outbox EXCEPT ![k].status = "FAILED"]
  /\ rejected' = rejected \cup {<<k, n>>}
  /\ cause' = [cause EXCEPT ![k] = cause[k] + 1]
  /\ UNCHANGED <<owed, lost, logs, mail, drain, trouble, resends, unlogged>>

-----------------------------------------------------------------------------
\* The server stops and starts again: what it was doing is forgotten.
Crash ==
  /\ Trouble
  /\ drain' = [d \in Drains |-> NoDrain]
  /\ owed' = 0 /\ lost' = lost + owed
  /\ rejecting' = {}
  /\ cause' = [k \in Items |-> cause[k] + Cardinality({d \in Drains : At(d, "mark") /\ Item(d) = k})]
  /\ unlogged' = unlogged \cup {Item(d) : d \in {e \in Drains : At(e, "log") \/ At(e, "fail")}}
  /\ UNCHANGED <<outbox, logs, mail, rejected, resends>>

Drain(d) == Send(d) \/ MarkSent(d) \/ LogAttempt(d) \/ MarkFailed(d)

Next ==
  \/ Commit \/ Enqueue
  \/ StartWorker \/ StartResend
  \/ \E d \in Drains : Drain(d)
  \/ \E k \in 1..Len(outbox) :
       \/ Elapse(k) \/ ResetForResend(k)
       \/ \E n \in 1..mail[k] : ReadReport(k, n) \/ MarkRejected(k, n)
  \/ Crash

Spec == Init /\ [][Next]_vars

\* The timer fires, time passes, a handler that has begun goes on.
Fairness ==
  /\ WF_vars(StartWorker) /\ WF_vars(StartResend)
  /\ \A d \in Drains : WF_vars(Drain(d))
  /\ WF_vars(Enqueue)
  /\ \A k \in Items : WF_vars(k <= Len(outbox) /\ Elapse(k))
                      /\ WF_vars(k <= Len(outbox) /\ \E n \in 1..mail[k] : MarkRejected(k, n))
FairSpec == Spec /\ Fairness

-----------------------------------------------------------------------------
(* Properties.                                                             *)

Messages == Items \X (Nat \ {0})

\* Types of the variables.
TypeOK ==
  /\ owed \in Nat /\ lost \in Nat
  /\ outbox \in Seq([status : {"PENDING", "SENT", "FAILED"}, retries : Nat, waiting : BOOLEAN])
  /\ owed + lost + Len(outbox) <= MaxMessages
  /\ logs \subseteq [item : Items, n : Nat]
  /\ mail \in [Items -> Nat] /\ resends \in [Items -> Nat] /\ cause \in [Items -> Nat]
  /\ drain \in [Drains -> [pc : {"idle", "select", "send", "mark", "log", "fail"},
                           batch : Seq([item : Items, count : Nat]), n : Nat]]
  /\ rejecting \subseteq Messages /\ rejected \subseteq Messages
  /\ trouble \in Nat
  /\ unlogged \subseteq Items

\* A customer gets a message again only for a reason: a failed statement or a
\* crash after it went out, an operator's resend, a rejection, two drains that
\* selected the same row.  Nothing else repeats it, in any interleaving.
RepeatsHaveCause == \A k \in Items : mail[k] <= 1 + cause[k]

\* NTF-003: a message is retried up to max_retries, and beyond only as often as
\* an operator asked - although each drain writes the count it read, plus one.
RetriesBounded == \A k \in 1..Len(outbox) : outbox[k].retries <= MaxRetries + resends[k]

\* No interleaving of drains, resends, reports and crashes sends a message, or
\* counts a retry, more often than there is a reason for.
SendsBounded == RepeatsHaveCause /\ RetriesBounded

\* NTF-004: a row that rests at SENT has a logged message that no carrier is
\* known to have rejected, however drains, resends and reports interleave.
\* (A report that comes in before the log row is acknowledged and forgotten.)
SentStands ==
  \A k \in 1..Len(outbox) \ unlogged :
    outbox[k].status = "SENT" /\ (\A d \in Drains : ~InBatch(d, k)) =>
      \E l \in logs : l.item = k /\ <<k, l.n>> \notin rejected

Settled(k) ==
  /\ k <= Len(outbox)
  /\ outbox[k].status = "FAILED" => outbox[k].retries >= MaxRetries
  /\ outbox[k].status # "PENDING"

\* Every queued message is sent or used up its retries, through crashes, failing
\* statements and batches abandoned half-way.
EveryMessageSettles == \A k \in Items : (k <= Len(outbox)) ~> Settled(k)
=============================================================================
