----------------------------- MODULE OutboxProofs -----------------------------
(***************************************************************************)
(* Proofs about Outbox for any number of messages, any batch size, retry   *)
(* limit and number of troubles: a message is repeated only for a cause,   *)
(* the retries are bounded, and a row that rests at SENT was sent.  That   *)
(* every message settles is liveness and is checked by TLC only.           *)
(***************************************************************************)
EXTENDS Outbox, SequenceTheorems, FiniteSetTheorems, TLAPS

RowRecords == [status : {"PENDING", "SENT", "FAILED"}, retries : Nat, waiting : BOOLEAN]
Entries == [item : Items, count : Nat]
DrainRecords ==
  [pc : {"idle", "select", "send", "mark", "log", "fail"}, batch : Seq(Entries), n : Nat]

\* A drain works through rows that exist, in the order of their ids; n is the
\* message it has just sent.
DrainOK(x) ==
  /\ x.pc \in {"idle", "select"} <=> x.batch = << >>
  /\ x.pc \notin {"mark", "log"} => x.n = 0
  /\ \A j \in 1..Len(x.batch) : x.batch[j].item \in 1..Len(outbox)
  /\ \A i, j \in 1..Len(x.batch) : i < j => x.batch[i].item < x.batch[j].item

TypeInv == TypeOK /\ \A d \in Drains : DrainOK(drain[d])

\* Retries: what a drain will write is within the bound too.
RetryInv ==
  /\ \A k \in 1..Len(outbox) :
       outbox[k].status = "PENDING" => outbox[k].retries < MaxRetries + resends[k]
  /\ \A d \in Drains : \A j \in 1..Len(drain[d].batch) :
       drain[d].batch[j].count < MaxRetries + resends[drain[d].batch[j].item]
  /\ RetriesBounded

\* A drain is about to send item k.
Claims(d, k) ==
  \E j \in 1..Len(drain[d].batch) :
    drain[d].batch[j].item = k /\ (j > 1 \/ drain[d].pc \in {"send", "fail"})
Claim(d, k) == IF Claims(d, k) THEN 1 ELSE 0

\* A drain has sent item k and not yet stored that.
Marking(d, k) == At(d, "mark") /\ Item(d) = k

\* What was sent and what is about to be sent has its causes; and so has all that
\* was sent of a row that may be selected again.
RepeatInv ==
  /\ \A k \in Items : mail[k] + Claim("worker", k) + Claim("resend", k) <= 1 + cause[k]
  /\ \A k \in 1..Len(outbox) :
       outbox[k].status # "SENT" /\ (\A d \in Drains : ~Marking(d, k)) => mail[k] <= cause[k]
  /\ \A k \in Items : k > Len(outbox) => mail[k] = 0

-----------------------------------------------------------------------------
(* Steps.                                                                  *)

LEMMA Rows ==
  ASSUME TypeInv
  PROVE  /\ Len(outbox) \in Nat /\ 1..Len(outbox) \subseteq Items
         /\ \A k \in 1..Len(outbox) :
              /\ outbox[k] \in RowRecords
              /\ outbox[k].status \in {"PENDING", "SENT", "FAILED"} /\ outbox[k].retries \in Nat
<1>1. /\ outbox \in Seq(RowRecords)
      /\ owed \in Nat /\ lost \in Nat /\ owed + lost + Len(outbox) <= MaxMessages /\ MaxMessages \in Nat
  BY OutboxAssumption DEF TypeInv, TypeOK, RowRecords
<1>2. Len(outbox) \in Nat BY <1>1, LenProperties
<1>3. 1..Len(outbox) \subseteq Items BY <1>1, <1>2 DEF Items
<1>4. \A k \in 1..Len(outbox) : outbox[k] \in RowRecords BY <1>1, ElementOfSeq
<1> QED BY <1>2, <1>3, <1>4 DEF RowRecords

LEMMA Working ==
  ASSUME TypeInv, NEW d \in Drains, drain[d].pc \notin {"idle", "select"}
  PROVE  /\ drain[d] \in DrainRecords /\ DrainOK(drain[d])
         /\ Len(drain[d].batch) \in Nat \ {0}
         /\ \A j \in 1..Len(drain[d].batch) : drain[d].batch[j] \in Entries
         /\ Item(d) \in 1..Len(outbox) /\ Item(d) \in Items
<1>1. drain[d] \in DrainRecords /\ DrainOK(drain[d])
  BY DEF TypeInv, TypeOK, DrainRecords, Entries
<1>2. drain[d].batch \in Seq(Entries) /\ drain[d].batch # << >>
  BY <1>1 DEF DrainOK, DrainRecords
<1>3. Len(drain[d].batch) \in Nat \ {0} BY <1>2, EmptySeq
<1>4. \A j \in 1..Len(drain[d].batch) : drain[d].batch[j] \in Entries BY <1>2, ElementOfSeq
<1>5. Item(d) \in 1..Len(outbox) BY <1>1, <1>3 DEF DrainOK, Item
<1> QED BY <1>1, <1>3, <1>4, <1>5, Rows

\* A drain goes on with the next row, or is done.
Moved(d) ==
  /\ drain' \in [Drains -> DrainRecords] /\ \A e \in Drains \ {d} : drain'[e] = drain[e]
  /\ drain'[d].n = 0 /\ drain'[d].pc \in {"idle", "send"}
  /\ drain'[d].pc = "idle" <=> drain'[d].batch = << >>
  /\ Len(drain'[d].batch) = Len(drain[d].batch) - 1
  /\ \A j \in 1..Len(drain[d].batch) - 1 : drain'[d].batch[j] = drain[d].batch[j + 1]

LEMMA OnwardEffect ==
  ASSUME TypeInv, NEW d \in Drains, drain[d].pc \notin {"idle", "select"}, Onward(d)
  PROVE  Moved(d)
<1> DEFINE b == drain[d].batch
           x == IF Len(b) = 1 THEN NoDrain ELSE [pc |-> "send", batch |-> Tail(b), n |-> 0]
<1>1. b \in Seq(Entries) /\ Len(b) \in Nat \ {0} /\ b # << >>
  BY Working DEF DrainRecords, DrainOK
<1>2. drain' = [drain EXCEPT ![d] = x] BY DEF Onward
<1>3. drain \in [Drains -> DrainRecords] BY DEF TypeInv, TypeOK, DrainRecords, Entries
<1>4. CASE Len(b) = 1
  <2>1. x = NoDrain BY <1>4
  <2>2. /\ x \in DrainRecords /\ x.pc = "idle" /\ x.n = 0 /\ x.batch = << >>
        /\ Len(x.batch) = 0
    BY <2>1 DEF NoDrain, DrainRecords
  <2> HIDE DEF x
  <2> QED BY <1>1, <1>2, <1>3, <1>4, <2>2 DEF Moved
<1>5. CASE Len(b) # 1
  <2>1. x = [pc |-> "send", batch |-> Tail(b), n |-> 0] BY <1>5
  <2>2. /\ Tail(b) \in Seq(Entries) /\ Len(Tail(b)) = Len(b) - 1
        /\ \A j \in 1..Len(b) - 1 : Tail(b)[j] = b[j + 1]
        /\ Tail(b) # << >>
    <3>1. /\ Tail(b) \in Seq(Entries) /\ Len(Tail(b)) = Len(b) - 1
          /\ \A j \in 1..Len(Tail(b)) : Tail(b)[j] = b[j + 1]
      BY <1>1, HeadTailProperties
    <3>2. Len(Tail(b)) # 0 BY <1>1, <1>5, <3>1
    <3> QED BY <3>1, <3>2, EmptySeq
  <2>3. /\ x \in DrainRecords /\ x.pc = "send" /\ x.n = 0 /\ x.batch = Tail(b)
    BY <2>1, <2>2 DEF DrainRecords
  <2> HIDE DEF x
  <2> QED BY <1>1, <1>2, <1>3, <2>2, <2>3 DEF Moved
<1> QED BY <1>4, <1>5

\* A drain has selected the rows of its batch.
Selected(d) ==
  /\ UNCHANGED <<tables, rejecting, rejected, trouble, resends, unlogged>>
  /\ drain[d].batch = << >>
  /\ \A e \in Drains \ {d} : drain'[e] = drain[e]
  /\ drain' \in [Drains -> DrainRecords] /\ DrainOK(drain'[d]) /\ drain'[d].pc \in {"idle", "send"}
  /\ \A j \in 1..Len(drain'[d].batch) :
       /\ Due(drain'[d].batch[j].item)
       /\ drain'[d].batch[j].count = outbox[drain'[d].batch[j].item].retries
  /\ cause' \in [Items -> Nat] /\ \A k \in Items : cause'[k] >= cause[k]
  /\ \A j \in 1..Len(drain'[d].batch), e \in Drains \ {d} :
       LET k == drain'[d].batch[j].item IN InBatch(e, k) => cause'[k] = cause[k] + 1

LEMMA SelectEffect ==
  ASSUME TypeInv, NEW d \in Drains, drain[d].pc \in {"idle", "select"}, NEW limit \in Nat,
         Select(d, limit)
  PROVE  Selected(d)
<1>0. PICK n \in 0..limit : \E s \in [1..n -> 1..Len(outbox)] :
        /\ FirstDue(s, n, limit)
        /\ drain' = [drain EXCEPT ![d] = Batch(s, n)]
        /\ cause' = [k \in Items |-> cause[k] +
                       (IF (\E i \in 1..n : s[i] = k) /\ (\E e \in Drains \ {d} : InBatch(e, k))
                        THEN 1 ELSE 0)]
        /\ UNCHANGED <<tables, rejecting, rejected, trouble, resends, unlogged>>
  BY DEF Select
<1>1. PICK s \in [1..n -> 1..Len(outbox)] :
        /\ FirstDue(s, n, limit)
        /\ drain' = [drain EXCEPT ![d] = Batch(s, n)]
        /\ cause' = [k \in Items |-> cause[k] +
                       (IF (\E i \in 1..n : s[i] = k) /\ (\E e \in Drains \ {d} : InBatch(e, k))
                        THEN 1 ELSE 0)]
        /\ UNCHANGED <<tables, rejecting, rejected, trouble, resends, unlogged>>
  BY <1>0
<1> DEFINE x == Batch(s, n)
<1>2. drain[d].batch = << >> BY DEF TypeInv, DrainOK
<1>3. drain \in [Drains -> DrainRecords] BY DEF TypeInv, TypeOK, DrainRecords, Entries
<1>4. /\ x \in DrainRecords /\ x.n = 0 /\ Len(x.batch) = n
      /\ x.pc = (IF n = 0 THEN "idle" ELSE "send")
      /\ n = 0 <=> x.batch = << >>
      /\ \A j \in 1..n : x.batch[j].item = s[j] /\ x.batch[j].count = outbox[s[j]].retries
  <2>1. CASE n = 0
    <3>1. x = NoDrain BY <2>1 DEF Batch
    <3>2. NoDrain \in DrainRecords /\ NoDrain.n = 0 /\ NoDrain.batch = << >> /\ NoDrain.pc = "idle"
      BY DEF NoDrain, DrainRecords
    <3>3. 1..n = {} BY <2>1
    <3> HIDE DEF x
    <3> QED BY <2>1, <3>1, <3>2, <3>3
  <2>2. CASE n # 0
    <3> DEFINE b == [i \in 1..n |-> [item |-> s[i], count |-> outbox[s[i]].retries]]
    <3>1. x = [pc |-> "send", n |-> 0, batch |-> b] BY <2>2 DEF Batch
    <3>2. \A i \in 1..n : s[i] \in Items /\ outbox[s[i]].retries \in Nat BY Rows
    <3>3. n \in Nat /\ b \in [1..n -> Entries] BY <3>2 DEF Entries
    <3>4. b \in Seq(Entries) /\ Len(b) = n BY <3>3
    <3>5. \A j \in 1..n : b[j].item = s[j] /\ b[j].count = outbox[s[j]].retries OBVIOUS
    <3> HIDE DEF b
    <3>6. b # << >> BY <2>2, <3>4
    <3>7. x \in DrainRecords /\ x.n = 0 /\ x.batch = b /\ x.pc = "send"
      BY <3>1, <3>4 DEF DrainRecords
    <3> HIDE DEF x
    <3> QED BY <2>2, <3>4, <3>5, <3>6, <3>7
  <2> QED BY <2>1, <2>2
<1> HIDE DEF x
<1>5. drain'[d] = x /\ \A e \in Drains \ {d} : drain'[e] = drain[e] BY <1>1, <1>3 DEF x
<1>6. drain' \in [Drains -> DrainRecords] BY <1>1, <1>3, <1>4 DEF x
<1>7. \A j \in 1..n : Due(s[j]) /\ s[j] \in 1..Len(outbox) BY <1>1 DEF FirstDue
<1>8. \A i, j \in 1..n : i < j => s[i] < s[j] BY <1>1 DEF FirstDue
<1>9. DrainOK(x) BY <1>4, <1>7, <1>8 DEF DrainOK
<1>10. cause \in [Items -> Nat] BY DEF TypeInv, TypeOK
<1>11. /\ cause' \in [Items -> Nat] /\ \A k \in Items : cause'[k] >= cause[k]
       /\ \A k \in Items : (\E i \in 1..n : s[i] = k) /\ (\E e \in Drains \ {d} : InBatch(e, k))
            => cause'[k] = cause[k] + 1
  BY <1>1, <1>10
<1>12. ASSUME NEW j \in 1..n, NEW e \in Drains \ {d}, InBatch(e, s[j])
       PROVE  cause'[s[j]] = cause[s[j]] + 1
  <2>1. s[j] \in Items BY <1>7, Rows
  <2> QED BY <1>11, <1>12, <2>1
<1>13. \A j \in 1..Len(x.batch) :
         /\ Due(x.batch[j].item) /\ x.batch[j].count = outbox[x.batch[j].item].retries
         /\ \A e \in Drains \ {d} :
              InBatch(e, x.batch[j].item) => cause'[x.batch[j].item] = cause[x.batch[j].item] + 1
  BY <1>4, <1>7, <1>12
<1>14. x.pc \in {"idle", "send"} BY <1>4
<1>15. UNCHANGED <<tables, rejecting, rejected, trouble, resends, unlogged>> BY <1>1
<1> QED BY <1>2, <1>5, <1>6, <1>9, <1>11, <1>13, <1>14, <1>15 DEF Selected

\* A drain that works has taken its next step on the same row.
Holds(d, pc, n) ==
  /\ drain' \in [Drains -> DrainRecords] /\ \A e \in Drains \ {d} : drain'[e] = drain[e]
  /\ drain'[d].pc = pc /\ drain'[d].n = n /\ drain'[d].batch = drain[d].batch

LEMMA StepHolds ==
  ASSUME TypeInv, NEW d \in Drains, NEW pc \in {"mark", "log", "fail"}, NEW n \in Nat,
         \/ drain' = [drain EXCEPT ![d].pc = pc, ![d].n = n]
         \/ Goto(d, pc) /\ n = drain[d].n
  PROVE  Holds(d, pc, n)
<1>1. drain \in [Drains -> DrainRecords] BY DEF TypeInv, TypeOK, DrainRecords, Entries
<1> DEFINE x == [drain[d] EXCEPT !.pc = pc, !.n = n]
<1>2. drain[d] \in DrainRecords BY <1>1
<1>3. x \in DrainRecords /\ x.pc = pc /\ x.n = n /\ x.batch = drain[d].batch
  BY <1>2 DEF DrainRecords
<1>4. drain' = [drain EXCEPT ![d] = x]
  <2>1. CASE drain' = [drain EXCEPT ![d].pc = pc, ![d].n = n] BY <1>1, <2>1
  <2>2. CASE Goto(d, pc) /\ n = drain[d].n
    <3>1. [drain[d] EXCEPT !.pc = pc] = x BY <1>2, <2>2 DEF DrainRecords
    <3>2. drain' = [drain EXCEPT ![d] = [drain[d] EXCEPT !.pc = pc]] BY <1>1, <2>2 DEF Goto
    <3> QED BY <3>1, <3>2
  <2> QED BY <2>1, <2>2
<1> HIDE DEF x
<1> QED BY <1>1, <1>3, <1>4 DEF Holds

LEMMA RowEffect ==
  ASSUME TypeInv, NEW k \in 1..Len(outbox), NEW r \in RowRecords, outbox' = [outbox EXCEPT ![k] = r]
  PROVE  /\ outbox' \in Seq(RowRecords) /\ Len(outbox') = Len(outbox)
         /\ outbox'[k] = r /\ \A j \in 1..Len(outbox) \ {k} : outbox'[j] = outbox[j]
<1>1. outbox \in Seq(RowRecords) BY DEF TypeInv, TypeOK, RowRecords
<1> QED BY <1>1, ExceptSeq

\* The status of a row becomes s, and it waits or not.
LEMMA StatusEffect ==
  ASSUME TypeInv, NEW k \in 1..Len(outbox), NEW s \in {"PENDING", "SENT", "FAILED"},
         \/ outbox' = [outbox EXCEPT ![k].status = s]
         \/ outbox' = [outbox EXCEPT ![k] = [outbox[k] EXCEPT !.status = s, !.waiting = FALSE]]
  PROVE  /\ outbox' \in Seq(RowRecords) /\ Len(outbox') = Len(outbox)
         /\ outbox'[k].status = s /\ outbox'[k].retries = outbox[k].retries
         /\ \A j \in 1..Len(outbox) \ {k} : outbox'[j] = outbox[j]
<1>1. outbox[k] \in RowRecords /\ outbox \in Seq(RowRecords) BY Rows DEF TypeInv, TypeOK, RowRecords
<1> DEFINE x == [outbox[k] EXCEPT !.status = s]
           y == [outbox[k] EXCEPT !.status = s, !.waiting = FALSE]
<1>2. /\ x \in RowRecords /\ x.status = s /\ x.retries = outbox[k].retries
      /\ y \in RowRecords /\ y.status = s /\ y.retries = outbox[k].retries
  BY <1>1 DEF RowRecords
<1>3. outbox' = [outbox EXCEPT ![k] = x] \/ outbox' = [outbox EXCEPT ![k] = y]
  OBVIOUS
<1> HIDE DEF x, y
<1>4. CASE outbox' = [outbox EXCEPT ![k] = x] BY <1>2, <1>4, RowEffect
<1>5. CASE outbox' = [outbox EXCEPT ![k] = y] BY <1>2, <1>5, RowEffect
<1> QED BY <1>3, <1>4, <1>5

LEMMA FailedEffect ==
  ASSUME TypeInv, NEW k \in 1..Len(outbox), NEW count \in Nat, outbox' = Failed(k, count)
  PROVE  /\ outbox' \in Seq(RowRecords) /\ Len(outbox') = Len(outbox)
         /\ outbox'[k].status = "FAILED" /\ outbox'[k].retries = count + 1
         /\ \A j \in 1..Len(outbox) \ {k} : outbox'[j] = outbox[j]
<1> DEFINE x == [status |-> "FAILED", waiting |-> TRUE, retries |-> count + 1]
<1>1. x \in RowRecords /\ x.status = "FAILED" /\ x.retries = count + 1 BY DEF RowRecords
<1>2. outbox' = [outbox EXCEPT ![k] = x] BY DEF Failed
<1> HIDE DEF x
<1> QED BY <1>1, <1>2, RowEffect

LEMMA EnqueueEffect ==
  ASSUME TypeInv, NEW r \in RowRecords, outbox' = Append(outbox, r)
  PROVE  /\ outbox' \in Seq(RowRecords) /\ Len(outbox') = Len(outbox) + 1
         /\ outbox'[Len(outbox) + 1] = r
         /\ \A j \in 1..Len(outbox) : outbox'[j] = outbox[j]
<1>1. outbox \in Seq(RowRecords) BY DEF TypeInv, TypeOK, RowRecords
<1> QED BY <1>1, AppendProperties

\* What a drain in progress relies on survives as long as no row is deleted.
LEMMA DrainsKept ==
  ASSUME TypeInv, outbox' \in Seq(RowRecords), Len(outbox') >= Len(outbox), NEW e \in Drains,
         drain'[e] = drain[e]
  PROVE  DrainOK(drain[e])'
<1>1. DrainOK(drain[e]) BY DEF TypeInv
<1>2. Len(outbox) \in Nat /\ Len(outbox') \in Nat BY Rows, LenProperties
<1> QED BY <1>1, <1>2 DEF DrainOK

LEMMA HoldsTyped ==
  ASSUME TypeInv, NEW d \in Drains, NEW pc \in {"mark", "log", "fail"}, NEW n \in Nat,
         Holds(d, pc, n), pc = "fail" => n = 0, drain[d].pc \notin {"idle", "select"},
         outbox' \in Seq(RowRecords), Len(outbox') = Len(outbox)
  PROVE  drain' \in [Drains -> DrainRecords] /\ \A e \in Drains : DrainOK(drain[e])'
<1>1. \A e \in Drains \ {d} : DrainOK(drain[e])' BY DrainsKept, Rows DEF Holds
<1>2. DrainOK(drain[d]) BY DEF TypeInv
<1>3. DrainOK(drain[d])' BY <1>2 DEF DrainOK, Holds
<1> QED BY <1>1, <1>3 DEF Holds

LEMMA MovedTyped ==
  ASSUME TypeInv, NEW d \in Drains, Moved(d), drain[d].pc \notin {"idle", "select"},
         outbox' \in Seq(RowRecords), Len(outbox') = Len(outbox)
  PROVE  drain' \in [Drains -> DrainRecords] /\ \A e \in Drains : DrainOK(drain[e])'
<1>1. \A e \in Drains \ {d} : DrainOK(drain[e])' BY DrainsKept, Rows DEF Moved
<1>2. DrainOK(drain[d]) /\ Len(drain[d].batch) \in Nat \ {0} BY Working
<1> DEFINE m == Len(drain[d].batch)
           b == drain[d].batch
<1>3. /\ \A j \in 1..m : b[j].item \in 1..Len(outbox)
      /\ \A i, j \in 1..m : i < j => b[i].item < b[j].item
  BY <1>2 DEF DrainOK
<1>4. m \in Nat \ {0} BY <1>2
<1>5. /\ drain'[d].n = 0 /\ drain'[d].pc \in {"idle", "send"}
      /\ drain'[d].pc = "idle" <=> drain'[d].batch = << >>
      /\ Len(drain'[d].batch) = m - 1
      /\ \A j \in 1..m - 1 : drain'[d].batch[j] = b[j + 1]
  BY DEF Moved
<1> HIDE DEF m, b
<1>6. \A j \in 1..m - 1 : j + 1 \in 1..m BY <1>4
<1>7. \A j \in 1..m - 1 : drain'[d].batch[j].item \in 1..Len(outbox) BY <1>3, <1>5, <1>6
<1>8. \A i, j \in 1..m - 1 : i < j => drain'[d].batch[i].item < drain'[d].batch[j].item
  <2> TAKE i \in 1..m - 1, j \in 1..m - 1
  <2> HAVE i < j
  <2>1. i + 1 \in 1..m /\ j + 1 \in 1..m /\ i + 1 < j + 1 BY <1>4, <1>6
  <2>2. b[i + 1].item < b[j + 1].item BY <1>3, <2>1
  <2> QED BY <1>5, <2>2
<1>9. DrainOK(drain[d])' BY <1>5, <1>7, <1>8 DEF DrainOK
<1> QED BY <1>1, <1>9 DEF Moved

LEMMA NoDrainTyped ==
  /\ NoDrain \in DrainRecords /\ NoDrain.pc = "idle" /\ NoDrain.batch = << >> /\ NoDrain.n = 0
  /\ Len(NoDrain.batch) = 0
BY DEF NoDrain, DrainRecords

\* A drain is dropped with the rest of its batch.
LEMMA DropTyped ==
  ASSUME TypeInv, NEW d \in Drains, drain' = [drain EXCEPT ![d] = NoDrain],
         outbox' \in Seq(RowRecords), Len(outbox') = Len(outbox)
  PROVE  /\ drain' \in [Drains -> DrainRecords] /\ \A e \in Drains : DrainOK(drain[e])'
         /\ drain'[d] = NoDrain /\ \A e \in Drains \ {d} : drain'[e] = drain[e]
<1>1. drain \in [Drains -> DrainRecords] BY DEF TypeInv, TypeOK, DrainRecords, Entries
<1>2. /\ drain' \in [Drains -> DrainRecords]
      /\ drain'[d] = NoDrain /\ \A e \in Drains \ {d} : drain'[e] = drain[e]
  BY <1>1, NoDrainTyped
<1>3. \A e \in Drains \ {d} : DrainOK(drain[e])' BY <1>2, DrainsKept, Rows
<1>4. DrainOK(drain[d])' BY <1>2, NoDrainTyped DEF DrainOK
<1> QED BY <1>2, <1>3, <1>4

\* The types that the step of a drain can disturb.
DrainTyped ==
  /\ outbox' \in Seq(RowRecords) /\ Len(outbox') = Len(outbox)
  /\ drain' \in [Drains -> DrainRecords] /\ \A e \in Drains : DrainOK(drain[e])'

LEMMA SendTyped ==
  ASSUME TypeInv, NEW d \in Drains, Send(d)
  PROVE  TypeInv' /\ DrainTyped
<1> DEFINE k == Item(d)
<1>1. At(d, "send") /\ UNCHANGED outbox BY DEF Send
<1>2. k \in Items /\ drain[d].n = 0 BY <1>1, Working DEF At, DrainOK
<1>3. mail \in [Items -> Nat] /\ outbox \in Seq(RowRecords) BY DEF TypeInv, TypeOK, RowRecords
<1>4. mail' \in [Items -> Nat] BY <1>2, <1>3 DEF Send
<1>5. \/ Holds(d, "mark", mail[k] + 1) \/ Holds(d, "mark", 0) \/ Holds(d, "fail", 0)
  <2>1. mail[k] + 1 \in Nat BY <1>2, <1>3
  <2>2. \/ drain' = [drain EXCEPT ![d].pc = "mark", ![d].n = mail[k] + 1]
        \/ Goto(d, "mark") \/ Goto(d, "fail")
    BY DEF Send
  <2> HIDE DEF k
  <2>3. CASE drain' = [drain EXCEPT ![d].pc = "mark", ![d].n = mail[k] + 1]
    BY <2>1, <2>3, StepHolds
  <2>6. drain[d].n = 0 /\ 0 \in Nat BY <1>2
  <2>4. CASE Goto(d, "mark")
    <3>1. Holds(d, "mark", drain[d].n) BY <2>4, <2>6, StepHolds
    <3> QED BY <2>6, <3>1
  <2>5. CASE Goto(d, "fail")
    <3>1. Holds(d, "fail", drain[d].n) BY <2>5, <2>6, StepHolds
    <3> QED BY <2>6, <3>1
  <2> QED BY <2>2, <2>3, <2>4, <2>5
<1> HIDE DEF k
<1>6. drain' \in [Drains -> DrainRecords] /\ \A e \in Drains : DrainOK(drain[e])'
  BY <1>1, <1>2, <1>3, <1>5, HoldsTyped DEF At
<1>7. DrainTyped BY <1>1, <1>3, <1>6 DEF DrainTyped
<1>8. TypeOK' BY <1>4, <1>6 DEF Send, TypeInv, TypeOK, DrainRecords, Entries
<1> QED BY <1>6, <1>7, <1>8 DEF TypeInv

LEMMA AfterSendingEffect ==
  ASSUME TypeInv, NEW d \in Drains, drain[d].pc \notin {"idle", "select"}, AfterSending(d)
  PROVE  /\ Holds(d, "fail", 0)
         /\ cause' \in [Items -> Nat] /\ cause'[Item(d)] = cause[Item(d)] + 1
         /\ \A k \in Items \ {Item(d)} : cause'[k] = cause[k]
         /\ trouble' \in Nat
<1>1. cause \in [Items -> Nat] /\ trouble \in Nat /\ Item(d) \in Items
  BY Working DEF TypeInv, TypeOK
<1>2. Holds(d, "fail", 0) BY StepHolds DEF AfterSending
<1> QED BY <1>1, <1>2 DEF AfterSending, Trouble

LEMMA MarkTyped ==
  ASSUME TypeInv, NEW d \in Drains, MarkSent(d)
  PROVE  TypeInv' /\ DrainTyped
<1>1. /\ At(d, "mark") /\ drain[d].n \in Nat /\ Item(d) \in 1..Len(outbox)
      /\ outbox \in Seq(RowRecords)
  BY Working DEF MarkSent, At, DrainRecords, TypeInv, TypeOK, RowRecords
<1>2. DrainTyped /\ cause' \in [Items -> Nat] /\ trouble' \in Nat
  <2>1. CASE outbox' = [outbox EXCEPT ![Item(d)].status = "SENT"] /\ Goto(d, "log")
                 /\ UNCHANGED <<trouble, cause>>
    <3>1. outbox' \in Seq(RowRecords) /\ Len(outbox') = Len(outbox) BY <1>1, <2>1, StatusEffect
    <3>2. Holds(d, "log", drain[d].n) BY <1>1, <2>1, StepHolds
    <3> QED BY <1>1, <2>1, <3>1, <3>2, HoldsTyped DEF DrainTyped, At, TypeInv, TypeOK
  <2>2. CASE AfterSending(d) /\ UNCHANGED outbox
    BY <1>1, <2>2, AfterSendingEffect, HoldsTyped DEF DrainTyped, At
  <2> QED BY <2>1, <2>2 DEF MarkSent
<1>3. TypeOK' BY <1>2 DEF DrainTyped, MarkSent, TypeInv, TypeOK, DrainRecords, Entries, RowRecords
<1> QED BY <1>2, <1>3 DEF DrainTyped, TypeInv

LEMMA LogTyped ==
  ASSUME TypeInv, NEW d \in Drains, LogAttempt(d)
  PROVE  TypeInv' /\ DrainTyped
<1>1. /\ At(d, "log") /\ drain[d].n \in Nat /\ Item(d) \in Items
      /\ outbox \in Seq(RowRecords) /\ UNCHANGED outbox
  BY Working DEF LogAttempt, At, DrainRecords, TypeInv, TypeOK, RowRecords
<1>2. DrainTyped /\ cause' \in [Items -> Nat] /\ trouble' \in Nat /\ logs' \subseteq [item : Items, n : Nat]
  <2>1. CASE logs' = logs \cup {[item |-> Item(d), n |-> drain[d].n]} /\ Onward(d)
                 /\ UNCHANGED <<trouble, cause>>
    <3>1. Moved(d) BY <1>1, <2>1, OnwardEffect DEF At
    <3>2. DrainTyped BY <1>1, <3>1, MovedTyped DEF DrainTyped, At
    <3>3. logs' \subseteq [item : Items, n : Nat] BY <1>1, <2>1 DEF TypeInv, TypeOK
    <3> QED BY <2>1, <3>2, <3>3 DEF TypeInv, TypeOK
  <2>2. CASE AfterSending(d) /\ UNCHANGED logs
    BY <1>1, <2>2, AfterSendingEffect, HoldsTyped DEF DrainTyped, At, TypeInv, TypeOK
  <2> QED BY <2>1, <2>2 DEF LogAttempt
<1>3. TypeOK' BY <1>2 DEF DrainTyped, LogAttempt, TypeInv, TypeOK, DrainRecords, Entries, RowRecords
<1> QED BY <1>2, <1>3 DEF DrainTyped, TypeInv

\* A row is marked FAILED and the drain goes on, or what it does fails and it is dropped.
LEMMA MarkFailedEffect ==
  ASSUME TypeInv, NEW d \in Drains, MarkFailed(d)
  PROVE  LET k == Item(d)
         IN /\ At(d, "fail") /\ k \in 1..Len(outbox) /\ drain[d].batch[1].count \in Nat
            /\ \/ outbox' = Failed(k, drain[d].batch[1].count) /\ UNCHANGED unlogged
               \/ UNCHANGED outbox /\ unlogged' = unlogged \cup {k}
            /\ Moved(d) \/ drain' = [drain EXCEPT ![d] = NoDrain]
            /\ trouble' \in Nat
<1>1. At(d, "fail") BY DEF MarkFailed
<1>2. /\ Item(d) \in 1..Len(outbox) /\ drain[d].batch[1] \in Entries /\ trouble \in Nat
  <2>1. /\ Len(drain[d].batch) \in Nat \ {0} /\ Item(d) \in 1..Len(outbox)
        /\ \A j \in 1..Len(drain[d].batch) : drain[d].batch[j] \in Entries
    BY <1>1, Working DEF At
  <2> QED BY <2>1 DEF TypeInv, TypeOK
<1>3. drain[d].batch[1].count \in Nat BY <1>2 DEF Entries
<1>4. Onward(d) => Moved(d) BY <1>1, OnwardEffect DEF At
<1> QED BY <1>1, <1>2, <1>3, <1>4 DEF MarkFailed, Trouble

LEMMA FailTyped ==
  ASSUME TypeInv, NEW d \in Drains, MarkFailed(d)
  PROVE  TypeInv' /\ DrainTyped
<1> DEFINE k == Item(d)
           count == drain[d].batch[1].count
<1>1. /\ At(d, "fail") /\ k \in 1..Len(outbox) /\ count \in Nat
      /\ \/ outbox' = Failed(k, count) /\ UNCHANGED unlogged
         \/ UNCHANGED outbox /\ unlogged' = unlogged \cup {k}
      /\ Moved(d) \/ drain' = [drain EXCEPT ![d] = NoDrain]
      /\ trouble' \in Nat
  BY MarkFailedEffect
<1>2. outbox \in Seq(RowRecords) BY DEF TypeInv, TypeOK, RowRecords
<1> HIDE DEF k, count
<1>3. outbox' \in Seq(RowRecords) /\ Len(outbox') = Len(outbox) BY <1>1, <1>2, FailedEffect
<1>4. DrainTyped BY <1>1, <1>3, MovedTyped, DropTyped DEF DrainTyped, At
<1>5. k \in Items BY <1>1, Rows
<1>6. TypeOK' BY <1>1, <1>4, <1>5 DEF DrainTyped, MarkFailed, TypeInv, TypeOK, DrainRecords, Entries, RowRecords
<1> QED BY <1>4, <1>6 DEF DrainTyped, TypeInv

LEMMA StartTyped ==
  ASSUME TypeInv, NEW d \in Drains, Selected(d)
  PROVE  TypeInv'
<1>1. UNCHANGED outbox /\ outbox \in Seq(RowRecords) BY DEF Selected, tables, TypeInv, TypeOK, RowRecords
<1>2. \A e \in Drains \ {d} : DrainOK(drain[e])' BY <1>1, DrainsKept, Rows DEF Selected
<1>3. DrainOK(drain[d])' BY <1>1 DEF Selected, DrainOK
<1>4. TypeOK' BY DEF Selected, tables, TypeInv, TypeOK, DrainRecords, Entries
<1> QED BY <1>2, <1>3, <1>4 DEF TypeInv

\* Steps in which no drain moves and no row is deleted.
LEMMA StillTyped ==
  ASSUME TypeInv, UNCHANGED drain, outbox' \in Seq(RowRecords), Len(outbox') >= Len(outbox)
  PROVE  \A e \in Drains : DrainOK(drain[e])'
BY DrainsKept

LEMMA TypeInit == Init => TypeInv
<1> SUFFICES ASSUME Init PROVE TypeInv OBVIOUS
<1>1. outbox \in Seq(RowRecords) /\ Len(outbox) = 0 BY DEF Init
<1>2. \A d \in Drains : drain[d] = NoDrain /\ DrainOK(drain[d])
  <2>1. \A d \in Drains : drain[d] = NoDrain BY DEF Init
  <2> QED BY <2>1, NoDrainTyped DEF DrainOK
<1>3. drain \in [Drains -> DrainRecords] BY NoDrainTyped DEF Init
<1>5. owed + lost + Len(outbox) <= MaxMessages /\ owed \in Nat /\ lost \in Nat
  BY <1>1, OutboxAssumption DEF Init
<1>6. mail \in [Items -> Nat] /\ resends \in [Items -> Nat] /\ cause \in [Items -> Nat] BY DEF Init
<1>4. TypeOK
  BY <1>1, <1>3, <1>5, <1>6 DEF Init, TypeOK, RowRecords, DrainRecords, Entries
<1> QED BY <1>2, <1>4 DEF TypeInv

LEMMA EnqueueTyped ==
  ASSUME TypeInv, Enqueue
  PROVE  TypeInv'
<1> DEFINE r == [status |-> "PENDING", retries |-> 0, waiting |-> FALSE]
<1>1. /\ outbox \in Seq(RowRecords) /\ Len(outbox) \in Nat /\ MaxMessages \in Nat
      /\ owed \in Nat /\ lost \in Nat /\ owed > 0 /\ owed' = owed - 1
      /\ owed + lost + Len(outbox) <= MaxMessages /\ trouble \in Nat
  BY Rows, OutboxAssumption DEF Enqueue, TypeInv, TypeOK, RowRecords
<1>2. r \in RowRecords BY DEF RowRecords
<1>3. \/ outbox' = Append(outbox, r) /\ UNCHANGED <<lost, trouble>>
      \/ Trouble /\ lost' = lost + 1 /\ UNCHANGED outbox
  BY DEF Enqueue
<1> HIDE DEF r
<1>4. /\ outbox' \in Seq(RowRecords) /\ Len(outbox') >= Len(outbox)
      /\ owed' \in Nat /\ lost' \in Nat /\ owed' + lost' + Len(outbox') <= MaxMessages
      /\ trouble' \in Nat
  <2>1. CASE outbox' = Append(outbox, r) /\ UNCHANGED <<lost, trouble>>
    BY <1>1, <1>2, <2>1, EnqueueEffect
  <2>2. CASE Trouble /\ lost' = lost + 1 /\ UNCHANGED outbox BY <1>1, <2>2 DEF Trouble
  <2> QED BY <1>3, <2>1, <2>2
<1>5. UNCHANGED <<drain, logs, mail, rejecting, rejected, resends, history>> BY DEF Enqueue
<1>6. \A e \in Drains : DrainOK(drain[e])' BY <1>4, <1>5, StillTyped
<1>7. TypeOK' BY <1>4, <1>5 DEF TypeInv, TypeOK, history, RowRecords
<1> QED BY <1>6, <1>7 DEF TypeInv

LEMMA ResetTyped ==
  ASSUME TypeInv, NEW k \in 1..Len(outbox), ResetForResend(k)
  PROVE  /\ TypeInv'
         /\ drain["resend"].batch = << >> /\ drain'["resend"].batch = << >>
         /\ drain'["worker"] = drain["worker"]
         /\ drain'["resend"].pc = "select"
<1>1. outbox' \in Seq(RowRecords) /\ Len(outbox') = Len(outbox)
  BY StatusEffect DEF ResetForResend
<1>2. drain \in [Drains -> DrainRecords] BY DEF TypeInv, TypeOK, DrainRecords, Entries
<1> DEFINE x == [drain["resend"] EXCEPT !.pc = "select"]
<1>3. "resend" \in Drains /\ "worker" \in Drains /\ \A d \in Drains : d = "resend" \/ d = "worker"
  BY DEF Drains
<1>4. /\ drain["resend"] \in DrainRecords /\ DrainOK(drain["resend"])
      /\ drain["resend"].pc = "idle"
  BY <1>2, <1>3 DEF TypeInv, ResetForResend, At
<1>5. drain["resend"].batch = << >> /\ drain["resend"].n = 0 BY <1>4 DEF DrainOK
<1>6. x \in DrainRecords /\ x.pc = "select" /\ x.batch = << >> /\ x.n = 0
  BY <1>4, <1>5 DEF DrainRecords
<1>7. drain' = [drain EXCEPT !["resend"] = x] BY <1>2, <1>3 DEF ResetForResend, Goto
<1> HIDE DEF x
<1>8. /\ drain' \in [Drains -> DrainRecords] /\ drain'["resend"] = x
      /\ drain'["worker"] = drain["worker"]
  BY <1>2, <1>3, <1>6, <1>7
<1>9. DrainOK(drain["worker"])' BY <1>1, <1>3, <1>8, DrainsKept, Rows
<1>10. DrainOK(drain["resend"])'
  <2>1. drain'["resend"].batch = << >> /\ Len(drain'["resend"].batch) = 0 BY <1>6, <1>8
  <2> QED BY <1>6, <1>8, <2>1 DEF DrainOK
<1>11. k \in Items BY Rows
<1>14. resends' \in [Items -> Nat] /\ cause' \in [Items -> Nat] /\ trouble' \in Nat
  <2>1. resends \in [Items -> Nat] /\ cause \in [Items -> Nat] /\ trouble \in Nat
    BY DEF TypeInv, TypeOK
  <2>2. /\ resends' = [resends EXCEPT ![k] = resends[k] + 1]
        /\ cause' = [cause EXCEPT ![k] = cause[k] + 1]
        /\ trouble' = trouble + 1
    BY DEF ResetForResend, Trouble
  <2> QED BY <1>11, <2>1, <2>2
<1>15. UNCHANGED <<owed, lost, logs, mail, rejecting, rejected, unlogged>> BY DEF ResetForResend
<1>12. TypeOK' BY <1>1, <1>8, <1>14, <1>15 DEF TypeInv, TypeOK, DrainRecords, Entries, RowRecords
<1>13. \A e \in Drains : DrainOK(drain[e])' BY <1>3, <1>9, <1>10
<1> QED BY <1>5, <1>6, <1>8, <1>12, <1>13 DEF TypeInv

\* The pair of a report names a row that exists.
LEMMA ReportTyped ==
  ASSUME TypeInv, NEW k \in 1..Len(outbox), NEW n \in 1..mail[k],
         ReadReport(k, n) \/ MarkRejected(k, n)
  PROVE  TypeInv'
<1>0. k \in Items /\ mail[k] \in Nat BY Rows DEF TypeInv, TypeOK
<1>1. <<k, n>> \in Messages
  <2>1. n \in Nat \ {0} BY <1>0
  <2> QED BY <1>0, <2>1 DEF Messages
<1>2. outbox \in Seq(RowRecords) BY DEF TypeInv, TypeOK, RowRecords
<1>3. CASE ReadReport(k, n)
  <2>1. UNCHANGED <<outbox, drain>> BY <1>3 DEF ReadReport, tables
  <2>2. \A e \in Drains : DrainOK(drain[e])' BY <1>2, <2>1, Rows, StillTyped
  <2>6. trouble' \in Nat BY <1>3 DEF ReadReport, Trouble, TypeInv, TypeOK
  <2>7. rejecting' \subseteq Messages BY <1>1, <1>3 DEF ReadReport, TypeInv, TypeOK
  <2>4. rejecting' \subseteq Messages /\ trouble' \in Nat BY <2>6, <2>7
  <2>5. UNCHANGED <<owed, lost, outbox, logs, mail, drain, rejected, resends, cause, unlogged>>
    BY <1>3 DEF ReadReport, tables, history
  <2>3. TypeOK' BY <2>4, <2>5 DEF TypeInv, TypeOK
  <2> QED BY <2>2, <2>3 DEF TypeInv
<1>4. CASE MarkRejected(k, n)
  <2>1. outbox' \in Seq(RowRecords) /\ Len(outbox') = Len(outbox) /\ UNCHANGED drain
    BY <1>4, StatusEffect DEF MarkRejected
  <2>2. \A e \in Drains : DrainOK(drain[e])' BY <2>1, Rows, StillTyped
  <2>4. rejecting' \subseteq Messages /\ rejected' \subseteq Messages
    BY <1>1, <1>4 DEF MarkRejected, TypeInv, TypeOK
  <2>5. UNCHANGED <<owed, lost, logs, mail, drain, trouble, resends, unlogged>>
    BY <1>4 DEF MarkRejected
  <2>6. cause' \in [Items -> Nat] BY <1>0, <1>4 DEF MarkRejected, TypeInv, TypeOK
  <2>3. TypeOK' BY <2>1, <2>4, <2>5, <2>6 DEF TypeInv, TypeOK, RowRecords
  <2> QED BY <2>2, <2>3 DEF TypeInv
<1> QED BY <1>3, <1>4

LEMMA ElapseTyped ==
  ASSUME TypeInv, NEW k \in 1..Len(outbox), Elapse(k)
  PROVE  /\ TypeInv' /\ Len(outbox') = Len(outbox)
         /\ \A j \in 1..Len(outbox) : outbox'[j].status = outbox[j].status
                                      /\ outbox'[j].retries = outbox[j].retries
<1> DEFINE x == [outbox[k] EXCEPT !.waiting = FALSE]
<1>1. outbox[k] \in RowRecords BY Rows
<1>2. x \in RowRecords /\ x.status = outbox[k].status /\ x.retries = outbox[k].retries
  BY <1>1 DEF RowRecords
<1>3. outbox' = [outbox EXCEPT ![k] = x] BY DEF Elapse
<1> HIDE DEF x
<1>4. /\ outbox' \in Seq(RowRecords) /\ Len(outbox') = Len(outbox)
      /\ outbox'[k] = x /\ \A j \in 1..Len(outbox) \ {k} : outbox'[j] = outbox[j]
  BY <1>2, <1>3, RowEffect
<1>5. \A e \in Drains : DrainOK(drain[e])' BY <1>4, Rows, StillTyped DEF Elapse
<1>6. TypeOK' BY <1>4 DEF Elapse, history, TypeInv, TypeOK, RowRecords
<1> QED BY <1>2, <1>4, <1>5, <1>6 DEF TypeInv

LEMMA DrainsFinite == IsFiniteSet(Drains)
<1>1. Drains = ({} \cup {"worker"}) \cup {"resend"} BY DEF Drains
<1>2. IsFiniteSet({}) BY FS_EmptySet
<1>3. IsFiniteSet({} \cup {"worker"}) BY <1>2, FS_AddElement
<1> QED BY <1>1, <1>3, FS_AddElement

LEMMA CrashTyped ==
  ASSUME TypeInv, Crash
  PROVE  /\ TypeInv' /\ \A d \in Drains : drain'[d] = NoDrain
         /\ \A k \in Items : /\ cause'[k] >= cause[k]
                             /\ (\E d \in Drains : Marking(d, k)) => cause'[k] >= cause[k] + 1
<1>1. \A d \in Drains : drain'[d] = NoDrain BY DEF Crash
<1>2. drain' \in [Drains -> DrainRecords] BY NoDrainTyped DEF Crash
<1>3. \A d \in Drains : DrainOK(drain[d])' BY <1>1, NoDrainTyped DEF DrainOK
<1> DEFINE at(k) == {d \in Drains : At(d, "mark") /\ Item(d) = k}
<1>4. ASSUME NEW k \in Items
      PROVE  Cardinality(at(k)) \in Nat /\ (at(k) # {} => Cardinality(at(k)) >= 1)
  <2>2. IsFiniteSet(at(k)) BY DrainsFinite, FS_Subset
  <2> HIDE DEF at
  <2>3. Cardinality(at(k)) \in Nat BY <2>2, FS_CardinalityType
  <2>4. at(k) # {} => Cardinality(at(k)) # 0 BY <2>2, FS_EmptySet
  <2> QED BY <2>3, <2>4
<1>5. cause \in [Items -> Nat] /\ cause' = [k \in Items |-> cause[k] + Cardinality(at(k))]
  BY DEF Crash, TypeInv, TypeOK
<1>6. \A k \in Items : (\E d \in Drains : Marking(d, k)) => at(k) # {} BY DEF Marking
<1> HIDE DEF at
<1>7. /\ cause' \in [Items -> Nat]
      /\ \A k \in Items : /\ cause'[k] >= cause[k]
                          /\ (\E d \in Drains : Marking(d, k)) => cause'[k] >= cause[k] + 1
  BY <1>4, <1>5, <1>6
<1>8. unlogged' \subseteq Items
  <2>1. \A d \in Drains : At(d, "log") \/ At(d, "fail") => Item(d) \in Items BY Working DEF At
  <2>2. unlogged' = unlogged \cup {Item(d) : d \in {e \in Drains : At(e, "log") \/ At(e, "fail")}}
    BY DEF Crash
  <2>3. unlogged \subseteq Items BY DEF TypeInv, TypeOK
  <2> QED BY <2>1, <2>2, <2>3
<1>9. /\ owed' \in Nat /\ lost' \in Nat /\ trouble' \in Nat /\ owed' + lost' = owed + lost
  BY DEF Crash, Trouble, TypeInv, TypeOK
<1>10. TypeOK'
  <2>1. UNCHANGED <<outbox, logs, mail, rejected, resends>> /\ rejecting' = {} BY DEF Crash
  <2>2. Len(outbox) \in Nat BY Rows
  <2>3. owed' + lost' + Len(outbox') <= MaxMessages BY <1>9, <2>1, <2>2 DEF TypeInv, TypeOK
  <2> QED BY <1>2, <1>7, <1>8, <1>9, <2>1, <2>3 DEF TypeInv, TypeOK, DrainRecords, Entries
<1> QED BY <1>1, <1>3, <1>7, <1>10 DEF TypeInv

\* Every step, by what it does to the rows and the drains.
LEMMA Steps ==
  ASSUME TypeInv, Next
  PROVE  \/ Commit \/ Enqueue
         \/ \E d \in Drains : Selected(d)
         \/ \E d \in Drains : Drain(d)
         \/ \E k \in 1..Len(outbox) :
              \/ Elapse(k) \/ ResetForResend(k)
              \/ \E n \in 1..mail[k] : ReadReport(k, n) \/ MarkRejected(k, n)
         \/ Crash
<1>1. ASSUME StartWorker PROVE Selected("worker")
  BY <1>1, SelectEffect, OutboxAssumption DEF StartWorker, At, Drains
<1>2. ASSUME StartResend PROVE Selected("resend")
  BY <1>2, SelectEffect DEF StartResend, At, Drains
<1> QED BY <1>1, <1>2 DEF Next, Drains

LEMMA TypeStep == TypeInv /\ [Next]_vars => TypeInv'
<1> SUFFICES ASSUME TypeInv, [Next]_vars PROVE TypeInv' OBVIOUS
<1>1. CASE Commit
  <2>1. UNCHANGED <<outbox, drain>> /\ outbox \in Seq(RowRecords)
    BY <1>1 DEF Commit, TypeInv, TypeOK, RowRecords
  <2>2. \A e \in Drains : DrainOK(drain[e])' BY <2>1, Rows, StillTyped
  <2>3. Len(outbox) \in Nat /\ MaxMessages \in Nat BY Rows, OutboxAssumption
  <2>5. /\ owed' \in Nat /\ owed' + lost' + Len(outbox') <= MaxMessages
        /\ UNCHANGED <<lost, outbox, logs, mail, drain, rejecting, rejected, trouble, resends, history>>
    BY <1>1, <2>3 DEF Commit, TypeInv, TypeOK
  <2>4. TypeOK' BY <2>1, <2>5 DEF history, TypeInv, TypeOK, RowRecords
  <2> QED BY <2>2, <2>4 DEF TypeInv
<1>2. CASE UNCHANGED vars
  BY <1>2 DEF vars, tables, history, TypeInv, TypeOK, DrainOK
<1>3. ASSUME NEW d \in Drains, Drain(d) PROVE TypeInv'
  BY <1>3, SendTyped, MarkTyped, LogTyped, FailTyped DEF Drain
<1> QED BY <1>1, <1>2, <1>3, Steps, EnqueueTyped, StartTyped, ResetTyped, ReportTyped, ElapseTyped,
           CrashTyped

\* The types of the outbox hold in every reachable state.
THEOREM TypeCorrect == Spec => []TypeOK
<1>1. TypeInv => TypeOK BY DEF TypeInv
<1> QED BY <1>1, TypeInit, TypeStep, PTL DEF Spec

-----------------------------------------------------------------------------
(* What each step of a drain does.                                         *)

LEMMA SendEffect ==
  ASSUME TypeInv, NEW d \in Drains, Send(d)
  PROVE  /\ drain[d].pc = "send" /\ UNCHANGED <<outbox, logs, rejecting, rejected, resends, history>>
         /\ \/ /\ mail' = [mail EXCEPT ![Item(d)] = mail[Item(d)] + 1]
               /\ \/ Holds(d, "mark", mail[Item(d)] + 1)
                  \/ Holds(d, "mark", 0)
            \/ Holds(d, "fail", 0) /\ UNCHANGED mail
<1> DEFINE k == Item(d)
<1>1. drain[d].pc = "send" BY DEF Send, At
<1>2. k \in Items /\ drain[d].n = 0 BY <1>1, Working DEF DrainOK
<1>3. mail[k] + 1 \in Nat /\ 0 \in Nat BY <1>2 DEF TypeInv, TypeOK
<1>4. \/ /\ mail' = [mail EXCEPT ![k] = mail[k] + 1]
         /\ drain' = [drain EXCEPT ![d].pc = "mark", ![d].n = mail[k] + 1]
      \/ mail' = [mail EXCEPT ![k] = mail[k] + 1] /\ Goto(d, "mark")
      \/ Goto(d, "fail") /\ UNCHANGED mail
  BY DEF Send
<1> HIDE DEF k
<1>5. drain' = [drain EXCEPT ![d].pc = "mark", ![d].n = mail[k] + 1] => Holds(d, "mark", mail[k] + 1)
  BY <1>3, StepHolds
<1>6. Goto(d, "mark") => Holds(d, "mark", drain[d].n) BY <1>2, <1>3, StepHolds
<1>7. Goto(d, "fail") => Holds(d, "fail", drain[d].n) BY <1>2, <1>3, StepHolds
<1>8. UNCHANGED <<outbox, logs, rejecting, rejected, resends, history>> BY DEF Send, history
<1>9. \/ /\ mail' = [mail EXCEPT ![k] = mail[k] + 1]
         /\ Holds(d, "mark", mail[k] + 1) \/ Holds(d, "mark", 0)
      \/ Holds(d, "fail", 0) /\ UNCHANGED mail
  BY <1>2, <1>4, <1>5, <1>6, <1>7
<1> QED BY <1>1, <1>8, <1>9 DEF k

\* A failure after the message went out: there is one more cause to send it.
Excused(d) ==
  /\ Holds(d, "fail", 0)
  /\ cause'[Item(d)] = cause[Item(d)] + 1 /\ \A k \in Items \ {Item(d)} : cause'[k] = cause[k]

LEMMA MarkEffect ==
  ASSUME TypeInv, NEW d \in Drains, MarkSent(d)
  PROVE  /\ drain[d].pc = "mark"
         /\ UNCHANGED <<logs, mail, rejecting, rejected, resends, unlogged>>
         /\ \/ /\ Holds(d, "log", drain[d].n) /\ UNCHANGED cause
               /\ Len(outbox') = Len(outbox) /\ outbox'[Item(d)].status = "SENT"
               /\ outbox'[Item(d)].retries = outbox[Item(d)].retries
               /\ \A j \in 1..Len(outbox) \ {Item(d)} : outbox'[j] = outbox[j]
            \/ Excused(d) /\ UNCHANGED outbox
<1>1. drain[d].pc = "mark" BY DEF MarkSent, At
<1>2. Item(d) \in 1..Len(outbox) /\ drain[d].n \in Nat BY <1>1, Working DEF DrainRecords
<1>3. Goto(d, "log") => Holds(d, "log", drain[d].n) BY <1>2, StepHolds
<1>4. AfterSending(d) => Excused(d) BY <1>1, AfterSendingEffect DEF Excused
<1>5. outbox' = [outbox EXCEPT ![Item(d)].status = "SENT"] =>
        /\ Len(outbox') = Len(outbox) /\ outbox'[Item(d)].status = "SENT"
        /\ outbox'[Item(d)].retries = outbox[Item(d)].retries
        /\ \A j \in 1..Len(outbox) \ {Item(d)} : outbox'[j] = outbox[j]
  BY <1>2, StatusEffect
<1> QED BY <1>1, <1>3, <1>4, <1>5 DEF MarkSent

LEMMA LogEffect ==
  ASSUME TypeInv, NEW d \in Drains, LogAttempt(d)
  PROVE  /\ drain[d].pc = "log"
         /\ UNCHANGED <<outbox, mail, rejecting, rejected, resends, unlogged>>
         /\ \/ /\ Moved(d) /\ logs' = logs \cup {[item |-> Item(d), n |-> drain[d].n]}
               /\ UNCHANGED cause
            \/ Excused(d) /\ UNCHANGED logs
<1>1. drain[d].pc = "log" BY DEF LogAttempt, At
<1>2. Onward(d) => Moved(d) BY <1>1, OnwardEffect
<1>3. AfterSending(d) => Excused(d) BY <1>1, AfterSendingEffect DEF Excused
<1> QED BY <1>1, <1>2, <1>3 DEF LogAttempt

\* A drain was dropped with the rest of its batch.
Dropped(d) == drain'[d] = NoDrain /\ \A e \in Drains \ {d} : drain'[e] = drain[e]

LEMMA FailEffect ==
  ASSUME TypeInv, NEW d \in Drains, MarkFailed(d)
  PROVE  /\ drain[d].pc = "fail" /\ Item(d) \in 1..Len(outbox)
         /\ UNCHANGED <<logs, mail, rejecting, rejected, resends, cause>>
         /\ \/ /\ outbox'[Item(d)].status = "FAILED"
               /\ outbox'[Item(d)].retries = drain[d].batch[1].count + 1
               /\ Len(outbox') = Len(outbox) /\ UNCHANGED unlogged
               /\ \A j \in 1..Len(outbox) \ {Item(d)} : outbox'[j] = outbox[j]
            \/ UNCHANGED outbox /\ unlogged' = unlogged \cup {Item(d)}
         /\ Moved(d) \/ Dropped(d)
<1> DEFINE k == Item(d)
           count == drain[d].batch[1].count
<1>1. /\ At(d, "fail") /\ k \in 1..Len(outbox) /\ count \in Nat
      /\ \/ outbox' = Failed(k, count) /\ UNCHANGED unlogged
         \/ UNCHANGED outbox /\ unlogged' = unlogged \cup {k}
      /\ Moved(d) \/ drain' = [drain EXCEPT ![d] = NoDrain]
  BY MarkFailedEffect
<1>2. drain \in [Drains -> DrainRecords] BY DEF TypeInv, TypeOK, DrainRecords, Entries
<1>3. drain' = [drain EXCEPT ![d] = NoDrain] => Dropped(d) BY <1>2 DEF Dropped
<1>4. UNCHANGED <<logs, mail, rejecting, rejected, resends, cause>> BY DEF MarkFailed
<1> HIDE DEF k, count
<1>5. outbox' = Failed(k, count) =>
        /\ outbox'[k].status = "FAILED" /\ outbox'[k].retries = count + 1
        /\ Len(outbox') = Len(outbox)
        /\ \A j \in 1..Len(outbox) \ {k} : outbox'[j] = outbox[j]
  BY <1>1, FailedEffect
<1>6. /\ \/ /\ outbox'[k].status = "FAILED" /\ outbox'[k].retries = count + 1
            /\ Len(outbox') = Len(outbox) /\ UNCHANGED unlogged
            /\ \A j \in 1..Len(outbox) \ {k} : outbox'[j] = outbox[j]
         \/ UNCHANGED outbox /\ unlogged' = unlogged \cup {k}
      /\ Moved(d) \/ Dropped(d)
  BY <1>1, <1>3, <1>5
<1> QED BY <1>1, <1>4, <1>6 DEF At, k, count

-----------------------------------------------------------------------------
(* Retries.                                                                *)

Pending(k) == outbox[k].status = "PENDING" => outbox[k].retries < MaxRetries + resends[k]
Allowed(d) ==
  \A j \in 1..Len(drain[d].batch) :
    drain[d].batch[j].count < MaxRetries + resends[drain[d].batch[j].item]
Within(k) == outbox[k].retries <= MaxRetries + resends[k]

LEMMA RetryParts ==
  RetryInv <=> /\ \A k \in 1..Len(outbox) : Pending(k) /\ Within(k)
               /\ \A d \in Drains : Allowed(d)
BY DEF RetryInv, Pending, Allowed, Within, RetriesBounded

\* A drain that goes on, or is dropped, takes no new row.
LEMMA AllowedKept ==
  ASSUME TypeInv, RetryInv, NEW d \in Drains, drain[d].pc \notin {"idle", "select"},
         UNCHANGED resends,
         \/ Moved(d) \/ Dropped(d) \/ Excused(d)
         \/ \E pc \in {"mark", "log", "fail"}, n \in Nat : Holds(d, pc, n)
  PROVE  \A e \in Drains : Allowed(e)'
<1>1. \A e \in Drains : Allowed(e) BY RetryParts
<1>2. \A e \in Drains \ {d} : drain'[e] = drain[e] BY DEF Moved, Dropped, Excused, Holds
<1>3. \A e \in Drains \ {d} : Allowed(e)' BY <1>1, <1>2 DEF Allowed
<1>4. Len(drain[d].batch) \in Nat \ {0} BY Working
<1>5. Moved(d) => Allowed(d)'
  <2> SUFFICES ASSUME Moved(d), NEW j \in 1..Len(drain[d].batch) - 1
               PROVE  drain'[d].batch[j].count < MaxRetries + resends[drain'[d].batch[j].item]
    BY DEF Moved, Allowed
  <2>1. j + 1 \in 1..Len(drain[d].batch) BY <1>4
  <2>2. drain'[d].batch[j] = drain[d].batch[j + 1] BY DEF Moved
  <2> QED BY <1>1, <2>1, <2>2 DEF Allowed
<1>6. Dropped(d) => Allowed(d)' BY NoDrainTyped DEF Dropped, Allowed
<1>7. drain'[d].batch = drain[d].batch => Allowed(d)' BY <1>1 DEF Allowed
<1>8. Allowed(d)' BY <1>5, <1>6, <1>7 DEF Excused, Holds
<1> QED BY <1>3, <1>8

LEMMA RetryStep == TypeInv /\ RetryInv /\ [Next]_vars => RetryInv'
<1> SUFFICES ASSUME TypeInv, RetryInv, [Next]_vars PROVE RetryInv' OBVIOUS
<1>1. /\ \A k \in 1..Len(outbox) : Pending(k) /\ Within(k)
      /\ \A d \in Drains : Allowed(d)
  BY RetryParts
<1>2. /\ Len(outbox) \in Nat /\ 1..Len(outbox) \subseteq Items /\ MaxRetries \in Nat \ {0}
      /\ \A k \in 1..Len(outbox) : outbox[k].retries \in Nat
      /\ \A k \in Items : resends[k] \in Nat
  BY Rows, OutboxAssumption DEF TypeInv, TypeOK
<1>3. CASE UNCHANGED <<outbox, drain, resends>>
  BY <1>1, <1>3, RetryParts DEF RetryInv, Pending, Allowed, Within, RetriesBounded
<1>4. CASE Enqueue
  <2> DEFINE r == [status |-> "PENDING", retries |-> 0, waiting |-> FALSE]
  <2>1. UNCHANGED <<drain, resends>> BY <1>4 DEF Enqueue
  <2>2. r \in RowRecords /\ r.retries = 0 BY DEF RowRecords
  <2>3. outbox' = outbox \/ outbox' = Append(outbox, r) BY <1>4 DEF Enqueue
  <2> HIDE DEF r
  <2>4. CASE outbox' = Append(outbox, r)
    <3>1. /\ Len(outbox') = Len(outbox) + 1 /\ outbox'[Len(outbox) + 1] = r
          /\ \A j \in 1..Len(outbox) : outbox'[j] = outbox[j]
      BY <2>2, <2>4, EnqueueEffect
    <3>2. Len(outbox) + 1 \in Items
      BY <1>2, <1>4, OutboxAssumption DEF Enqueue, Items, TypeInv, TypeOK
    <3>3. ASSUME NEW j \in 1..Len(outbox') PROVE Pending(j)' /\ Within(j)'
      <4>1. CASE j \in 1..Len(outbox) BY <1>1, <2>1, <3>1, <4>1 DEF Pending, Within
      <4>2. CASE j = Len(outbox) + 1
        <5>1. resends'[j] \in Nat /\ outbox'[j].retries = 0 BY <1>2, <2>1, <2>2, <3>1, <3>2, <4>2
        <5> QED BY <1>2, <5>1 DEF Pending, Within
      <4> QED BY <1>2, <3>1, <4>1, <4>2
    <3>5. \A d \in Drains : Allowed(d)' BY <1>1, <2>1 DEF Allowed
    <3> QED BY <3>3, <3>5 DEF RetryInv, Pending, Allowed, Within, RetriesBounded
  <2> QED BY <1>3, <2>1, <2>3, <2>4
<1>5. ASSUME NEW d \in Drains, Selected(d) PROVE RetryInv'
  <2>1. UNCHANGED <<outbox, resends>> BY <1>5 DEF Selected, tables
  <2>2. \A e \in Drains \ {d} : Allowed(e)' BY <1>1, <1>5, <2>1 DEF Selected, Allowed
  <2>3. Allowed(d)'
    <3> SUFFICES ASSUME NEW j \in 1..Len(drain'[d].batch)
                 PROVE  drain'[d].batch[j].count < MaxRetries + resends[drain'[d].batch[j].item]
      BY <2>1 DEF Allowed
    <3> DEFINE k == drain'[d].batch[j].item
    <3>1. Due(k) /\ drain'[d].batch[j].count = outbox[k].retries BY <1>5 DEF Selected
    <3>2. k \in 1..Len(outbox) BY <1>5, <2>1 DEF Selected, DrainOK
    <3> HIDE DEF k
    <3>3. resends[k] \in Nat /\ outbox[k].retries \in Nat BY <1>2, <3>2
    <3>4. outbox[k].retries < MaxRetries + resends[k] BY <1>1, <1>2, <3>1, <3>2, <3>3 DEF Due, Pending
    <3> QED BY <3>1, <3>4 DEF k
  <2>4. \A k \in 1..Len(outbox') : Pending(k)' /\ Within(k)' BY <1>1, <2>1 DEF Pending, Within
  <2> QED BY <2>2, <2>3, <2>4 DEF RetryInv, Pending, Allowed, Within, RetriesBounded
<1>6. ASSUME NEW d \in Drains, Drain(d) PROVE RetryInv'
  <2>1. drain[d].pc \notin {"idle", "select"} /\ UNCHANGED resends
    BY <1>6 DEF Drain, Send, MarkSent, LogAttempt, MarkFailed, At
  <2>0. Item(d) \in 1..Len(outbox) /\ Item(d) \in Items /\ drain[d] \in DrainRecords
    BY <2>1, Working
  <2>2. mail[Item(d)] + 1 \in Nat /\ drain[d].n \in Nat /\ Item(d) \in 1..Len(outbox)
    <3>1. mail \in [Items -> Nat] BY DEF TypeInv, TypeOK
    <3>2. drain[d].n \in Nat BY <2>0 DEF DrainRecords
    <3> QED BY <2>0, <3>1, <3>2
  <2>3. \A e \in Drains : Allowed(e)'
    BY <1>6, <2>1, <2>2, SendEffect, MarkEffect, LogEffect, FailEffect, AllowedKept DEF Drain
  <2>4. CASE Send(d) \/ LogAttempt(d)
    BY <1>1, <2>1, <2>3, <2>4, SendEffect, LogEffect
       DEF RetryInv, Pending, Allowed, Within, RetriesBounded
  <2>5. CASE MarkSent(d)
    <3>1. /\ Len(outbox') = Len(outbox)
          /\ \A k \in 1..Len(outbox) : /\ outbox'[k].retries = outbox[k].retries
                                       /\ outbox'[k].status \in {outbox[k].status, "SENT"}
      BY <2>5, MarkEffect
    <3> QED BY <1>1, <2>1, <2>3, <3>1 DEF RetryInv, Pending, Allowed, Within, RetriesBounded
  <2>6. CASE MarkFailed(d)
    <3> DEFINE c == drain[d].batch[1].count
    <3>1. \/ /\ Len(outbox') = Len(outbox) /\ outbox'[Item(d)].status = "FAILED"
             /\ outbox'[Item(d)].retries = c + 1
             /\ \A j \in 1..Len(outbox) \ {Item(d)} : outbox'[j] = outbox[j]
          \/ UNCHANGED outbox
      BY <2>6, FailEffect
    <3>2. c \in Nat /\ c < MaxRetries + resends[Item(d)]
      <4>1. /\ 1 \in 1..Len(drain[d].batch)
            /\ \A j \in 1..Len(drain[d].batch) : drain[d].batch[j] \in Entries
        BY <2>1, Working
      <4>2. drain[d].batch[1] \in Entries /\ Allowed(d) BY <1>1, <4>1
      <4> QED BY <4>1, <4>2 DEF Entries, Allowed, Item
    <3> HIDE DEF c
    <3>3. resends[Item(d)] \in Nat BY <1>2, <2>2
    <3>4. c + 1 <= MaxRetries + resends[Item(d)] BY <1>2, <3>2, <3>3
    <3>5. ASSUME NEW k \in 1..Len(outbox') PROVE Pending(k)' /\ Within(k)'
      <4>1. CASE UNCHANGED outbox BY <1>1, <2>1, <4>1 DEF Pending, Within
      <4>2. CASE ~(UNCHANGED outbox) /\ k = Item(d)
        BY <2>1, <3>1, <3>4, <4>2 DEF Pending, Within
      <4>3. CASE ~(UNCHANGED outbox) /\ k # Item(d)
        BY <1>1, <2>1, <3>1, <4>3 DEF Pending, Within
      <4> QED BY <4>1, <4>2, <4>3
    <3> QED BY <2>3, <3>5 DEF RetryInv, Pending, Allowed, Within, RetriesBounded
  <2> QED BY <1>6, <2>4, <2>5, <2>6 DEF Drain
<1>7. ASSUME NEW k \in 1..Len(outbox), ResetForResend(k) PROVE RetryInv'
  <2>1. /\ Len(outbox') = Len(outbox) /\ outbox'[k].retries = outbox[k].retries
        /\ \A j \in 1..Len(outbox) \ {k} : outbox'[j] = outbox[j]
    BY <1>7, StatusEffect DEF ResetForResend
  <2>2. k \in Items BY <1>2
  <2>3. /\ resends'[k] = resends[k] + 1 /\ \A j \in Items \ {k} : resends'[j] = resends[j]
        /\ \A j \in Items : resends'[j] \in Nat /\ resends'[j] >= resends[j]
    <3>1. resends \in [Items -> Nat] BY DEF TypeInv, TypeOK
    <3>2. resends' = [resends EXCEPT ![k] = resends[k] + 1] BY <1>7 DEF ResetForResend
    <3> QED BY <2>2, <3>1, <3>2
  <2>4. ASSUME NEW j \in 1..Len(outbox) PROVE Pending(j)' /\ Within(j)'
    <3>1. CASE j = k
      <4>1. /\ outbox[k].retries \in Nat /\ resends[k] \in Nat
            /\ outbox[k].retries <= MaxRetries + resends[k]
        BY <1>1, <1>2 DEF Within
      <4>2. /\ outbox'[k].retries = outbox[k].retries /\ resends'[k] = resends[k] + 1 BY <2>1, <2>3
      <4>3. /\ outbox'[k].retries < MaxRetries + resends'[k]
            /\ outbox'[k].retries <= MaxRetries + resends'[k]
        BY <1>2, <4>1, <4>2
      <4> QED BY <3>1, <4>3 DEF Pending, Within
    <3>2. CASE j # k BY <1>1, <1>2, <2>1, <2>3, <3>2 DEF Pending, Within
    <3> QED BY <3>1, <3>2
  <2>5. /\ drain["resend"].batch = << >> /\ drain'["resend"].batch = << >>
        /\ drain'["worker"] = drain["worker"]
    BY <1>7, ResetTyped
  <2>6. Allowed("worker")'
    <3>1. Allowed("worker") BY <1>1 DEF Drains
    <3>2. DrainOK(drain["worker"]) /\ drain["worker"] \in DrainRecords
      BY DEF TypeInv, TypeOK, Drains, DrainRecords, Entries
    <3> SUFFICES ASSUME NEW j \in 1..Len(drain["worker"].batch)
                 PROVE  drain["worker"].batch[j].count
                          < MaxRetries + resends'[drain["worker"].batch[j].item]
      BY <2>5 DEF Allowed
    <3> DEFINE x == drain["worker"].batch[j]
    <3>3. x \in Entries BY <3>2, ElementOfSeq DEF DrainRecords
    <3>4. x.count < MaxRetries + resends[x.item] BY <3>1 DEF Allowed
    <3> HIDE DEF x
    <3>5. x.count \in Nat /\ x.item \in Items BY <3>3 DEF Entries
    <3>6. x.count < MaxRetries + resends'[x.item] BY <1>2, <2>3, <3>4, <3>5
    <3> QED BY <3>6 DEF x
  <2>7. Allowed("resend")'
    <3>1. Len(drain'["resend"].batch) = 0 BY <2>5
    <3> QED BY <3>1 DEF Allowed
  <2> QED BY <2>1, <2>4, <2>6, <2>7 DEF Drains, RetryInv, Pending, Allowed, Within, RetriesBounded
<1>8. ASSUME NEW k \in 1..Len(outbox), Elapse(k) PROVE RetryInv'
  <2>1. /\ Len(outbox') = Len(outbox) /\ UNCHANGED <<drain, resends>>
        /\ \A j \in 1..Len(outbox) : outbox'[j].status = outbox[j].status
                                     /\ outbox'[j].retries = outbox[j].retries
    BY <1>8, ElapseTyped DEF Elapse
  <2> QED BY <1>1, <2>1 DEF RetryInv, Pending, Allowed, Within, RetriesBounded
<1>9. ASSUME NEW k \in 1..Len(outbox), NEW n \in 1..mail[k], MarkRejected(k, n) PROVE RetryInv'
  <2>1. /\ Len(outbox') = Len(outbox) /\ outbox'[k].status = "FAILED"
        /\ outbox'[k].retries = outbox[k].retries
        /\ \A j \in 1..Len(outbox) \ {k} : outbox'[j] = outbox[j]
    BY <1>9, StatusEffect DEF MarkRejected
  <2>2. UNCHANGED <<drain, resends>> BY <1>9 DEF MarkRejected
  <2>3. \A j \in 1..Len(outbox') : Pending(j)' /\ Within(j)' BY <1>1, <2>1, <2>2 DEF Pending, Within
  <2>4. \A d \in Drains : Allowed(d)' BY <1>1, <2>2 DEF Allowed
  <2> QED BY <2>3, <2>4 DEF RetryInv, Pending, Allowed, Within, RetriesBounded
<1>10. CASE Crash
  <2>1. UNCHANGED <<outbox, resends>> BY <1>10 DEF Crash
  <2>2. \A d \in Drains : Allowed(d)' BY <1>10, CrashTyped, NoDrainTyped DEF Allowed
  <2> QED BY <1>1, <2>1, <2>2 DEF RetryInv, Pending, Allowed, Within, RetriesBounded
<1>11. CASE Commit \/ UNCHANGED vars BY <1>3, <1>11 DEF Commit, vars, tables
<1>12. ASSUME NEW k \in 1..Len(outbox), NEW n \in 1..mail[k], ReadReport(k, n) PROVE RetryInv'
  BY <1>3, <1>12 DEF ReadReport, tables
<1> QED BY <1>4, <1>5, <1>6, <1>7, <1>8, <1>9, <1>10, <1>11, <1>12, Steps

\* NTF-003: in every interleaving a row is retried at most max_retries times, and
\* once more for each time an operator asked.
THEOREM RetriesAreBounded == Spec => []RetriesBounded
<1>1. Init => RetryInv
  <2> SUFFICES ASSUME Init PROVE RetryInv OBVIOUS
  <2>1. Len(outbox) = 0 /\ \A d \in Drains : drain[d] = NoDrain BY DEF Init
  <2> QED BY <2>1, NoDrainTyped DEF RetryInv, RetriesBounded
<1>2. RetryInv => RetriesBounded BY DEF RetryInv
<1> QED BY <1>1, <1>2, TypeInit, TypeStep, RetryStep, PTL DEF Spec

-----------------------------------------------------------------------------
(* Repetitions.                                                            *)

\* Item k is in the batch of d, after the first row.
Rest(d, k) == \E j \in 1..Len(drain[d].batch) : j > 1 /\ drain[d].batch[j].item = k

LEMMA ClaimsSplit ==
  ASSUME TypeInv, NEW d \in Drains, drain[d].pc \notin {"idle", "select"}
  PROVE  /\ ~Rest(d, Item(d))
         /\ \A k : Claims(d, k) <=> Rest(d, k) \/ (drain[d].pc \in {"send", "fail"} /\ k = Item(d))
<1>1. DrainOK(drain[d]) /\ Len(drain[d].batch) \in Nat \ {0} BY Working
<1>2. ~Rest(d, Item(d))
  <2> SUFFICES ASSUME NEW j \in 1..Len(drain[d].batch), j > 1, drain[d].batch[j].item = Item(d)
               PROVE  FALSE
    BY DEF Rest
  <2>1. 1 \in 1..Len(drain[d].batch) BY <1>1
  <2>2. /\ drain[d].batch[1].item < drain[d].batch[j].item
        /\ drain[d].batch[1].item \in 1..Len(outbox) /\ drain[d].batch[j].item \in 1..Len(outbox)
    BY <1>1, <2>1 DEF DrainOK
  <2>3. Len(outbox) \in Nat BY Rows
  <2> QED BY <2>2, <2>3 DEF Item
<1>3. \A j \in 1..Len(drain[d].batch) : j > 1 \/ j = 1 BY <1>1
<1>4. 1 \in 1..Len(drain[d].batch) BY <1>1
<1>5. \A k : Claims(d, k) <=> Rest(d, k) \/ (drain[d].pc \in {"send", "fail"} /\ k = Item(d))
  BY <1>3, <1>4 DEF Claims, Rest, Item
<1> QED BY <1>2, <1>5

LEMMA IdleClaims ==
  ASSUME TypeInv, NEW d \in Drains, drain[d].batch = << >>
  PROVE  \A k : ~Claims(d, k) /\ ~Marking(d, k) /\ ~InBatch(d, k)
<1>1. Len(drain[d].batch) = 0 /\ DrainOK(drain[d]) BY DEF TypeInv
<1>2. drain[d].pc \in {"idle", "select"} BY <1>1 DEF DrainOK
<1> QED BY <1>1, <1>2 DEF Claims, Marking, InBatch, At

LEMMA HoldsClaims ==
  ASSUME TypeInv, NEW d \in Drains, drain[d].pc \notin {"idle", "select"},
         NEW pc \in {"mark", "log", "fail"}, NEW n, Holds(d, pc, n)
  PROVE  \A k : /\ Claims(d, k)' <=> Rest(d, k) \/ (pc = "fail" /\ k = Item(d))
                /\ Marking(d, k)' <=> pc = "mark" /\ k = Item(d)
<1>1. Len(drain[d].batch) \in Nat \ {0} BY Working
<1>2. drain'[d].pc = pc /\ drain'[d].batch = drain[d].batch BY DEF Holds
<1>3. \A j \in 1..Len(drain[d].batch) : j > 1 \/ j = 1 BY <1>1
<1>4. 1 \in 1..Len(drain[d].batch) BY <1>1
<1> QED BY <1>2, <1>3, <1>4 DEF Claims, Rest, Item, Marking, At

LEMMA MovedClaims ==
  ASSUME TypeInv, NEW d \in Drains, drain[d].pc \notin {"idle", "select"}, Moved(d)
  PROVE  \A k : (Claims(d, k)' <=> Rest(d, k)) /\ ~Marking(d, k)'
<1>1. Len(drain[d].batch) \in Nat \ {0} BY Working
<1> DEFINE m == Len(drain[d].batch)
<1>2. /\ Len(drain'[d].batch) = m - 1
      /\ \A j \in 1..m - 1 : drain'[d].batch[j] = drain[d].batch[j + 1]
      /\ drain'[d].pc \in {"idle", "send"}
      /\ drain'[d].pc = "idle" <=> drain'[d].batch = << >>
  BY DEF Moved
<1>3. \A k : ~Marking(d, k)' BY <1>2 DEF Marking, At
<1>4. \A k : Claims(d, k)' => Rest(d, k)
  <2> TAKE k
  <2> HAVE Claims(d, k)'
  <2>1. PICK j \in 1..m - 1 : drain'[d].batch[j].item = k BY <1>2 DEF Claims
  <2>2. j + 1 \in 1..m /\ j + 1 > 1 BY <1>1
  <2> QED BY <1>2, <2>1, <2>2 DEF Rest
<1>5. \A k : Rest(d, k) => Claims(d, k)'
  <2> TAKE k
  <2> HAVE Rest(d, k)
  <2>1. PICK j \in 1..m : j > 1 /\ drain[d].batch[j].item = k BY DEF Rest
  <2>2. j - 1 \in 1..m - 1 /\ (j - 1) + 1 = j BY <1>1, <2>1
  <2>3. drain'[d].batch[j - 1].item = k BY <1>2, <2>1, <2>2
  <2>4. Len(drain'[d].batch) # 0 BY <1>2, <2>2
  <2>6. drain'[d].batch # << >> BY <2>4, EmptySeq
  <2>5. drain'[d].pc = "send" BY <1>2, <2>6
  <2> QED BY <1>2, <2>2, <2>3, <2>5 DEF Claims
<1> QED BY <1>3, <1>4, <1>5

LEMMA DroppedClaims ==
  ASSUME NEW d \in Drains, drain'[d] = NoDrain
  PROVE  \A k : ~Claims(d, k)' /\ ~Marking(d, k)'
BY NoDrainTyped DEF Claims, Marking, At

\* The other drain.
Other(d) == IF d = "worker" THEN "resend" ELSE "worker"

LEMMA OtherDrain ==
  ASSUME NEW d \in Drains
  PROVE  Other(d) \in Drains \ {d} /\ \A e \in Drains : e = d \/ e = Other(d)
BY DEF Other, Drains

Sent1(d, k) == mail[k] + Claim(d, k) + Claim(Other(d), k) <= 1 + cause[k]
Excess(k) ==
  outbox[k].status # "SENT" /\ (\A d \in Drains : ~Marking(d, k)) => mail[k] <= cause[k]

LEMMA RepeatParts ==
  ASSUME TypeInv
  PROVE  RepeatInv <=> /\ \A d \in Drains : \A k \in Items : Sent1(d, k)
                       /\ \A k \in 1..Len(outbox) : Excess(k)
                       /\ \A k \in Items : k > Len(outbox) => mail[k] = 0
<1>1. \A k \in Items : mail[k] \in Nat /\ cause[k] \in Nat BY DEF TypeInv, TypeOK
<1>2. \A d, k : Claim(d, k) \in {0, 1} BY DEF Claim
<1>3. Other("worker") = "resend" /\ Other("resend") = "worker" BY DEF Other
<1>4. ASSUME NEW k \in Items
      PROVE  /\ Sent1("worker", k) <=> mail[k] + Claim("worker", k) + Claim("resend", k) <= 1 + cause[k]
             /\ Sent1("resend", k) <=> mail[k] + Claim("worker", k) + Claim("resend", k) <= 1 + cause[k]
  BY <1>1, <1>2, <1>3 DEF Sent1
<1>5. \A k \in Items : (\A d \in Drains : Sent1(d, k)) <=>
        mail[k] + Claim("worker", k) + Claim("resend", k) <= 1 + cause[k]
  BY <1>4 DEF Drains
<1> QED BY <1>5 DEF RepeatInv, Excess

\* It is enough to look at one drain in the next state.
LEMMA RepeatNext ==
  ASSUME TypeInv', NEW d \in Drains, \A k \in Items : Sent1(d, k)',
         \A k \in 1..Len(outbox') : Excess(k)',
         \A k \in Items : k > Len(outbox') => mail'[k] = 0
  PROVE  RepeatInv'
<1>1. \A k \in Items : mail'[k] \in Nat /\ cause'[k] \in Nat BY DEF TypeInv, TypeOK
<1> DEFINE w(k) == IF Claims("worker", k)' THEN 1 ELSE 0
           r(k) == IF Claims("resend", k)' THEN 1 ELSE 0
<1>2. \A k : w(k) \in {0, 1} /\ r(k) \in {0, 1} OBVIOUS
<1>3. \A k \in Items :
        mail'[k] + w(k) + r(k) <= 1 + cause'[k] \/ mail'[k] + r(k) + w(k) <= 1 + cause'[k]
  <2>1. CASE d = "worker" BY <2>1 DEF Sent1, Claim, Other
  <2>2. CASE d = "resend" BY <2>2 DEF Sent1, Claim, Other
  <2> QED BY <2>1, <2>2 DEF Drains
<1> HIDE DEF w, r
<1>4. \A k \in Items : mail'[k] + w(k) + r(k) <= 1 + cause'[k] BY <1>1, <1>2, <1>3
<1> QED BY <1>4 DEF RepeatInv, Excess, Claim, w, r

\* What the invariant says of one item.
LEMMA RepeatItem ==
  ASSUME TypeInv, RepeatInv, NEW d \in Drains, NEW k \in Items
  PROVE  /\ mail[k] \in Nat /\ cause[k] \in Nat /\ mail[k] <= 1 + cause[k]
         /\ Claim(d, k) \in {0, 1} /\ Claim(Other(d), k) \in {0, 1}
         /\ mail[k] + Claim(d, k) + Claim(Other(d), k) <= 1 + cause[k]
         /\ Claims(d, k) => mail[k] + Claim(Other(d), k) <= cause[k] /\ mail[k] <= cause[k]
<1>1. mail[k] \in Nat /\ cause[k] \in Nat BY DEF TypeInv, TypeOK
<1>2. Claim(d, k) \in {0, 1} /\ Claim(Other(d), k) \in {0, 1} BY DEF Claim
<1>3. mail[k] + Claim(d, k) + Claim(Other(d), k) <= 1 + cause[k] BY RepeatParts DEF Sent1
<1>4. Claims(d, k) => Claim(d, k) = 1 BY DEF Claim
<1> QED BY <1>1, <1>2, <1>3, <1>4

\* The other drain stays where it is.
LEMMA OtherKept ==
  ASSUME NEW d \in Drains, \A e \in Drains \ {d} : drain'[e] = drain[e]
  PROVE  \A k : /\ Claims(Other(d), k)' <=> Claims(Other(d), k)
                /\ Marking(Other(d), k)' <=> Marking(Other(d), k)
                /\ Claim(Other(d), k)' = Claim(Other(d), k)
<1>1. Other(d) \in Drains \ {d} BY OtherDrain
<1>2. drain'[Other(d)] = drain[Other(d)] BY <1>1
<1> QED BY <1>2 DEF Claims, Claim, Marking, At, Item

\* A step of a drain that sends nothing: what it may claim anew has a new cause.
LEMMA RepeatWorked ==
  ASSUME TypeInv, TypeInv', RepeatInv, NEW d \in Drains, UNCHANGED mail,
         \A e \in Drains \ {d} : drain'[e] = drain[e],
         Len(outbox') = Len(outbox),
         \A k \in Items : \/ cause'[k] = cause[k] /\ (Claims(d, k)' => Claims(d, k))
                          \/ cause'[k] = cause[k] + 1,
         \A k \in 1..Len(outbox) :
           \/ outbox'[k].status = "SENT"
           \/ Claims(d, k) /\ cause'[k] >= cause[k]
           \/ cause'[k] = cause[k] + 1
           \/ /\ outbox'[k].status = outbox[k].status /\ ~Marking(d, k)
              /\ cause'[k] = cause[k]
  PROVE  RepeatInv'
<1>1. ASSUME NEW k \in Items PROVE Sent1(d, k)'
  <2> DEFINE x == Claim(Other(d), k)
             c == Claim(d, k)
  <2>1. /\ mail[k] \in Nat /\ cause[k] \in Nat /\ c \in {0, 1} /\ x \in {0, 1}
        /\ mail[k] + c + x <= 1 + cause[k]
    BY RepeatItem
  <2>2. Claim(Other(d), k)' = x BY OtherKept
  <2>3. /\ Claim(d, k)' \in {0, 1}
        /\ Claim(d, k)' <= c \/ cause'[k] = cause[k] + 1
        /\ cause'[k] = cause[k] \/ cause'[k] = cause[k] + 1
    BY DEF Claim
  <2> DEFINE y == Claim(d, k)'
  <2> HIDE DEF x, c, y
  <2>5. y \in {0, 1} /\ (y <= c \/ cause'[k] = cause[k] + 1) BY <2>3 DEF y
  <2>6. /\ mail'[k] = mail[k] /\ cause'[k] \in Nat /\ x <= x
        /\ (cause'[k] >= cause[k] /\ y <= c) \/ cause'[k] >= cause[k] + 1
    BY <2>1, <2>3, <2>5
  <2>7. c \in Nat /\ x \in Nat /\ y \in Nat /\ y <= 1 BY <2>1, <2>5
  <2>8. mail[k] \in Nat /\ cause[k] \in Nat /\ mail[k] + c + x <= 1 + cause[k] BY <2>1
  <2>4. mail[k] + y + x <= 1 + cause'[k]
    <3>1. CASE cause'[k] >= cause[k] /\ y <= c BY <2>6, <2>7, <2>8, <3>1, SMTT(30)
    <3>2. CASE cause'[k] >= cause[k] + 1 BY <2>6, <2>7, <2>8, <3>2, SMTT(30)
    <3> QED BY <2>6, <3>1, <3>2
  <2> QED BY <2>2, <2>4, <2>6 DEF Sent1, y
<1>2. ASSUME NEW k \in 1..Len(outbox') PROVE Excess(k)'
  <2>1. k \in Items /\ k \in 1..Len(outbox) BY Rows
  <2>2. /\ mail[k] \in Nat /\ cause[k] \in Nat /\ mail[k] <= 1 + cause[k]
        /\ Claims(d, k) => mail[k] <= cause[k]
    BY <2>1, RepeatItem
  <2>3. CASE outbox'[k].status = "SENT" BY <2>3 DEF Excess
  <2>4. CASE Claims(d, k) /\ cause'[k] >= cause[k]
    <3>1. cause'[k] \in Nat BY <2>1 DEF TypeInv, TypeOK
    <3> QED BY <2>2, <2>4, <3>1 DEF Excess
  <2>5. CASE cause'[k] = cause[k] + 1 BY <2>2, <2>5 DEF Excess
  <2>6. CASE /\ outbox'[k].status = outbox[k].status /\ ~Marking(d, k)
             /\ cause'[k] = cause[k]
    <3>1. Excess(k) BY <2>1, RepeatParts
    <3>2. Marking(Other(d), k)' <=> Marking(Other(d), k) BY OtherKept
    <3>3. (\A e \in Drains : ~Marking(e, k)') => \A e \in Drains : ~Marking(e, k)
      BY <2>6, <3>2, OtherDrain
    <3> QED BY <2>6, <3>1, <3>3 DEF Excess
  <2> QED BY <2>1, <2>3, <2>4, <2>5, <2>6
<1>3. \A k \in Items : k > Len(outbox') => mail'[k] = 0 BY RepeatParts
<1> QED BY <1>1, <1>2, <1>3, RepeatNext

LEMMA RepeatSelected ==
  ASSUME TypeInv, TypeInv', RepeatInv, NEW d \in Drains, Selected(d)
  PROVE  RepeatInv'
<1>1. /\ UNCHANGED <<outbox, mail>> /\ drain[d].batch = << >>
      /\ \A e \in Drains \ {d} : drain'[e] = drain[e]
      /\ \A k \in Items : cause'[k] >= cause[k]
  BY DEF Selected, tables
<1>2. \A k : ~Claims(d, k) /\ ~Marking(d, k) BY <1>1, IdleClaims
<1>3. Other(d) \in Drains \ {d} /\ \A e \in Drains : e = d \/ e = Other(d) BY OtherDrain
<1>4. ASSUME NEW k \in Items PROVE Sent1(d, k)'
  <2> DEFINE x == Claim(Other(d), k)
             y == Claim(d, k)'
  <2>1. /\ mail[k] \in Nat /\ cause[k] \in Nat /\ x \in {0, 1} /\ mail[k] + x <= 1 + cause[k]
    <3>1. Claim(d, k) = 0 BY <1>2 DEF Claim
    <3> QED BY <3>1, RepeatItem
  <2>2. Claim(Other(d), k)' = x BY <1>1, OtherKept
  <2>3. y \in {0, 1} /\ (y = 1 => Claims(d, k)') BY DEF Claim
  <2>4. cause'[k] \in Nat /\ cause'[k] >= cause[k] BY <1>1 DEF TypeInv, TypeOK
  <2>5. CASE ~Claims(d, k)'
    <3>1. y = 0 BY <2>3, <2>5
    <3> HIDE DEF x, y
    <3>2. mail'[k] + y + x <= 1 + cause'[k] BY <1>1, <2>1, <2>4, <3>1
    <3> QED BY <2>2, <3>2 DEF Sent1, y
  <2>6. CASE Claims(d, k)'
    <3>1. PICK j \in 1..Len(drain'[d].batch) : drain'[d].batch[j].item = k BY <2>6 DEF Claims
    <3>2. Due(k) BY <3>1 DEF Selected
    <3>3. k \in 1..Len(outbox) BY <1>1, <3>1 DEF Selected, DrainOK
    <3>4. CASE InBatch(Other(d), k)
      <4>1. cause'[k] = cause[k] + 1 BY <1>3, <3>1, <3>4 DEF Selected
      <4> HIDE DEF x, y
      <4>2. mail'[k] + y + x <= 1 + cause'[k] BY <1>1, <2>1, <2>3, <4>1
      <4> QED BY <2>2, <4>2 DEF Sent1, y
    <3>5. CASE ~InBatch(Other(d), k)
      <4>1. ~Claims(Other(d), k) BY <3>5 DEF Claims, InBatch
      <4>2. ~Marking(Other(d), k)
        <5> SUFFICES ASSUME Marking(Other(d), k) PROVE FALSE OBVIOUS
        <5>1. Len(drain[Other(d)].batch) \in Nat \ {0}
          BY <1>3, Working DEF Marking, At
        <5>2. 1 \in 1..Len(drain[Other(d)].batch) BY <5>1
        <5> QED BY <3>5, <5>2 DEF InBatch, Marking, Item
      <4>3. Excess(k) /\ outbox[k].status # "SENT" BY <3>2, <3>3, RepeatParts DEF Due
      <4>4. mail[k] <= cause[k] BY <1>2, <1>3, <4>2, <4>3 DEF Excess
      <4>5. x = 0 BY <4>1 DEF Claim
      <4> HIDE DEF x, y
      <4>6. mail'[k] + y + x <= 1 + cause'[k] BY <1>1, <2>1, <2>3, <2>4, <4>4, <4>5
      <4> QED BY <2>2, <4>6 DEF Sent1, y
    <3> QED BY <3>4, <3>5
  <2> QED BY <2>5, <2>6
<1>5. ASSUME NEW k \in 1..Len(outbox') PROVE Excess(k)'
  <2>1. Excess(k) /\ k \in Items BY <1>1, Rows, RepeatParts
  <2>2. mail[k] \in Nat /\ cause[k] \in Nat /\ cause'[k] \in Nat /\ cause'[k] >= cause[k]
    BY <1>1, <2>1 DEF TypeInv, TypeOK
  <2>3. (\A e \in Drains : ~Marking(e, k)') => \A e \in Drains : ~Marking(e, k)
    BY <1>1, <1>2, <1>3, OtherKept
  <2> QED BY <1>1, <2>1, <2>2, <2>3 DEF Excess
<1>6. \A k \in Items : k > Len(outbox') => mail'[k] = 0 BY <1>1, RepeatParts
<1> QED BY <1>4, <1>5, <1>6, RepeatNext

LEMMA RepeatSend ==
  ASSUME TypeInv, TypeInv', RepeatInv, NEW d \in Drains, Send(d)
  PROVE  RepeatInv'
<1>1. /\ drain[d].pc = "send" /\ UNCHANGED <<outbox, cause>>
      /\ \/ /\ mail' = [mail EXCEPT ![Item(d)] = mail[Item(d)] + 1]
            /\ \/ Holds(d, "mark", mail[Item(d)] + 1)
               \/ Holds(d, "mark", 0)
         \/ Holds(d, "fail", 0) /\ UNCHANGED mail
  BY SendEffect DEF history
<1>2. /\ ~Rest(d, Item(d))
      /\ \A k : Claims(d, k) <=> Rest(d, k) \/ k = Item(d)
  BY <1>1, ClaimsSplit
<1>3. Item(d) \in Items /\ Item(d) \in 1..Len(outbox) BY <1>1, Working
<1>4. \A e \in Drains \ {d} : drain'[e] = drain[e] BY <1>1 DEF Holds
<1>5. CASE Holds(d, "fail", 0) /\ UNCHANGED mail
  <2>1. \A k : Claims(d, k)' <=> Claims(d, k)
    BY <1>1, <1>2, <1>5, HoldsClaims
  <2>2. \A k : ~Marking(d, k) BY <1>1 DEF Marking, At
  <2> QED BY <1>1, <1>4, <1>5, <2>1, <2>2, RepeatWorked
<1>6. CASE /\ mail' = [mail EXCEPT ![Item(d)] = mail[Item(d)] + 1]
           /\ \/ Holds(d, "mark", mail[Item(d)] + 1)
              \/ Holds(d, "mark", 0)
  <2>1. \A k : (Claims(d, k)' <=> Rest(d, k)) /\ (Marking(d, k)' <=> k = Item(d))
    BY <1>1, <1>6, HoldsClaims
  <2>2. mail \in [Items -> Nat] BY DEF TypeInv, TypeOK
  <2>3. mail'[Item(d)] = mail[Item(d)] + 1 /\ \A k \in Items \ {Item(d)} : mail'[k] = mail[k]
    BY <1>3, <1>6, <2>2
  <2>4. ASSUME NEW k \in Items PROVE Sent1(d, k)'
    <3> DEFINE x == Claim(Other(d), k)
               c == Claim(d, k)
               y == Claim(d, k)'
    <3>1. /\ mail[k] \in Nat /\ cause[k] \in Nat /\ c \in {0, 1} /\ x \in {0, 1}
          /\ mail[k] + c + x <= 1 + cause[k]
      BY RepeatItem
    <3>2. Claim(Other(d), k)' = x BY <1>4, OtherKept
    <3>3. \/ mail'[k] = mail[k] + 1 /\ c = 1 /\ y = 0
          \/ mail'[k] = mail[k] /\ c = y
      BY <1>2, <2>1, <2>3 DEF Claim
    <3> HIDE DEF x, c, y
    <3>4. mail'[k] + y + x <= 1 + cause[k] BY <3>1, <3>3
    <3> QED BY <1>1, <3>2, <3>4 DEF Sent1, y
  <2>5. ASSUME NEW k \in 1..Len(outbox') PROVE Excess(k)'
    <3>1. CASE k = Item(d) BY <2>1, <3>1 DEF Excess
    <3>2. CASE k # Item(d)
      <4>1. Excess(k) /\ mail'[k] = mail[k] BY <1>1, <2>3, <3>2, Rows, RepeatParts
      <4>2. ~Marking(d, k) BY <1>1 DEF Marking, At
      <4>3. (\A e \in Drains : ~Marking(e, k)') => \A e \in Drains : ~Marking(e, k)
        BY <1>4, <4>2, OtherKept, OtherDrain
      <4> QED BY <1>1, <4>1, <4>3 DEF Excess
    <3> QED BY <3>1, <3>2
  <2>6. \A k \in Items : k > Len(outbox') => mail'[k] = 0
    <3>1. Len(outbox) \in Nat BY Rows
    <3>2. \A k \in Items : k > Len(outbox) => k # Item(d) BY <1>3, <3>1
    <3> QED BY <1>1, <2>3, <3>2, RepeatParts
  <2> QED BY <2>4, <2>5, <2>6, RepeatNext
<1> QED BY <1>1, <1>5, <1>6

LEMMA RepeatDrain ==
  ASSUME TypeInv, TypeInv', RepeatInv, NEW d \in Drains, Drain(d)
  PROVE  RepeatInv'
<1>1. CASE Send(d) BY <1>1, RepeatSend
<1>2. CASE MarkSent(d)
  <2>1. /\ drain[d].pc = "mark" /\ UNCHANGED mail
        /\ \/ /\ Holds(d, "log", drain[d].n) /\ UNCHANGED cause
              /\ Len(outbox') = Len(outbox) /\ outbox'[Item(d)].status = "SENT"
              /\ \A j \in 1..Len(outbox) \ {Item(d)} : outbox'[j] = outbox[j]
           \/ Excused(d) /\ UNCHANGED outbox
    BY <1>2, MarkEffect
  <2>2. /\ ~Rest(d, Item(d)) /\ \A k : Claims(d, k) <=> Rest(d, k) BY <2>1, ClaimsSplit
  <2>3. \A k : Marking(d, k) => k = Item(d) BY DEF Marking
  <2>4. CASE Excused(d) /\ UNCHANGED outbox
    <3>1. \A k : Claims(d, k)' <=> Rest(d, k) \/ k = Item(d) BY <2>1, <2>4, HoldsClaims DEF Excused
    <3>2. \A e \in Drains \ {d} : drain'[e] = drain[e] BY <2>4 DEF Excused, Holds
    <3>3. \A k \in Items : IF k = Item(d) THEN cause'[k] = cause[k] + 1 ELSE cause'[k] = cause[k]
      BY <2>4 DEF Excused
    <3>4. \A k \in 1..Len(outbox) : k \in Items BY Rows
    <3> QED BY <2>1, <2>2, <2>3, <2>4, <3>1, <3>2, <3>3, <3>4, RepeatWorked
  <2>5. CASE /\ Holds(d, "log", drain[d].n) /\ UNCHANGED cause
             /\ Len(outbox') = Len(outbox) /\ outbox'[Item(d)].status = "SENT"
             /\ \A j \in 1..Len(outbox) \ {Item(d)} : outbox'[j] = outbox[j]
    <3>1. \A k : Claims(d, k)' <=> Rest(d, k)
      <4>1. Holds(d, "log", drain[d].n) BY <2>5
      <4> QED BY <2>1, <4>1, HoldsClaims
    <3>2. \A e \in Drains \ {d} : drain'[e] = drain[e] BY <2>5 DEF Holds
    <3> QED BY <2>1, <2>2, <2>3, <2>5, <3>1, <3>2, RepeatWorked
  <2> QED BY <2>1, <2>4, <2>5
<1>3. CASE LogAttempt(d)
  <2>1. /\ drain[d].pc = "log" /\ UNCHANGED <<outbox, mail>>
        /\ (Moved(d) /\ UNCHANGED cause) \/ Excused(d)
    BY <1>3, LogEffect
  <2>2. \A k : (Claims(d, k) <=> Rest(d, k)) /\ ~Marking(d, k)
    BY <2>1, ClaimsSplit DEF Marking, At
  <2>3. CASE Moved(d) /\ UNCHANGED cause
    <3>1. \A k : Claims(d, k)' <=> Rest(d, k) BY <2>1, <2>3, MovedClaims
    <3>2. \A e \in Drains \ {d} : drain'[e] = drain[e] BY <2>3 DEF Moved
    <3> QED BY <2>1, <2>2, <2>3, <3>1, <3>2, RepeatWorked
  <2>4. CASE Excused(d)
    <3>1. \A k : Claims(d, k)' <=> Rest(d, k) \/ k = Item(d) BY <2>1, <2>4, HoldsClaims DEF Excused
    <3>2. \A e \in Drains \ {d} : drain'[e] = drain[e] BY <2>4 DEF Excused, Holds
    <3>3. \A k \in Items : IF k = Item(d) THEN cause'[k] = cause[k] + 1 ELSE cause'[k] = cause[k]
      BY <2>4 DEF Excused
    <3>4. \A k \in 1..Len(outbox) : k \in Items BY Rows
    <3> QED BY <2>1, <2>2, <3>1, <3>2, <3>3, <3>4, RepeatWorked
  <2> QED BY <2>1, <2>3, <2>4
<1>4. CASE MarkFailed(d)
  <2>1. /\ drain[d].pc = "fail" /\ UNCHANGED <<mail, cause>> /\ Len(outbox') = Len(outbox)
        /\ \A j \in 1..Len(outbox) \ {Item(d)} : outbox'[j] = outbox[j]
        /\ Moved(d) \/ Dropped(d)
    BY <1>4, FailEffect
  <2>2. \A k : (Claims(d, k) <=> Rest(d, k) \/ k = Item(d)) /\ ~Marking(d, k)
    BY <2>1, ClaimsSplit DEF Marking, At
  <2>3. \A k : Claims(d, k)' => Rest(d, k) BY <2>1, MovedClaims, DroppedClaims DEF Dropped
  <2>4. \A e \in Drains \ {d} : drain'[e] = drain[e] BY <2>1 DEF Moved, Dropped
  <2>5. \A k \in Items : cause[k] \in Nat /\ cause'[k] >= cause[k] BY <2>1 DEF TypeInv, TypeOK
  <2>6. \A k \in 1..Len(outbox) : k \in Items BY Rows
  <2> QED BY <2>1, <2>2, <2>3, <2>4, <2>5, <2>6, RepeatWorked
<1> QED BY <1>1, <1>2, <1>3, <1>4 DEF Drain

\* A step in which no drain moves: a row changes its status only for a cause.
LEMMA RepeatStill ==
  ASSUME TypeInv, TypeInv', RepeatInv, UNCHANGED mail, Len(outbox') >= Len(outbox),
         \A d \in Drains, k \in Items : (Claims(d, k)' => Claims(d, k))
                                        /\ (Marking(d, k) => Marking(d, k)'),
         \A k \in Items : cause'[k] >= cause[k],
         \A k \in 1..Len(outbox) :
           outbox'[k].status = outbox[k].status \/ cause'[k] >= cause[k] + 1
  PROVE  RepeatInv'
<1>1. "worker" \in Drains BY DEF Drains
<1>2. \A k \in Items : mail[k] \in Nat /\ cause[k] \in Nat /\ cause'[k] \in Nat
  BY DEF TypeInv, TypeOK
<1>3. ASSUME NEW k \in Items PROVE Sent1("worker", k)'
  <2> DEFINE x == Claim("resend", k)
             c == Claim("worker", k)
             u == Claim("resend", k)'
             v == Claim("worker", k)'
  <2>0. Other("worker") = "resend" BY DEF Other
  <2>1. c \in {0, 1} /\ x \in {0, 1} /\ mail[k] + c + x <= 1 + cause[k]
    BY <1>1, <2>0, RepeatItem
  <2>2. v \in {0, 1} /\ v <= c /\ u \in {0, 1} /\ u <= x BY DEF Claim, Drains
  <2> HIDE DEF x, c, u, v
  <2>4. /\ mail'[k] = mail[k] /\ mail[k] \in Nat /\ cause[k] \in Nat /\ cause'[k] \in Nat
        /\ cause'[k] >= cause[k]
    BY <1>2
  <2>5. c \in Nat /\ x \in Nat /\ v \in Nat /\ u \in Nat BY <2>1, <2>2
  <2>6. mail[k] + c + x <= 1 + cause[k] /\ v <= c /\ u <= x BY <2>1, <2>2
  <2>3. mail[k] + v + u <= 1 + cause'[k] BY <2>4, <2>5, <2>6, SMTT(30)
  <2> QED BY <2>0, <2>3, <2>4 DEF Sent1, u, v
<1>4. ASSUME NEW k \in 1..Len(outbox') PROVE Excess(k)'
  <2>1. k \in Items
    <3>1. 1..Len(outbox') \subseteq Items
      BY SMTT(40), OutboxAssumption, LenProperties DEF TypeInv, TypeOK, Items
    <3> QED BY <3>1
  <2>2. CASE k \in 1..Len(outbox)
    <3>1. Excess(k) /\ mail[k] <= 1 + cause[k] BY <1>1, <2>1, <2>2, RepeatItem, RepeatParts
    <3>2. mail[k] \in Nat /\ cause[k] \in Nat /\ cause'[k] \in Nat BY <1>2, <2>1
    <3>3. cause'[k] >= cause[k] BY <2>1
    <3>4. (\A e \in Drains : ~Marking(e, k)') => \A e \in Drains : ~Marking(e, k) BY <2>1
    <3>5. outbox'[k].status = outbox[k].status \/ cause'[k] >= cause[k] + 1 BY <2>2
    <3> QED BY <3>1, <3>2, <3>3, <3>4, <3>5 DEF Excess
  <2>3. CASE k \notin 1..Len(outbox)
    <3>1. k > Len(outbox) /\ k \in Nat
      <4>1. Len(outbox) \in Nat /\ Len(outbox') \in Nat
        BY Rows, LenProperties DEF TypeInv, TypeOK
      <4> QED BY <2>3, <4>1
    <3>2. mail[k] = 0 BY <2>1, <3>1, RepeatParts
    <3> QED BY <1>2, <2>1, <3>2 DEF Excess
  <2> QED BY <2>2, <2>3
<1>5. \A k \in Items : k > Len(outbox') => mail'[k] = 0
  <2>1. Len(outbox) \in Nat /\ Len(outbox') \in Nat
    BY Rows, LenProperties DEF TypeInv, TypeOK
  <2>2. \A k \in Items : k \in Nat BY DEF Items
  <2>3. \A k \in Items : k > Len(outbox') => k > Len(outbox) BY <2>1, <2>2
  <2> QED BY <2>3, RepeatParts
<1> QED BY <1>1, <1>3, <1>4, <1>5, RepeatNext

LEMMA RepeatStep == TypeInv /\ RepeatInv /\ [Next]_vars => RepeatInv'
<1> SUFFICES ASSUME TypeInv, RepeatInv, [Next]_vars PROVE RepeatInv' OBVIOUS
<1>1. TypeInv' BY TypeStep
<1>2. UNCHANGED drain => \A d \in Drains, k \in Items :
        (Claims(d, k)' <=> Claims(d, k)) /\ (Marking(d, k)' <=> Marking(d, k))
  BY DEF Claims, Marking, At, Item
<1>3. Len(outbox) \in Nat /\ \A k \in Items : cause[k] \in Nat BY Rows DEF TypeInv, TypeOK
<1>4. CASE Commit \/ UNCHANGED vars
  <2>1. UNCHANGED <<outbox, mail, drain, cause>> BY <1>4 DEF Commit, history, vars, tables
  <2> QED BY <1>1, <1>2, <1>3, <2>1, RepeatStill
<1>5. CASE Enqueue
  <2> DEFINE r == [status |-> "PENDING", retries |-> 0, waiting |-> FALSE]
  <2>1. UNCHANGED <<mail, drain, cause>> BY <1>5 DEF Enqueue, history
  <2>2. r \in RowRecords BY DEF RowRecords
  <2>3. outbox' = outbox \/ outbox' = Append(outbox, r) BY <1>5 DEF Enqueue
  <2> HIDE DEF r
  <2>4. /\ Len(outbox') >= Len(outbox) /\ \A j \in 1..Len(outbox) : outbox'[j] = outbox[j]
    BY <1>3, <2>2, <2>3, EnqueueEffect
  <2> QED BY <1>1, <1>2, <1>3, <2>1, <2>4, RepeatStill
<1>6. ASSUME NEW d \in Drains, Selected(d) PROVE RepeatInv' BY <1>1, <1>6, RepeatSelected
<1>7. ASSUME NEW d \in Drains, Drain(d) PROVE RepeatInv' BY <1>1, <1>7, RepeatDrain
<1>8. ASSUME NEW k \in 1..Len(outbox), Elapse(k) PROVE RepeatInv'
  <2>1. /\ Len(outbox') = Len(outbox) /\ UNCHANGED <<drain, mail, cause>>
        /\ \A j \in 1..Len(outbox) : outbox'[j].status = outbox[j].status
    BY <1>8, ElapseTyped DEF Elapse, history
  <2> QED BY <1>1, <1>2, <1>3, <2>1, RepeatStill
<1>9. ASSUME NEW k \in 1..Len(outbox), ResetForResend(k) PROVE RepeatInv'
  <2>1. /\ Len(outbox') = Len(outbox) /\ UNCHANGED mail
        /\ \A j \in 1..Len(outbox) \ {k} : outbox'[j] = outbox[j]
    BY <1>9, StatusEffect DEF ResetForResend
  <2>2. /\ drain["resend"].batch = << >> /\ drain'["resend"].batch = << >>
        /\ drain'["worker"] = drain["worker"]
    BY <1>9, ResetTyped
  <2>3. \A j \in Items : (Claims("worker", j)' <=> Claims("worker", j))
                         /\ (Marking("worker", j)' <=> Marking("worker", j))
    BY <2>2 DEF Claims, Marking, At, Item
  <2>4. \A j \in Items : ~Marking("resend", j) BY <2>2, IdleClaims DEF Drains
  <2>5. \A j \in Items : ~Claims("resend", j)'
    <3>1. Len(drain'["resend"].batch) = 0 BY <2>2
    <3> QED BY <3>1 DEF Claims
  <2>6. /\ cause'[k] = cause[k] + 1 /\ \A j \in Items \ {k} : cause'[j] = cause[j]
    BY <1>9, Rows DEF ResetForResend, TypeInv, TypeOK
  <2>7. \A j \in Items : cause'[j] >= cause[j] BY <1>3, <2>6
  <2>8. \A d \in Drains, j \in Items : (Claims(d, j)' => Claims(d, j))
                                       /\ (Marking(d, j) => Marking(d, j)')
    BY <2>3, <2>4, <2>5 DEF Drains
  <2>9. \A j \in 1..Len(outbox) : outbox'[j].status = outbox[j].status \/ cause'[j] >= cause[j] + 1
    <3>1. cause'[k] >= cause[k] + 1 BY <1>3, <2>6, Rows
    <3> QED BY <2>1, <3>1
  <2> QED BY <1>1, <1>3, <2>1, <2>7, <2>8, <2>9, RepeatStill
<1>10. ASSUME NEW k \in 1..Len(outbox), NEW n \in 1..mail[k], MarkRejected(k, n) PROVE RepeatInv'
  <2>1. /\ Len(outbox') = Len(outbox)
        /\ \A j \in 1..Len(outbox) \ {k} : outbox'[j] = outbox[j]
    BY <1>10, StatusEffect DEF MarkRejected
  <2>2. UNCHANGED <<drain, mail>> BY <1>10 DEF MarkRejected
  <2>3. /\ cause'[k] = cause[k] + 1 /\ \A j \in Items \ {k} : cause'[j] = cause[j]
    BY <1>10, Rows DEF MarkRejected, TypeInv, TypeOK
  <2>4. \A j \in Items : cause'[j] >= cause[j] BY <1>3, <2>3
  <2>5. \A j \in 1..Len(outbox) : outbox'[j].status = outbox[j].status \/ cause'[j] >= cause[j] + 1
    <3>1. cause'[k] >= cause[k] + 1 BY <1>3, <2>3, Rows
    <3> QED BY <2>1, <3>1
  <2> QED BY <1>1, <1>2, <1>3, <2>1, <2>2, <2>4, <2>5, RepeatStill
<1>11. ASSUME NEW k \in 1..Len(outbox), NEW n \in 1..mail[k], ReadReport(k, n) PROVE RepeatInv'
  <2>1. UNCHANGED <<outbox, mail, drain, cause>> BY <1>11 DEF ReadReport, tables, history
  <2> QED BY <1>1, <1>2, <1>3, <2>1, RepeatStill
<1>12. CASE Crash
  <2>1. UNCHANGED <<outbox, mail>> BY <1>12 DEF Crash
  <2>2. /\ \A d \in Drains : drain'[d] = NoDrain
        /\ \A k \in Items : /\ cause'[k] >= cause[k]
                            /\ (\E d \in Drains : Marking(d, k)) => cause'[k] >= cause[k] + 1
    BY <1>12, CrashTyped
  <2>3. \A d \in Drains, k \in Items : ~Claims(d, k)' /\ ~Marking(d, k)' BY <2>2, DroppedClaims
  <2>4. \A k \in Items : cause'[k] \in Nat BY <1>1 DEF TypeInv, TypeOK
  <2>5. ASSUME NEW k \in Items PROVE Sent1("worker", k)'
    <3>1. Claim("worker", k)' = 0 /\ Claim(Other("worker"), k)' = 0
      BY <2>3 DEF Claim, Other, Drains
    <3>2. mail[k] \in Nat /\ mail[k] <= 1 + cause[k] BY RepeatItem DEF Drains
    <3>3. mail[k] + 0 + 0 <= 1 + cause'[k] BY <1>3, <2>2, <2>4, <3>2
    <3> QED BY <2>1, <3>1, <3>3 DEF Sent1
  <2>6. ASSUME NEW k \in 1..Len(outbox') PROVE Excess(k)'
    <3>1. k \in Items /\ Excess(k) BY <2>1, Rows, RepeatParts
    <3>2. mail[k] \in Nat /\ mail[k] <= 1 + cause[k] BY <3>1, RepeatItem DEF Drains
    <3>3. CASE \E d \in Drains : Marking(d, k)
      BY <1>3, <2>1, <2>2, <2>4, <3>1, <3>2, <3>3 DEF Excess
    <3>4. CASE \A d \in Drains : ~Marking(d, k)
      BY <1>3, <2>1, <2>2, <2>4, <3>1, <3>2, <3>4 DEF Excess
    <3> QED BY <3>3, <3>4
  <2>7. \A k \in Items : k > Len(outbox') => mail'[k] = 0 BY <2>1, RepeatParts
  <2>8. "worker" \in Drains BY DEF Drains
  <2> QED BY <1>1, <2>5, <2>6, <2>7, <2>8, RepeatNext
<1> QED BY <1>4, <1>5, <1>6, <1>7, <1>8, <1>9, <1>10, <1>11, <1>12, Steps

\* A customer gets a message again only for a cause, in every interleaving of any
\* number of batches, resends, reports and crashes.
THEOREM RepeatsHaveACause == Spec => []RepeatsHaveCause
<1>1. Init => RepeatInv
  <2> SUFFICES ASSUME Init PROVE RepeatInv OBVIOUS
  <2>1. TypeInv BY TypeInit
  <2>2. \A d \in Drains : drain[d].batch = << >> BY NoDrainTyped DEF Init
  <2>3. \A d \in Drains, k \in Items : ~Claims(d, k) BY <2>1, <2>2, IdleClaims
  <2>4. \A d \in Drains, k \in Items : Claim(d, k) = 0 BY <2>3 DEF Claim
  <2>5. Len(outbox) = 0 /\ \A k \in Items : mail[k] = 0 /\ cause[k] = 0 BY DEF Init
  <2> QED BY <2>4, <2>5 DEF RepeatInv, Drains
<1>2. TypeInv /\ RepeatInv => RepeatsHaveCause
  BY RepeatItem DEF RepeatsHaveCause, Drains
<1> QED BY <1>1, <1>2, TypeInit, TypeStep, RepeatStep, PTL DEF Spec

-----------------------------------------------------------------------------
(* Sent messages.                                                          *)

\* A drain has stored SENT for row k and not yet logged it, or will take it back.
Closing(d, k) == drain[d].pc \in {"log", "fail"} /\ Item(d) = k

Stands(k) == \E l \in logs : l.item = k /\ <<k, l.n>> \notin rejected

\* A row at SENT is logged, or about to be.
SentRow(k) ==
  k \notin unlogged /\ outbox[k].status = "SENT" => (\E d \in Drains : Closing(d, k)) \/ Stands(k)

\* What a carrier rejected was logged before.
Reported ==
  \A k, n : <<k, n>> \in rejecting \cup rejected => n >= 1 /\ [item |-> k, n |-> n] \in logs

\* The message a drain has sent is one of those that went out, not logged yet, and
\* not the one of the other drain.
Sender(d) == drain[d].pc \in {"mark", "log"}
Fresh(d) == Sender(d) /\ drain[d].n > 0 => [item |-> Item(d), n |-> drain[d].n] \notin logs
Numbered(d) == Sender(d) => drain[d].n <= mail[Item(d)]
Apart ==
  \A d, e \in Drains :
    d # e /\ Sender(d) /\ Sender(e) /\ Item(d) = Item(e) /\ drain[d].n > 0 => drain[d].n # drain[e].n
LogInv ==
  /\ \A l \in logs : l.n <= mail[l.item]
  /\ \A d \in Drains : Fresh(d) /\ Numbered(d)
  /\ Apart
  /\ Reported

SentInv == LogInv /\ \A k \in 1..Len(outbox) : SentRow(k)

\* Steps that log nothing and send nothing; a drain only stops being a sender.
LEMMA LogKept ==
  ASSUME LogInv, UNCHANGED <<logs, mail>>,
         rejecting' \cup rejected' \subseteq rejecting \cup rejected,
         \A d \in Drains : (Sender(d)' => Sender(d) /\ drain'[d].n = drain[d].n
                                          /\ drain'[d].batch = drain[d].batch)
  PROVE  LogInv'
<1>1. \A d \in Drains : Sender(d)' => Item(d)' = Item(d) BY DEF Item
<1>2. \A l \in logs' : l.n <= mail'[l.item] BY DEF LogInv
<1>3. \A d \in Drains : Fresh(d)' /\ Numbered(d)' BY <1>1 DEF LogInv, Fresh, Numbered
<1>4. Apart' BY <1>1 DEF LogInv, Apart
<1>5. Reported' BY DEF LogInv, Reported
<1> QED BY <1>2, <1>3, <1>4, <1>5 DEF LogInv

LEMMA LogSend ==
  ASSUME TypeInv, LogInv, NEW d \in Drains, Send(d)
  PROVE  LogInv'
<1>1. /\ drain[d].pc = "send" /\ UNCHANGED <<logs, rejecting, rejected>>
      /\ \/ /\ mail' = [mail EXCEPT ![Item(d)] = mail[Item(d)] + 1]
            /\ \/ Holds(d, "mark", mail[Item(d)] + 1)
               \/ Holds(d, "mark", 0)
         \/ Holds(d, "fail", 0) /\ UNCHANGED mail
  BY SendEffect
<1>2. \A e \in Drains \ {d} : drain'[e] = drain[e] BY <1>1 DEF Holds
<1>3. CASE Holds(d, "fail", 0) /\ UNCHANGED mail
  BY <1>1, <1>2, <1>3, LogKept DEF Holds, Sender
<1>4. CASE /\ mail' = [mail EXCEPT ![Item(d)] = mail[Item(d)] + 1]
           /\ \/ Holds(d, "mark", mail[Item(d)] + 1)
              \/ Holds(d, "mark", 0)
  <2> DEFINE i == Item(d)
  <2>1. i \in Items /\ mail \in [Items -> Nat] BY <1>1, Working DEF TypeInv, TypeOK
  <2>2. PICK m \in Nat : m = mail[i] BY <2>1
  <2>3. mail'[i] = m + 1 /\ \A k \in Items \ {i} : mail'[k] = mail[k] BY <1>4, <2>1, <2>2
  <2>4. \A k \in Items : mail[k] \in Nat /\ mail'[k] \in Nat /\ mail[k] <= mail'[k]
    BY <2>1, <2>2, <2>3
  <2>5. \A l \in logs : l.item \in Items /\ l.n \in Nat /\ l.n <= mail[l.item]
    BY DEF LogInv, TypeInv, TypeOK
  <2>6. \A l \in logs : l.n <= mail'[l.item] BY <2>4, <2>5
  <2>7. drain'[d].n \in {m + 1, 0} /\ drain'[d].batch = drain[d].batch /\ drain'[d].pc = "mark"
    BY <1>4, <2>2 DEF Holds
  <2>8. Item(d)' = i BY <2>7 DEF Item
  <2>9. \A e \in Drains \ {d} :
          /\ Sender(e)' <=> Sender(e)
          /\ Item(e)' = Item(e) /\ drain'[e].n = drain[e].n
    BY <1>2 DEF Sender, Item
  <2>10. \A e \in Drains : Sender(e) => Item(e) \in Items /\ drain[e].n \in Nat
    BY Working DEF Sender, DrainRecords
  <2> HIDE DEF i
  <2>11. ASSUME NEW e \in Drains PROVE Fresh(e)' /\ Numbered(e)'
    <3>1. CASE e = d
      <4>1. [item |-> i, n |-> m + 1] \notin logs
        <5> SUFFICES ASSUME [item |-> i, n |-> m + 1] \in logs PROVE FALSE OBVIOUS
        <5>1. m + 1 <= mail[i] BY <2>5
        <5> QED BY <2>2, <5>1
      <4> QED BY <1>1, <2>2, <2>3, <2>7, <2>8, <3>1, <4>1 DEF Fresh, Numbered
    <3>2. CASE e # d
      <4>1. Fresh(e) /\ Numbered(e) BY DEF LogInv
      <4>2. Fresh(e)' BY <1>1, <2>9, <3>2, <4>1 DEF Fresh
      <4>3. Numbered(e)' BY <2>4, <2>9, <2>10, <3>2, <4>1 DEF Numbered
      <4> QED BY <4>2, <4>3
    <3> QED BY <3>1, <3>2
  <2>12. Apart'
    <3>1. ASSUME NEW e \in Drains \ {d}, Sender(e), Item(e) = i
          PROVE  drain[e].n \in Nat /\ drain[e].n <= m
      BY <2>2, <2>10, <3>1 DEF LogInv, Numbered
    <3>2. \A e \in Drains \ {d} : Sender(e) /\ Item(e) = i /\ (drain'[d].n > 0 \/ drain[e].n > 0)
            => drain'[d].n # drain[e].n
      BY <2>2, <2>7, <3>1
    <3>3. Apart BY DEF LogInv
    <3> QED BY <2>7, <2>8, <2>9, <3>2, <3>3 DEF Apart
  <2>13. Reported' BY <1>1 DEF LogInv, Reported
  <2> QED BY <1>1, <2>6, <2>11, <2>12, <2>13 DEF LogInv
<1> QED BY <1>1, <1>3, <1>4

\* A drain logs what it sent: the entry is new, or has no message.
LEMMA LogLogged ==
  ASSUME TypeInv, LogInv, NEW d \in Drains, drain[d].pc = "log", Moved(d),
         logs' = logs \cup {[item |-> Item(d), n |-> drain[d].n]},
         UNCHANGED <<mail, rejecting, rejected>>
  PROVE  LogInv' /\ <<Item(d), drain[d].n>> \notin rejected
<1> DEFINE l == [item |-> Item(d), n |-> drain[d].n]
<1>1. Sender(d) BY DEF Sender
<1>2. Fresh(d) /\ Numbered(d) BY DEF LogInv
<1>3. drain[d].n \in Nat BY Working DEF DrainRecords
<1>4. <<Item(d), drain[d].n>> \notin rejected
  <2> SUFFICES ASSUME <<Item(d), drain[d].n>> \in rejected PROVE FALSE OBVIOUS
  <2>1. drain[d].n >= 1 /\ l \in logs BY DEF LogInv, Reported
  <2> QED BY <1>1, <1>2, <1>3, <2>1 DEF Fresh
<1>5. \A x \in logs' : x.n <= mail'[x.item]
  <2>1. l.n <= mail[l.item] BY <1>1, <1>2 DEF Numbered
  <2> QED BY <2>1 DEF LogInv
<1>6. ~Sender(d)' /\ \A e \in Drains \ {d} : drain'[e] = drain[e] BY DEF Moved, Sender
<1>7. \A e \in Drains \ {d} :
        (Sender(e)' <=> Sender(e)) /\ Item(e)' = Item(e) /\ drain'[e].n = drain[e].n
  BY <1>6 DEF Sender, Item
<1>8. ASSUME NEW e \in Drains PROVE Fresh(e)' /\ Numbered(e)'
  <2>1. CASE e = d BY <1>6, <2>1 DEF Fresh, Numbered
  <2>2. CASE e # d
    <3>1. Fresh(e) /\ Numbered(e) BY DEF LogInv
    <3>2. Sender(e) /\ drain[e].n > 0 => [item |-> Item(e), n |-> drain[e].n] # l
      BY <1>1, <2>2 DEF LogInv, Apart
    <3>3. Fresh(e)'
      <4> SUFFICES ASSUME Sender(e), drain[e].n > 0
                   PROVE  [item |-> Item(e), n |-> drain[e].n] \notin logs'
        BY <1>7, <2>2 DEF Fresh
      <4> QED BY <3>1, <3>2 DEF Fresh
    <3>4. Numbered(e)' BY <1>7, <2>2, <3>1 DEF Numbered
    <3> QED BY <3>3, <3>4
  <2> QED BY <2>1, <2>2
<1>9. Apart'
  <2>1. Apart BY DEF LogInv
  <2> QED BY <1>6, <1>7, <2>1 DEF Apart
<1>10. Reported' BY DEF LogInv, Reported
<1> QED BY <1>4, <1>5, <1>8, <1>9, <1>10 DEF LogInv

LEMMA LogStep == TypeInv /\ LogInv /\ [Next]_vars => LogInv'
<1> SUFFICES ASSUME TypeInv, LogInv, [Next]_vars PROVE LogInv' OBVIOUS
<1>1. ASSUME UNCHANGED <<logs, mail, drain, rejecting, rejected>> PROVE LogInv'
  BY <1>1, LogKept DEF Sender
<1>2. CASE Commit \/ Enqueue \/ UNCHANGED vars
  BY <1>1, <1>2 DEF Commit, Enqueue, vars, tables
<1>3. ASSUME NEW d \in Drains, Selected(d) PROVE LogInv'
  BY <1>3, LogKept DEF Selected, tables, Sender
<1>4. ASSUME NEW d \in Drains, Drain(d) PROVE LogInv'
  <2>1. CASE Send(d) BY <2>1, LogSend
  <2>2. CASE MarkSent(d)
    <3>1. /\ drain[d].pc = "mark" /\ UNCHANGED <<logs, mail, rejecting, rejected>>
          /\ Holds(d, "log", drain[d].n) \/ Excused(d)
      BY <2>2, MarkEffect
    <3> QED BY <3>1, LogKept DEF Holds, Excused, Sender
  <2>3. CASE LogAttempt(d)
    <3>1. /\ drain[d].pc = "log" /\ UNCHANGED <<mail, rejecting, rejected>>
          /\ \/ Moved(d) /\ logs' = logs \cup {[item |-> Item(d), n |-> drain[d].n]}
             \/ Excused(d) /\ UNCHANGED logs
      BY <2>3, LogEffect
    <3>2. CASE Moved(d) /\ logs' = logs \cup {[item |-> Item(d), n |-> drain[d].n]}
      BY <3>1, <3>2, LogLogged
    <3>3. CASE Excused(d) /\ UNCHANGED logs BY <3>1, <3>3, LogKept DEF Holds, Excused, Sender
    <3> QED BY <3>1, <3>2, <3>3
  <2>4. CASE MarkFailed(d)
    <3>2. UNCHANGED <<logs, mail, rejecting, rejected>> BY <2>4, FailEffect
    <3>3. ~Sender(d)' BY <2>4, FailEffect, NoDrainTyped DEF Moved, Dropped, Sender
    <3>4. \A e \in Drains \ {d} : drain'[e] = drain[e] BY <2>4, FailEffect DEF Moved, Dropped
    <3> QED BY <3>2, <3>3, <3>4, LogKept DEF Sender
  <2> QED BY <1>4, <2>1, <2>2, <2>3, <2>4 DEF Drain
<1>5. ASSUME NEW k \in 1..Len(outbox), Elapse(k) PROVE LogInv' BY <1>1, <1>5 DEF Elapse
<1>6. ASSUME NEW k \in 1..Len(outbox), ResetForResend(k) PROVE LogInv'
  <2>1. /\ drain'["resend"].pc = "select" /\ drain'["worker"] = drain["worker"]
    BY <1>6, ResetTyped
  <2>2. UNCHANGED <<logs, mail, rejecting, rejected>> BY <1>6 DEF ResetForResend
  <2> QED BY <2>1, <2>2, LogKept DEF Sender, Drains
<1>7. ASSUME NEW k \in 1..Len(outbox), NEW n \in 1..mail[k], ReadReport(k, n) \/ MarkRejected(k, n)
      PROVE  LogInv'
  <2>1. UNCHANGED <<logs, mail, drain>> BY <1>7 DEF ReadReport, MarkRejected, tables
  <2>2. \A l \in logs' : l.n <= mail'[l.item] BY <2>1 DEF LogInv
  <2>3. \A d \in Drains : Fresh(d)' /\ Numbered(d)'
    BY <2>1 DEF LogInv, Fresh, Numbered, Sender, Item
  <2>4. Apart' BY <2>1 DEF LogInv, Apart, Sender, Item
  <2>5. n >= 1
    <3>1. mail[k] \in Nat BY Rows DEF TypeInv, TypeOK
    <3> QED BY <3>1
  <2>6. Reported' BY <1>7, <2>1, <2>5 DEF LogInv, Reported, ReadReport, MarkRejected
  <2> QED BY <2>2, <2>3, <2>4, <2>6 DEF LogInv
<1>8. CASE Crash
  <2>1. UNCHANGED <<logs, mail, rejected>> /\ rejecting' = {} BY <1>8 DEF Crash
  <2>2. \A d \in Drains : ~Sender(d)' BY <1>8, CrashTyped, NoDrainTyped DEF Sender
  <2> QED BY <2>1, <2>2, LogKept
<1> QED BY <1>2, <1>3, <1>4, <1>5, <1>6, <1>7, <1>8, Steps

\* A row keeps what its SENT rests on, or is no longer SENT.
LEMMA RowKept ==
  ASSUME NEW k, SentRow(k), unlogged \subseteq unlogged',
         \/ outbox'[k].status # "SENT"
         \/ k \in unlogged'
         \/ /\ outbox'[k].status = outbox[k].status
            /\ (\E d \in Drains : Closing(d, k)) =>
                 (\E d \in Drains : Closing(d, k)') \/ Stands(k)'
            /\ Stands(k) => Stands(k)'
  PROVE  SentRow(k)'
BY DEF SentRow

LEMMA SentDrain ==
  ASSUME TypeInv, SentInv, NEW d \in Drains, Drain(d), NEW k \in 1..Len(outbox')
  PROVE  SentRow(k)'
<1>1. \A j \in 1..Len(outbox) : SentRow(j) BY DEF SentInv
<1>2. CASE Send(d)
  <2>1. /\ drain[d].pc = "send" /\ UNCHANGED <<outbox, logs, rejected, unlogged>>
        /\ \A e \in Drains \ {d} : drain'[e] = drain[e]
    BY <1>2, SendEffect DEF history, Holds
  <2>2. \A e \in Drains : Closing(e, k) => Closing(e, k)' BY <2>1 DEF Closing, Item
  <2> QED BY <1>1, <2>1, <2>2, RowKept DEF Stands
<1>3. CASE MarkSent(d)
  <2>1. /\ drain[d].pc = "mark" /\ UNCHANGED <<logs, rejected, unlogged>>
        /\ Len(outbox') = Len(outbox)
        /\ \A j \in 1..Len(outbox) \ {Item(d)} : outbox'[j] = outbox[j]
        /\ Holds(d, "log", drain[d].n) \/ Excused(d)
    BY <1>3, MarkEffect
  <2>2. /\ \A e \in Drains \ {d} : drain'[e] = drain[e]
        /\ drain'[d].pc \in {"log", "fail"} /\ drain'[d].batch = drain[d].batch
    BY <2>1 DEF Holds, Excused
  <2>4. CASE k = Item(d)
    <3>1. Closing(d, k)' BY <2>2, <2>4 DEF Closing, Item
    <3> QED BY <3>1 DEF SentRow
  <2>5. CASE k # Item(d)
    <3>1. \A e \in Drains : Closing(e, k) => Closing(e, k)' BY <2>1, <2>2 DEF Closing, Item
    <3> QED BY <1>1, <2>1, <2>5, <3>1, RowKept DEF Stands
  <2> QED BY <2>4, <2>5
<1>4. CASE LogAttempt(d)
  <2>1. /\ drain[d].pc = "log" /\ UNCHANGED <<outbox, mail, rejecting, rejected, unlogged>>
        /\ \/ Moved(d) /\ logs' = logs \cup {[item |-> Item(d), n |-> drain[d].n]}
           \/ Excused(d) /\ UNCHANGED logs
    BY <1>4, LogEffect
  <2>2. CASE Excused(d) /\ UNCHANGED logs
    <3>1. \A e \in Drains : Closing(e, k) => Closing(e, k)'
      BY <2>2 DEF Excused, Holds, Closing, Item
    <3> QED BY <1>1, <2>1, <2>2, <3>1, RowKept DEF Stands
  <2>3. CASE Moved(d) /\ logs' = logs \cup {[item |-> Item(d), n |-> drain[d].n]}
    <3>1. <<Item(d), drain[d].n>> \notin rejected BY <2>1, <2>3, LogLogged DEF SentInv
    <3>2. k = Item(d) => Stands(k)'
      <4> DEFINE l == [item |-> Item(d), n |-> drain[d].n]
      <4>1. l \in logs' /\ l.item = Item(d) /\ l.n = drain[d].n BY <2>3
      <4> HIDE DEF l
      <4> QED BY <2>1, <3>1, <4>1 DEF Stands
    <3>3. \A e \in Drains \ {d} : Closing(e, k) => Closing(e, k)' BY <2>3 DEF Moved, Closing, Item
    <3>4. Closing(d, k) => k = Item(d) BY DEF Closing
    <3>5. Stands(k) => Stands(k)' BY <2>1, <2>3 DEF Stands
    <3> QED BY <1>1, <2>1, <3>2, <3>3, <3>4, <3>5, RowKept
  <2> QED BY <2>1, <2>2, <2>3
<1>5. CASE MarkFailed(d)
  <2>1. /\ drain[d].pc = "fail" /\ Item(d) \in 1..Len(outbox)
        /\ UNCHANGED <<logs, rejected>>
        /\ \/ /\ outbox'[Item(d)].status = "FAILED" /\ UNCHANGED unlogged
              /\ Len(outbox') = Len(outbox)
              /\ \A j \in 1..Len(outbox) \ {Item(d)} : outbox'[j] = outbox[j]
           \/ UNCHANGED outbox /\ unlogged' = unlogged \cup {Item(d)}
        /\ Moved(d) \/ Dropped(d)
    BY <1>5, FailEffect
  <2>2. Len(outbox') = Len(outbox) /\ unlogged \subseteq unlogged' BY <2>1
  <2>3. CASE k = Item(d)
    <3>1. outbox'[k].status # "SENT" \/ k \in unlogged' BY <2>1, <2>3
    <3> QED BY <3>1 DEF SentRow
  <2>4. CASE k # Item(d)
    <3>1. \A e \in Drains \ {d} : drain'[e] = drain[e] BY <2>1 DEF Moved, Dropped
    <3>2. \A e \in Drains : Closing(e, k) => Closing(e, k)' BY <2>4, <3>1 DEF Closing, Item
    <3>3. outbox'[k] = outbox[k] BY <2>1, <2>2, <2>4
    <3>4. Stands(k) => Stands(k)' BY <2>1 DEF Stands
    <3> QED BY <1>1, <2>2, <3>2, <3>3, <3>4, RowKept
  <2> QED BY <2>3, <2>4
<1> QED BY <1>2, <1>3, <1>4, <1>5 DEF Drain

LEMMA SentStep == TypeInv /\ SentInv /\ [Next]_vars => SentInv'
<1> SUFFICES ASSUME TypeInv, SentInv, [Next]_vars PROVE SentInv' OBVIOUS
<1>1. LogInv' BY LogStep DEF SentInv
<1>2. \A k \in 1..Len(outbox) : SentRow(k) BY DEF SentInv
<1> SUFFICES ASSUME NEW k \in 1..Len(outbox') PROVE SentRow(k)' BY <1>1 DEF SentInv
<1>3. CASE Commit \/ UNCHANGED vars
  BY <1>2, <1>3 DEF Commit, vars, tables, history, SentRow, Closing, Stands, Item
<1>4. CASE Enqueue
  <2> DEFINE r == [status |-> "PENDING", retries |-> 0, waiting |-> FALSE]
  <2>1. UNCHANGED <<logs, drain, rejected, unlogged>> BY <1>4 DEF Enqueue, history
  <2>2. r \in RowRecords /\ r.status # "SENT" BY DEF RowRecords
  <2>3. outbox' = outbox \/ outbox' = Append(outbox, r) BY <1>4 DEF Enqueue
  <2>4. Len(outbox) \in Nat BY Rows
  <2> HIDE DEF r
  <2>5. CASE k \in 1..Len(outbox)
    <3>1. outbox'[k] = outbox[k] BY <2>2, <2>3, <2>5, EnqueueEffect
    <3> QED BY <1>2, <2>1, <2>5, <3>1 DEF SentRow, Closing, Stands, Item
  <2>6. CASE k \notin 1..Len(outbox)
    <3>1. outbox' = Append(outbox, r) BY <2>3, <2>6
    <3>2. Len(outbox') = Len(outbox) + 1 /\ outbox'[Len(outbox) + 1] = r
      BY <2>2, <3>1, EnqueueEffect
    <3>3. k = Len(outbox) + 1 BY <2>4, <2>6, <3>2
    <3>4. outbox'[k].status # "SENT" BY <2>2, <3>2, <3>3
    <3> QED BY <3>4 DEF SentRow
  <2> QED BY <2>5, <2>6
<1>5. ASSUME NEW d \in Drains, Selected(d) PROVE SentRow(k)'
  <2>1. /\ UNCHANGED <<outbox, logs, rejected, unlogged>> /\ drain[d].batch = << >>
        /\ \A e \in Drains \ {d} : drain'[e] = drain[e]
    BY <1>5 DEF Selected, tables
  <2>2. ~Closing(d, k) BY <2>1 DEF TypeInv, DrainOK, Closing
  <2>3. \A e \in Drains : Closing(e, k) => Closing(e, k)' BY <2>1, <2>2 DEF Closing, Item
  <2> QED BY <1>2, <2>1, <2>3, RowKept DEF Stands
<1>6. ASSUME NEW d \in Drains, Drain(d) PROVE SentRow(k)' BY <1>6, SentDrain
<1>7. ASSUME NEW j \in 1..Len(outbox), Elapse(j) PROVE SentRow(k)'
  <2>1. /\ Len(outbox') = Len(outbox) /\ UNCHANGED <<drain, logs, rejected, unlogged>>
        /\ \A i \in 1..Len(outbox) : outbox'[i].status = outbox[i].status
    BY <1>7, ElapseTyped DEF Elapse, history
  <2> QED BY <1>2, <2>1 DEF SentRow, Closing, Stands, Item
<1>8. ASSUME NEW j \in 1..Len(outbox), ResetForResend(j) PROVE SentRow(k)'
  <2>1. /\ Len(outbox') = Len(outbox) /\ outbox'[j].status = "PENDING"
        /\ \A i \in 1..Len(outbox) \ {j} : outbox'[i] = outbox[i]
    BY <1>8, StatusEffect DEF ResetForResend
  <2>2. /\ drain["resend"].batch = << >> /\ drain'["worker"] = drain["worker"]
    BY <1>8, ResetTyped
  <2>3. ~Closing("resend", k) BY <2>2 DEF TypeInv, DrainOK, Closing, Drains
  <2>4. \A e \in Drains : Closing(e, k) => Closing(e, k)' BY <2>2, <2>3 DEF Closing, Item, Drains
  <2>5. UNCHANGED <<logs, rejected, unlogged>> BY <1>8 DEF ResetForResend
  <2>6. outbox'[k].status # "SENT" \/ outbox'[k] = outbox[k] BY <2>1
  <2> QED BY <1>2, <2>1, <2>4, <2>5, <2>6, RowKept DEF Stands
<1>9. ASSUME NEW j \in 1..Len(outbox), NEW n \in 1..mail[j], ReadReport(j, n) PROVE SentRow(k)'
  <2>1. UNCHANGED <<outbox, drain, logs, rejected, unlogged>>
    BY <1>9 DEF ReadReport, tables, history
  <2> QED BY <1>2, <2>1 DEF SentRow, Closing, Stands, Item
<1>10. ASSUME NEW j \in 1..Len(outbox), NEW n \in 1..mail[j], MarkRejected(j, n) PROVE SentRow(k)'
  <2>1. /\ Len(outbox') = Len(outbox) /\ outbox'[j].status = "FAILED"
        /\ \A i \in 1..Len(outbox) \ {j} : outbox'[i] = outbox[i]
    BY <1>10, StatusEffect DEF MarkRejected
  <2>2. UNCHANGED <<drain, logs, unlogged>> /\ rejected' = rejected \cup {<<j, n>>}
    BY <1>10 DEF MarkRejected
  <2>3. CASE k = j BY <2>1, <2>3 DEF SentRow
  <2>4. CASE k # j
    <3>1. \A i : <<k, i>> \in rejected' <=> <<k, i>> \in rejected BY <2>2, <2>4
    <3>2. Stands(k) => Stands(k)' BY <2>2, <3>1 DEF Stands
    <3>3. outbox'[k] = outbox[k] /\ k \in 1..Len(outbox) BY <2>1, <2>4
    <3>4. \A e \in Drains : Closing(e, k) => Closing(e, k)' BY <2>2 DEF Closing, Item
    <3> QED BY <1>2, <2>2, <3>2, <3>3, <3>4, RowKept
  <2> QED BY <2>3, <2>4
<1>11. CASE Crash
  <2>1. /\ UNCHANGED <<outbox, logs, rejected>>
        /\ unlogged' = unlogged \cup {Item(d) : d \in {e \in Drains : At(e, "log") \/ At(e, "fail")}}
    BY <1>11 DEF Crash
  <2>2. (\E d \in Drains : Closing(d, k)) => k \in unlogged' BY <2>1 DEF Closing, At
  <2>3. unlogged \subseteq unlogged' BY <2>1
  <2> QED BY <1>2, <2>1, <2>2, <2>3, RowKept DEF Stands
<1> QED BY <1>3, <1>4, <1>5, <1>6, <1>7, <1>8, <1>9, <1>10, <1>11, Steps

\* NTF-004: a row that rests at SENT has a logged message that was not rejected,
\* for any number of messages, drains' steps, reports and crashes.
THEOREM WhatIsSentStands == Spec => []SentStands
<1>1. Init => SentInv
  <2> SUFFICES ASSUME Init PROVE SentInv OBVIOUS
  <2>1. \A d \in Drains : ~Sender(d) BY NoDrainTyped DEF Init, Sender
  <2>2. /\ logs = {} /\ rejecting = {} /\ rejected = {} /\ Len(outbox) = 0 BY DEF Init
  <2> QED BY <2>1, <2>2 DEF SentInv, LogInv, Fresh, Numbered, Apart, Reported
<1>2. TypeInv /\ SentInv => SentStands
  <2> SUFFICES ASSUME TypeInv, SentInv, NEW k \in 1..Len(outbox) \ unlogged,
                      outbox[k].status = "SENT", \A d \in Drains : ~InBatch(d, k)
               PROVE  Stands(k)
    BY DEF SentStands, Stands
  <2>1. ASSUME NEW d \in Drains, Closing(d, k) PROVE FALSE
    <3>1. Len(drain[d].batch) \in Nat \ {0} BY <2>1, Working DEF Closing
    <3>2. 1 \in 1..Len(drain[d].batch) BY <3>1
    <3> QED BY <2>1, <3>2 DEF InBatch, Closing, Item
  <2> QED BY <2>1 DEF SentInv, SentRow
<1> QED BY <1>1, <1>2, TypeInit, TypeStep, SentStep, PTL DEF Spec
\* Sends and retries are bounded for any constants.
THEOREM SendsAreBounded == Spec => []SendsBounded
  BY RepeatsHaveACause, RetriesAreBounded, PTL DEF SendsBounded
=============================================================================
