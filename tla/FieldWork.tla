------------------------------ MODULE FieldWork ------------------------------
(***************************************************************************)
(* What the offline gateway promises to a field worker (docs/ARCHITECTURE  *)
(* .md 6.2, Logistics_PRD.md BR-013): an operation recorded on the device  *)
(* takes effect once, in the order of recording, and leaves the device     *)
(* only when it has.                                                       *)
(***************************************************************************)
EXTENDS Naturals

CONSTANT Ops      \* operations, numbered in the order they are recorded
VARIABLES
  device,         \* operations the device still keeps
  times           \* how often each has taken effect

Recorded(o) == o \in device \/ times[o] > 0

Init == device = {} /\ times = [o \in Ops |-> 0]

Record(o) ==
  /\ ~Recorded(o)
  /\ device' = device \cup {o}
  /\ UNCHANGED times

TakeEffect(o) ==
  /\ o \in device
  /\ times[o] = 0
  /\ \A p \in Ops : p < o => times[p] = 1
  /\ times' = [times EXCEPT ![o] = 1]
  /\ UNCHANGED device

Release(batch) ==
  /\ \A o \in batch : times[o] = 1
  /\ device' = device \ batch
  /\ UNCHANGED times

Next ==
  \/ \E o \in Ops : Record(o) \/ TakeEffect(o)
  \/ \E batch \in SUBSET device : Release(batch)

Spec == Init /\ [][Next]_<<device, times>>
=============================================================================
