------------------------------ MODULE MCInbound ------------------------------
(***************************************************************************)
(* Inbound for TLC: a parcel of a manifest, which crosses a border,       *)
(* and one that arrives with it and is on no manifest.                     *)
(***************************************************************************)
EXTENDS Inbound, TLC

CONSTANTS q1, q2, a, b, u1, u2

MCScanOf == [u \in Scans |-> [ship |-> a, type |-> IF u = u1 THEN "RECEIVE" ELSE "SORT"]]
MCBatches == {<<u1, u2>>}
MCStarts == {[s \in Shipments |-> "IN_TRANSIT"]}
MCSymmetry == Permutations({q1, q2})
=============================================================================
