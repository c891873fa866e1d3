----------------------------- MODULE MCLinehaul -----------------------------
(***************************************************************************)
(* Small instances of Linehaul: one run from hub 1 to hub 2 with its own   *)
(* vehicle and driver, and shipments whose only leg is on that corridor.   *)
(***************************************************************************)
EXTENDS Linehaul

CONSTANTS s1, s2, r1, v1, d1

MCCorridor == [r \in Runs |-> <<1, 2>>]
OwnVehicle == [r \in Runs |-> v1]
OwnDriver == [r \in Runs |-> d1]
OneLeg == [s \in Shipments |-> << <<1, 2>> >>]

\* Keys of shipment_legs that no manifest has.
MCManifestId == [r \in Runs |-> 1]
FreshLegId == [s \in Shipments |-> [k \in DOMAIN Route[s] |-> 10 * (IF s = s1 THEN 1 ELSE 2) + k]]

AllAvailable == [v \in Vehicles |-> "AVAILABLE"]

Sorted == [s \in Shipments |-> {"SORTED"}]
=============================================================================
