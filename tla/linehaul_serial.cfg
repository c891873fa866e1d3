CONSTANTS
  s1 = s1 s2 = s2 r1 = r1 v1 = v1 d1 = d1
  NoOne = NoOne
  Requests = {q1}
  Shipments = {s1, s2}
  Runs = {r1}
  Vehicles = {v1}
  Drivers = {d1}
  Corridor <- MCCorridor
  VehicleOf <- OwnVehicle
  DriverOf <- OwnDriver
  Garage <- AllAvailable
  Route <- OneLeg
  ManifestId <- MCManifestId
  LegId <- FreshLegId
  Booked <- Sorted
  StaffTargets = {"READY_FOR_DISPATCH", "AT_HUB", "EXCEPTION", "SORTED"}
  Handlers = {"add", "remove", "lock", "dispatch", "arrive", "receive", "transition"}
SPECIFICATION Spec
INVARIANT ManifestAddsUp
PROPERTIES ManifestSealed FollowsLifecycle
