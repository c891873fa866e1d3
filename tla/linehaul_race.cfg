CONSTANTS
  s1 = s1 s2 = s2 r1 = r1 v1 = v1 d1 = d1
  NoOne = NoOne
  Requests = {q1, q2}
  Shipments = {s1}
  Runs = {r1}
  Vehicles = {v1}
  Drivers = {d1}
  Corridor <- MCCorridor
  VehicleOf <- OwnVehicle
  DriverOf <- OwnDriver
  Garage <- AllAvailable
  Route <- OneLeg
  ManifestId <- MCManifestId
  LegId <- FreshLegId
  Booked <- Sorted
  StaffTargets = {}
  Handlers = {"add", "lock", "dispatch", "arrive", "receive"}
SPECIFICATION FairSpec
INVARIANTS RunAndManifestAgree NothingMovesOnADraft 
PROPERTY EveryRequestEnds
