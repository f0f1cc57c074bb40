SPECIFICATION EquipmentSpec

CONSTANTS
  Stations = {s1, s2}
  MaxFuelTypes = 2
  MaxTanks = 2
  MaxDispensers = 2
  MaxNozzles = 2
  Capacities = {2}
  Volumes = {1}
  Meters = {0, 1}
  VendorNames = {"opw", "acme"}
  MaxDevices = 1
  MaxEvents = 1
  MaxSales = 2
  MaxPurchases = 1
  MaxRequests = 4

SYMMETRY StationSymmetry
INVARIANTS
  ReferencesHold
  TankStockExplained
  DevicesPollable
CHECK_DEADLOCK FALSE
