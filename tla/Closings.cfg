SPECIFICATION Spec

CONSTANTS
  Threads = {t1, t2}
  Idle = Idle
  Users = {u1, u2}
  Quantities = {1, 2}
  MaxShifts = 2
  MaxSales = 2
  MaxDeliveries = 2
  MaxTripPurchases = 2

SYMMETRY Alike

INVARIANTS
  ShiftsKeptRight
  TripsPostOnce
CHECK_DEADLOCK FALSE
