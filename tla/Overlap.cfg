SPECIFICATION Spec

CONSTANTS
  Workers = {w1, w2}
  Capacity = 5
  OpeningStock = 3
  OpeningMeter = 1
  Delivered <- OnePurchase
  MeterReadings = {1, 2, 3}
  MaxSales = 2

SYMMETRY Alike

INVARIANTS
  OnlyStaleReadsLose
CHECK_DEADLOCK FALSE
