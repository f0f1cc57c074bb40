SPECIFICATION HaulageSpec

CONSTANTS
  Tanks = {t1}
  Nozzles = {n1}
  Customers = {c1}
  Suppliers = {s1}
  Users = {adm, ho, op}
  NoCustomer = NoCustomer
  NoSupplier = NoSupplier
  Nobody = Nobody
  adm = adm
  ho = ho
  op = op
  acc = acc
  t1 = t1
  n1 = n1
  c1 = c1
  s1 = s1
  Role <- MCRole
  Feeds <- MCFeeds
  Capacity <- MCCapacity
  OpeningStock <- MCOpeningStock
  OpeningMeter <- MCOpeningMeter
  InitialLimit <- MCInitialLimit
  MaxShifts = 0
  MeterReadings = {}
  Rates = {1}
  MaxSales = 0
  MaxAdjustments = 0
  Deliveries = {2}
  PurchaseRates = {2}
  DipVolumes = {}
  MaxPurchases = 2
  MaxDips = 0
  PaymentAmounts = {4}
  MaxCustomerPayments = 0
  MaxSupplierPayments = 1
  Limits = {}
  OverrideAmounts = {}
  HaulQuantities = {1}
  HaulRates = {2}
  HaulCharges = {1}
  PaidAmounts = {1, 4}
  HaulExpenses = {1}
  MaxTrips = 1
  MaxTripDeliveries = 2
  MaxTripExpenses = 1

INVARIANTS
  HaulageReportsReconcile
  PurchaseAccountedFor
  HauledBalanceExplained
PROPERTIES
  CompletedTripsFixed
  SupplySideFollowsProtocols
CHECK_DEADLOCK FALSE
