SPECIFICATION Spec

CONSTANTS
  Tanks = {t1}
  Nozzles = {n1}
  Customers = {}
  Suppliers = {}
  Users = {adm, op}
  NoCustomer = NoCustomer
  Nobody = Nobody
  adm = adm
  ho = ho
  op = op
  acc = acc
  t1 = t1
  n1 = n1
  n2 = n2
  c1 = c1
  s1 = s1
  Role <- MCRole
  Feeds <- MCFeeds
  Capacity <- MCCapacity
  OpeningStock <- MCOpeningStock
  OpeningMeter <- MCOpeningMeter
  InitialLimit <- MCInitialLimit
  MaxShifts = 2
  MeterReadings = {1, 2, 3}
  Rates = {2}
  MaxSales = 2
  MaxAdjustments = 1
  Deliveries = {}
  PurchaseRates = {1}
  DipVolumes <- DipFigures
  MaxPurchases = 0
  MaxDips = 1
  PaymentAmounts = {}
  MaxCustomerPayments = 0
  MaxSupplierPayments = 0
  Limits = {}
  OverrideAmounts = {}

INVARIANTS
  StockBalances
  StockWithinTank
  MeterExplained
  ClosedTotalsHold
PROPERTIES
  SalesFollowWorkflow
CHECK_DEADLOCK FALSE
