SPECIFICATION Spec

CONSTANTS
  Tanks = {t1}
  Nozzles = {n1}
  Customers = {c1}
  Suppliers = {}
  Users = {adm, ho, acc, op}
  NoCustomer = NoCustomer
  Nobody = Nobody
  adm = adm
  ho = ho
  op = op
  acc = acc
  t1 = t1
  n1 = n1
  n2 = n2
  c1 = c1
  s1 = s1
  Role <- MCRole
  Feeds <- MCFeeds
  Capacity <- MCCapacity
  OpeningStock <- MCOpeningStock
  OpeningMeter <- MCOpeningMeter
  InitialLimit <- MCInitialLimit
  MaxShifts = 0
  MeterReadings = {1, 2, 3}
  Rates = {2}
  MaxSales = 2
  MaxAdjustments = 0
  Deliveries = {}
  PurchaseRates = {1}
  DipVolumes = {}
  MaxPurchases = 0
  MaxDips = 0
  PaymentAmounts = {2}
  MaxCustomerPayments = 1
  MaxSupplierPayments = 0
  Limits = {0}
  OverrideAmounts = {2}

INVARIANTS
  BalanceExplained
  NoNegativeBalance
  CustomerReportsReconcile
PROPERTIES
  CreditRaisedOnlyWithinLimit
  CustomerPaymentsFollowWorkflow
CHECK_DEADLOCK FALSE
