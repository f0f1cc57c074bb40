SPECIFICATION FairSpec

CONSTANTS
  Notices = {3, 4}
  Documents = {1, 2}
  Unaddressed = {4}
  Worker = worker
  Threads = {t1}
  MAX_DELIVERY_ATTEMPTS = 3
  MaxRequests = 2
  MaxCrashes = 1

INVARIANTS
  SentWasAccepted
  OrderlyDelivery
PROPERTIES
  RetriesSettle
