SPECIFICATION TenantSpec

CONSTANTS
  Usernames <- MCUsernames
  DemoUsers <- MCDemoUsers
  CustomRoles = {"r8"}
  CustomNames = {"Cashier", "Clerk"}
  RequestedRoles = {"MasterAdmin", "r8"}
  StationCodes = {"HQ", "S2"}
  OrganizationCodes = {"DEFAULT", "ORG2"}
  MaxOrganizations = 2
  MaxStations = 2
  MaxPlans = 2
  MaxEdits = 4

INVARIANTS
  ScopeFollowsRole
  TenantsWellFormed
  OneDefaultPlan
PROPERTIES
  MasterFromMaster
CHECK_DEADLOCK FALSE
