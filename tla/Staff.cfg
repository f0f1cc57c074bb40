SPECIFICATION StaffSpec

CONSTANTS
  Users = {adm, acc, op}
  Nobody = Nobody
  adm = adm
  acc = acc
  op = op
  Role <- MCRole
  Stations = {s1, s2}
  s1 = s1
  s2 = s2
  org = org
  Nowhere = Nowhere
  OrganizationOfStation <- MCOrganizationOfStation
  OrganizationOfUser <- MCOrganizationOfUser
  HomeStation <- MCHomeStation
  EnteredStatuses = {"leave"}
  Salaries = {60}
  MaxDay = 2
  MaxAttendance = 2
  MaxRuns = 2
  MaxProfiles = 2
  Threads = {t1, t2}
  Editors = {e1, e2}
  t1 = t1
  t2 = t2
  e1 = e1
  e2 = e2
  MaxRequests = 4
  Idle = Idle

SYMMETRY MCSymmetry
INVARIANTS
  DuplicatesOnlyByOverlap
  PaidWithinPeriod
  ProfilesFit
PROPERTIES
  RunsFixed
CHECK_DEADLOCK FALSE
