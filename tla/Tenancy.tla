------------------------------- MODULE Tenancy ------------------------------
(***************************************************************************)
(* Organizations, stations, roles and user accounts, the handlers that     *)
(* edit them (api/organization.py, api/station.py, api/role.py,            *)
(* api/user.py) and the script that seeds them (ppms/seed.py).             *)
(*                                                                         *)
(* The tables are functions of their keys.  Organizations and stations are *)
(* keyed by id, and SQLite gives the highest id + 1, so the id of a row    *)
(* that was deleted comes back; users are keyed by their username, which   *)
(* no handler changes.  Foreign keys are not enforced: a column may name a *)
(* row that is not there.                                                  *)
(***************************************************************************)
EXTENDS Naturals, FiniteSets, FiniteSetsExt, Functions

CONSTANTS
  Usernames,
  DemoUsers,          \* [usernames of seed.py's demo users -> their roles]
  CustomRoles,        \* ids that roles made by an administrator can have
  CustomNames,        \* names they can have
  RequestedRoles,     \* the role ids that requests name
  StationCodes,
  OrganizationCodes,
  MaxOrganizations,
  MaxStations

CoreRoleNames == {"MasterAdmin", "Admin", "StationAdmin", "HeadOffice",
                  "Manager", "Operator", "Accountant"}

ASSUME TenancyAssumption ==
  /\ {"masteradmin", "admin"} \cup DOMAIN DemoUsers \subseteq Usernames
  /\ {"masteradmin", "admin"} \cap DOMAIN DemoUsers = {}
  /\ Range(DemoUsers) \subseteq CoreRoleNames \ {"MasterAdmin", "Admin"}
  /\ CustomRoles \cap CoreRoleNames = {} /\ CustomNames \cap CoreRoleNames = {}
  /\ RequestedRoles \subseteq CoreRoleNames \cup CustomRoles
  /\ "HQ" \in StationCodes /\ "DEFAULT" \in OrganizationCodes
  /\ MaxOrganizations \in Nat \ {0} /\ MaxStations \in Nat \ {0}

NoId == 0             \* an organization_id or a station_id that is NULL

OrganizationIds == 1..MaxOrganizations
StationIds      == 1..MaxStations
RoleIds         == CoreRoleNames \cup CustomRoles

VARIABLES
  organizations,      \* id -> code
  stations,           \* id -> Station
  roles,              \* id -> name; the core roles, seeded first, have their names
  users               \* username -> User

tenancyVars == <<organizations, stations, roles, users>>

\* by_seed: a later run of the seed script, and no handler, made it the head office.
Station == [code : StationCodes, organization_id : OrganizationIds \cup {NoId},
            is_head_office : BOOLEAN, by_seed : BOOLEAN]

\* auth_sessions: the user has logged in.  seeded: the seed script wrote the row last.
User == [role_id : RoleIds, organization_id : OrganizationIds \cup {NoId},
         station_id : StationIds \cup {NoId}, is_platform_user : BOOLEAN,
         auth_sessions : BOOLEAN, seeded : BOOLEAN]

NextId(table) == IF DOMAIN table = {} THEN 1 ELSE Max(DOMAIN table) + 1

Unused(code, column) == code \notin Range(column)

CodesOf(table) == [id \in DOMAIN table |-> table[id].code]

Drop(table, key) == Restrict(table, DOMAIN table \ {key})

\* The table with a row of that key: the one it has, or the new one ...
Added(table, key, row) ==
  [k \in DOMAIN table \cup {key} |-> IF k \in DOMAIN table THEN table[k] ELSE row]

\* ... or the new one in any case.
Put(table, key, row) ==
  [k \in DOMAIN table \cup {key} |-> IF k = key THEN row ELSE table[k]]

-----------------------------------------------------------------------------
(* Who may do what: ROLE_SCOPE_RULES and ROLE_CREATION_RULES, core/access.py *)

PlatformOnly(name)    == name = "MasterAdmin"
RequiresStation(name) == name \notin {"MasterAdmin", "HeadOffice", "Admin"}

StationStaff == {"Manager", "Accountant", "Operator"}

Creatable(name) ==
  CASE name = "MasterAdmin"  -> CoreRoleNames
    [] name = "HeadOffice"   -> StationStaff \cup {"Admin", "StationAdmin"}
    [] name = "Admin"        -> StationStaff \cup {"StationAdmin"}
    [] name = "StationAdmin" -> StationStaff
    [] name = "Manager"      -> {"Operator"}
    [] OTHER                 -> {}

RoleName(u) == roles[users[u].role_id]

\* Slip: an administrator counts as a master administrator.
IsMasterAdminSlip(u) == RoleName(u) \in {"Admin", "MasterAdmin"} \/ users[u].is_platform_user
IsMasterAdmin(u) == RoleName(u) = "MasterAdmin" \/ users[u].is_platform_user

LoggedIn == {u \in DOMAIN users : users[u].auth_sessions}

IsAdministrator(u) == RoleName(u) = "Admin" \/ IsMasterAdmin(u)

\* require_admin
Administrators == {u \in LoggedIn : IsAdministrator(u)}

MayGrant(u, name) == IsMasterAdmin(u) \/ name \in Creatable(RoleName(u))

\* get_user_organization_id
OrganizationOf(u) ==
  IF users[u].organization_id # NoId \/ users[u].station_id \notin DOMAIN stations
  THEN users[u].organization_id
  ELSE stations[users[u].station_id].organization_id

-----------------------------------------------------------------------------
(* Organizations *)

CreateOrganization(a, code) ==
  /\ NextId(organizations) \in OrganizationIds
  /\ a \in Administrators
  /\ Unused(code, organizations)
  /\ organizations' = Added(organizations, NextId(organizations), code)
  /\ UNCHANGED <<stations, roles, users>>

UpdateOrganization(a, o, code) ==
  /\ a \in Administrators
  /\ Unused(code, Drop(organizations, o))
  /\ organizations' = [organizations EXCEPT ![o] = code]
  /\ UNCHANGED <<stations, roles, users>>

StationsOf(o) == {s \in DOMAIN stations : stations[s].organization_id = o}

\* Only stations are looked for: the users, the subscription and the module settings
\* of the organization stay, and belong to the next one that gets its id.
DeleteOrganization(a, o) ==
  /\ a \in Administrators
  /\ StationsOf(o) = {}
  /\ organizations' = Drop(organizations, o)
  /\ UNCHANGED <<stations, roles, users>>

-----------------------------------------------------------------------------
(* Stations *)

HeadOffices(o) == {s \in StationsOf(o) : stations[s].is_head_office}

CreateStation(a, code, o, is_head_office) ==
  /\ NextId(stations) \in StationIds
  /\ a \in Administrators
  /\ Unused(code, CodesOf(stations))
  /\ o \in DOMAIN organizations
  /\ is_head_office => HeadOffices(o) = {}
  /\ stations' = Added(stations, NextId(stations),
       [code |-> code, organization_id |-> o, is_head_office |-> is_head_office,
        by_seed |-> FALSE])
  /\ UNCHANGED <<organizations, roles, users>>

\* Slip: a second head office is not looked for.
MovesToSlip(s, o, is_head_office) == o \in DOMAIN organizations \cup {NoId}
MovesTo(s, o, is_head_office) ==
  \/ o = NoId
  \/ /\ o \in DOMAIN organizations
     /\ is_head_office => HeadOffices(o) \subseteq {s}

\* The organization may be taken away or changed; the station's users keep theirs.
UpdateStation(a, s, code, o, is_head_office) ==
  /\ a \in Administrators
  /\ MovesTo(s, o, is_head_office)
  /\ Unused(code, CodesOf(Drop(stations, s)))
  /\ stations' = [stations EXCEPT ![s] =
       [code |-> code, organization_id |-> o, is_head_office |-> is_head_office,
        by_seed |-> FALSE]]
  /\ UNCHANGED <<organizations, roles, users>>

\* The station has no equipment, customers, expenses or tankers either: their
\* tables are those of other modules.
DeleteStation(a, s) ==
  /\ a \in Administrators
  /\ \A u \in DOMAIN users : users[u].station_id # s
  /\ stations' = Drop(stations, s)
  /\ UNCHANGED <<organizations, roles, users>>

-----------------------------------------------------------------------------
(* Roles *)

CreateRole(a, r, name) ==
  /\ a \in Administrators
  /\ r \notin DOMAIN roles
  /\ Unused(name, roles)
  /\ roles' = Added(roles, r, name)
  /\ UNCHANGED <<organizations, stations, users>>

MayRename(r, name) == name # roles[r] => roles[r] \notin CoreRoleNames

UpdateRole(a, r, name) ==
  /\ a \in Administrators
  /\ MayRename(r, name)
  /\ Unused(name, Drop(roles, r))
  /\ roles' = [roles EXCEPT ![r] = name]
  /\ UNCHANGED <<organizations, stations, users>>

MayDeleteRole(r) ==
  /\ roles[r] \notin CoreRoleNames
  /\ \A u \in DOMAIN users : users[u].role_id # r

DeleteRole(a, r) ==
  /\ a \in Administrators
  /\ MayDeleteRole(r)
  /\ roles' = Drop(roles, r)
  /\ UNCHANGED <<organizations, stations, users>>

=============================================================================
