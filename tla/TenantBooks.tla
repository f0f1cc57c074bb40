----------------------------- MODULE TenantBooks ----------------------------
(***************************************************************************)
(* The tenants of the platform: their organizations, stations, users and   *)
(* subscriptions together, and what the handlers keep true between them.   *)
(***************************************************************************)
EXTENDS Saas

CONSTANT MaxEdits

ASSUME EditsAssumption == MaxEdits \in Nat

VARIABLE edits        \* how many there have been, logins aside; a bound on the runs

tenantVars == <<tenancyVars, saasVars, edits>>

TenantInit == AccountsInit /\ SaasInit /\ edits = 0

TenantNext ==
  \/ /\ edits < MaxEdits
     /\ edits' = edits + 1
     /\ \/ AccountsNext /\ UNCHANGED saasVars
        \/ SaasNext /\ UNCHANGED tenancyVars
        \/ Seed /\ SeedSaas
  \/ /\ \E u \in DOMAIN users : Login(u)
     /\ UNCHANGED <<saasVars, edits>>

TenantSpec == TenantInit /\ [][TenantNext]_tenantVars

-----------------------------------------------------------------------------
\* Type invariant: the columns hold what they may hold.
TenantTypeOK ==
  /\ DOMAIN organizations \subseteq OrganizationIds
  /\ Range(organizations) \subseteq OrganizationCodes
  /\ DOMAIN stations \subseteq StationIds
  /\ Range(stations) \subseteq Station
  /\ DOMAIN roles \subseteq RoleIds
  /\ Range(roles) \subseteq CoreRoleNames \cup CustomNames
  /\ DOMAIN users \subseteq Usernames
  /\ Range(users) \subseteq User
  /\ DOMAIN plans \subseteq PlanIds
  /\ Range(plans) \subseteq Plan
  /\ Range(subscriptions) \subseteq DOMAIN plans \cup {NoId}

FitsRole(u) ==
  LET name == RoleName(u) IN
  /\ users[u].is_platform_user <=> PlatformOnly(name)
  /\ users[u].organization_id = NoId <=> PlatformOnly(name)
  /\ users[u].station_id # NoId <=> RequiresStation(name)

\* A user is in the scope that the rule of its role gives (permissions.py:8-51):
\* the platform, an organization, or a station of its own - after any editing of
\* users and roles, renaming included (role.py:99-100). The administrator is
\* excepted while its row is the one the seed script wrote (seed.py:300-324).
ScopeFollowsRole ==
  \A u \in DOMAIN users : FitsRole(u) \/ (u = "admin" /\ users[u].seeded)

\* No handler leaves a station without its organization or a user without its role
\* or station, though no foreign key is enforced (organization.py:175,
\* station.py:208, role.py:115), and an organization has one head office
\* (station.py:88, :180), other than a station that the seed script made one when it
\* was run again (seed.py:157-180).
TenantsWellFormed ==
  /\ TenantTypeOK
  /\ \A s \in DOMAIN stations :
       stations[s].organization_id \in DOMAIN organizations \cup {NoId}
  /\ \A u \in DOMAIN users :
       /\ users[u].role_id \in DOMAIN roles
       /\ users[u].station_id \in DOMAIN stations \cup {NoId}
  /\ \A o \in DOMAIN organizations :
       Cardinality({s \in HeadOffices(o) : ~stations[s].by_seed}) <= 1

Masters == {u \in DOMAIN users : RoleName(u) = "MasterAdmin" \/ users[u].is_platform_user}

\* Master administrators come from master administrators: no request makes one,
\* whichever roles it gives, edits or renames, but one of a master that has logged
\* in (permissions.py:335, user.py:46); only the seed script can do without.
MasterFromMaster ==
  [][\A u \in Masters' \ Masters : users'[u].seeded \/ Masters \cap LoggedIn # {}]_tenantVars

\* At most one plan is the default that new subscriptions take (saas.py:27, :46),
\* beside the one that the seed script adds when it is run again after the starter
\* plan was given another code (seed.py:239-255).
OneDefaultPlan ==
  Cardinality({p \in DOMAIN plans : plans[p].is_default /\ ~plans[p].by_seed}) <= 1

\* README.md:15 and :278: a head office works across its own organization. The module
\* settings of a station ask for the organization of the user's station
\* (station_modules.py:30), which a user of that role does not have.
HeadOfficeReach ==
  \A u \in DOMAIN users, s \in DOMAIN stations :
    RoleName(u) = "HeadOffice" /\ stations[s].organization_id = users[u].organization_id
      => StationModuleAccess(u, s)

-----------------------------------------------------------------------------
\* For TLC: the accounts that the seed script makes and one more.
MCUsernames == {"masteradmin", "admin", "headoffice", "new"}
MCDemoUsers == [u \in {"headoffice"} |-> "HeadOffice"]

=============================================================================
