------------------------------ MODULE Accounts ------------------------------
(***************************************************************************)
(* User accounts: how their role fixes their scope (api/user.py), and the  *)
(* script that seeds the first ones and writes them over when it is run    *)
(* again (ppms/seed.py).                                                   *)
(***************************************************************************)
EXTENDS Tenancy

\* What a request says of the scope of a user; scope_level and is_platform_user are
\* read and then replaced by what the role says.
Requests(role_ids) ==
  [role_id : role_ids, organization_id : OrganizationIds \cup {NoId},
   station_id : StationIds \cup {NoId}]

StationGivenFits(req) ==
  req.station_id # NoId =>
    /\ req.station_id \in DOMAIN stations
    /\ req.organization_id \in {NoId, stations[req.station_id].organization_id}

Given(req) ==
  IF req.station_id = NoId THEN req.organization_id
                           ELSE stations[req.station_id].organization_id

\* Slip: a role that needs no station keeps the one it had.
ScopeSlip(name, req, fallback) ==
  IF PlatformOnly(name)
  THEN [organization_id |-> NoId, station_id |-> NoId, is_platform_user |-> TRUE]
  ELSE [organization_id |->
          IF Given(req) # NoId THEN Given(req) ELSE fallback.organization_id,
        station_id |->
          IF req.station_id # NoId THEN req.station_id ELSE fallback.station_id,
        is_platform_user |-> FALSE]

\* The scope a role gets: the organization asked for, else that of the fallback,
\* and a station only when the role needs one. Nobody checks that the organization
\* exists, or that a station of the fallback is one of its stations.
Scope(name, req, fallback) ==
  IF PlatformOnly(name)
  THEN [organization_id |-> NoId, station_id |-> NoId, is_platform_user |-> TRUE]
  ELSE [organization_id |->
          IF Given(req) # NoId THEN Given(req) ELSE fallback.organization_id,
        station_id |->
          IF ~RequiresStation(name)      THEN NoId
          ELSE IF req.station_id # NoId  THEN req.station_id
                                         ELSE fallback.station_id,
        is_platform_user |-> FALSE]

\* Only RoleName(a) is compared with Admin here, so an administrator without an
\* organization manages the users of all.
MayManage(a, o) ==
  \/ RoleName(a) = "MasterAdmin"
  \/ o = OrganizationOf(a)
  \/ /\ RoleName(a) = "Admin"
     /\ OrganizationOf(a) = NoId
  \/ /\ users[a].is_platform_user
     /\ RoleName(a) # "Admin"

MayScope(a, name, scope) ==
  IF PlatformOnly(name)
  THEN IsMasterAdmin(a)
  ELSE /\ scope.organization_id # NoId
       /\ RequiresStation(name) => scope.station_id # NoId
       /\ MayManage(a, scope.organization_id)

Row(role_id, scope, auth_sessions, seeded) ==
  [role_id |-> role_id, organization_id |-> scope.organization_id,
   station_id |-> scope.station_id, is_platform_user |-> scope.is_platform_user,
   auth_sessions |-> auth_sessions, seeded |-> seeded]

CreateUser(a, u, req) ==
  LET name  == roles[req.role_id]
      scope == Scope(name, req,
                     [organization_id |-> OrganizationOf(a), station_id |-> NoId])
  IN  /\ a \in LoggedIn
      /\ u \notin DOMAIN users
      /\ req.role_id \in DOMAIN roles
      /\ MayGrant(a, name)
      /\ StationGivenFits(req)
      /\ MayScope(a, name, scope)
      /\ users' = Added(users, u, Row(req.role_id, scope, FALSE, FALSE))
      /\ UNCHANGED <<organizations, stations, roles>>

\* A field the request leaves out is asked for as it is; a role left out is not
\* looked at again.
UpdateUser(a, u, req) ==
  LET name  == roles[req.role_id]
      scope == Scope(name, req, users[u])
  IN  /\ a \in Administrators
      /\ req.role_id \in DOMAIN roles
      /\ req.role_id # users[u].role_id => MayGrant(a, name)
      /\ StationGivenFits(req)
      /\ MayScope(a, name, scope)
      /\ users' = [users EXCEPT ![u] =
                     Row(req.role_id, scope, users[u].auth_sessions, FALSE)]
      /\ UNCHANGED <<organizations, stations, roles>>

\* The sessions of a user refer to it and cannot be left without one.
DeleteUser(a, u) ==
  /\ a \in Administrators
  /\ ~users[u].auth_sessions
  /\ users' = Drop(users, u)
  /\ UNCHANGED <<organizations, stations, roles>>

Login(u) ==
  /\ users' = [users EXCEPT ![u].auth_sessions = TRUE]
  /\ UNCHANGED <<organizations, stations, roles>>

-----------------------------------------------------------------------------
(* The seed script, by what it looks for: a code, or a username *)

DefaultOrganization(orgs) == CHOOSE o \in DOMAIN orgs : orgs[o] = "DEFAULT"

WithDefault(orgs) ==
  IF "DEFAULT" \in Range(orgs) THEN orgs
                               ELSE Added(orgs, NextId(orgs), "DEFAULT")

HeadQuarters(sts) == CHOOSE s \in DOMAIN sts : sts[s].code = "HQ"

NewHeadQuarters(o, again) ==
  [code |-> "HQ", organization_id |-> o, is_head_office |-> TRUE, by_seed |-> again]

\* A missing station HQ is made, and one that has lost its organization gets it back,
\* as the head office, whether the organization has another one by now or not.
WithHeadQuarters(sts, o) ==
  IF "HQ" \notin Range(CodesOf(sts))
  THEN Added(sts, NextId(sts), NewHeadQuarters(o, TRUE))
  ELSE [s \in DOMAIN sts |->
          IF sts[s].code = "HQ" /\ sts[s].organization_id = NoId
          THEN [sts[s] EXCEPT !.organization_id = o, !.is_head_office = TRUE,
                              !.by_seed = TRUE]
          ELSE sts[s]]

Sessions(u) == u \in DOMAIN users /\ users[u].auth_sessions

NewMasterAdmin ==
  Row("MasterAdmin", [organization_id |-> NoId, station_id |-> NoId,
                      is_platform_user |-> TRUE], FALSE, TRUE)

MasterAdminRow ==
  IF "masteradmin" \in DOMAIN users THEN users["masteradmin"] ELSE NewMasterAdmin

\* The administrator gets the default organization and a station, which the rule of
\* the role does not give; it keeps the role it has.
AdminRow(role_id, o, s, auth_sessions) ==
  Row(role_id,
      [organization_id |-> o, station_id |-> s, is_platform_user |-> FALSE],
      auth_sessions, TRUE)

DemoRow(u, o, s, auth_sessions) ==
  Row(DemoUsers[u],
      [organization_id |-> o, is_platform_user |-> FALSE,
       station_id |-> IF DemoUsers[u] = "HeadOffice" THEN NoId ELSE s],
      auth_sessions, TRUE)

SeededNames == {"masteradmin", "admin"} \cup DOMAIN DemoUsers

SeededUsers(o, s) ==
  [u \in SeededNames \cup DOMAIN users |->
     CASE u = "masteradmin" -> MasterAdminRow
       [] u = "admin" ->
            AdminRow(IF u \in DOMAIN users THEN users[u].role_id ELSE "Admin",
                     o, s, Sessions(u))
       [] u \in DOMAIN DemoUsers -> DemoRow(u, o, s, Sessions(u))
       [] OTHER -> users[u]]

\* Run again on a database in use, the script makes up what is missing and writes
\* over the administrator and the demo users. It commits piece by piece; nobody else is
\* taken to be at work meanwhile.
Seed ==
  LET orgs == WithDefault(organizations)
      o    == DefaultOrganization(orgs)
      sts  == WithHeadQuarters(stations, o)
  IN  /\ DOMAIN orgs \subseteq OrganizationIds /\ DOMAIN sts \subseteq StationIds
      /\ organizations' = orgs
      /\ stations' = sts
      /\ users' = SeededUsers(o, HeadQuarters(sts))
      /\ UNCHANGED roles

-----------------------------------------------------------------------------
\* The database as the script leaves it when it is run for the first time.
AccountsInit ==
  /\ organizations = [o \in {1} |-> "DEFAULT"]
  /\ stations = [s \in {1} |-> NewHeadQuarters(1, FALSE)]
  /\ roles = [r \in CoreRoleNames |-> r]
  /\ users = [u \in SeededNames |->
       CASE u = "masteradmin" -> NewMasterAdmin
         [] u = "admin" -> AdminRow("Admin", 1, 1, FALSE)
         [] OTHER -> DemoRow(u, 1, 1, FALSE)]

OrganizationsNext ==
  \E a \in LoggedIn, code \in OrganizationCodes :
    \/ CreateOrganization(a, code)
    \/ \E o \in DOMAIN organizations : UpdateOrganization(a, o, code)
    \/ \E o \in DOMAIN organizations : DeleteOrganization(a, o)

StationsNext ==
  \E a \in LoggedIn :
    \/ \E code \in StationCodes, o \in OrganizationIds, ho \in BOOLEAN :
         CreateStation(a, code, o, ho)
    \/ \E s \in DOMAIN stations, code \in StationCodes,
          o \in OrganizationIds \cup {NoId}, ho \in BOOLEAN :
         UpdateStation(a, s, code, o, ho)
    \/ \E s \in DOMAIN stations : DeleteStation(a, s)

RolesNext ==
  \E a \in LoggedIn :
    \/ \E r \in CustomRoles, name \in CustomNames : CreateRole(a, r, name)
    \/ \E r \in RequestedRoles \cap DOMAIN roles, name \in CustomNames :
         UpdateRole(a, r, name)
    \/ \E r \in RequestedRoles \cap DOMAIN roles : DeleteRole(a, r)

UsersNext ==
  \/ \E a \in LoggedIn, u \in Usernames, req \in Requests(RequestedRoles) :
       CreateUser(a, u, req)
  \/ \E a \in LoggedIn, u \in DOMAIN users :
       \/ \E req \in Requests(RequestedRoles \cup {users[u].role_id}) :
            UpdateUser(a, u, req)
       \/ DeleteUser(a, u)

\* Requests are served one at a time: each reads and writes in one transaction, and
\* what overlapping ones can do is the subject of ConcurrentPostings.
AccountsNext == OrganizationsNext \/ StationsNext \/ RolesNext \/ UsersNext

=============================================================================
