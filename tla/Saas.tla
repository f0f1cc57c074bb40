-------------------------------- MODULE Saas --------------------------------
(***************************************************************************)
(* Subscription plans and the subscriptions of organizations               *)
(* (services/saas.py), and the modules that an organization or a station   *)
(* has switched on (services/organization_modules.py, station_modules.py). *)
(***************************************************************************)
EXTENDS Accounts

CONSTANTS MaxPlans

ASSUME PlansAssumption == MaxPlans \in Nat \ {0}

VARIABLES
  plans,                  \* id -> Plan
  subscriptions,          \* organization_id -> plan_id, NoId when it has no plan
  organization_modules,   \* the organization ids with a module switched on
  station_modules         \* station_id -> whether its module is switched on

saasVars == <<plans, subscriptions, organization_modules, station_modules>>

PlanIds == 1..MaxPlans

\* is_starter: its code is LOCAL-STARTER. by_seed: a later run of the seed script
\* made it.
Plan == [is_default : BOOLEAN, is_active : BOOLEAN, is_starter : BOOLEAN,
         by_seed : BOOLEAN]

Starters == {p \in DOMAIN plans : plans[p].is_starter}

\* require_permission for the roles that may act on an organization
SaasStaff == {u \in LoggedIn : IsAdministrator(u) \/ RoleName(u) = "HeadOffice"}

-----------------------------------------------------------------------------
\* The bulk update that comes before a plan is saved as the default.
NoneDefault(table) == [p \in DOMAIN table |-> [table[p] EXCEPT !.is_default = FALSE]]

\* Slip: the default so far stays one.
ClearedSlip(is_default) == plans
Cleared(is_default) == IF is_default THEN NoneDefault(plans) ELSE plans

CreatePlan(a, is_default, is_active, is_starter) ==
  /\ a \in Administrators
  /\ NextId(plans) \in PlanIds
  /\ is_starter => Starters = {}
  /\ plans' = Added(Cleared(is_default), NextId(plans),
       [is_default |-> is_default, is_active |-> is_active,
        is_starter |-> is_starter, by_seed |-> FALSE])
  /\ UNCHANGED <<subscriptions, organization_modules, station_modules>>

\* A request that leaves is_default out keeps it. A field that is set to what the row
\* read had is not written: the plan that is the default already, saved as the
\* default, is left cleared.
UpdatePlan(a, p, named, is_default, is_active, is_starter) ==
  /\ a \in Administrators
  /\ is_starter => Starters \subseteq {p}
  /\ plans' = [Cleared(named /\ is_default) EXCEPT ![p] =
       [is_default |-> IF named THEN is_default /\ ~plans[p].is_default
                                ELSE plans[p].is_default,
        is_active |-> is_active, is_starter |-> is_starter,
        by_seed |-> plans[p].by_seed]]
  /\ UNCHANGED <<subscriptions, organization_modules, station_modules>>

\* ensure_organization_access, ensure_organization_module_access
OrganizationAccess(a, o) ==
  /\ o \in DOMAIN organizations
  /\ IsAdministrator(a) \/ (RoleName(a) = "HeadOffice" /\ OrganizationOf(a) = o)

DefaultPlans == {p \in DOMAIN plans : plans[p].is_default /\ plans[p].is_active}

\* The table with a subscription of the organization, opened if there is none yet.
Opened(o) ==
  IF o \in DOMAIN subscriptions THEN {subscriptions} ELSE
    {Put(subscriptions, o, p) : p \in IF DefaultPlans = {} THEN {NoId} ELSE DefaultPlans}

\* Reading a subscription opens it.
GetSubscription(a, o) ==
  /\ a \in SaasStaff
  /\ OrganizationAccess(a, o)
  /\ subscriptions' \in Opened(o)
  /\ UNCHANGED <<plans, organization_modules, station_modules>>

\* So does a request for a plan that does not exist, which is refused afterwards.
PutSubscription(a, o, p) ==
  /\ a \in Administrators
  /\ OrganizationAccess(a, o)
  /\ IF p \in DOMAIN plans \cup {NoId}
     THEN subscriptions' = Put(subscriptions, o, p)
     ELSE subscriptions' \in Opened(o)
  /\ UNCHANGED <<plans, organization_modules, station_modules>>

SetOrganizationModule(a, o, is_enabled) ==
  /\ a \in SaasStaff
  /\ OrganizationAccess(a, o)
  /\ organization_modules' = IF is_enabled THEN organization_modules \cup {o}
                                           ELSE organization_modules \ {o}
  /\ UNCHANGED <<plans, subscriptions, station_modules>>

\* Unlike the other checks of a head office, this one takes the organization of the
\* user's station, and its role has none.
StationModuleAccess(a, s) ==
  /\ s \in DOMAIN stations
  /\ \/ IsAdministrator(a)
     \/ /\ RoleName(a) = "HeadOffice"
        /\ stations[s].organization_id =
             IF users[a].station_id \in DOMAIN stations
             THEN stations[users[a].station_id].organization_id ELSE NoId
     \/ /\ RoleName(a) # "HeadOffice"
        /\ users[a].station_id = s

SetStationModule(a, s, is_enabled) ==
  /\ a \in SaasStaff
  /\ StationModuleAccess(a, s)
  /\ station_modules' = Put(station_modules, s, is_enabled)
  /\ UNCHANGED <<plans, subscriptions, organization_modules>>

-----------------------------------------------------------------------------
\* The part of the seed script that follows the accounts' (Seed of Accounts): what is
\* missing is added, a starter plan as the default and beside the one there is.
SeedSaas ==
  LET o == DefaultOrganization(organizations')
      s == HeadQuarters(stations')
      starter == IF Starters = {} THEN NextId(plans) ELSE CHOOSE p \in Starters : TRUE
  IN  /\ starter \in PlanIds
      /\ plans' = Added(plans, starter, [is_default |-> TRUE, is_active |-> TRUE,
                                         is_starter |-> TRUE, by_seed |-> TRUE])
      /\ subscriptions' = Added(subscriptions, o, starter)
      /\ station_modules' = Added(station_modules, s, TRUE)
      /\ UNCHANGED organization_modules

-----------------------------------------------------------------------------
SaasInit ==
  /\ plans = [p \in {1} |-> [is_default |-> TRUE, is_active |-> TRUE,
                              is_starter |-> TRUE, by_seed |-> FALSE]]
  /\ subscriptions = [o \in {1} |-> 1]
  /\ organization_modules = {}
  /\ station_modules = [s \in {1} |-> TRUE]

PlansNext ==
  \E a \in LoggedIn, is_default, is_active, is_starter \in BOOLEAN :
    \/ CreatePlan(a, is_default, is_active, is_starter)
    \/ \E p \in DOMAIN plans, named \in BOOLEAN :
         UpdatePlan(a, p, named, is_default, is_active, is_starter)

SubscriptionsNext ==
  \E a \in LoggedIn, o \in OrganizationIds :
    \/ GetSubscription(a, o)
    \/ \E p \in PlanIds \cup {NoId} : PutSubscription(a, o, p)

ModulesNext ==
  \E a \in LoggedIn, is_enabled \in BOOLEAN :
    \/ \E o \in OrganizationIds : SetOrganizationModule(a, o, is_enabled)
    \/ \E s \in StationIds : SetStationModule(a, s, is_enabled)

SaasNext == PlansNext \/ SubscriptionsNext \/ ModulesNext

=============================================================================
