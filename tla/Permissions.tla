---------------------------- MODULE Permissions -----------------------------
(***************************************************************************)
(* The users of a station and what the permission matrix grants their      *)
(* roles (ppms/app/core/permissions.py), for the operations modelled.      *)
(***************************************************************************)
CONSTANTS
  Users,
  Nobody,   \* a column that names a user and is empty: reversed_by, approved_by, ...
  Role      \* [Users -> RoleNames]

RoleNames == {"MasterAdmin", "Admin", "StationAdmin", "HeadOffice", "Manager",
              "Operator", "Accountant"}

ASSUME RolesAssumption ==
  /\ Nobody \notin Users
  /\ Role \in [Users -> RoleNames]

-----------------------------------------------------------------------------
\* require_permission lets MasterAdmin do everything, and any other role what the
\* matrix grants it.

WithRole(granted) == {u \in Users : Role[u] \in granted \cup {"MasterAdmin"}}

Administrators   == WithRole({"Admin"})
Reviewers        == WithRole({"Admin", "HeadOffice"})
ForecourtStaff   == WithRole({"Admin", "Manager", "Operator"})
PaymentStaff     == WithRole({"Admin", "Manager", "Operator", "Accountant"})
CustomerStaff    == WithRole({"Admin", "Manager", "Accountant"})
ExpenseStaff     == WithRole({"Admin", "Manager", "Accountant"})
ProductStaff     == WithRole({"Admin", "Manager"})

=============================================================================
