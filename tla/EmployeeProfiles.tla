-------------------------- MODULE EmployeeProfiles --------------------------
(***************************************************************************)
(* Employee profiles (services/employee_profiles.py), which may be linked  *)
(* to the account of a user.                                               *)
(*                                                                         *)
(* What a request asks for is checked against rows it reads, and written   *)
(* at its commit: only the columns that differ from what it read, without  *)
(* a lock or a version, so that users move and other requests commit in    *)
(* between. The organization is that of the station and is left out.       *)
(***************************************************************************)
EXTENDS Payroll

CONSTANTS
  MaxProfiles,
  Editors          \* the worker threads that serve requests about profiles

ASSUME ProfilesAssumption == MaxProfiles \in Nat

VARIABLES
  profiles,      \* id -> EmployeeProfile; only ids in use matter
  editing        \* editor -> the request that has made its checks, or Idle

profileVars == <<profiles, editing>>

ProfileRow ==
  [station_id : Stations, linked_user_id : Users \cup {Nobody}, can_login : BOOLEAN]

\* moved: the linked user was moved to another station after the checks of the request
\* that wrote the row. overtaken: another request wrote the row between those checks and
\* the commit.
EmployeeProfile == [row : ProfileRow, moved : BOOLEAN, overtaken : BOOLEAN]

ProfileStaff    == WithRole({"Admin", "HeadOffice", "StationAdmin", "Manager"})
ProfileDeleters == WithRole({"Admin", "HeadOffice", "StationAdmin"})

\* Slip: the station of the linked user is not looked at.
LinkFitsSlip(row) == row.can_login => row.linked_user_id # Nobody
LinkFits(row) ==
  /\ row.linked_user_id # Nobody => staff[row.linked_user_id].station_id = row.station_id
  /\ row.can_login => row.linked_user_id # Nobody

\* The unique column linked_user_id.
NotLinkedElsewhere(row, others) ==
  row.linked_user_id # Nobody =>
    \A p \in others : profiles[p].row.linked_user_id # row.linked_user_id

-----------------------------------------------------------------------------
\* A request about profile p has made its checks: it read the row loaded, and the
\* columns it asks for make it row.
StartEditing(e, kind, p, loaded, row) ==
  /\ editing[e] = Idle
  /\ editing' = [editing EXCEPT ![e] =
       [kind |-> kind, id |-> p, loaded |-> loaded, row |-> row, moved |-> FALSE]]
  /\ UNCHANGED <<payrollVars, profiles>>

\* A new profile gets its id, here 0, when it is inserted.
StartCreating(e, u, row) ==
  /\ u \in ProfileStaff
  /\ HasAccess(u, row.station_id)
  /\ LinkFits(row)
  /\ StartEditing(e, "create", 0, row, row)

\* Access is asked for the station the profile goes to, not the one it comes from.
StartUpdating(e, u, p, row) ==
  /\ u \in ProfileStaff
  /\ HasAccess(u, row.station_id)
  /\ LinkFits(row)
  /\ StartEditing(e, "update", p, profiles[p].row, row)

StartDeleting(e, u, p) ==
  /\ u \in ProfileDeleters
  /\ HasAccess(u, profiles[p].row.station_id)
  /\ StartEditing(e, "delete", p, profiles[p].row, profiles[p].row)

-----------------------------------------------------------------------------
\* The columns of row that differ from loaded, written over current.
Overwrite(current, loaded, row) ==
  [station_id |-> IF row.station_id = loaded.station_id
                  THEN current.station_id ELSE row.station_id,
   linked_user_id |-> IF row.linked_user_id = loaded.linked_user_id
                      THEN current.linked_user_id ELSE row.linked_user_id,
   can_login |-> IF row.can_login = loaded.can_login
                 THEN current.can_login ELSE row.can_login]

\* The commit of the request of an editor; a request that is refused writes nothing.
CommitEdit(e, kind) ==
  /\ editing[e] # Idle /\ editing[e].kind = kind
  /\ editing' = [editing EXCEPT ![e] = Idle]
  /\ UNCHANGED payrollVars

CreateEmployeeProfile(e, p) ==
  /\ p \notin DOMAIN profiles
  /\ CommitEdit(e, "create")
  /\ LET new == [row |-> editing[e].row, moved |-> editing[e].moved, overtaken |-> FALSE]
     IN  profiles' = IF NotLinkedElsewhere(new.row, DOMAIN profiles)
                     THEN [q \in DOMAIN profiles \cup {p} |->
                             IF q = p THEN new ELSE profiles[q]]
                     ELSE profiles

\* Nothing is written when no column differs, when the profile was deleted in between
\* (the update finds no row), or when the user is linked elsewhere.
UpdateEmployeeProfile(e) ==
  /\ CommitEdit(e, "update")
  /\ LET req == editing[e]
         p   == req.id
     IN  IF p \notin DOMAIN profiles THEN UNCHANGED profiles
         ELSE LET old == profiles[p].row
                  new == [row |-> Overwrite(old, req.loaded, req.row),
                          moved |-> req.moved, overtaken |-> old # req.loaded]
              IN  profiles' = IF /\ new.row # old
                                 /\ NotLinkedElsewhere(new.row, DOMAIN profiles \ {p})
                              THEN [profiles EXCEPT ![p] = new]
                              ELSE profiles

DeleteEmployeeProfile(e) ==
  /\ CommitEdit(e, "delete")
  /\ profiles' = [q \in DOMAIN profiles \ {editing[e].id} |-> profiles[q]]

\* The profiles do not follow a user that is moved, nor do the requests in flight.
Left(u) == staff'[u].station_id # staff[u].station_id

LeftBehind(row) == row.linked_user_id \in Users /\ Left(row.linked_user_id)

ProfilesLeftBehind ==
  /\ profiles' = [p \in DOMAIN profiles |->
       IF LeftBehind(profiles[p].row)
       THEN [profiles[p] EXCEPT !.moved = TRUE] ELSE profiles[p]]
  /\ editing' = [e \in Editors |->
       IF editing[e] # Idle /\ LeftBehind(editing[e].row)
       THEN [editing[e] EXCEPT !.moved = TRUE] ELSE editing[e]]

-----------------------------------------------------------------------------
ProfilesInit == profiles = <<>> /\ editing = [e \in Editors |-> Idle]

ProfileRequests ==
  \E e \in Editors, u \in Users :
    \/ \E row \in ProfileRow : StartCreating(e, u, row)
    \/ \E p \in DOMAIN profiles, row \in ProfileRow : StartUpdating(e, u, p, row)
    \/ \E p \in DOMAIN profiles : StartDeleting(e, u, p)

ProfileCommits ==
  \E e \in Editors :
    \/ \E p \in 1..MaxProfiles : CreateEmployeeProfile(e, p)
    \/ UpdateEmployeeProfile(e)
    \/ DeleteEmployeeProfile(e)

=============================================================================
