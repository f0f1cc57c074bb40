---------------------------- MODULE MCStaffBooks ----------------------------
(* An administrator, and an accountant and an operator of the first station. *)
EXTENDS StaffBooks, TLC

CONSTANTS adm, acc, op, s1, s2, org, t1, t2, e1, e2

MCSymmetry == Permutations(Threads) \cup Permutations(Editors)

MCRole == adm :> "Admin" @@ acc :> "Accountant" @@ op :> "Operator"
MCHomeStation == adm :> Nowhere @@ acc :> s1 @@ op :> s1
MCOrganizationOfStation == [s \in Stations |-> org]
MCOrganizationOfUser == [u \in Users |-> org]
=============================================================================
