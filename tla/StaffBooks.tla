----------------------------- MODULE StaffBooks -----------------------------
(***************************************************************************)
(* The staff of stations: their attendance, what they are paid for it, and *)
(* their profiles, while users are moved and requests overlap.             *)
(***************************************************************************)
EXTENDS EmployeeProfiles

CONSTANT MaxRequests

ASSUME RequestsAssumption == MaxRequests \in Nat

VARIABLE requests      \* how many have been made; a bound on the runs

staffVars == <<payrollVars, profileVars, requests>>

StaffInit == PayrollInit /\ ProfilesInit /\ requests = 0

StaffNext ==
  \/ /\ requests < MaxRequests
     /\ requests' = requests + 1
     /\ \/ PayrollRequests /\ ProfilesLeftBehind
        \/ ProfileRequests
  \/ PayrollCommits /\ UNCHANGED <<profileVars, requests>>
  \/ ProfileCommits /\ UNCHANGED requests

StaffSpec == StaffInit /\ [][StaffNext]_staffVars

-----------------------------------------------------------------------------
\* Type invariant: the columns hold what they may hold.
StaffTypeOK ==
  /\ staff \in [Users -> Employee]
  /\ attendance \in Seq(AttendanceRecord)
  /\ profiles \in [DOMAIN profiles -> EmployeeProfile]
  /\ \A i \in 1..Len(payroll_runs) :
       /\ payroll_runs[i].status = "finalized" <=> payroll_runs[i].finalized_by_user_id # Nobody
       /\ DOMAIN payroll_runs[i].lines \subseteq Users

\* A user has one attendance record for a station and day, and a station one payroll
\* run for a period, but for those of requests that were overtaken, between their
\* checks (attendance.py:40 and :106, payroll.py:38) and their commits, by one that
\* inserted the same: no sequence of check-ins, corrections and transfers makes a second.
DuplicatesOnlyByOverlap ==
  /\ StaffTypeOK
  /\ \A i, j \in 1..Len(attendance) :
       i # j /\ SameRecord(attendance[i], attendance[j])
         => attendance[i].overtaken \/ attendance[j].overtaken
  /\ \A i, j \in 1..Len(payroll_runs) :
       /\ i # j
       /\ payroll_runs[i].station_id = payroll_runs[j].station_id
       /\ payroll_runs[i].period = payroll_runs[j].period
       => payroll_runs[i].overtaken \/ payroll_runs[j].overtaken

RecordedOnce(u) ==
  \A i \in 1..Len(attendance) : attendance[i].user_id = u => ~attendance[i].overtaken

\* Nobody is paid for more days than the period of the run has: with one record a
\* day, the payable and absent days of a line make up the period, and what it pays
\* is within the salary of those days (payroll.py:92-97), though a leave day counts
\* as payable and reduces the absent days that are deducted as well.
PaidWithinPeriod ==
  \A i \in 1..Len(payroll_runs) :
    LET run  == payroll_runs[i]
        days == DateCount(run.period)
    IN  \A u \in DOMAIN run.lines :
          LET line == run.lines[u] IN
          RecordedOnce(u) =>
            /\ line.payable_days + line.absent_days = days
            /\ line.net_amount <= line.gross_amount
            /\ 30 * line.gross_amount <= line.monthly_salary * days

Finalized(run, u) ==
  [run EXCEPT !.status = "finalized", !.finalized_by_user_id = u]

\* README.md:273: finalized runs are locked. The lines and totals of a run are those it
\* was made with, whatever becomes of attendance, salaries and stations, and it never
\* goes back to a draft. Who finalized it changes once more only by a finalization that
\* had read the draft before another one of the run was committed (payroll.py:136).
RunsFixed ==
  [][/\ Len(payroll_runs) <= Len(payroll_runs')
     /\ \A i \in 1..Len(payroll_runs) :
          \/ payroll_runs'[i] = payroll_runs[i]
          \/ \E u \in FinalizerStaff :
               /\ payroll_runs'[i] = Finalized(payroll_runs[i], u)
               /\ \/ payroll_runs[i].status = "draft"
                  \/ \E t \in Threads :
                       /\ inflight[t] # Idle /\ inflight[t].kind = "finalize"
                       /\ inflight[t].run = i /\ inflight[t].by = u
                       /\ inflight[t].overtaken]_staffVars

\* A user is named by one profile, whatever overlaps. A profile that allows a login
\* names a user, and its user is at its station (employee_profiles.py:31 and :64), also
\* when it is edited field by field: unless another request wrote it, or the user was
\* moved, after the checks of the one that wrote it last.
ProfilesFit ==
  \A p \in DOMAIN profiles :
    LET profile == profiles[p].row
        linked  == profile.linked_user_id
    IN
    /\ profile.can_login /\ ~profiles[p].overtaken => linked # Nobody
    /\ linked # Nobody /\ ~profiles[p].overtaken /\ ~profiles[p].moved
         => staff[linked].station_id = profile.station_id
    /\ linked # Nobody =>
         \A q \in DOMAIN profiles \ {p} : profiles[q].row.linked_user_id # linked

=============================================================================
