----------------------------- MODULE Attendance -----------------------------
(***************************************************************************)
(* Attendance records (services/attendance.py) of the staff of stations.   *)
(*                                                                         *)
(* A request that creates a record first looks for one of the same user,   *)
(* station and day, and inserts its own afterwards; nothing in the table   *)
(* keeps two of them apart, so the two steps are apart here as well, and   *)
(* other requests run between them. Requests that change a record are one  *)
(* step: no check of theirs is about what the others write, but for that   *)
(* of a check-out, and a second one only changes the time of it. Of the    *)
(* times, whether the check-out is there is modelled.                      *)
(***************************************************************************)
EXTENDS Permissions, Naturals, Sequences, FiniteSets

CONSTANTS
  Stations,
  OrganizationOfStation,   \* [Stations -> organizations]
  OrganizationOfUser,      \* [Users -> organizations], for the head office
  Nowhere,                 \* the station_id of a user whose role needs none
  HomeStation,             \* [Users -> Stations or Nowhere], before anybody is moved
  Salaries,                \* monthly salaries that are entered
  EnteredStatuses,         \* the statuses that requests name
  MaxDay,
  MaxAttendance,
  Threads,                 \* the worker threads that serve requests
  Idle                     \* no request

Days == 1..MaxDay

Statuses == {"present", "absent", "leave", "half_day"}

ASSUME AttendanceAssumption ==
  /\ EnteredStatuses \subseteq Statuses
  /\ Nowhere \notin Stations
  /\ HomeStation \in [Users -> Stations \cup {Nowhere}]
  /\ DOMAIN OrganizationOfStation = Stations /\ DOMAIN OrganizationOfUser = Users
  /\ Salaries \subseteq Nat
  /\ MaxDay \in Nat \ {0} /\ MaxAttendance \in Nat

VARIABLES
  staff,        \* the columns of users that attendance and payroll read
  today,
  attendance,   \* the attendance records, in the order they were inserted
  inflight      \* thread -> the request that has made its checks, or Idle

\* payroll: is_active and payroll_enabled, which are only read together.
Employee ==
  [station_id : Stations \cup {Nowhere}, payroll : BOOLEAN, monthly_salary : Salaries]

\* overtaken: another request inserted a record of the same user, station and day
\* between the checks of the one that inserted this record and its commit.
AttendanceRecord ==
  [user_id : Users, station_id : Stations, attendance_date : Days,
   status : Statuses, checked_out : BOOLEAN, overtaken : BOOLEAN]

-----------------------------------------------------------------------------
AttendanceStaff == WithRole({"Admin", "HeadOffice", "Manager", "Accountant"})
ClockingStaff   == WithRole({"Admin", "Manager", "Operator", "Accountant"})

\* ensure_attendance_access, ensure_payroll_access, ensure_employee_profile_access
HasAccess(u, s) ==
  \/ Role[u] \in {"Admin", "MasterAdmin"}
  \/ /\ Role[u] = "HeadOffice"
     /\ OrganizationOfStation[s] = OrganizationOfUser[u]
  \/ /\ Role[u] # "HeadOffice"
     /\ staff[u].station_id = s

\* The threads other than t with a request of its kind.
OfSameKind(t) ==
  {other \in Threads \ {t} :
     inflight[other] # Idle /\ inflight[other].kind = inflight[t].kind}

\* The request of thread t is committed, and those of some others are overtaken by it.
Answered(t, others) ==
  [thread \in Threads |->
     IF thread = t THEN Idle
     ELSE IF thread \in others THEN [inflight[thread] EXCEPT !.overtaken = TRUE]
     ELSE inflight[thread]]

SameRecord(a, b) ==
  /\ a.user_id = b.user_id
  /\ a.station_id = b.station_id
  /\ a.attendance_date = b.attendance_date

\* Slip: only a record that is the same in every column counts.
RecordedSlip(row) == \E i \in 1..Len(attendance) : attendance[i] = row
Recorded(row) == \E i \in 1..Len(attendance) : SameRecord(attendance[i], row)

\* The checks of check_in and of create_attendance_record.
StartRecord(t, row) ==
  /\ inflight[t] = Idle
  /\ ~Recorded(row)
  /\ inflight' = [inflight EXCEPT ![t] =
       [kind |-> "attendance", row |-> row, overtaken |-> FALSE]]
  /\ UNCHANGED <<staff, today, attendance>>

NewRecord(u, s, day, status, out) ==
  [user_id |-> u, station_id |-> s, attendance_date |-> day, status |-> status,
   checked_out |-> out, overtaken |-> FALSE]

CheckIn(t, u, s) ==
  /\ u \in ClockingStaff
  /\ HasAccess(u, s)
  /\ StartRecord(t, NewRecord(u, s, today, "present", FALSE))

CreateAttendanceRecord(t, by, u, s, day, status, out) ==
  /\ by \in AttendanceStaff
  /\ HasAccess(by, s)
  /\ staff[u].station_id = s
  /\ StartRecord(t, NewRecord(u, s, day, status, out))

InsertRecord(t) ==
  /\ inflight[t] # Idle /\ inflight[t].kind = "attendance"
  /\ Len(attendance) < MaxAttendance
  /\ attendance' = Append(attendance,
       [inflight[t].row EXCEPT !.overtaken = inflight[t].overtaken])
  /\ inflight' = Answered(t,
       {other \in OfSameKind(t) : SameRecord(inflight[other].row, inflight[t].row)})
  /\ UNCHANGED <<staff, today>>

\* Administrators, the user, and whoever is at the station of the record.
CheckOut(u, i) ==
  /\ u \in ClockingStaff
  /\ \/ Role[u] \in {"Admin", "MasterAdmin"}
     \/ attendance[i].user_id = u
     \/ staff[u].station_id = attendance[i].station_id
  /\ ~attendance[i].checked_out
  /\ attendance' = [attendance EXCEPT ![i].checked_out = TRUE]
  /\ UNCHANGED <<staff, today, inflight>>

\* The request may enter a check-out, and take one back.
UpdateAttendanceRecord(u, i, status, out) ==
  /\ u \in AttendanceStaff
  /\ HasAccess(u, attendance[i].station_id)
  /\ attendance' = [attendance EXCEPT ![i].status = status, ![i].checked_out = out]
  /\ UNCHANGED <<staff, today, inflight>>

\* What update_user may change of an employee (api/user.py; its scope and role are
\* the subject of Accounts): a user at a station may be moved to another one.
UpdateEmployee(u, row) ==
  /\ row.station_id = Nowhere <=> staff[u].station_id = Nowhere
  /\ staff' = [staff EXCEPT ![u] = row]
  /\ UNCHANGED <<today, attendance, inflight>>

NextDay ==
  /\ today < MaxDay
  /\ today' = today + 1
  /\ UNCHANGED <<staff, attendance, inflight>>

-----------------------------------------------------------------------------
AttendanceInit ==
  /\ \E salary \in Salaries :
       staff = [u \in Users |->
         [station_id |-> HomeStation[u], payroll |-> TRUE, monthly_salary |-> salary]]
  /\ today = 1
  /\ attendance = <<>>
  /\ inflight = [t \in Threads |-> Idle]

\* What requests do, up to the checks of those that insert a record afterwards.
AttendanceRequests ==
  \/ \E t \in Threads, u \in Users, s \in Stations : CheckIn(t, u, s)
  \/ \E t \in Threads, by, u \in Users, s \in Stations, day \in Days,
        status \in EnteredStatuses, out \in BOOLEAN :
       CreateAttendanceRecord(t, by, u, s, day, status, out)
  \/ \E u \in Users, i \in 1..Len(attendance) :
       \/ CheckOut(u, i)
       \/ \E status \in EnteredStatuses \cup {attendance[i].status}, out \in BOOLEAN :
            UpdateAttendanceRecord(u, i, status, out)
  \/ \E u \in Users, row \in Employee : UpdateEmployee(u, row)

AttendanceCommits == (\E t \in Threads : InsertRecord(t)) \/ NextDay

=============================================================================
