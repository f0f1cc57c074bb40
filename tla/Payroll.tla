------------------------------ MODULE Payroll -------------------------------
(***************************************************************************)
(* Payroll runs over the attendance of a period (services/payroll.py).     *)
(*                                                                         *)
(* Amounts are exact: salaries are multiples of 60, so that a half day of  *)
(* a thirtieth is a whole number. Whether a run was finalized is seen when *)
(* it is read, and its columns are written at the commit, without a lock   *)
(* on the row: two steps, with other requests between them.                *)
(***************************************************************************)
EXTENDS Attendance, Integers, FiniteSetsExt

CONSTANT MaxRuns

ASSUME PayrollAssumption ==
  /\ MaxRuns \in Nat
  /\ \A salary \in Salaries : salary % 60 = 0

VARIABLE payroll_runs    \* the runs with their lines, in the order they were inserted

payrollVars == <<staff, today, attendance, inflight, payroll_runs>>

Period == {p \in [start : Days, end : Days] : p.start <= p.end}

PayrollStaff   == WithRole({"Admin", "HeadOffice", "Manager", "Accountant"})
FinalizerStaff == WithRole({"Admin", "HeadOffice", "Accountant"})

DateCount(p) == p.end - p.start + 1

\* Slip: the end of the period is forgotten.
RecordsOfSlip(u, s, p) ==
  {i \in 1..Len(attendance) :
     /\ attendance[i].user_id = u
     /\ attendance[i].station_id = s
     /\ attendance[i].attendance_date >= p.start}

\* The records of a user at a station in a period, as indices of the table.
RecordsOf(u, s, p) ==
  {i \in 1..Len(attendance) :
     /\ attendance[i].user_id = u
     /\ attendance[i].station_id = s
     /\ attendance[i].attendance_date \in p.start..p.end}

DaysWith(u, s, p, status) ==
  Cardinality({i \in RecordsOf(u, s, p) : attendance[i].status = status})

AtLeastZero(n) == IF n < 0 THEN 0 ELSE n

\* A leave day is paid, and then taken from the absent days that are deducted; a half
\* day is payable as a whole one and paid as half of one.
PayrollLine(u, salary, s, p) ==
  LET present   == DaysWith(u, s, p, "present")
      leave     == DaysWith(u, s, p, "leave")
      half      == DaysWith(u, s, p, "half_day")
      payable   == present + leave + half
      absent    == AtLeastZero(DateCount(p) - payable)
      gross     == (salary * (2 * (present + leave) + half)) \div 60
      deduction == (salary \div 30) * AtLeastZero(absent - leave)
  IN  [monthly_salary |-> salary, payable_days |-> payable, absent_days |-> absent,
       gross_amount |-> gross, deductions |-> deduction,
       net_amount |-> AtLeastZero(gross - deduction)]

SumOver(lines, field) == MapThenSumSet(LAMBDA u : lines[u][field], DOMAIN lines)

RunExists(s, p) ==
  \E i \in 1..Len(payroll_runs) :
    payroll_runs[i].station_id = s /\ payroll_runs[i].period = p

\* The check for a run of the same period, and the staff that is read with it.
StartRun(t, by, s, p) ==
  /\ by \in PayrollStaff
  /\ HasAccess(by, s)
  /\ inflight[t] = Idle
  /\ ~RunExists(s, p)
  /\ LET paid == {u \in Users : staff[u].station_id = s /\ staff[u].payroll}
     IN  inflight' = [inflight EXCEPT ![t] =
           [kind |-> "payroll", station_id |-> s, period |-> p, overtaken |-> FALSE,
            salaries |-> [u \in paid |-> staff[u].monthly_salary]]]
  /\ UNCHANGED <<staff, today, attendance, payroll_runs>>

Run(req) ==
  LET lines == [u \in DOMAIN req.salaries |->
                  PayrollLine(u, req.salaries[u], req.station_id, req.period)]
  IN  [station_id |-> req.station_id, period |-> req.period,
       lines |-> lines, status |-> "draft", finalized_by_user_id |-> Nobody,
       total_gross_amount |-> SumOver(lines, "gross_amount"),
       total_deductions |-> SumOver(lines, "deductions"),
       total_net_amount |-> SumOver(lines, "net_amount"),
       overtaken |-> req.overtaken]

\* The attendance is read once the run is inserted.
InsertRun(t) ==
  /\ inflight[t] # Idle /\ inflight[t].kind = "payroll"
  /\ Len(payroll_runs) < MaxRuns
  /\ payroll_runs' = Append(payroll_runs, Run(inflight[t]))
  /\ inflight' = Answered(t,
       {other \in OfSameKind(t) : /\ inflight[other].station_id = inflight[t].station_id
                            /\ inflight[other].period = inflight[t].period})
  /\ UNCHANGED <<staff, today, attendance>>

\* Slip: a finalized run may be finalized again.
MayFinalizeSlip(i) == TRUE
MayFinalize(i) == payroll_runs[i].status # "finalized"

\* The run is read, and its status with it.
StartFinalizing(t, u, i) ==
  /\ u \in FinalizerStaff
  /\ HasAccess(u, payroll_runs[i].station_id)
  /\ inflight[t] = Idle
  /\ MayFinalize(i)
  /\ inflight' = [inflight EXCEPT ![t] =
       [kind |-> "finalize", run |-> i, by |-> u, overtaken |-> FALSE]]
  /\ UNCHANGED <<staff, today, attendance, payroll_runs>>

\* Whoever finalized the run in between is overwritten.
FinalizePayrollRun(t) ==
  /\ inflight[t] # Idle /\ inflight[t].kind = "finalize"
  /\ LET i == inflight[t].run
     IN  /\ payroll_runs' = [payroll_runs EXCEPT
              ![i].status = "finalized", ![i].finalized_by_user_id = inflight[t].by]
         /\ inflight' = Answered(t, {other \in OfSameKind(t) : inflight[other].run = i})
  /\ UNCHANGED <<staff, today, attendance>>

PayrollInit == AttendanceInit /\ payroll_runs = <<>>

PayrollRequests ==
  \/ AttendanceRequests /\ UNCHANGED payroll_runs
  \/ \E t \in Threads, by \in Users, s \in Stations, p \in Period : StartRun(t, by, s, p)
  \/ \E t \in Threads, u \in Users, i \in 1..Len(payroll_runs) : StartFinalizing(t, u, i)

PayrollCommits ==
  \/ AttendanceCommits /\ UNCHANGED payroll_runs
  \/ \E t \in Threads : InsertRun(t) \/ FinalizePayrollRun(t)

=============================================================================
