------------------------------- MODULE Shifts -------------------------------
(***************************************************************************)
(* ppms/app/services/shifts.py: an employee opens a shift, sales are       *)
(* posted to it, and closing it stores the totals of its standing sales.   *)
(* initial_cash, the counted cash and the difference derived from them are *)
(* inputs that nothing else reads and are left out: expected_cash is       *)
(* initial_cash + total_cash.                                              *)
(***************************************************************************)
EXTENDS StationState, Totals

CONSTANT MaxShifts   \* bound: rows of the shifts table
ASSUME ShiftsAssumption == MaxShifts \in Nat

VARIABLE shifts      \* the shifts table

NoShift == 0

ShiftRow == [user : Users, open : BOOLEAN, total_cash : Int, total_credit : Int]

OpenShiftsOf(u) == {k \in 1..Len(shifts) : shifts[k].user = u /\ shifts[k].open}

\* What closing shift k would sum: its sales of one type that are not reversed.
TakingsOf(k, sale_type) ==
  Total([i \in 1..Len(sales) |->
           IF sales[i].shift = k /\ sales[i].sale_type = sale_type /\ ~sales[i].rev.reversed
           THEN sales[i].total_amount ELSE 0])

CreateShift(u) ==
  /\ u \in ForecourtStaff
  /\ Len(shifts) < MaxShifts
  /\ OpenShiftsOf(u) = {}
  /\ shifts' = Append(shifts, [user |-> u, open |-> TRUE, total_cash |-> 0, total_credit |-> 0])
  /\ UNCHANGED <<current_volume, nozzle, customer, payable_balance, sales>>

\* Only the user who opened a shift may close it.
CloseShift(u, k) ==
  /\ u \in ForecourtStaff
  /\ shifts[k].open
  /\ shifts[k].user = u
  /\ shifts' = [shifts EXCEPT ![k] = [@ EXCEPT
       !.open = FALSE, !.total_cash = TakingsOf(k, "cash"),
       !.total_credit = TakingsOf(k, "credit")]]
  /\ UNCHANGED <<current_volume, nozzle, customer, payable_balance, sales>>

ShiftsInit == shifts = << >>

ShiftsNext ==
  \E u \in Users : CreateShift(u) \/ \E k \in 1..Len(shifts) : CloseShift(u, k)

=============================================================================
