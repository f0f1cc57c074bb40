------------------------------ MODULE Expenses ------------------------------
(***************************************************************************)
(* ppms/app/services/expenses.py: the expenses of a station and their      *)
(* approval.  Titles, categories and notes are left out, and approved_at   *)
(* and rejected_at, which are set and cleared with the status.             *)
(***************************************************************************)
EXTENDS Integers, Permissions

CONSTANTS
  ExpenseAmounts,  \* amounts an expense may have
  MaxExpenses      \* bound: rows of the expenses table

ASSUME ExpensesAssumption ==
  /\ ExpenseAmounts \subseteq Nat \ {0}
  /\ MaxExpenses \in Nat

VARIABLE expenses   \* the expenses table: from ids to rows, as expenses are deleted

-----------------------------------------------------------------------------
ExpenseIds == 1..MaxExpenses

Expense == [amount : ExpenseAmounts,
            status : {"pending", "approved", "rejected"},
            submitted_by_user_id : Users,
            approved_by_user_id : Users \cup {Nobody}]

NextExpenseId(e) ==
  /\ e = 1 \/ e - 1 \in DOMAIN expenses
  /\ \A d \in DOMAIN expenses : d < e

\* An administrator's expense is approved as it is entered.
CreateExpense(u) ==
  /\ u \in ExpenseStaff
  /\ \E e \in ExpenseIds, a \in ExpenseAmounts :
       /\ NextExpenseId(e)
       /\ expenses' = [d \in DOMAIN expenses \cup {e} |->
            IF d # e THEN expenses[d]
            ELSE [amount |-> a, submitted_by_user_id |-> u,
                  status |-> IF u \in Administrators THEN "approved" ELSE "pending",
                  approved_by_user_id |-> IF u \in Administrators THEN u ELSE Nobody]]

\* Slip: an expense that was approved can still be changed.
MayChangeApproved(e) == expenses[e].status # "rejected"

MayChange(e) == expenses[e].status = "pending"

UpdateExpense(u, e) ==
  /\ u \in ExpenseStaff
  /\ MayChange(e)
  /\ \E a \in ExpenseAmounts : expenses' = [expenses EXCEPT ![e] = [@ EXCEPT !.amount = a]]

DeleteExpense(u, e) ==
  /\ u \in ExpenseStaff
  /\ MayChange(e)
  /\ expenses' = [d \in DOMAIN expenses \ {e} |-> expenses[d]]

\* Both decisions are refused once the expense is approved; one that was rejected
\* can be approved after all.
MayDecide(u, e) == u \in Reviewers /\ expenses[e].status # "approved"

ApproveExpense(u, e) ==
  /\ MayDecide(u, e)
  /\ expenses' = [expenses EXCEPT ![e] =
       [@ EXCEPT !.status = "approved", !.approved_by_user_id = u]]

RejectExpense(u, e) ==
  /\ MayDecide(u, e)
  /\ expenses' = [expenses EXCEPT ![e] =
       [@ EXCEPT !.status = "rejected", !.approved_by_user_id = Nobody]]

ExpensesInit == expenses = << >>

ExpensesNext ==
  \E u \in Users :
    \/ CreateExpense(u)
    \/ \E e \in DOMAIN expenses :
         UpdateExpense(u, e) \/ DeleteExpense(u, e) \/ ApproveExpense(u, e) \/ RejectExpense(u, e)

=============================================================================
