----------------------------- MODULE ShopBooks ------------------------------
(***************************************************************************)
(* The shop of a station and its expenses.                                 *)
(***************************************************************************)
EXTENDS PosSales, Expenses

shopVars == <<products, pos_sales, expenses>>

ShopInit == PosInit /\ ExpensesInit

ShopNext ==
  \/ PosNext /\ UNCHANGED expenses
  \/ ExpensesNext /\ UNCHANGED posVars

ShopSpec == ShopInit /\ [][ShopNext]_shopVars

-----------------------------------------------------------------------------
\* Type invariant: the columns hold what they may hold, and a sale has lines.
ShopTypeOK ==
  /\ DOMAIN products \subseteq ProductIds
  /\ products \in [DOMAIN products -> Product]
  /\ pos_sales \in Seq(PosSale)
  /\ DOMAIN expenses \subseteq ExpenseIds
  /\ expenses \in [DOMAIN expenses -> Expense]

Explained(p) ==
  products[p].kept =>
    products[p].stock_quantity = products[p].opening - Taken(p, products[p].track_inventory)

\* The stock of a product whose tracking was never switched is what was last
\* entered or counted, less what its sales since then have taken and no reversal
\* has put back: through sales of several lines (pos.py:103-105), reversals in any
\* order (:128-131), recounts (:44-61), and deletions, after which the id is used
\* again (api/pos_product.py:90).
StockExplained == \A p \in DOMAIN products : Explained(p)

RepeatedOnSomeSale(p) ==
  \E i \in 1..Len(pos_sales) : \E j, k \in 1..Len(pos_sales[i].lines) :
    /\ j # k
    /\ pos_sales[i].lines[j].product = p
    /\ pos_sales[i].lines[k].product = p

\* pos.py:85 compares each line with the stock before any line is taken, so stock
\* may go below zero, but only for a product that some sale names on two lines.
OversoldOnlyByRepeatedLines ==
  \A p \in DOMAIN products :
    products[p].stock_quantity < 0 => RepeatedOnSomeSale(p)

\* An expense as a document of the protocol.
StateOf == [pending |-> "submitted", approved |-> "accepted", rejected |-> "refused"]

Document(e) ==
  IF e \in DOMAIN expenses
  THEN [state   |-> StateOf[expenses[e].status], amount |-> expenses[e].amount,
        by      |-> expenses[e].submitted_by_user_id,
        decider |-> expenses[e].approved_by_user_id]
  ELSE [state |-> "unused", amount |-> 0, by |-> Nobody, decider |-> Nobody]

Approval == INSTANCE ApprovalProtocol WITH
  Ids <- ExpenseIds, Amounts <- ExpenseAmounts, Submitters <- ExpenseStaff,
  Trusted <- Administrators, docs <- [e \in ExpenseIds |-> Document(e)]

\* Expenses go through the approval workflow: one that is approved, and so counts in
\* the reports (services/reports.py:66), was approved by an administrator or by
\* somebody who had not submitted it, and neither its amount nor its approval
\* changes any more, whatever is edited, deleted, decided again, or entered under
\* an id that was used before.
ExpensesFollowApproval == Approval!ApprovalSpec

-----------------------------------------------------------------------------
\* For TLC: an administrator, a head office reviewer and a manager.
MCRole == [adm |-> "Admin", ho |-> "HeadOffice", mgr |-> "Manager"]

=============================================================================
