---------------------------- MODULE HaulageBooks ----------------------------
(***************************************************************************)
(* The books of a station that also hauls fuel: StationBooks composed with *)
(* TankerTrips.  Trips post into the same purchases, tanks, suppliers and  *)
(* customers that sales, payments and reversals work on, past the approval *)
(* of purchases and past the customer's ledger.                            *)
(***************************************************************************)
EXTENDS StationBooks, TankerTrips

haulageVars == <<vars, trips>>

HaulageInit == Init /\ TankerTripsInit

HaulageNext ==
  \/ Next /\ UNCHANGED trips
  \/ TankerTripsNext /\ UNCHANGED <<salesVars, dips, paymentVars>>

HaulageSpec == HaulageInit /\ [][HaulageNext]_haulageVars

-----------------------------------------------------------------------------
\* Every record and row has the columns of its model: no delivery is paid beyond its
\* value, so nothing is owed in the negative (add_trip_delivery).
HaulageTypeOK == TypeOK /\ trips \in Seq(TripRow)

PostedBy(p) == {i \in 1..Len(trips) : trips[i].linked_purchase = p}

\* Every purchase that counts was approved by a reviewer who did not submit it,
\* unless an administrator submitted it or it is what exactly one completed trip
\* posted; it then says what that trip unloaded.  No other purchase is ever reversed.
PurchaseAccountedFor ==
  \A p \in 1..Len(purchases) :
    IF purchases[p].status # "approved" THEN ~purchases[p].rev.reversed ELSE
    \/ /\ purchases[p].approved_by \in Reviewers
       /\ \/ purchases[p].approved_by # purchases[p].submitted_by
          \/ purchases[p].submitted_by \in Administrators
       /\ PostedBy(p) = {}
    \/ \E i \in PostedBy(p) :
         /\ PostedBy(p) = {i}
         /\ trips[i].completed
         /\ trips[i].total_quantity = purchases[p].quantity
         /\ trips[i].fuel_revenue = purchases[p].total_amount

\* What customer c took on credit from the completed trips and did not pay on the
\* spot, trip by trip.
LeftUnpaid(delivery, c) ==
  IF delivery.sale_type = "credit" /\ delivery.customer = c
  THEN delivery.outstanding_amount ELSE 0
HauledTo(c) ==
  [i \in 1..Len(trips) |->
     IF trips[i].completed /\ trips[i].route.type = "supplier_to_customer"
     THEN Total([k \in 1..Len(trips[i].deliveries) |-> LeftUnpaid(trips[i].deliveries[k], c)])
     ELSE 0]

\* A customer owes what the ledger says, less the refunds of reversed cash sales,
\* plus what the credit deliveries of completed trips left unpaid.
HauledBalanceExplained ==
  \A c \in Customers :
    customer[c].outstanding_balance
      = CustomerLedger(c) - Total(CashRefundsTo(c)) + Total(HauledTo(c))

\* A completed trip stays completed and keeps what it posted: its deliveries and
\* its purchase do not change, whatever is added to it later.
KeepsCompletedTrips ==
  \A i \in 1..Len(trips) : trips[i].completed =>
    /\ trips'[i].completed
    /\ trips'[i].deliveries = trips[i].deliveries
    /\ trips'[i].linked_purchase = trips[i].linked_purchase
CompletedTripsFixed == [][KeepsCompletedTrips]_haulageVars

-----------------------------------------------------------------------------
\* The approval of purchases, as a document of ApprovalProtocol each: what a trip
\* posted was approved by nobody and is none of its documents (tanker_ops.py:238).
ApprovalState == [pending |-> "submitted", approved |-> "accepted", rejected |-> "refused"]

PurchaseDocs ==
  [p \in 1..MaxPurchases |->
     IF p > Len(purchases) \/ PostedBy(p) # {}
     THEN [state |-> "unused", amount |-> 0, by |-> Nobody, decider |-> Nobody]
     ELSE [state   |-> ApprovalState[purchases[p].status],
           amount  |-> purchases[p].total_amount,
           by      |-> purchases[p].submitted_by,
           decider |-> purchases[p].approved_by]]

PurchaseApproval == INSTANCE ApprovalProtocol WITH
  docs <- PurchaseDocs, Ids <- 1..MaxPurchases,
  Amounts <- {quantity * rate : quantity \in Deliveries, rate \in PurchaseRates},
  Submitters <- ForecourtStaff, Trusted <- Administrators

\* Purchases and supplier payments follow the reversal protocol also while trips post
\* purchases among them.  The purchases that staff enter implement the approval that
\* expenses do: approved by an administrator, or by a reviewer who did not submit it,
\* final from then on, and of the amount submitted, however its reversal goes.
SupplySideFollowsProtocols ==
  SupplySideFollowsWorkflow /\ PurchaseApproval!ApprovalSpec

=============================================================================
