------------------------------ MODULE Purchases -----------------------------
(***************************************************************************)
(* ppms/app/services/purchases.py behind ppms/app/api/purchase.py.  A      *)
(* purchase touches the tank and the supplier's payable balance when it is *)
(* approved: at once for an administrator, otherwise by a reviewer.  Its   *)
(* reversal takes both back.  Purchases here name no tanker (tanker_id is  *)
(* optional; one that does also marks the tanker active).                  *)
(*                                                                         *)
(* The tank dips of ppms/app/services/tank_dips.py, the other way stock    *)
(* changes outside a sale, are here too.                                   *)
(***************************************************************************)
EXTENDS Reversals

CONSTANTS
  Deliveries,     \* quantity of a purchase, in litres
  PurchaseRates,  \* rate_per_liter
  DipVolumes,     \* calculated_volume of a dip: the handler accepts any number
  MaxPurchases,   \* bound: rows of the purchases table
  MaxDips         \* bound: rows of the tank_dips table

ASSUME PurchasesAssumption ==
  /\ Deliveries \subseteq Nat \ {0}
  /\ PurchaseRates \subseteq Nat \ {0}
  /\ DipVolumes \subseteq Int
  /\ MaxPurchases \in Nat /\ MaxDips \in Nat

VARIABLES purchases, dips   \* the purchases and tank_dips tables

PurchaseStatuses == {"pending", "approved", "rejected"}

PurchaseRow ==
  [supplier : Suppliers, tank : Tanks, quantity : Nat, total_amount : Nat,
   status : PurchaseStatuses, submitted_by : Users, approved_by : Users \cup {Nobody},
   rev : Workflow]

DipRow == [tank : Tanks, calculated_volume : Int, loss_gain : Int]

otherBooks == <<nozzle, customer, sales>>

-----------------------------------------------------------------------------
FitsTank(tank, quantity) == current_volume[tank] + quantity <= Capacity[tank]

ApplyPurchaseEffects(tank, supplier, quantity, amount) ==
  /\ current_volume' = [current_volume EXCEPT ![tank] = @ + quantity]
  /\ payable_balance' = [payable_balance EXCEPT ![supplier] = @ + amount]

\* The capacity is checked on submission too, though a pending purchase adds
\* nothing yet.
CreatePurchase(u, s, t, quantity, rate) ==
  LET approved == u \in Administrators
      amount   == quantity * rate
  IN
  /\ u \in ForecourtStaff
  /\ Len(purchases) < MaxPurchases
  /\ FitsTank(t, quantity)
  /\ purchases' = Append(purchases,
       [supplier |-> s, tank |-> t, quantity |-> quantity, total_amount |-> amount,
        status |-> IF approved THEN "approved" ELSE "pending", submitted_by |-> u,
        approved_by |-> IF approved THEN u ELSE Nobody, rev |-> Fresh])
  /\ IF approved THEN ApplyPurchaseEffects(t, s, quantity, amount)
                 ELSE UNCHANGED <<current_volume, payable_balance>>
  /\ UNCHANGED <<otherBooks, dips>>

\* Slip: whoever may submit a purchase may approve it.
ApprovePurchaseByStaff(u, i) ==
  LET p == purchases[i] IN
  /\ u \in ForecourtStaff
  /\ p.status = "pending"
  /\ FitsTank(p.tank, p.quantity)
  /\ purchases' = [purchases EXCEPT ![i] = [@ EXCEPT !.status = "approved", !.approved_by = u]]
  /\ ApplyPurchaseEffects(p.tank, p.supplier, p.quantity, p.total_amount)
  /\ UNCHANGED <<otherBooks, dips>>

ApprovePurchase(u, i) ==
  LET p == purchases[i] IN
  /\ u \in Reviewers
  /\ p.status = "pending"
  /\ FitsTank(p.tank, p.quantity)
  /\ purchases' = [purchases EXCEPT ![i] = [@ EXCEPT !.status = "approved", !.approved_by = u]]
  /\ ApplyPurchaseEffects(p.tank, p.supplier, p.quantity, p.total_amount)
  /\ UNCHANGED <<otherBooks, dips>>

RejectPurchase(u, i) ==
  /\ u \in Reviewers
  /\ purchases[i].status = "pending"
  /\ purchases' = [purchases EXCEPT ![i] = [@ EXCEPT !.status = "rejected", !.approved_by = Nobody]]
  /\ UNCHANGED <<current_volume, payable_balance, otherBooks, dips>>

\* Slip: a purchase that was never approved can be reversed.
UndoAnyPurchase(i, rev) ==
  LET p == purchases[i] IN
  /\ current_volume[p.tank] >= p.quantity
  /\ payable_balance[p.supplier] >= p.total_amount
  /\ ApplyPurchaseEffects(p.tank, p.supplier, -p.quantity, -p.total_amount)
  /\ purchases' = [purchases EXCEPT ![i] = [@ EXCEPT !.rev = rev]]
  /\ UNCHANGED <<otherBooks, dips>>

\* reverse_purchase: rev is what the workflow record of purchase i becomes.
\* Refused once the litres were sold or the supplier was paid for them.
UndoPurchase(i, rev) ==
  LET p == purchases[i] IN
  /\ p.status = "approved"
  /\ current_volume[p.tank] >= p.quantity
  /\ payable_balance[p.supplier] >= p.total_amount
  /\ ApplyPurchaseEffects(p.tank, p.supplier, -p.quantity, -p.total_amount)
  /\ purchases' = [purchases EXCEPT ![i] = [@ EXCEPT !.rev = rev]]
  /\ UNCHANGED <<otherBooks, dips>>

MarkPurchase(i, rev) ==
  /\ purchases' = [purchases EXCEPT ![i] = [@ EXCEPT !.rev = rev]]
  /\ UNCHANGED <<current_volume, payable_balance, otherBooks, dips>>

ReversePurchase(u, i) ==
  /\ u \in Administrators
  /\ MayReverse(purchases[i].rev, u)
  /\ UndoPurchase(i, Reversed(purchases[i].rev, u))

RequestPurchaseReversal(u, i) ==
  /\ u \in ForecourtStaff \ Administrators
  /\ purchases[i].status = "approved"
  /\ MayRequest(purchases[i].rev)
  /\ MarkPurchase(i, Requested(purchases[i].rev, u))

\* Slip: whoever may request a reversal may approve it.
ApprovePurchaseReversalByStaff(u, i) ==
  /\ u \in ForecourtStaff
  /\ MayApprove(purchases[i].rev)
  /\ UndoPurchase(i, Approved(purchases[i].rev, u))

ApprovePurchaseReversal(u, i) ==
  /\ u \in Reviewers
  /\ MayApprove(purchases[i].rev)
  /\ UndoPurchase(i, Approved(purchases[i].rev, u))

RejectPurchaseReversal(u, i) ==
  /\ u \in Reviewers
  /\ MayReject(purchases[i].rev)
  /\ MarkPurchase(i, Rejected(purchases[i].rev))

-----------------------------------------------------------------------------
\* create_tank_dip: the volume read off the stick replaces the system's figure,
\* whatever it is, and the difference is kept as loss or gain.
CreateTankDip(u, t, calculated) ==
  /\ u \in ForecourtStaff
  /\ Len(dips) < MaxDips
  /\ dips' = Append(dips, [tank |-> t, calculated_volume |-> calculated,
                           loss_gain |-> calculated - current_volume[t]])
  /\ current_volume' = [current_volume EXCEPT ![t] = calculated]
  /\ UNCHANGED <<payable_balance, otherBooks, purchases>>

-----------------------------------------------------------------------------
PurchasesInit == purchases = << >> /\ dips = << >>

PurchaseRowNext(u, i) ==
  \/ ApprovePurchase(u, i)
  \/ RejectPurchase(u, i)
  \/ ReversePurchase(u, i)
  \/ RequestPurchaseReversal(u, i)
  \/ ApprovePurchaseReversal(u, i)
  \/ RejectPurchaseReversal(u, i)

PurchasesNext ==
  \E u \in Users :
    \/ \E s \in Suppliers, t \in Tanks, quantity \in Deliveries, rate \in PurchaseRates :
         CreatePurchase(u, s, t, quantity, rate)
    \/ \E i \in 1..Len(purchases) : PurchaseRowNext(u, i)
    \/ \E t \in Tanks, calculated \in DipVolumes : CreateTankDip(u, t, calculated)

=============================================================================
