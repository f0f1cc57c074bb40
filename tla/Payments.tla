------------------------------ MODULE Payments ------------------------------
(***************************************************************************)
(* ppms/app/services/payments.py: what customers pay off their balance and *)
(* what the station pays off a supplier's.  A payment may not exceed what  *)
(* is owed; its reversal puts the amount back unconditionally.             *)
(***************************************************************************)
EXTENDS Reversals

CONSTANTS
  PaymentAmounts,       \* amount of a payment
  MaxCustomerPayments,  \* bound: rows of the customer_payments table
  MaxSupplierPayments   \* bound: rows of the supplier_payments table

ASSUME PaymentsAssumption ==
  /\ PaymentAmounts \subseteq Nat \ {0}
  /\ MaxCustomerPayments \in Nat /\ MaxSupplierPayments \in Nat

VARIABLES customer_payments, supplier_payments   \* the two tables

CustomerPaymentRow == [customer : Customers, amount : Nat, rev : Workflow]
SupplierPaymentRow == [supplier : Suppliers, amount : Nat, rev : Workflow]

forecourt == <<current_volume, nozzle, sales>>

-----------------------------------------------------------------------------
CreateCustomerPayment(u, c, amount) ==
  /\ u \in PaymentStaff
  /\ Len(customer_payments) < MaxCustomerPayments
  /\ amount <= customer[c].outstanding_balance
  /\ customer_payments' = Append(customer_payments,
                                 [customer |-> c, amount |-> amount, rev |-> Fresh])
  /\ customer' = [customer EXCEPT ![c].outstanding_balance = @ - amount]
  /\ UNCHANGED <<forecourt, payable_balance, supplier_payments>>

UndoCustomerPayment(i, rev) ==
  LET p == customer_payments[i] IN
  /\ customer' = [customer EXCEPT ![p.customer].outstanding_balance = @ + p.amount]
  /\ customer_payments' = [customer_payments EXCEPT ![i] = [@ EXCEPT !.rev = rev]]
  /\ UNCHANGED <<forecourt, payable_balance, supplier_payments>>

MarkCustomerPayment(i, rev) ==
  /\ customer_payments' = [customer_payments EXCEPT ![i] = [@ EXCEPT !.rev = rev]]
  /\ UNCHANGED <<forecourt, customer, payable_balance, supplier_payments>>

ReverseCustomerPayment(u, i) ==
  /\ u \in Administrators
  /\ MayReverse(customer_payments[i].rev, u)
  /\ UndoCustomerPayment(i, Reversed(customer_payments[i].rev, u))

RequestCustomerPaymentReversal(u, i) ==
  /\ u \in PaymentStaff \ Administrators
  /\ MayRequest(customer_payments[i].rev)
  /\ MarkCustomerPayment(i, Requested(customer_payments[i].rev, u))

\* Slip: whoever may request a reversal may approve it.
ApproveCustomerPaymentReversalByStaff(u, i) ==
  /\ u \in PaymentStaff
  /\ MayApprove(customer_payments[i].rev)
  /\ UndoCustomerPayment(i, Approved(customer_payments[i].rev, u))

ApproveCustomerPaymentReversal(u, i) ==
  /\ u \in Reviewers
  /\ MayApprove(customer_payments[i].rev)
  /\ UndoCustomerPayment(i, Approved(customer_payments[i].rev, u))

RejectCustomerPaymentReversal(u, i) ==
  /\ u \in Reviewers
  /\ MayReject(customer_payments[i].rev)
  /\ MarkCustomerPayment(i, Rejected(customer_payments[i].rev))

-----------------------------------------------------------------------------
CreateSupplierPayment(u, s, amount) ==
  /\ u \in PaymentStaff
  /\ Len(supplier_payments) < MaxSupplierPayments
  /\ amount <= payable_balance[s]
  /\ supplier_payments' = Append(supplier_payments,
                                 [supplier |-> s, amount |-> amount, rev |-> Fresh])
  /\ payable_balance' = [payable_balance EXCEPT ![s] = @ - amount]
  /\ UNCHANGED <<forecourt, customer, customer_payments>>

UndoSupplierPayment(i, rev) ==
  LET p == supplier_payments[i] IN
  /\ payable_balance' = [payable_balance EXCEPT ![p.supplier] = @ + p.amount]
  /\ supplier_payments' = [supplier_payments EXCEPT ![i] = [@ EXCEPT !.rev = rev]]
  /\ UNCHANGED <<forecourt, customer, customer_payments>>

MarkSupplierPayment(i, rev) ==
  /\ supplier_payments' = [supplier_payments EXCEPT ![i] = [@ EXCEPT !.rev = rev]]
  /\ UNCHANGED <<forecourt, customer, payable_balance, customer_payments>>

ReverseSupplierPayment(u, i) ==
  /\ u \in Administrators
  /\ MayReverse(supplier_payments[i].rev, u)
  /\ UndoSupplierPayment(i, Reversed(supplier_payments[i].rev, u))

RequestSupplierPaymentReversal(u, i) ==
  /\ u \in PaymentStaff \ Administrators
  /\ MayRequest(supplier_payments[i].rev)
  /\ MarkSupplierPayment(i, Requested(supplier_payments[i].rev, u))

\* Slip: whoever may request a reversal may approve it.
ApproveSupplierPaymentReversalByStaff(u, i) ==
  /\ u \in PaymentStaff
  /\ MayApprove(supplier_payments[i].rev)
  /\ UndoSupplierPayment(i, Approved(supplier_payments[i].rev, u))

ApproveSupplierPaymentReversal(u, i) ==
  /\ u \in Reviewers
  /\ MayApprove(supplier_payments[i].rev)
  /\ UndoSupplierPayment(i, Approved(supplier_payments[i].rev, u))

RejectSupplierPaymentReversal(u, i) ==
  /\ u \in Reviewers
  /\ MayReject(supplier_payments[i].rev)
  /\ MarkSupplierPayment(i, Rejected(supplier_payments[i].rev))

-----------------------------------------------------------------------------
PaymentsInit == customer_payments = << >> /\ supplier_payments = << >>

CustomerPaymentRowNext(u, i) ==
  \/ ReverseCustomerPayment(u, i)
  \/ RequestCustomerPaymentReversal(u, i)
  \/ ApproveCustomerPaymentReversal(u, i)
  \/ RejectCustomerPaymentReversal(u, i)

SupplierPaymentRowNext(u, i) ==
  \/ ReverseSupplierPayment(u, i)
  \/ RequestSupplierPaymentReversal(u, i)
  \/ ApproveSupplierPaymentReversal(u, i)
  \/ RejectSupplierPaymentReversal(u, i)

PaymentsNext ==
  \E u \in Users :
    \/ \E c \in Customers, amount \in PaymentAmounts : CreateCustomerPayment(u, c, amount)
    \/ \E s \in Suppliers, amount \in PaymentAmounts : CreateSupplierPayment(u, s, amount)
    \/ \E i \in 1..Len(customer_payments) : CustomerPaymentRowNext(u, i)
    \/ \E i \in 1..Len(supplier_payments) : SupplierPaymentRowNext(u, i)

=============================================================================
