--------------------------- MODULE CreditOverrides --------------------------
(***************************************************************************)
(* ppms/app/services/customers.py: the credit limit of a customer and the  *)
(* override of it that staff request and reviewers grant.  FuelSales       *)
(* consumes the override.                                                  *)
(***************************************************************************)
EXTENDS StationState

CONSTANTS
  Limits,           \* credit_limit values of an update; 0 means no limit
  OverrideAmounts   \* amount of a request

ASSUME CreditOverridesAssumption ==
  Limits \subseteq Nat /\ OverrideAmounts \subseteq Nat \ {0}

notCustomers == <<current_volume, nozzle, payable_balance, sales>>

\* update_customer: of the fields it sets only credit_limit matters here.
UpdateCustomer(u, c, limit) ==
  /\ u \in CustomerStaff
  /\ customer' = [customer EXCEPT ![c].credit_limit = limit]
  /\ UNCHANGED notCustomers

\* A request is accepted whatever the status: it may follow an approved one.
RequestCreditOverride(u, c, amount) ==
  /\ u \in CustomerStaff
  /\ customer' = [customer EXCEPT ![c] = [@ EXCEPT
       !.override_status = "pending", !.override_requested = amount]]
  /\ UNCHANGED notCustomers

ApproveCreditOverride(u, c) ==
  /\ u \in Reviewers
  /\ customer[c].override_status = "pending"
  /\ customer' = [customer EXCEPT ![c] = [@ EXCEPT
       !.override_status = "approved", !.override_amount = customer[c].override_requested]]
  /\ UNCHANGED notCustomers

RejectCreditOverride(u, c) ==
  /\ u \in Reviewers
  /\ customer[c].override_status = "pending"
  /\ customer' = [customer EXCEPT ![c] = [@ EXCEPT
       !.override_status = "rejected", !.override_amount = 0]]
  /\ UNCHANGED notCustomers

CreditOverridesNext ==
  \E u \in Users, c \in Customers :
    \/ \E limit \in Limits : UpdateCustomer(u, c, limit)
    \/ \E amount \in OverrideAmounts : RequestCreditOverride(u, c, amount)
    \/ ApproveCreditOverride(u, c)
    \/ RejectCreditOverride(u, c)

=============================================================================
