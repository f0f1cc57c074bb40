----------------------------- MODULE Reversals ------------------------------
(***************************************************************************)
(* The reversal workflow that fuel sales, purchases, customer payments and *)
(* supplier payments share.  Each row carries the columns                  *)
(* reversal_request_status, reversal_requested_by, is_reversed and         *)
(* reversed_by; the four services write them in the same way, line by      *)
(* line.  The operators give, for the workflow record d of a row, when a   *)
(* step is accepted and what it writes.  An administrator's "reverse" call *)
(* reverses at once; any other user's call is a request.                   *)
(***************************************************************************)
EXTENDS StationState

RequestStatuses == {"none", "pending", "approved", "rejected"}

Workflow == [request : RequestStatuses, requested_by : Users \cup {Nobody},
             reversed : BOOLEAN, reversed_by : Users \cup {Nobody}]

Fresh == [request |-> "none", requested_by |-> Nobody,
          reversed |-> FALSE, reversed_by |-> Nobody]

\* request_..._reversal: any number of times, unless one is waiting.
MayRequest(d) == ~d.reversed /\ d.request # "pending"
Requested(d, u) == [d EXCEPT !.request = "pending", !.requested_by = u]

\* reject_..._reversal
MayReject(d) == ~d.reversed /\ d.request = "pending"
Rejected(d) == [d EXCEPT !.request = "rejected"]

\* Slip: a row can be reversed again.
MayReverseAgain(d, u) == d.request = "approved" \/ u \in Administrators

\* reverse_... called by an administrator: no request is needed, and one that
\* exists keeps its status.
MayReverse(d, u) == ~d.reversed /\ (d.request = "approved" \/ u \in Administrators)
Reversed(d, u) == [d EXCEPT !.reversed = TRUE, !.reversed_by = u]

\* Slip: an approved request can be approved again after its reversal.
MayApproveAgain(d) == d.request \in {"pending", "approved"}

\* approve_..._reversal: marks the request approved and goes on to reverse.
MayApprove(d) == ~d.reversed /\ d.request \in {"pending", "approved"}

Approved(d, u) == Reversed([d EXCEPT !.request = "approved"], u)

=============================================================================
