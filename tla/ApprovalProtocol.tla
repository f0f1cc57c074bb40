-------------------------- MODULE ApprovalProtocol --------------------------
(***************************************************************************)
(* What the approval of expenses and of purchases promises (README,        *)
(* "Expense Approval Workflow", "Purchase Approval Workflow"): a document  *)
(* counts once it is accepted, by one of the trusted or by a reviewer who  *)
(* did not submit it, and is final from then on.  Until a decision it may  *)
(* be amended and withdrawn; one that is refused may only be accepted      *)
(* after all.  ShopBooks implements it with expenses, HaulageBooks with    *)
(* the purchases that staff enter, which are never amended or withdrawn.   *)
(***************************************************************************)
CONSTANTS Ids, Amounts, Submitters, Reviewers, Trusted, Nobody

VARIABLE docs   \* [Ids -> [state, amount, by, decider]]

Unused == [state |-> "unused", amount |-> 0, by |-> Nobody, decider |-> Nobody]

ApprovalInit == docs = [d \in Ids |-> Unused]

Submit(d, u, a) ==
  /\ docs[d] = Unused
  /\ \/ docs' = [docs EXCEPT ![d] = [state |-> "submitted", amount |-> a, by |-> u,
                                     decider |-> Nobody]]
     \/ /\ u \in Trusted
        /\ docs' = [docs EXCEPT ![d] = [state |-> "accepted", amount |-> a, by |-> u,
                                        decider |-> u]]

Amend(d, a) ==
  /\ docs[d].state = "submitted"
  /\ docs' = [docs EXCEPT ![d].amount = a]

Withdraw(d) ==
  /\ docs[d].state = "submitted"
  /\ docs' = [docs EXCEPT ![d] = Unused]

Decided(doc, state, u) ==
  [state |-> state, amount |-> doc.amount, by |-> doc.by, decider |-> u]

Accept(d, u) ==
  /\ docs[d].state \in {"submitted", "refused"}
  /\ u \in Trusted \/ u # docs[d].by
  /\ docs' = [docs EXCEPT ![d] = Decided(docs[d], "accepted", u)]

Refuse(d) ==
  /\ docs[d].state = "submitted"
  /\ docs' = [docs EXCEPT ![d] = Decided(docs[d], "refused", Nobody)]

ApprovalNext ==
  \E d \in Ids :
    \/ \E u \in Submitters, a \in Amounts : Submit(d, u, a)
    \/ \E a \in Amounts : Amend(d, a)
    \/ Withdraw(d)
    \/ \E u \in Reviewers : Accept(d, u)
    \/ Refuse(d)

ApprovalSpec == ApprovalInit /\ [][ApprovalNext]_docs

=============================================================================
