-------------------------- MODULE ReversalProtocol --------------------------
(***************************************************************************)
(* What the reversal workflow promises of one table of documents (README,  *)
(* "Reversal Approval Workflow"): a document is posted once and reversed   *)
(* at most once, for good; it is reversed by an administrator, or by a     *)
(* reviewer at the request of another person; a request that is turned     *)
(* down can be made again.  StationBooks implements it four times.         *)
(***************************************************************************)
EXTENDS Integers, Sequences

CONSTANTS Staff, Deciders, Admins, Nobody

VARIABLE docs   \* sequence of [state, who]: who asked for, or carried out, the reversal

Doc == [state : {"standing", "asked", "reversed"},
        who : Staff \cup Deciders \cup Admins \cup {Nobody}]

Posted == [state |-> "standing", who |-> Nobody]

ProtocolInit == docs = << >>

Post == docs' = Append(docs, Posted)

Ask(i, u) ==
  /\ docs[i].state = "standing"
  /\ docs' = [docs EXCEPT ![i] = [state |-> "asked", who |-> u]]

Refuse(i) ==
  /\ docs[i].state = "asked"
  /\ docs' = [docs EXCEPT ![i] = Posted]

Undo(i, u) ==
  /\ \/ docs[i].state \in {"standing", "asked"} /\ u \in Admins
     \/ docs[i].state = "asked" /\ u \in Deciders \ {docs[i].who}
  /\ docs' = [docs EXCEPT ![i] = [state |-> "reversed", who |-> u]]

ProtocolNext ==
  \/ Post
  \/ \E i \in 1..Len(docs) :
       \/ \E u \in Staff \ Admins : Ask(i, u)
       \/ Refuse(i)
       \/ \E u \in Deciders \cup Admins : Undo(i, u)

ProtocolSpec == ProtocolInit /\ [][ProtocolNext]_docs

=============================================================================
