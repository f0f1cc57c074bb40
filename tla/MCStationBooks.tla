--------------------------- MODULE MCStationBooks ---------------------------
(***************************************************************************)
(* Small stations for TLC: one administrator, one head-office reviewer,    *)
(* one operator and one accountant.                                        *)
(***************************************************************************)
EXTENDS Reports

CONSTANTS adm, ho, op, acc, t1, n1, n2, c1, s1

MCRole == [u \in Users |-> CASE u = adm -> "Admin"    [] u = ho  -> "HeadOffice"
                             [] u = op  -> "Operator" [] u = acc -> "Accountant"]
MCFeeds == [n \in Nozzles |-> t1]
MCCapacity == [t \in Tanks |-> 6]
MCOpeningStock == [t \in Tanks |-> 4]
MCOpeningMeter == [n \in Nozzles |-> 1]
MCInitialLimit == [c \in Customers |-> 3]
DipFigures == {-1, 6}

=============================================================================
