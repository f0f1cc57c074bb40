--------------------------- MODULE MCHaulageBooks ---------------------------
(***************************************************************************)
(* A small station with one tanker: the users of MCStationBooks, one tank, *)
(* one supplier, one customer.                                             *)
(***************************************************************************)
EXTENDS HaulageReports

CONSTANTS adm, ho, op, acc, t1, n1, c1, s1

MCRole == [u \in Users |-> CASE u = adm -> "Admin"    [] u = ho  -> "HeadOffice"
                             [] u = op  -> "Operator" [] u = acc -> "Accountant"]
MCFeeds == [n \in Nozzles |-> t1]
MCCapacity == [t \in Tanks |-> 6]
MCOpeningStock == [t \in Tanks |-> 4]
MCOpeningMeter == [n \in Nozzles |-> 1]
MCInitialLimit == [c \in Customers |-> 3]

=============================================================================
