------------------------- MODULE ConcurrentPostings -------------------------
(***************************************************************************)
(* Requests that overlap.  FastAPI runs the handlers in a thread pool,     *)
(* each with a session of its own (ppms/app/core/database.py), and no      *)
(* query locks a row or compares a version.  A request on a nozzle, its    *)
(* tank and a supplier therefore takes three steps: it opens (the document *)
(* or the nozzle is selected), it checks (the tank and the supplier are    *)
(* selected and the refusals decided on what was read), and it commits:    *)
(* the columns the session changed are written with the values computed    *)
(* from what it read, whatever was committed meanwhile.  From its first    *)
(* flush to its commit a request holds the write lock, so the third step   *)
(* is atomic.                                                              *)
(*                                                                         *)
(* There is one nozzle, tank and supplier, since requests on different     *)
(* rows do not meet, and purchases cost 1 per litre.  Dips, customers and  *)
(* the permissions are as in StationBooks and left out.                    *)
(***************************************************************************)
EXTENDS Totals, TLC

CONSTANTS
  Workers,        \* the threads of the pool
  Capacity, OpeningStock, OpeningMeter,
  Delivered,      \* quantities of the purchases that were submitted
  MeterReadings,  \* closing meters that are entered
  MaxSales        \* bound: rows of the fuel_sales table

ASSUME PostingsAssumption ==
  /\ Capacity \in Nat /\ OpeningStock \in 0..Capacity /\ OpeningMeter \in Nat
  /\ Delivered \in Seq(Nat \ {0})
  /\ MeterReadings \subseteq Nat /\ MaxSales \in Nat

VARIABLES
  row,        \* the columns in the database: meter_reading, current_volume, payable_balance
  purchases,  \* [status, request, is_reversed] of each purchase
  sales,      \* [opening_meter, closing_meter, is_reversed] of each sale
  step,       \* where each worker is
  task,       \* what it is asked to do
  seen,       \* the document it selected
  read,       \* the columns as it selected them
  write,      \* the columns as it changed them
  stale       \* history: some commit was computed from outdated columns or documents

workerVars == <<step, task, seen, read, write>>
vars == <<row, purchases, sales, workerVars, stale>>

-----------------------------------------------------------------------------
Row == [meter : Int, volume : Int, payable : Int]

PurchaseDoc == [status : {"pending", "approved", "rejected"},
                request : {"none", "pending", "approved"}, is_reversed : BOOLEAN]
SaleDoc == [opening_meter : Nat, closing_meter : Nat, is_reversed : BOOLEAN]

Ops == {"sell", "reverse_sale", "approve", "reject", "reverse", "request", "approve_reversal"}
Task == [op : Ops, id : Nat, closing : Nat]

NoTask == [op |-> "reject", id |-> 0, closing |-> 0]
NoRow  == [meter |-> 0, volume |-> 0, payable |-> 0]
NoSale == [opening_meter |-> 0, closing_meter |-> 0, is_reversed |-> FALSE]

-----------------------------------------------------------------------------
\* Opening a request: the document is selected and its state checked.

Begin(w, t, doc) ==
  /\ step[w] = "idle"
  /\ step' = [step EXCEPT ![w] = "opened"]
  /\ task' = [task EXCEPT ![w] = t]
  /\ seen' = [seen EXCEPT ![w] = doc]
  /\ read' = [read EXCEPT ![w] = row]
  /\ UNCHANGED <<row, purchases, sales, write, stale>>

\* create_fuel_sale selects the nozzle, whose reading opens the sale.
OpenSale(w, closing) ==
  /\ Len(sales) < MaxSales
  /\ closing >= row.meter
  /\ Begin(w, [op |-> "sell", id |-> 0, closing |-> closing], NoSale)

\* reverse_fuel_sale, called by an administrator.
OpenSaleReversal(w, i) ==
  /\ ~sales[i].is_reversed
  /\ Begin(w, [op |-> "reverse_sale", id |-> i, closing |-> 0], sales[i])

\* The five handlers that take a purchase; approve_reversal has selected its
\* tank too, for the audit event, before it goes on to reverse.
Accepts(op, p) ==
  \/ op \in {"approve", "reject"} /\ p.status = "pending"
  \/ op = "reverse" /\ p.status = "approved" /\ ~p.is_reversed
  \/ op = "request" /\ p.status = "approved" /\ ~p.is_reversed /\ p.request # "pending"
  \/ op = "approve_reversal" /\ p.request \in {"pending", "approved"} /\ ~p.is_reversed

OpenPurchase(w, op, i) ==
  /\ Accepts(op, purchases[i])
  /\ Begin(w, [op |-> op, id |-> i, closing |-> 0], purchases[i])

-----------------------------------------------------------------------------
\* Checking: the tank, the nozzle or the supplier is selected now, the refusals
\* are decided on it and the new values computed.

Plan(w, now, new) ==
  /\ step[w] = "opened"
  /\ step' = [step EXCEPT ![w] = "checked"]
  /\ read' = [read EXCEPT ![w] = now]
  /\ write' = [write EXCEPT ![w] = new]
  /\ UNCHANGED <<row, purchases, sales, task, seen, stale>>

CheckSale(w) ==
  LET now == [read[w] EXCEPT !.volume = row.volume]
      quantity == task[w].closing - now.meter
  IN
  /\ task[w].op = "sell"
  /\ quantity <= now.volume
  /\ Plan(w, now, [now EXCEPT !.meter = task[w].closing, !.volume = @ - quantity])

CheckSaleReversal(w) ==
  LET sale == seen[w]
      quantity == sale.closing_meter - sale.opening_meter
  IN
  /\ task[w].op = "reverse_sale"
  /\ row.meter = sale.closing_meter
  /\ row.volume + quantity <= Capacity
  /\ Plan(w, row, [row EXCEPT !.meter = sale.opening_meter, !.volume = @ + quantity])

CheckApproval(w) ==
  LET quantity == Delivered[task[w].id] IN
  /\ task[w].op = "approve"
  /\ row.volume + quantity <= Capacity
  /\ Plan(w, row, [row EXCEPT !.volume = @ + quantity, !.payable = @ + quantity])

MayUndoDelivery(now, quantity) == now.volume >= quantity /\ now.payable >= quantity

\* Slip: the litres stay in the tank.
OwedNoLonger(now, quantity) == [now EXCEPT !.payable = @ - quantity]

Undelivered(now, quantity) == [now EXCEPT !.volume = @ - quantity, !.payable = @ - quantity]

CheckReversal(w) ==
  LET quantity == Delivered[task[w].id] IN
  /\ task[w].op = "reverse"
  /\ MayUndoDelivery(row, quantity)
  /\ Plan(w, row, Undelivered(row, quantity))

-----------------------------------------------------------------------------
\* Committing: an UPDATE of the columns whose value changed.

\* The session is closed and forgets what it selected.
Close(w) ==
  /\ step' = [step EXCEPT ![w] = "idle"]
  /\ task' = [task EXCEPT ![w] = NoTask]
  /\ seen' = [seen EXCEPT ![w] = NoSale]
  /\ read' = [read EXCEPT ![w] = NoRow]
  /\ write' = [write EXCEPT ![w] = NoRow]

Store(w, now, new) ==
  /\ row' = [k \in DOMAIN row |-> IF new[k] # now[k] THEN new[k] ELSE row[k]]
  /\ Close(w)

Outdated(now, new, doc, current) ==
  doc # current \/ \E k \in DOMAIN row : new[k] # now[k] /\ row[k] # now[k]

CommitSale(w) ==
  /\ step[w] = "checked" /\ task[w].op = "sell"
  /\ Len(sales) < MaxSales
  /\ Store(w, read[w], write[w])
  /\ sales' = Append(sales, [opening_meter |-> read[w].meter,
                             closing_meter |-> task[w].closing, is_reversed |-> FALSE])
  /\ stale' = (stale \/ Outdated(read[w], write[w], NoSale, NoSale))
  /\ UNCHANGED purchases

CommitSaleReversal(w) ==
  LET i == task[w].id IN
  /\ step[w] = "checked" /\ task[w].op = "reverse_sale"
  /\ Store(w, read[w], write[w])
  /\ sales' = [sales EXCEPT ![i] = [@ EXCEPT !.is_reversed = TRUE]]
  /\ stale' = (stale \/ Outdated(read[w], write[w], seen[w], sales[i]))
  /\ UNCHANGED purchases

Marked(op, p) ==
  CASE op = "approve" -> [p EXCEPT !.status = "approved"]
    [] op = "reject"  -> [p EXCEPT !.status = "rejected"]
    [] op = "reverse" -> [p EXCEPT !.is_reversed = TRUE]
    [] op = "request" -> [p EXCEPT !.request = "pending"]
    [] op = "approve_reversal" -> [p EXCEPT !.request = "approved", !.is_reversed = TRUE]

CommitPurchase(w, now, new) ==
  LET i == task[w].id IN
  /\ Store(w, now, new)
  /\ purchases' = [purchases EXCEPT ![i] = Marked(task[w].op, @)]
  /\ stale' = (stale \/ Outdated(now, new, seen[w], purchases[i]))
  /\ UNCHANGED sales

CommitEffects(w) ==
  /\ step[w] = "checked" /\ task[w].op \in {"approve", "reverse"}
  /\ CommitPurchase(w, read[w], write[w])

\* reject_purchase and request_purchase_reversal touch the purchase only.
CommitMark(w) ==
  /\ step[w] = "opened" /\ task[w].op \in {"reject", "request"}
  /\ CommitPurchase(w, read[w], read[w])

\* approve_purchase_reversal flushes its decision, which takes the write lock,
\* and only then selects the supplier; the tank it selected before.
CommitApprovedReversal(w) ==
  LET quantity == Delivered[task[w].id]
      now == [read[w] EXCEPT !.payable = row.payable]
  IN
  /\ step[w] = "opened" /\ task[w].op = "approve_reversal"
  /\ seen[w].status = "approved"
  /\ MayUndoDelivery(now, quantity)
  /\ CommitPurchase(w, now, Undelivered(now, quantity))

\* A refusal, an error or the death of the process: the session rolls back.
Abandon(w) ==
  /\ step[w] # "idle"
  /\ Close(w)
  /\ UNCHANGED <<row, purchases, sales, stale>>

-----------------------------------------------------------------------------
Init ==
  /\ row = [meter |-> OpeningMeter, volume |-> OpeningStock, payable |-> 0]
  /\ purchases = [i \in 1..Len(Delivered) |->
                    [status |-> "pending", request |-> "none", is_reversed |-> FALSE]]
  /\ sales = << >>
  /\ step = [w \in Workers |-> "idle"]
  /\ task = [w \in Workers |-> NoTask]
  /\ seen = [w \in Workers |-> NoSale]
  /\ read = [w \in Workers |-> NoRow]
  /\ write = [w \in Workers |-> NoRow]
  /\ stale = FALSE

Open(w) ==
  \/ \E closing \in MeterReadings : OpenSale(w, closing)
  \/ \E i \in 1..Len(sales) : OpenSaleReversal(w, i)
  \/ \E i \in 1..Len(purchases), op \in Ops \ {"sell", "reverse_sale"} : OpenPurchase(w, op, i)

Check(w) == CheckSale(w) \/ CheckSaleReversal(w) \/ CheckApproval(w) \/ CheckReversal(w)

Commit(w) ==
  \/ CommitSale(w) \/ CommitSaleReversal(w)
  \/ CommitEffects(w) \/ CommitMark(w) \/ CommitApprovedReversal(w)

Next == \E w \in Workers : Open(w) \/ Check(w) \/ Commit(w) \/ Abandon(w)

Spec == Init /\ [][Next]_vars

-----------------------------------------------------------------------------
TypeOK ==
  /\ row \in Row
  /\ purchases \in [1..Len(Delivered) -> PurchaseDoc]
  /\ sales \in Seq(SaleDoc)
  /\ step \in [Workers -> {"idle", "opened", "checked"}]
  /\ task \in [Workers -> Task]
  /\ seen \in [Workers -> PurchaseDoc \cup SaleDoc]
  /\ read \in [Workers -> Row] /\ write \in [Workers -> Row]
  /\ stale \in BOOLEAN

\* However requests overlap, the tank stays between empty and full and the
\* supplier is never owed a negative amount: every value written was checked,
\* against whatever state.
Bounded ==
  /\ row.volume \in 0..Capacity
  /\ row.payable >= 0

Delivery(i) == IF purchases[i].status = "approved" /\ ~purchases[i].is_reversed
               THEN Delivered[i] ELSE 0
SaleOf(i) == IF sales[i].is_reversed THEN 0 ELSE sales[i].closing_meter - sales[i].opening_meter

\* "Auto-post ... and reduce tank stock from the liters sold": the volume is
\* the opening stock plus the purchases that count minus the standing sales.
StockAddsUp ==
  row.volume = OpeningStock + Total([i \in 1..Len(Delivered) |-> Delivery(i)])
                            - Total([i \in 1..Len(sales) |-> SaleOf(i)])

\* Only a request that committed on outdated reads can lose litres: as long as
\* none did, overlapping requests have the effect of requests one by one.
OnlyStaleReadsLose == ~stale => StockAddsUp

-----------------------------------------------------------------------------
\* For TLC: what was submitted, and threads that are alike.
OnePurchase == <<2>>
Alike == Permutations(Workers)

=============================================================================
