------------------------- MODULE PostingsStaffProofs ------------------------
(***************************************************************************)
(* Proofs about requests that overlap, for any number of them: about       *)
(* ConcurrentPostings, that the tank stays between empty and full, the     *)
(* supplier is never owed a negative amount, and litres are lost only when *)
(* a request commits what it computed from outdated reads; and about       *)
(* StaffBooks, that there is one record a day and one run a period unless  *)
(* requests overlapped, nobody is paid for more days than there are, runs  *)
(* stay as they were made, and profiles fit their users unless what their  *)
(* edits were checked against had changed by the commit.                   *)
(***************************************************************************)
EXTENDS ConcurrentPostings, StaffBooks, TotalsProofs, FiniteSetTheorems

-----------------------------------------------------------------------------
(***************************************************************************)
(* Postings.                                                               *)
(***************************************************************************)

\* What a request carries from one step to the next: its document, if it is a
\* purchase's or a sale's; a sale that does not run the meter back; and, once
\* checked, values that are in bounds.
Carried(w) ==
  LET t == task[w] IN
  /\ step[w] # "idle" /\ t.op \notin {"sell", "reverse_sale"} =>
       t.id \in 1..Len(Delivered) /\ seen[w] \in PurchaseDoc
  /\ step[w] # "idle" /\ t.op = "reverse_sale" =>
       t.id \in 1..Len(sales) /\ seen[w] \in SaleDoc
         /\ seen[w].opening_meter <= seen[w].closing_meter
  /\ step[w] # "idle" /\ t.op = "sell" => read[w].meter \in Nat /\ read[w].meter <= t.closing
  /\ step[w] = "opened" => read[w].volume \in 0..Capacity /\ read[w].payable >= 0
                           /\ read[w].meter \in Nat
  /\ step[w] = "checked" => write[w].volume \in 0..Capacity /\ write[w].payable >= 0
                            /\ write[w].meter \in Nat

Forward == \A i \in 1..Len(sales) : sales[i].opening_meter <= sales[i].closing_meter

\* The inductive invariant.
Inv ==
  /\ TypeOK
  /\ row.meter \in Nat
  /\ Bounded
  /\ Forward
  /\ \A w \in Workers : Carried(w)

\* Initially no request is open and the columns hold their opening figures.
LEMMA InitInv == Init => Inv
<1> SUFFICES ASSUME Init PROVE Inv
  OBVIOUS
<1> USE PostingsAssumption
<1>1. row \in Row /\ row.meter \in Nat /\ Bounded
  BY DEF Init, Row, Bounded
<1>2. purchases \in [1..Len(Delivered) -> PurchaseDoc]
  BY DEF Init, PurchaseDoc
<1>3. NoTask \in Task /\ NoSale \in SaleDoc /\ NoRow \in Row
  BY DEF NoTask, Task, Ops, NoSale, SaleDoc, NoRow, Row
<1>4. sales \in Seq(SaleDoc) /\ Forward
  BY DEF Init, Forward
<1>5. TypeOK
  BY <1>1, <1>2, <1>3, <1>4 DEF Init, TypeOK
<1>6. \A w \in Workers : Carried(w)
  BY DEF Init, Carried
<1> QED BY <1>1, <1>4, <1>5, <1>6 DEF Inv

\* Opening a request reads values that are in bounds.
LEMMA OpenInv ==
  ASSUME Inv, NEW w \in Workers, Open(w)
  PROVE  Inv'
<1> USE DEF Inv
<1>1. ASSUME NEW t \in Task, NEW doc \in PurchaseDoc \cup SaleDoc, Begin(w, t, doc),
             t.op \notin {"sell", "reverse_sale"} => t.id \in 1..Len(Delivered) /\ doc \in PurchaseDoc,
             t.op = "reverse_sale" => t.id \in 1..Len(sales) /\ doc \in SaleDoc
                                        /\ doc.opening_meter <= doc.closing_meter,
             t.op = "sell" => row.meter <= t.closing
      PROVE  Inv'
  <2>1. TypeOK'
    BY <1>1 DEF Begin, TypeOK
  <2>2. (row.meter \in Nat)' /\ Bounded' /\ Forward'
    BY <1>1 DEF Begin, Bounded, Forward
  <2>3. ASSUME NEW v \in Workers PROVE Carried(v)'
    <3>1. CASE v = w
      <4>1. step'[v] = "opened" /\ task'[v] = t /\ seen'[v] = doc /\ read'[v] = row
        BY <1>1, <3>1 DEF Begin, TypeOK
      <4> QED BY <1>1, <4>1 DEF Carried, Bounded, Begin
    <3>2. CASE v # w
      <4>1. /\ step'[v] = step[v] /\ task'[v] = task[v] /\ seen'[v] = seen[v]
            /\ read'[v] = read[v] /\ write' = write /\ sales' = sales
        BY <1>1, <3>2 DEF Begin, TypeOK
      <4> QED BY <4>1 DEF Carried
    <3> QED BY <3>1, <3>2
  <2> QED BY <2>1, <2>2, <2>3
<1>2. ASSUME NEW closing \in MeterReadings, OpenSale(w, closing) PROVE Inv'
  <2> DEFINE t == [op |-> "sell", id |-> 0, closing |-> closing]
  <2>1. t \in Task /\ NoSale \in SaleDoc
    BY PostingsAssumption DEF Task, Ops, NoSale, SaleDoc
  <2>2. Begin(w, t, NoSale) /\ row.meter <= closing
    BY <1>2 DEF OpenSale, TypeOK, Row
  <2>3. t.op = "sell" /\ t.closing = closing
    OBVIOUS
  <2> HIDE DEF t
  <2> QED BY <1>1, <2>1, <2>2, <2>3
<1>3. ASSUME NEW i \in 1..Len(sales), OpenSaleReversal(w, i) PROVE Inv'
  <2> DEFINE t == [op |-> "reverse_sale", id |-> i, closing |-> 0]
  <2>1. t \in Task /\ sales[i] \in SaleDoc
    BY DEF Task, Ops, TypeOK
  <2>2. Begin(w, t, sales[i]) /\ sales[i].opening_meter <= sales[i].closing_meter
    BY <1>3 DEF OpenSaleReversal, Forward
  <2>3. t.op = "reverse_sale" /\ t.id = i
    OBVIOUS
  <2> HIDE DEF t
  <2> QED BY <1>1, <2>1, <2>2, <2>3
<1>4. ASSUME NEW i \in 1..Len(purchases), NEW op \in Ops \ {"sell", "reverse_sale"},
             OpenPurchase(w, op, i)
      PROVE  Inv'
  <2> DEFINE t == [op |-> op, id |-> i, closing |-> 0]
  <2>0. Len(purchases) = Len(Delivered) /\ Len(Delivered) \in Nat
    BY PostingsAssumption DEF TypeOK
  <2>1. t \in Task /\ purchases[i] \in PurchaseDoc /\ i \in 1..Len(Delivered)
    <3>1. t \in Task
      BY <2>0 DEF Task, TypeOK
    <3>2. purchases[i] \in PurchaseDoc
      BY DEF TypeOK
    <3> QED BY <2>0, <3>1, <3>2
  <2>2. Begin(w, t, purchases[i])
    BY <1>4 DEF OpenPurchase
  <2>3. t.op \notin {"sell", "reverse_sale"} /\ t.id = i
    OBVIOUS
  <2> HIDE DEF t
  <2> QED BY <1>1, <2>1, <2>2, <2>3
<1> QED BY <1>2, <1>3, <1>4 DEF Open

\* What a worker carries does not depend on what another one does.
LEMMA CarriedKept ==
  ASSUME NEW v \in Workers, Carried(v), TypeOK,
         step'[v] = step[v], task'[v] = task[v], seen'[v] = seen[v],
         read'[v] = read[v], write'[v] = write[v], Len(sales') >= Len(sales), Len(sales') \in Nat
  PROVE  Carried(v)'
BY DEF Carried, TypeOK

\* Checking: what is planned was checked to be in bounds.
LEMMA CheckInv ==
  ASSUME Inv, NEW w \in Workers, Check(w)
  PROVE  Inv'
<1> USE DEF Inv
<1>0. /\ row \in Row /\ row.volume \in 0..Capacity /\ row.payable \in Nat /\ row.meter \in Nat
      /\ Capacity \in Nat
      /\ read[w] \in Row /\ task[w] \in Task /\ Carried(w)
  BY PostingsAssumption DEF TypeOK, Bounded, Row
<1>1. ASSUME NEW now \in Row, NEW new \in Row, Plan(w, now, new),
             new.volume \in 0..Capacity, new.payable >= 0, new.meter \in Nat,
             task[w].op = "sell" => now.meter = read[w].meter
      PROVE  Inv'
  <2>1. TypeOK'
    BY <1>1 DEF Plan, TypeOK
  <2>2. (row.meter \in Nat)' /\ Bounded' /\ Forward'
    BY <1>1 DEF Plan, Bounded, Forward
  <2>3. ASSUME NEW v \in Workers PROVE Carried(v)'
    <3>1. CASE v = w
      <4>1. /\ step[v] = "opened" /\ step'[v] = "checked" /\ task'[v] = task[v]
            /\ seen'[v] = seen[v] /\ read'[v] = now /\ write'[v] = new /\ sales' = sales
        BY <1>1, <3>1 DEF Plan, TypeOK
      <4> QED BY <1>0, <1>1, <3>1, <4>1 DEF Carried
    <3>2. CASE v # w
      <4>1. /\ step'[v] = step[v] /\ task'[v] = task[v] /\ seen'[v] = seen[v]
            /\ read'[v] = read[v] /\ write'[v] = write[v] /\ sales' = sales
        BY <1>1, <3>2 DEF Plan, TypeOK
      <4>2. Len(sales) \in Nat
        BY DEF TypeOK
      <4> QED BY <4>1, <4>2, CarriedKept
    <3> QED BY <3>1, <3>2
  <2> QED BY <2>1, <2>2, <2>3
<1>2. CASE CheckSale(w)
  <2> DEFINE now == [read[w] EXCEPT !.volume = row.volume]
             q   == task[w].closing - now.meter
             new == [now EXCEPT !.meter = task[w].closing, !.volume = now.volume - q]
  <2>1. Plan(w, now, new) /\ q <= now.volume /\ task[w].op = "sell" /\ step[w] = "opened"
    BY <1>2 DEF CheckSale, Plan
  <2>2. now \in Row /\ now.meter = read[w].meter /\ now.volume = row.volume
    BY <1>0 DEF Row
  <2>3. q \in Nat /\ task[w].closing \in Nat
    <3>1. read[w].meter \in Nat /\ read[w].meter <= task[w].closing /\ task[w].closing \in Nat
      BY <1>0, <2>1 DEF Carried, Task
    <3> QED BY <2>2, <3>1
  <2>4. now.payable >= 0
    BY <1>0, <2>1 DEF Carried, Row
  <2> HIDE DEF now, q
  <2>5. new \in Row /\ new.volume \in 0..Capacity /\ new.payable >= 0 /\ new.meter \in Nat
    <3>1. now.volume - q \in 0..Capacity /\ now.volume \in Int
      BY <1>0, <2>1, <2>2, <2>3
    <3>2. now.volume - q \in Int /\ task[w].closing \in Int
      BY <2>3, <3>1
    <3>3. new = [now EXCEPT !.meter = task[w].closing, !.volume = now.volume - q]
      OBVIOUS
    <3> HIDE DEF new
    <3>4. /\ new \in Row /\ new.meter = task[w].closing /\ new.volume = now.volume - q
          /\ new.payable = now.payable
      BY <2>2, <3>2, <3>3 DEF Row
    <3> QED BY <2>3, <2>4, <3>1, <3>4
  <2> HIDE DEF new
  <2> QED BY <1>1, <2>1, <2>2, <2>5
<1>3. CASE CheckSaleReversal(w)
  <2> DEFINE q   == seen[w].closing_meter - seen[w].opening_meter
             new == [row EXCEPT !.meter = seen[w].opening_meter, !.volume = row.volume + q]
  <2>1. Plan(w, row, new) /\ row.volume + q <= Capacity /\ task[w].op = "reverse_sale"
        /\ step[w] = "opened"
    BY <1>3 DEF CheckSaleReversal, Plan
  <2>2. q \in Nat /\ seen[w].opening_meter \in Nat
    <3>1. seen[w] \in SaleDoc /\ seen[w].opening_meter <= seen[w].closing_meter
      BY <1>0, <2>1 DEF Carried
    <3> QED BY <3>1 DEF SaleDoc
  <2> HIDE DEF q
  <2>3. new \in Row /\ new.volume \in 0..Capacity /\ new.payable >= 0 /\ new.meter \in Nat
    <3>1. row.volume + q \in 0..Capacity
      BY <1>0, <2>1, <2>2
    <3>2. row.volume + q \in Int /\ seen[w].opening_meter \in Int
      BY <2>2, <3>1
    <3>3. new = [row EXCEPT !.meter = seen[w].opening_meter, !.volume = row.volume + q]
      OBVIOUS
    <3> HIDE DEF new
    <3>4. /\ new \in Row /\ new.meter = seen[w].opening_meter /\ new.volume = row.volume + q
          /\ new.payable = row.payable
      BY <1>0, <3>2, <3>3 DEF Row
    <3> QED BY <1>0, <2>2, <3>1, <3>4
  <2> HIDE DEF new
  <2> QED BY <1>0, <1>1, <2>1, <2>3
<1>4. CASE CheckApproval(w)
  <2> DEFINE q   == Delivered[task[w].id]
             new == [row EXCEPT !.volume = row.volume + q, !.payable = row.payable + q]
  <2>1. Plan(w, row, new) /\ row.volume + q <= Capacity /\ task[w].op = "approve"
        /\ step[w] = "opened"
    BY <1>4 DEF CheckApproval, Plan
  <2>2. q \in Nat
    <3>1. task[w].id \in 1..Len(Delivered)
      BY <1>0, <2>1 DEF Carried
    <3> QED BY <3>1, PostingsAssumption
  <2> HIDE DEF q
  <2>3. new \in Row /\ new.volume \in 0..Capacity /\ new.payable >= 0 /\ new.meter \in Nat
    <3>1. row.volume + q \in 0..Capacity /\ row.payable + q \in Nat
      BY <1>0, <2>1, <2>2
    <3>2. row.volume + q \in Int /\ row.payable + q \in Int
      BY <3>1
    <3>3. new = [row EXCEPT !.volume = row.volume + q, !.payable = row.payable + q]
      OBVIOUS
    <3> HIDE DEF new
    <3>4. /\ new \in Row /\ new.meter = row.meter /\ new.volume = row.volume + q
          /\ new.payable = row.payable + q
      BY <1>0, <3>2, <3>3 DEF Row
    <3> QED BY <1>0, <3>1, <3>4
  <2> HIDE DEF new
  <2> QED BY <1>0, <1>1, <2>1, <2>3
<1>5. CASE CheckReversal(w)
  <2> DEFINE q   == Delivered[task[w].id]
             new == Undelivered(row, q)
  <2>1. Plan(w, row, new) /\ MayUndoDelivery(row, q) /\ task[w].op = "reverse"
        /\ step[w] = "opened"
    BY <1>5 DEF CheckReversal, Plan
  <2>2. q \in Nat
    <3>1. task[w].id \in 1..Len(Delivered)
      BY <1>0, <2>1 DEF Carried
    <3> QED BY <3>1, PostingsAssumption
  <2> HIDE DEF q
  <2>3. new \in Row /\ new.volume \in 0..Capacity /\ new.payable >= 0 /\ new.meter \in Nat
    <3>1. row.volume - q \in 0..Capacity /\ row.payable - q \in Nat
      BY <1>0, <2>1, <2>2 DEF MayUndoDelivery
    <3>2. row.volume - q \in Int /\ row.payable - q \in Int
      BY <3>1
    <3>3. new = [row EXCEPT !.volume = row.volume - q, !.payable = row.payable - q]
      BY DEF Undelivered
    <3> HIDE DEF new
    <3>4. /\ new \in Row /\ new.meter = row.meter /\ new.volume = row.volume - q
          /\ new.payable = row.payable - q
      BY <1>0, <3>2, <3>3 DEF Row
    <3> QED BY <1>0, <3>1, <3>4
  <2> HIDE DEF new
  <2> QED BY <1>0, <1>1, <2>1, <2>3
<1> QED BY <1>2, <1>3, <1>4, <1>5 DEF Check

\* Committing: the columns written are the planned ones, the others keep theirs.
LEMMA CommitInv ==
  ASSUME Inv, NEW w \in Workers, Commit(w)
  PROVE  Inv'
<1> USE DEF Inv
<1>0. /\ row \in Row /\ row.volume \in 0..Capacity /\ row.payable >= 0 /\ row.meter \in Nat
      /\ read[w] \in Row /\ write[w] \in Row /\ task[w] \in Task /\ Carried(w)
      /\ Len(sales) \in Nat /\ stale \in BOOLEAN
  BY DEF TypeOK, Bounded
<1>1. ASSUME Close(w), TypeOK', (row.meter \in Nat)', Bounded', Forward',
             Len(sales') >= Len(sales)
      PROVE  Inv'
  <2>1. Len(sales') \in Nat
    BY <1>1 DEF TypeOK
  <2>2. ASSUME NEW v \in Workers PROVE Carried(v)'
    <3>1. CASE v = w
      <4>1. step'[v] = "idle"
        BY <1>1, <3>1 DEF Close, TypeOK
      <4> QED BY <4>1 DEF Carried
    <3>2. CASE v # w
      <4>1. /\ step'[v] = step[v] /\ task'[v] = task[v] /\ seen'[v] = seen[v]
            /\ read'[v] = read[v] /\ write'[v] = write[v]
        BY <1>1, <3>2 DEF Close, TypeOK
      <4> QED BY <1>1, <2>1, <4>1, CarriedKept
    <3> QED BY <3>1, <3>2
  <2> QED BY <1>1, <2>2
<1>2. ASSUME NEW now \in Row, NEW new \in Row, Store(w, now, new),
             new.volume \in 0..Capacity, new.payable >= 0, new.meter \in Nat
      PROVE  row' \in Row /\ (row.meter \in Nat)' /\ Bounded'
  <2>1. DOMAIN row = {"meter", "volume", "payable"}
    BY <1>0 DEF Row
  <2>2. row' = [k \in {"meter", "volume", "payable"} |->
                  IF new[k] # now[k] THEN new[k] ELSE row[k]]
    BY <1>2, <2>1 DEF Store
  <2>3. /\ row'.meter = IF new.meter # now.meter THEN new.meter ELSE row.meter
        /\ row'.volume = IF new.volume # now.volume THEN new.volume ELSE row.volume
        /\ row'.payable = IF new.payable # now.payable THEN new.payable ELSE row.payable
    BY <2>2
  <2>4. row'.meter \in Int /\ row'.volume \in Int /\ row'.payable \in Int
    BY <1>0, <1>2, <2>3 DEF Row
  <2>5. row' = [meter |-> row'.meter, volume |-> row'.volume, payable |-> row'.payable]
    BY <2>2
  <2>6. row' \in Row
    BY <2>4, <2>5 DEF Row
  <2> QED BY <1>0, <1>2, <2>3, <2>6 DEF Bounded
<1>3. ASSUME Close(w), row' \in Row, purchases' \in [1..Len(Delivered) -> PurchaseDoc],
             sales' \in Seq(SaleDoc), stale' \in BOOLEAN
      PROVE  TypeOK'
  <2>1. NoTask \in Task /\ NoSale \in SaleDoc /\ NoRow \in Row
    BY DEF NoTask, Task, Ops, NoSale, SaleDoc, NoRow, Row
  <2> QED BY <1>3, <2>1 DEF TypeOK, Close
<1>4. CASE CommitSale(w)
  <2>1. /\ step[w] = "checked" /\ task[w].op = "sell" /\ Store(w, read[w], write[w])
        /\ UNCHANGED purchases
        /\ sales' = Append(sales, [opening_meter |-> read[w].meter,
                                   closing_meter |-> task[w].closing, is_reversed |-> FALSE])
    BY <1>4 DEF CommitSale
  <2>2. read[w].meter \in Nat /\ task[w].closing \in Nat /\ read[w].meter <= task[w].closing
    BY <1>0, <2>1 DEF Carried, Task
  <2> DEFINE sale == [opening_meter |-> read[w].meter, closing_meter |-> task[w].closing,
                      is_reversed |-> FALSE]
  <2>3. sale \in SaleDoc /\ sale.opening_meter <= sale.closing_meter
    BY <2>2 DEF SaleDoc
  <2>4. sales \in Seq(SaleDoc) /\ sales' = Append(sales, sale)
    BY <2>1 DEF TypeOK
  <2> HIDE DEF sale
  <2>5. sales' \in Seq(SaleDoc) /\ Len(sales') >= Len(sales)
    BY <2>3, <2>4
  <2>6. Forward'
    BY <2>3, <2>4 DEF Forward
  <2>7. row' \in Row /\ (row.meter \in Nat)' /\ Bounded'
    BY <1>0, <1>2, <2>1 DEF Carried
  <2>8. stale' \in BOOLEAN
    BY <1>0, <1>4 DEF CommitSale, Outdated
  <2>9. Close(w)
    BY <2>1 DEF Store
  <2> QED BY <1>1, <1>3, <2>1, <2>5, <2>6, <2>7, <2>8, <2>9 DEF TypeOK
<1>5. CASE CommitSaleReversal(w)
  <2> DEFINE i == task[w].id
             sale == [sales[i] EXCEPT !.is_reversed = TRUE]
  <2>1. /\ step[w] = "checked" /\ task[w].op = "reverse_sale" /\ Store(w, read[w], write[w])
        /\ UNCHANGED purchases
        /\ sales' = [sales EXCEPT ![i] = sale]
    BY <1>5 DEF CommitSaleReversal
  <2>2. i \in 1..Len(sales)
    BY <1>0, <2>1 DEF Carried
  <2>3. /\ sale \in SaleDoc /\ sale.opening_meter = sales[i].opening_meter
        /\ sale.closing_meter = sales[i].closing_meter
    <3>1. sales[i] \in SaleDoc
      BY <2>2 DEF TypeOK
    <3> QED BY <3>1 DEF SaleDoc
  <2>4. sales \in Seq(SaleDoc)
    BY DEF TypeOK
  <2> HIDE DEF sale, i
  <2>5. sales' \in Seq(SaleDoc) /\ Len(sales') >= Len(sales)
    BY <1>0, <2>1, <2>2, <2>3, <2>4
  <2>6. Forward'
    BY <2>1, <2>2, <2>3, <2>4 DEF Forward
  <2>7. row' \in Row /\ (row.meter \in Nat)' /\ Bounded'
    BY <1>0, <1>2, <2>1 DEF Carried
  <2>8. stale' \in BOOLEAN
    BY <1>0, <1>5 DEF CommitSaleReversal, Outdated
  <2>9. Close(w)
    BY <2>1 DEF Store
  <2> QED BY <1>1, <1>3, <2>1, <2>5, <2>6, <2>7, <2>8, <2>9 DEF TypeOK
<1>6. ASSUME NEW now \in Row, NEW new \in Row, CommitPurchase(w, now, new),
             task[w].op \in Ops \ {"sell", "reverse_sale"}, step[w] # "idle",
             new.volume \in 0..Capacity, new.payable >= 0, new.meter \in Nat
      PROVE  Inv'
  <2> DEFINE i == task[w].id
  <2>1. i \in 1..Len(Delivered) /\ purchases[i] \in PurchaseDoc
    BY <1>0, <1>6 DEF Carried, TypeOK
  <2>2. Marked(task[w].op, purchases[i]) \in PurchaseDoc
    <3> DEFINE p == purchases[i]
    <3> HIDE DEF p, i
    <3>1. /\ [p EXCEPT !.status = "approved"] \in PurchaseDoc
          /\ [p EXCEPT !.status = "rejected"] \in PurchaseDoc
          /\ [p EXCEPT !.is_reversed = TRUE] \in PurchaseDoc
          /\ [p EXCEPT !.request = "pending"] \in PurchaseDoc
          /\ [p EXCEPT !.request = "approved", !.is_reversed = TRUE] \in PurchaseDoc
      BY <2>1 DEF p, PurchaseDoc
    <3> QED BY <1>6, <3>1 DEF p, Marked, Ops
  <2>3. purchases' = [purchases EXCEPT ![i] = Marked(task[w].op, purchases[i])]
    BY <1>6 DEF CommitPurchase
  <2>4. purchases' \in [1..Len(Delivered) -> PurchaseDoc]
    BY <2>1, <2>2, <2>3 DEF TypeOK
  <2>5. row' \in Row /\ (row.meter \in Nat)' /\ Bounded'
    BY <1>2, <1>6 DEF CommitPurchase
  <2>6. stale' \in BOOLEAN /\ UNCHANGED sales /\ Close(w)
    BY <1>0, <1>6 DEF CommitPurchase, Outdated, Store
  <2>7. Forward'
    BY <2>6 DEF Forward
  <2> QED BY <1>0, <1>1, <1>3, <2>4, <2>5, <2>6, <2>7 DEF TypeOK
<1>7. CASE CommitEffects(w)
  BY <1>0, <1>6, <1>7 DEF CommitEffects, Carried, Ops
<1>8. CASE CommitMark(w)
  BY <1>0, <1>6, <1>8 DEF CommitMark, Carried, Ops
<1>9. CASE CommitApprovedReversal(w)
  <2> DEFINE q   == Delivered[task[w].id]
             now == [read[w] EXCEPT !.payable = row.payable]
             new == Undelivered(now, q)
  <2>1. /\ step[w] = "opened" /\ task[w].op = "approve_reversal" /\ MayUndoDelivery(now, q)
        /\ CommitPurchase(w, now, new)
    BY <1>9 DEF CommitApprovedReversal
  <2>2. q \in Nat
    <3>1. task[w].id \in 1..Len(Delivered)
      BY <1>0, <2>1 DEF Carried
    <3> QED BY <3>1, PostingsAssumption
  <2>3. now \in Row /\ now.volume \in 0..Capacity /\ now.meter \in Nat /\ now.payable >= 0
    BY <1>0, <2>1 DEF Row, Carried
  <2> HIDE DEF q, now
  <2>4. new \in Row /\ new.volume \in 0..Capacity /\ new.payable >= 0 /\ new.meter \in Nat
    <3>1. now.volume - q \in 0..Capacity /\ now.payable - q \in Nat
      <4>1. now.payable \in Int
        BY <2>3 DEF Row
      <4> QED BY <2>1, <2>2, <2>3, <4>1, PostingsAssumption DEF MayUndoDelivery
    <3>2. now.volume - q \in Int /\ now.payable - q \in Int
      BY <3>1
    <3>3. new = [now EXCEPT !.volume = now.volume - q, !.payable = now.payable - q]
      BY DEF Undelivered
    <3> HIDE DEF new
    <3>4. /\ new \in Row /\ new.meter = now.meter /\ new.volume = now.volume - q
          /\ new.payable = now.payable - q
      BY <2>3, <3>2, <3>3 DEF Row
    <3> QED BY <2>3, <3>1, <3>4
  <2> HIDE DEF new
  <2> QED BY <1>6, <2>1, <2>3, <2>4 DEF Ops
<1> QED BY <1>4, <1>5, <1>7, <1>8, <1>9 DEF Commit

\* A rollback only forgets.
LEMMA AbandonInv ==
  ASSUME Inv, NEW w \in Workers, Abandon(w)
  PROVE  Inv'
<1> USE DEF Inv
<1>1. NoTask \in Task /\ NoSale \in SaleDoc /\ NoRow \in Row
  BY DEF NoTask, Task, Ops, NoSale, SaleDoc, NoRow, Row
<1>2. TypeOK' /\ (row.meter \in Nat)' /\ Bounded' /\ Forward'
  BY <1>1 DEF Abandon, Close, TypeOK, Bounded, Forward
<1>3. ASSUME NEW v \in Workers PROVE Carried(v)'
  <2>1. CASE v = w
    <3>1. step'[v] = "idle"
      BY <2>1 DEF Abandon, Close, TypeOK
    <3> QED BY <3>1 DEF Carried
  <2>2. CASE v # w
    <3>1. /\ step'[v] = step[v] /\ task'[v] = task[v] /\ seen'[v] = seen[v]
          /\ read'[v] = read[v] /\ write'[v] = write[v] /\ sales' = sales /\ Len(sales) \in Nat
      BY <2>2 DEF Abandon, Close, TypeOK
    <3> QED BY <3>1, CarriedKept
  <2> QED BY <2>1, <2>2
<1> QED BY <1>2, <1>3

\* Every step keeps the inductive invariant.
LEMMA InvStep ==
  ASSUME Inv, [Next]_vars
  PROVE  Inv'
<1>1. CASE UNCHANGED vars
  <2>1. UNCHANGED <<row, purchases, sales, step, task, seen, read, write, stale>>
    BY <1>1 DEF vars, workerVars
  <2>2. \A w \in Workers : Carried(w) => Carried(w)'
    BY <2>1 DEF Carried
  <2> QED BY <2>1, <2>2 DEF Inv, TypeOK, Bounded, Forward
<1> QED BY <1>1, OpenInv, CheckInv, CommitInv, AbandonInv DEF Next

\* However many requests overlap and however outdated their reads are, the tank
\* stays between empty and full and the supplier is never owed less than nothing.
THEOREM AlwaysBounded == Spec => []Bounded
<1>1. Inv => Bounded
  BY DEF Inv
<1> QED BY <1>1, InitInv, InvStep, PTL DEF Spec

-----------------------------------------------------------------------------
\* What a request that has checked means to add to the tank: the litres of the
\* delivery it approves or of the sale it takes back, less those it sells or
\* whose delivery it undoes.
Effect(w) ==
  CASE task[w].op = "sell" -> read[w].meter - task[w].closing
    [] task[w].op = "reverse_sale" -> seen[w].closing_meter - seen[w].opening_meter
    [] task[w].op = "approve" -> Delivered[task[w].id]
    [] OTHER -> -Delivered[task[w].id]

\* A request still holds the document its handler accepted, and a checked one
\* the volume it read with its own litres added.
Planned(w) ==
  /\ step[w] # "idle" /\ task[w].op \notin {"sell", "reverse_sale"} =>
       Accepts(task[w].op, seen[w])
  /\ step[w] # "idle" /\ task[w].op = "reverse_sale" => ~seen[w].is_reversed
  /\ step[w] = "checked" => write[w].volume = read[w].volume + Effect(w)

\* Until something outdated is committed, only approved deliveries are reversed.
ReversedWereApproved ==
  \A i \in 1..Len(Delivered) : purchases[i].is_reversed => purchases[i].status = "approved"

\* The second inductive invariant.
StockInv ==
  /\ Inv
  /\ \A w \in Workers : Planned(w)
  /\ ~stale => StockAddsUp /\ ReversedWereApproved

\* A plan is a matter of its worker alone.
LEMMA PlannedKept ==
  ASSUME NEW v \in Workers, Planned(v),
         step'[v] = step[v], task'[v] = task[v], seen'[v] = seen[v],
         read'[v] = read[v], write'[v] = write[v]
  PROVE  Planned(v)'
BY DEF Planned, Effect

\* Opening a request: its handler accepted the document.
LEMMA OpenPlanned ==
  ASSUME StockInv, NEW w \in Workers, Open(w)
  PROVE  (\A v \in Workers : Planned(v)) ' /\ UNCHANGED <<row, purchases, sales, stale>>
<1>1. TypeOK /\ \A v \in Workers : Planned(v)
  BY DEF StockInv, Inv
<1>2. ASSUME NEW t, NEW doc, Begin(w, t, doc),
             t.op \notin {"sell", "reverse_sale"} => Accepts(t.op, doc),
             t.op = "reverse_sale" => ~doc.is_reversed
      PROVE  (\A v \in Workers : Planned(v)) ' /\ UNCHANGED <<row, purchases, sales, stale>>
  <2>1. ASSUME NEW v \in Workers PROVE Planned(v)'
    <3>1. CASE v = w
      <4>1. step'[v] = "opened" /\ task'[v] = t /\ seen'[v] = doc
        BY <1>1, <1>2, <3>1 DEF Begin, TypeOK
      <4> QED BY <1>2, <4>1 DEF Planned
    <3>2. CASE v # w
      <4>1. /\ step'[v] = step[v] /\ task'[v] = task[v] /\ seen'[v] = seen[v]
            /\ read'[v] = read[v] /\ write'[v] = write[v]
        BY <1>1, <1>2, <3>2 DEF Begin, TypeOK
      <4> QED BY <1>1, <4>1, PlannedKept
    <3> QED BY <3>1, <3>2
  <2> QED BY <1>2, <2>1 DEF Begin
<1>3. ASSUME NEW closing \in MeterReadings, OpenSale(w, closing)
      PROVE  (\A v \in Workers : Planned(v)) ' /\ UNCHANGED <<row, purchases, sales, stale>>
  <2> DEFINE t == [op |-> "sell", id |-> 0, closing |-> closing]
  <2>1. Begin(w, t, NoSale) /\ t.op = "sell"
    BY <1>3 DEF OpenSale
  <2> HIDE DEF t
  <2> QED BY <1>2, <2>1
<1>4. ASSUME NEW i \in 1..Len(sales), OpenSaleReversal(w, i)
      PROVE  (\A v \in Workers : Planned(v)) ' /\ UNCHANGED <<row, purchases, sales, stale>>
  <2> DEFINE t == [op |-> "reverse_sale", id |-> i, closing |-> 0]
  <2>1. Begin(w, t, sales[i]) /\ t.op = "reverse_sale" /\ ~sales[i].is_reversed
    BY <1>4 DEF OpenSaleReversal
  <2> HIDE DEF t
  <2> QED BY <1>2, <2>1
<1>5. ASSUME NEW i \in 1..Len(purchases), NEW op \in Ops \ {"sell", "reverse_sale"},
             OpenPurchase(w, op, i)
      PROVE  (\A v \in Workers : Planned(v)) ' /\ UNCHANGED <<row, purchases, sales, stale>>
  <2> DEFINE t == [op |-> op, id |-> i, closing |-> 0]
  <2>1. Begin(w, t, purchases[i]) /\ t.op = op /\ Accepts(op, purchases[i])
    BY <1>5 DEF OpenPurchase
  <2> HIDE DEF t
  <2> QED BY <1>2, <1>5, <2>1
<1> QED BY <1>3, <1>4, <1>5 DEF Open

\* Checking: the planned volume is the one just read, with the request's litres.
LEMMA CheckPlanned ==
  ASSUME StockInv, NEW w \in Workers, Check(w)
  PROVE  (\A v \in Workers : Planned(v)) ' /\ UNCHANGED <<row, purchases, sales, stale>>
<1>1. /\ TypeOK /\ (\A v \in Workers : Planned(v)) /\ Carried(w)
      /\ row \in Row /\ read[w] \in Row /\ task[w] \in Task
  BY DEF StockInv, Inv, TypeOK
<1>2. ASSUME NEW now, NEW new, Plan(w, now, new), NEW e,
             task[w].op = "sell" => e = now.meter - task[w].closing,
             task[w].op # "sell" => e = Effect(w),
             new.volume = now.volume + e
      PROVE  (\A v \in Workers : Planned(v)) ' /\ UNCHANGED <<row, purchases, sales, stale>>
  <2>1. ASSUME NEW v \in Workers PROVE Planned(v)'
    <3>1. CASE v = w
      <4>1. /\ step[v] = "opened" /\ step'[v] = "checked" /\ task'[v] = task[v]
            /\ seen'[v] = seen[v] /\ read'[v] = now /\ write'[v] = new
        BY <1>1, <1>2, <3>1 DEF Plan, TypeOK
      <4>2. Effect(v)' = e
        BY <1>2, <3>1, <4>1 DEF Effect
      <4> QED BY <1>1, <1>2, <3>1, <4>1, <4>2 DEF Planned
    <3>2. CASE v # w
      <4>1. /\ step'[v] = step[v] /\ task'[v] = task[v] /\ seen'[v] = seen[v]
            /\ read'[v] = read[v] /\ write'[v] = write[v]
        BY <1>1, <1>2, <3>2 DEF Plan, TypeOK
      <4> QED BY <1>1, <4>1, PlannedKept
    <3> QED BY <3>1, <3>2
  <2> QED BY <1>2, <2>1 DEF Plan
<1>3. CASE CheckSale(w)
  <2> DEFINE now == [read[w] EXCEPT !.volume = row.volume]
             q   == task[w].closing - now.meter
             new == [now EXCEPT !.meter = task[w].closing, !.volume = now.volume - q]
             e   == now.meter - task[w].closing
  <2>1. Plan(w, now, new) /\ task[w].op = "sell"
    BY <1>3 DEF CheckSale
  <2>2. now \in Row
    BY <1>1 DEF Row
  <2>3. now.meter \in Int /\ now.volume \in Int /\ task[w].closing \in Int
    BY <1>1, <2>2 DEF Row, Task
  <2>4. new.volume = now.volume - q
    BY <2>2 DEF Row
  <2> HIDE DEF now
  <2>5. now.volume - q = now.volume + e
    BY <2>3
  <2> HIDE DEF new, q, e
  <2> QED BY <1>2, <2>1, <2>4, <2>5 DEF e
<1>4. CASE CheckSaleReversal(w)
  <2> DEFINE q   == seen[w].closing_meter - seen[w].opening_meter
             new == [row EXCEPT !.meter = seen[w].opening_meter, !.volume = row.volume + q]
  <2>1. Plan(w, row, new) /\ task[w].op = "reverse_sale"
    BY <1>4 DEF CheckSaleReversal
  <2>2. new.volume = row.volume + q
    BY <1>1 DEF Row
  <2>3. q = Effect(w)
    BY <2>1 DEF Effect
  <2> HIDE DEF q, new
  <2> QED BY <1>2, <2>1, <2>2, <2>3
<1>5. CASE CheckApproval(w)
  <2> DEFINE q   == Delivered[task[w].id]
             new == [row EXCEPT !.volume = row.volume + q, !.payable = row.payable + q]
  <2>1. Plan(w, row, new) /\ task[w].op = "approve"
    BY <1>5 DEF CheckApproval
  <2>2. new.volume = row.volume + q
    BY <1>1 DEF Row
  <2>3. q = Effect(w)
    BY <2>1 DEF Effect
  <2> HIDE DEF q, new
  <2> QED BY <1>2, <2>1, <2>2, <2>3
<1>6. CASE CheckReversal(w)
  <2> DEFINE q   == Delivered[task[w].id]
             new == Undelivered(row, q)
             e   == -q
  <2>1. Plan(w, row, new) /\ task[w].op = "reverse" /\ step[w] = "opened"
    BY <1>6 DEF CheckReversal, Plan
  <2>2. new.volume = row.volume - q
    BY <1>1 DEF Undelivered, Row
  <2>3. e = Effect(w)
    BY <2>1 DEF Effect
  <2>4. q \in Int /\ row.volume \in Int
    <3>1. task[w].id \in 1..Len(Delivered)
      BY <1>1, <2>1 DEF Carried
    <3> QED BY <1>1, <3>1, PostingsAssumption DEF Row
  <2> HIDE DEF q, new
  <2>5. row.volume - q = row.volume + e
    BY <2>4
  <2> HIDE DEF e
  <2> QED BY <1>2, <2>1, <2>2, <2>3, <2>5
<1> QED BY <1>3, <1>4, <1>5, <1>6 DEF Check

-----------------------------------------------------------------------------
\* A commit that is not outdated moves the tank by what the request planned.
LEMMA FreshStore ==
  ASSUME Inv, NEW w, NEW now \in Row, NEW new \in Row, Store(w, now, new),
         NEW doc, NEW current, ~Outdated(now, new, doc, current)
  PROVE  doc = current /\ row'.volume = row.volume + (new.volume - now.volume)
<1>1. row \in Row /\ DOMAIN row = {"meter", "volume", "payable"}
  BY DEF Inv, TypeOK, Row
<1>2. doc = current /\ (new.volume # now.volume => row.volume = now.volume)
  BY <1>1 DEF Outdated
<1>3. row'.volume = IF new.volume # now.volume THEN new.volume ELSE row.volume
  BY <1>1 DEF Store
<1>4. row.volume \in Int /\ new.volume \in Int /\ now.volume \in Int
  BY <1>1 DEF Row
<1> QED BY <1>2, <1>3, <1>4

\* The columns that StockAddsUp totals.
SaleAmount == [s \in SaleDoc |-> IF s.is_reversed THEN 0 ELSE s.closing_meter - s.opening_meter]
Arrived == Total([i \in 1..Len(Delivered) |-> Delivery(i)])
Sold == Total(Amounts(sales, SaleAmount))

LEMMA SaleAmountType == SaleAmount \in [SaleDoc -> Int]
BY DEF SaleAmount, SaleDoc

\* StockAddsUp in those terms.
LEMMA StockForm ==
  sales \in Seq(SaleDoc) => (StockAddsUp <=> row.volume = OpeningStock + Arrived - Sold)
<1> HAVE sales \in Seq(SaleDoc)
<1>1. [i \in 1..Len(sales) |-> SaleOf(i)] = Amounts(sales, SaleAmount)
  BY DEF SaleOf, SaleAmount, Amounts
<1> QED BY <1>1 DEF StockAddsUp, Arrived, Sold

LEMMA StockTyped ==
  ASSUME TypeOK
  PROVE  /\ Arrived \in Int /\ Sold \in Int /\ row.volume \in Int /\ OpeningStock \in Int
         /\ [i \in 1..Len(Delivered) |-> Delivery(i)] \in Seq(Int)
<1>1. [i \in 1..Len(Delivered) |-> Delivery(i)] \in Seq(Int)
  BY PostingsAssumption DEF TypeOK, Delivery
<1>2. Arrived \in Int
  BY <1>1, TotalType DEF Arrived
<1>3. Sold \in Int
  BY SaleAmountType, AmountsTyped DEF Sold, TypeOK
<1> QED BY <1>1, <1>2, <1>3, PostingsAssumption DEF TypeOK, Row

\* When only purchase i changes, what arrived changes by its delivery.
LEMMA ArrivedChange ==
  ASSUME TypeOK, TypeOK', NEW i \in 1..Len(Delivered),
         \A k \in 1..Len(Delivered) : k # i => purchases'[k] = purchases[k]
  PROVE  /\ Arrived' = Arrived - Delivery(i) + Delivery(i)'
         /\ Delivery(i) \in Int /\ Delivery(i)' \in Int
<1> DEFINE v == [k \in 1..Len(Delivered) |-> Delivery(k)]
           u == [k \in 1..Len(Delivered) |-> Delivery(k)']
<1>1. Len(Delivered) \in Nat
  BY PostingsAssumption
<1>2. v \in Seq(Int) /\ u \in Seq(Int)
  BY PostingsAssumption DEF TypeOK, Delivery
<1>3. \A k \in 1..Len(Delivered) : k # i => u[k] = v[k]
  BY DEF Delivery
<1>4. Len(v) = Len(Delivered) /\ Len(u) = Len(Delivered) /\ v[i] = Delivery(i) /\ u[i] = Delivery(i)'
  BY <1>1
<1>5. Arrived = Total(v) /\ Arrived' = Total(u)
  BY DEF Arrived
<1>6. v[i] \in Int /\ u[i] \in Int
  BY <1>2, <1>4
<1> HIDE DEF v, u
<1>7. Total(u) = Total(v) - v[i] + u[i]
  BY <1>2, <1>3, <1>4, TotalChange
<1> QED BY <1>4, <1>5, <1>6, <1>7

\* A commit of a sale: the tank loses what the table of sales gains.
LEMMA CommitSaleStock ==
  ASSUME StockInv, NEW w \in Workers, CommitSale(w), TypeOK', ~stale'
  PROVE  StockAddsUp' /\ ReversedWereApproved'
<1> DEFINE sale == [opening_meter |-> read[w].meter, closing_meter |-> task[w].closing,
                    is_reversed |-> FALSE]
<1>1. /\ Inv /\ TypeOK /\ Planned(w) /\ Carried(w) /\ read[w] \in Row /\ write[w] \in Row
      /\ task[w] \in Task /\ stale \in BOOLEAN /\ sales \in Seq(SaleDoc)
  BY DEF StockInv, Inv, TypeOK
<1>2. /\ step[w] = "checked" /\ task[w].op = "sell" /\ Store(w, read[w], write[w])
      /\ sales' = Append(sales, sale) /\ purchases' = purchases
      /\ ~stale /\ ~Outdated(read[w], write[w], NoSale, NoSale)
  BY <1>1 DEF CommitSale
<1>3. sale \in SaleDoc
  BY <1>1, <1>2 DEF Carried, Task, SaleDoc
<1>4. SaleAmount[sale] = task[w].closing - read[w].meter
  BY <1>3 DEF SaleAmount
<1>5. write[w].volume = read[w].volume + (read[w].meter - task[w].closing)
  BY <1>1, <1>2 DEF Planned, Effect
<1>6. row'.volume = row.volume + (write[w].volume - read[w].volume)
  BY <1>1, <1>2, FreshStore
<1> HIDE DEF sale
<1>7. Sold' = Sold + SaleAmount[sale]
  BY <1>1, <1>2, <1>3, SaleAmountType, AmountsAppended DEF Sold
<1>8. Arrived' = Arrived
  BY <1>2 DEF Arrived, Delivery
<1>9. row.volume = OpeningStock + Arrived - Sold
  BY <1>1, <1>2, StockForm DEF StockInv
<1>10. /\ Arrived \in Int /\ Sold \in Int /\ row.volume \in Int /\ OpeningStock \in Int
       /\ read[w].volume \in Int /\ read[w].meter \in Int /\ task[w].closing \in Int
  BY <1>1, StockTyped DEF Row, Task
<1>11. (row.volume = OpeningStock + Arrived - Sold)'
  BY <1>4, <1>5, <1>6, <1>7, <1>8, <1>9, <1>10
<1>12. StockAddsUp'
  <2>1. (sales \in Seq(SaleDoc))'
    BY DEF TypeOK
  <2> QED BY <1>11, <2>1, StockForm, PTL
<1> QED BY <1>1, <1>2, <1>12 DEF StockInv, ReversedWereApproved

\* A commit of a sale's reversal: the tank gains what the table loses.
LEMMA CommitSaleReversalStock ==
  ASSUME StockInv, NEW w \in Workers, CommitSaleReversal(w), TypeOK', ~stale'
  PROVE  StockAddsUp' /\ ReversedWereApproved'
<1>0. PICK i : i = task[w].id
  OBVIOUS
<1> DEFINE sale == [sales[i] EXCEPT !.is_reversed = TRUE]
<1>1. /\ Inv /\ TypeOK /\ Planned(w) /\ Carried(w) /\ read[w] \in Row /\ write[w] \in Row
      /\ stale \in BOOLEAN /\ sales \in Seq(SaleDoc)
  BY DEF StockInv, Inv, TypeOK
<1>2. /\ step[w] = "checked" /\ task[w].op = "reverse_sale" /\ Store(w, read[w], write[w])
      /\ sales' = [sales EXCEPT ![i] = sale] /\ purchases' = purchases
      /\ ~stale /\ ~Outdated(read[w], write[w], seen[w], sales[i])
  BY <1>0, <1>1 DEF CommitSaleReversal
<1>3. i \in 1..Len(sales) /\ ~seen[w].is_reversed
  BY <1>0, <1>1, <1>2 DEF Carried, Planned
<1>4. seen[w] = sales[i] /\ row'.volume = row.volume + (write[w].volume - read[w].volume)
  BY <1>1, <1>2, FreshStore
<1>5. sales[i] \in SaleDoc /\ sale \in SaleDoc /\ sale.is_reversed
  <2>1. sales[i] \in SaleDoc
    BY <1>1, <1>3
  <2>2. ASSUME NEW s \in SaleDoc
        PROVE  [s EXCEPT !.is_reversed = TRUE] \in SaleDoc
               /\ [s EXCEPT !.is_reversed = TRUE].is_reversed
    BY DEF SaleDoc
  <2> QED BY <2>1, <2>2
<1>6. SaleAmount[sales[i]] = sales[i].closing_meter - sales[i].opening_meter /\ SaleAmount[sale] = 0
  <2> HIDE DEF sale
  <2> QED BY <1>3, <1>4, <1>5 DEF SaleAmount
<1>7. write[w].volume = read[w].volume + (sales[i].closing_meter - sales[i].opening_meter)
  BY <1>1, <1>2, <1>4 DEF Planned, Effect
<1> HIDE DEF sale
<1>8. Sold' = Sold - SaleAmount[sales[i]] + SaleAmount[sale]
  <2> DEFINE amount == SaleAmount
  <2>1. amount \in [SaleDoc -> Int] /\ sales \in Seq(SaleDoc) /\ i \in 1..Len(sales)
    BY <1>1, <1>3, SaleAmountType
  <2> HIDE DEF amount
  <2>2. ASSUME NEW s \in SaleDoc
        PROVE  /\ Total(Amounts([sales EXCEPT ![i] = s], amount))
                    = Total(Amounts(sales, amount)) - amount[sales[i]] + amount[s]
               /\ Total(Amounts(sales, amount)) \in Int
               /\ amount[sales[i]] \in Int /\ amount[s] \in Int
    BY <2>1, AmountsRewritten
  <2> QED BY <1>2, <1>5, <2>2 DEF Sold, amount
<1>9. Arrived' = Arrived
  BY <1>2 DEF Arrived, Delivery
<1>10. row.volume = OpeningStock + Arrived - Sold
  BY <1>1, <1>2, StockForm DEF StockInv
<1>11. /\ Arrived \in Int /\ Sold \in Int /\ row.volume \in Int /\ OpeningStock \in Int
       /\ read[w].volume \in Int /\ sales[i].closing_meter \in Int /\ sales[i].opening_meter \in Int
  <2>1. Arrived \in Int /\ Sold \in Int /\ row.volume \in Int /\ OpeningStock \in Int
    BY <1>1, StockTyped
  <2>2. read[w].volume \in Int
    BY <1>1 DEF Row
  <2>3. sales[i].closing_meter \in Int /\ sales[i].opening_meter \in Int
    BY <1>5 DEF SaleDoc
  <2> QED BY <2>1, <2>2, <2>3
<1>12. (row.volume = OpeningStock + Arrived - Sold)'
  BY <1>4, <1>6, <1>7, <1>8, <1>9, <1>10, <1>11
<1>13. StockAddsUp'
  <2>1. (sales \in Seq(SaleDoc))'
    BY DEF TypeOK
  <2> QED BY <1>12, <2>1, StockForm, PTL
<1> QED BY <1>1, <1>2, <1>13 DEF StockInv, ReversedWereApproved

\* What a decision makes of the purchase that its handler accepted: an approval
\* brings its delivery, a reversal takes it away, and the marks move nothing.
Counts(p) == p.status = "approved" /\ ~p.is_reversed

LEMMA MarkedCounts ==
  ASSUME NEW p \in PurchaseDoc, NEW op \in Ops \ {"sell", "reverse_sale"}, Accepts(op, p),
         p.is_reversed => p.status = "approved",
         op = "approve_reversal" => p.status = "approved"
  PROVE  LET q == Marked(op, p) IN
         /\ op = "approve" => ~Counts(p) /\ Counts(q)
         /\ op \in {"reverse", "approve_reversal"} => Counts(p) /\ ~Counts(q)
         /\ op \in {"reject", "request"} => (Counts(q) <=> Counts(p))
         /\ q.is_reversed => q.status = "approved"
<1>1. op \in {"approve", "reject", "reverse", "request", "approve_reversal"}
  BY DEF Ops
<1>2. CASE op = "approve"
  BY <1>2 DEF Accepts, Marked, Counts, PurchaseDoc
<1>3. CASE op = "reject"
  BY <1>3 DEF Accepts, Marked, Counts, PurchaseDoc
<1>4. CASE op = "reverse"
  BY <1>4 DEF Accepts, Marked, Counts, PurchaseDoc
<1>5. CASE op = "request"
  BY <1>5 DEF Accepts, Marked, Counts, PurchaseDoc
<1>6. CASE op = "approve_reversal"
  BY <1>6 DEF Accepts, Marked, Counts, PurchaseDoc
<1> QED BY <1>1, <1>2, <1>3, <1>4, <1>5, <1>6

\* A commit on a purchase: the tank moves with what the purchase counts for.
LEMMA CommitPurchaseStock ==
  ASSUME StockInv, NEW w \in Workers, NEW now \in Row, NEW new \in Row,
         step[w] # "idle", task[w].op \in Ops \ {"sell", "reverse_sale"},
         CommitPurchase(w, now, new), TypeOK', ~stale',
         task[w].op = "approve_reversal" => seen[w].status = "approved",
         task[w].op = "approve" => new.volume = now.volume + Delivered[task[w].id],
         task[w].op \in {"reverse", "approve_reversal"} =>
            new.volume = now.volume - Delivered[task[w].id],
         task[w].op \in {"reject", "request"} => new.volume = now.volume
  PROVE  StockAddsUp' /\ ReversedWereApproved'
<1>0. PICK i : i = task[w].id
  OBVIOUS
<1> DEFINE p == purchases[i]
           q == Marked(task[w].op, p)
           d == Delivered[i]
<1>1. /\ Inv /\ TypeOK /\ Planned(w) /\ Carried(w) /\ stale \in BOOLEAN /\ sales \in Seq(SaleDoc)
  BY DEF StockInv, Inv, TypeOK
<1>2. /\ Store(w, now, new) /\ purchases' = [purchases EXCEPT ![i] = q] /\ sales' = sales
      /\ ~stale /\ ~Outdated(now, new, seen[w], p)
  BY <1>0, <1>1 DEF CommitPurchase
<1>3. i \in 1..Len(Delivered) /\ Accepts(task[w].op, seen[w])
  BY <1>0, <1>1 DEF Carried, Planned
<1>4. seen[w] = p /\ row'.volume = row.volume + (new.volume - now.volume)
  BY <1>1, <1>2, FreshStore
<1>5. p \in PurchaseDoc /\ (p.is_reversed => p.status = "approved") /\ d \in Nat
  BY <1>1, <1>2, <1>3, PostingsAssumption DEF TypeOK, StockInv, ReversedWereApproved
<1>6. purchases'[i] = q /\ \A k \in 1..Len(Delivered) : k # i => purchases'[k] = purchases[k]
  BY <1>1, <1>2, <1>3 DEF TypeOK
<1>7. Delivery(i) = (IF Counts(p) THEN d ELSE 0) /\ Delivery(i)' = (IF Counts(q) THEN d ELSE 0)
  <2>1. \A k \in 1..Len(Delivered) :
          /\ Delivery(k) = IF Counts(purchases[k]) THEN Delivered[k] ELSE 0
          /\ Delivery(k)' = IF Counts(purchases'[k]) THEN Delivered[k] ELSE 0
    BY DEF Delivery, Counts
  <2> HIDE DEF q
  <2> QED BY <1>3, <1>6, <2>1 DEF p, d
<1>8. /\ task[w].op = "approve" => ~Counts(p) /\ Counts(q)
      /\ task[w].op \in {"reverse", "approve_reversal"} => Counts(p) /\ ~Counts(q)
      /\ task[w].op \in {"reject", "request"} => (Counts(q) <=> Counts(p))
      /\ q.is_reversed => q.status = "approved"
  BY <1>3, <1>4, <1>5, MarkedCounts
<1> HIDE DEF p, q, d
<1>9. Arrived' = Arrived - Delivery(i) + Delivery(i)'
  <2>1. \A j \in 1..Len(Delivered) :
          (\A k \in 1..Len(Delivered) : k # j => purchases'[k] = purchases[k])
             => Arrived' = Arrived - Delivery(j) + Delivery(j)'
    BY <1>1, ArrivedChange
  <2> QED BY <1>3, <1>6, <2>1
<1>10. Sold' = Sold
  BY <1>2 DEF Sold
<1>11. row.volume = OpeningStock + Arrived - Sold
  BY <1>1, <1>2, StockForm DEF StockInv
<1>12. /\ Arrived \in Int /\ Sold \in Int /\ row.volume \in Int /\ OpeningStock \in Int
       /\ new.volume \in Int /\ now.volume \in Int
  BY <1>1, StockTyped DEF Row
<1>13. new.volume - now.volume = Delivery(i)' - Delivery(i)
  <2>1. task[w].op = "approve" => new.volume - now.volume = d
    BY <1>0, <1>5, <1>12 DEF d
  <2>2. task[w].op \in {"reverse", "approve_reversal"} => new.volume - now.volume = 0 - d
    BY <1>0, <1>5, <1>12 DEF d
  <2>3. task[w].op \in {"reject", "request"} => new.volume - now.volume = 0
    BY <1>12
  <2>4. task[w].op \in {"approve", "reverse", "approve_reversal", "reject", "request"}
    BY DEF Ops
  <2> QED BY <1>5, <1>7, <1>8, <2>1, <2>2, <2>3, <2>4
<1>14. Delivery(i) \in Int /\ Delivery(i)' \in Int
  BY <1>5, <1>7
<1>15. (row.volume = OpeningStock + Arrived - Sold)'
  BY <1>4, <1>9, <1>10, <1>11, <1>12, <1>13, <1>14
<1>16. StockAddsUp'
  <2>1. (sales \in Seq(SaleDoc))'
    BY DEF TypeOK
  <2> QED BY <1>15, <2>1, StockForm, PTL
<1>17. ReversedWereApproved'
  BY <1>1, <1>2, <1>6, <1>8 DEF StockInv, ReversedWereApproved
<1> QED BY <1>16, <1>17

\* Every commit.
LEMMA CommitStock ==
  ASSUME StockInv, NEW w \in Workers, Commit(w), TypeOK', ~stale'
  PROVE  StockAddsUp' /\ ReversedWereApproved'
<1>1. /\ Planned(w) /\ Carried(w) /\ row \in Row /\ read[w] \in Row /\ write[w] \in Row
  BY DEF StockInv, Inv, TypeOK
<1>2. CASE CommitEffects(w)
  <2>1. /\ step[w] = "checked" /\ task[w].op \in {"approve", "reverse"}
        /\ CommitPurchase(w, read[w], write[w])
    BY <1>2 DEF CommitEffects
  <2>2. Delivered[task[w].id] \in Int /\ read[w].volume \in Int
    <3>1. task[w].id \in 1..Len(Delivered)
      BY <1>1, <2>1 DEF Carried
    <3>2. Delivered[task[w].id] \in Int
      BY <3>1, PostingsAssumption
    <3> QED BY <1>1, <3>2 DEF Row
  <2>3. write[w].volume = read[w].volume + Effect(w)
    BY <1>1, <2>1 DEF Planned
  <2>4. /\ task[w].op = "approve" => write[w].volume = read[w].volume + Delivered[task[w].id]
        /\ task[w].op = "reverse" => write[w].volume = read[w].volume - Delivered[task[w].id]
    BY <2>1, <2>2, <2>3 DEF Effect
  <2> QED BY <1>1, <2>1, <2>4, CommitPurchaseStock DEF Ops
<1>3. CASE CommitMark(w)
  <2>1. /\ step[w] = "opened" /\ task[w].op \in {"reject", "request"}
        /\ CommitPurchase(w, read[w], read[w])
    BY <1>3 DEF CommitMark
  <2> QED BY <1>1, <2>1, CommitPurchaseStock DEF Ops
<1>4. CASE CommitApprovedReversal(w)
  <2> DEFINE q   == Delivered[task[w].id]
             now == [read[w] EXCEPT !.payable = row.payable]
             new == Undelivered(now, q)
  <2>1. /\ step[w] = "opened" /\ task[w].op = "approve_reversal" /\ seen[w].status = "approved"
        /\ CommitPurchase(w, now, new)
    BY <1>4 DEF CommitApprovedReversal
  <2>2. q \in Int
    BY <1>1, <2>1, PostingsAssumption DEF Carried
  <2>3. now \in Row
    BY <1>1 DEF Row
  <2> HIDE DEF now
  <2>4. new \in Row /\ new.volume = now.volume - q
    <3>1. /\ new = [now EXCEPT !.volume = now.volume - q, !.payable = now.payable - q]
          /\ now.volume - q \in Int /\ now.payable - q \in Int
      BY <2>2, <2>3 DEF Undelivered, Row
    <3> HIDE DEF new, q
    <3> QED BY <2>3, <3>1 DEF Row
  <2> HIDE DEF new
  <2> QED BY <2>1, <2>3, <2>4, CommitPurchaseStock DEF Ops
<1> QED BY <1>2, <1>3, <1>4, CommitSaleStock, CommitSaleReversalStock DEF Commit

\* A request that ends has no plan.
LEMMA ClosePlanned ==
  ASSUME StockInv, NEW w \in Workers, Close(w)
  PROVE  (\A v \in Workers : Planned(v)) '
<1>1. TypeOK /\ \A v \in Workers : Planned(v)
  BY DEF StockInv, Inv
<1> SUFFICES ASSUME NEW v \in Workers PROVE Planned(v)'
  OBVIOUS
<1>2. CASE v = w
  <2>1. step'[v] = "idle"
    BY <1>1, <1>2 DEF Close, TypeOK
  <2> QED BY <2>1 DEF Planned
<1>3. CASE v # w
  <2>1. /\ step'[v] = step[v] /\ task'[v] = task[v] /\ seen'[v] = seen[v]
        /\ read'[v] = read[v] /\ write'[v] = write[v]
    BY <1>1, <1>3 DEF Close, TypeOK
  <2> QED BY <1>1, <2>1, PlannedKept
<1> QED BY <1>2, <1>3

\* Steps that leave the tables alone keep what is said of them.
LEMMA StockKept ==
  ASSUME StockInv, UNCHANGED <<row, purchases, sales, stale>>
  PROVE  (~stale => StockAddsUp /\ ReversedWereApproved)'
BY DEF StockInv, StockAddsUp, ReversedWereApproved, Delivery, SaleOf

\* As long as no request committed what it computed from outdated columns or an
\* outdated document, the tank holds its opening stock plus the purchases that
\* count minus the standing sales, however the requests overlapped.
THEOREM OnlyOutdatedCommitsLose == Spec => []OnlyStaleReadsLose
<1>1. Init => StockInv
  <2> SUFFICES ASSUME Init PROVE StockInv
    OBVIOUS
  <2>1. Inv
    BY InitInv
  <2>2. (\A w \in Workers : Planned(w)) /\ ReversedWereApproved
    BY DEF Init, Planned, ReversedWereApproved
  <2>3. Arrived = 0
    <3> DEFINE v == [i \in 1..Len(Delivered) |-> Delivery(i)]
    <3>1. v \in Seq(Int) /\ \A k \in 1..Len(v) : v[k] = 0
      BY PostingsAssumption DEF Init, Delivery
    <3> HIDE DEF v
    <3>2. Total(v) = 0
      BY <3>1, TotalZero
    <3> QED BY <3>2 DEF Arrived, v
  <2>4. Sold = 0
    <3>1. sales \in Seq(SaleDoc) /\ Len(sales) = 0
      BY DEF Init
    <3> QED BY <3>1, SaleAmountType, AmountsEmpty DEF Sold
  <2>5. row.volume = OpeningStock /\ OpeningStock \in Int /\ sales \in Seq(SaleDoc)
    BY PostingsAssumption DEF Init
  <2>6. StockAddsUp
    BY <2>3, <2>4, <2>5, StockForm
  <2> QED BY <2>1, <2>2, <2>6 DEF StockInv
<1>2. StockInv /\ [Next]_vars => StockInv'
  <2> SUFFICES ASSUME StockInv, [Next]_vars PROVE StockInv'
    OBVIOUS
  <2>1. Inv' /\ TypeOK'
    <3>1. Inv'
      BY InvStep DEF StockInv
    <3> QED BY <3>1 DEF Inv
  <2>2. ASSUME (\A v \in Workers : Planned(v)) ', UNCHANGED <<row, purchases, sales, stale>>
        PROVE  StockInv'
    BY <2>1, <2>2, StockKept DEF StockInv
  <2>3. CASE UNCHANGED vars
    <3>1. UNCHANGED <<row, purchases, sales, step, task, seen, read, write, stale>>
      BY <2>3 DEF vars, workerVars
    <3>2. (\A v \in Workers : Planned(v)) '
      BY <3>1, PlannedKept DEF StockInv
    <3> QED BY <2>2, <3>1, <3>2
  <2>4. ASSUME NEW w \in Workers, Open(w) PROVE StockInv'
    BY <2>2, <2>4, OpenPlanned
  <2>5. ASSUME NEW w \in Workers, Check(w) PROVE StockInv'
    BY <2>2, <2>5, CheckPlanned
  <2>6. ASSUME NEW w \in Workers, Commit(w) PROVE StockInv'
    <3>1. Close(w)
      BY <2>6 DEF Commit, CommitSale, CommitSaleReversal, CommitEffects, CommitMark,
                  CommitApprovedReversal, CommitPurchase, Store
    <3>2. (\A v \in Workers : Planned(v)) '
      BY <3>1, ClosePlanned
    <3>3. ~stale' => StockAddsUp' /\ ReversedWereApproved'
      BY <2>1, <2>6, CommitStock
    <3> QED BY <2>1, <3>2, <3>3 DEF StockInv
  <2>7. ASSUME NEW w \in Workers, Abandon(w) PROVE StockInv'
    <3>1. Close(w) /\ UNCHANGED <<row, purchases, sales, stale>>
      BY <2>7 DEF Abandon
    <3>2. (\A v \in Workers : Planned(v)) '
      BY <3>1, ClosePlanned
    <3> QED BY <2>2, <3>1, <3>2
  <2> QED BY <2>3, <2>4, <2>5, <2>6, <2>7 DEF Next
<1>3. StockInv => OnlyStaleReadsLose
  BY DEF StockInv, OnlyStaleReadsLose
<1> QED BY <1>1, <1>2, <1>3, PTL DEF Spec

-----------------------------------------------------------------------------
(***************************************************************************)
(* Staff.                                                                  *)
(***************************************************************************)

\* A request that has made its checks: what it will insert was not there yet, or the run
\* it will finalize was a draft, unless it was overtaken since.
AttendanceRequest == [kind : {"attendance"}, row : AttendanceRecord, overtaken : BOOLEAN]

PayrollRequest ==
  [kind : {"payroll"}, station_id : Stations, period : Period, overtaken : BOOLEAN,
   salaries : UNION {[paid -> Salaries] : paid \in SUBSET Users}]

FinalizeRequest ==
  [kind : {"finalize"}, run : Nat, by : FinalizerStaff, overtaken : BOOLEAN]

UpToDate(r) ==
  /\ r \in AttendanceRequest \cup PayrollRequest \cup FinalizeRequest
  /\ r.kind = "attendance" /\ ~r.overtaken => ~Recorded(r.row)
  /\ r.kind = "payroll" /\ ~r.overtaken => ~RunExists(r.station_id, r.period)
  /\ r.kind = "finalize" => r.run \in 1..Len(payroll_runs)
  /\ r.kind = "finalize" /\ ~r.overtaken => payroll_runs[r.run].status # "finalized"

Requested ==
  /\ DOMAIN inflight = Threads
  /\ \A t \in Threads : inflight[t] # Idle => UpToDate(inflight[t])

Employed == staff \in [Users -> Employee] /\ today \in Days

\* Two records of a user, station and day: one of them by a request that was overtaken.
AttendanceKept ==
  /\ attendance \in Seq(AttendanceRecord)
  /\ \A i, j \in 1..Len(attendance) :
       i # j /\ SameRecord(attendance[i], attendance[j])
         => attendance[i].overtaken \/ attendance[j].overtaken

RunColumns ==
  {"station_id", "period", "lines", "status", "finalized_by_user_id", "total_gross_amount",
   "total_deductions", "total_net_amount", "overtaken"}

RunKept(run) ==
  /\ DOMAIN run = RunColumns
  /\ run.station_id \in Stations
  /\ run.period \in Period
  /\ run.status \in {"draft", "finalized"}
  /\ run.status = "finalized" <=> run.finalized_by_user_id # Nobody
  /\ DOMAIN run.lines \subseteq Users
  /\ run.overtaken \in BOOLEAN

LinePaid(line, days) ==
  /\ line.payable_days + line.absent_days = days
  /\ line.net_amount <= line.gross_amount
  /\ 30 * line.gross_amount <= line.monthly_salary * days

RunsKept ==
  /\ \E R : payroll_runs \in Seq(R)
  /\ \A i \in 1..Len(payroll_runs) :
       /\ RunKept(payroll_runs[i])
       /\ \A u \in DOMAIN payroll_runs[i].lines :
            RecordedOnce(u) => LinePaid(payroll_runs[i].lines[u], DateCount(payroll_runs[i].period))
  /\ \A i, j \in 1..Len(payroll_runs) :
       /\ i # j
       /\ payroll_runs[i].station_id = payroll_runs[j].station_id
       /\ payroll_runs[i].period = payroll_runs[j].period
       => payroll_runs[i].overtaken \/ payroll_runs[j].overtaken

\* What the checks of a request about a profile make sure of.
Fits(entry, moved) ==
  /\ entry.can_login => entry.linked_user_id # Nobody
  /\ entry.linked_user_id # Nobody /\ ~moved
       => staff[entry.linked_user_id].station_id = entry.station_id

ProfilesKept ==
  /\ DOMAIN profiles \subseteq Nat
  /\ profiles \in [DOMAIN profiles -> EmployeeProfile]
  /\ ProfilesFit

ProfileRequest ==
  [kind : {"create", "update", "delete"}, id : Nat, loaded : ProfileRow,
   row : ProfileRow, moved : BOOLEAN]

EditsKept ==
  /\ DOMAIN editing = Editors
  /\ \A e \in Editors : editing[e] # Idle =>
       /\ editing[e] \in ProfileRequest
       /\ editing[e].kind # "delete" => Fits(editing[e].row, editing[e].moved)

\* The inductive invariant.
StaffInv ==
  Employed /\ AttendanceKept /\ RunsKept /\ Requested /\ ProfilesKept /\ EditsKept

-----------------------------------------------------------------------------
\* A step leaves what a request has seen as it was.
Undisturbed(r) ==
  /\ r.kind = "attendance" => (Recorded(r.row)' => Recorded(r.row))
  /\ r.kind = "payroll" =>
       (RunExists(r.station_id, r.period)' => RunExists(r.station_id, r.period))
  /\ r.kind = "finalize" => (payroll_runs'[r.run].status = payroll_runs[r.run].status)

RunsGrow ==
  /\ Len(payroll_runs) \in Nat /\ Len(payroll_runs') \in Nat
  /\ Len(payroll_runs) <= Len(payroll_runs')

LEMMA UpToDateKept ==
  ASSUME NEW r, UpToDate(r), Undisturbed(r), RunsGrow
  PROVE  UpToDate(r)'
<1>1. r \in AttendanceRequest \cup PayrollRequest \cup FinalizeRequest
  BY DEF UpToDate
<1>2. r.kind = "attendance" /\ ~r.overtaken => ~Recorded(r.row)'
  BY DEF UpToDate, Undisturbed
<1>3. r.kind = "payroll" /\ ~r.overtaken => ~RunExists(r.station_id, r.period)'
  BY DEF UpToDate, Undisturbed
<1>4. r.kind = "finalize" =>
        /\ r.run \in 1..Len(payroll_runs')
        /\ ~r.overtaken => payroll_runs'[r.run].status # "finalized"
  <2>1. r.kind = "finalize" => r.run \in 1..Len(payroll_runs)
    BY DEF UpToDate
  <2>2. 1..Len(payroll_runs) \subseteq 1..Len(payroll_runs')
    BY DEF RunsGrow
  <2> QED BY <2>1, <2>2 DEF UpToDate, Undisturbed
<1> QED BY <1>1, <1>2, <1>3, <1>4 DEF UpToDate

\* A request that was overtaken only has to be one.
LEMMA OvertakenUpToDate ==
  ASSUME NEW r, UpToDate(r), RunsGrow
  PROVE  UpToDate([r EXCEPT !.overtaken = TRUE])'
<1>1. PICK x : x = [r EXCEPT !.overtaken = TRUE]
  OBVIOUS
<1>2. /\ x \in AttendanceRequest \cup PayrollRequest \cup FinalizeRequest
      /\ x.overtaken /\ x.kind = r.kind
      /\ r.kind = "finalize" => x.run = r.run
  <2>1. CASE r \in AttendanceRequest
    BY <1>1, <2>1 DEF AttendanceRequest
  <2>2. CASE r \in PayrollRequest
    BY <1>1, <2>2 DEF PayrollRequest
  <2>3. CASE r \in FinalizeRequest
    BY <1>1, <2>3 DEF FinalizeRequest
  <2> QED BY <2>1, <2>2, <2>3 DEF UpToDate
<1>3. r.kind = "finalize" => x.run \in 1..Len(payroll_runs')
  <2>1. r.kind = "finalize" => r.run \in 1..Len(payroll_runs)
    BY DEF UpToDate
  <2>2. 1..Len(payroll_runs) \subseteq 1..Len(payroll_runs')
    BY DEF RunsGrow
  <2> QED BY <1>2, <2>1, <2>2
<1>4. UpToDate(x)'
  BY <1>2, <1>3 DEF UpToDate
<1> QED BY <1>1, <1>4 DEF UpToDate

\* A request that makes its checks.
LEMMA TakenUp ==
  ASSUME RunsKept, Requested, NEW t \in Threads, NEW x, UpToDate(x),
         inflight' = [inflight EXCEPT ![t] = x], UNCHANGED <<attendance, payroll_runs>>
  PROVE  Requested'
<1>1. RunsGrow
  <2>1. PICK R : payroll_runs \in Seq(R)
    BY DEF RunsKept
  <2> QED BY <2>1 DEF RunsGrow
<1>2. ASSUME NEW r, UpToDate(r) PROVE UpToDate(r)'
  BY <1>1, <1>2, UpToDateKept DEF Recorded, RunExists, Undisturbed
<1>3. ASSUME NEW v \in Threads, (inflight[v] # Idle)' PROVE UpToDate(inflight[v])'
  <2>1. PICK r : r = inflight'[v]
    OBVIOUS
  <2>2. UpToDate(r)
    <3>1. CASE v = t
      BY <2>1, <3>1 DEF Requested
    <3>2. CASE v # t
      BY <1>3, <2>1, <3>2 DEF Requested
    <3> QED BY <3>1, <3>2
  <2> QED BY <1>2, <2>1, <2>2 DEF UpToDate
<1> QED BY <1>3 DEF Requested

\* A step that takes up no request and leaves what the others have seen.
LEMMA NoneTakenUp ==
  ASSUME RunsKept, Requested, UNCHANGED <<inflight, payroll_runs>>,
         \A entry \in AttendanceRecord : Recorded(entry)' => Recorded(entry)
  PROVE  Requested'
<1>1. RunsGrow
  <2>1. PICK R : payroll_runs \in Seq(R)
    BY DEF RunsKept
  <2> QED BY <2>1 DEF RunsGrow
<1>2. ASSUME NEW v \in Threads, (inflight[v] # Idle)' PROVE UpToDate(inflight[v])'
  <2>1. PICK r : r = inflight[v]
    OBVIOUS
  <2>2. UpToDate(r)
    BY <1>2, <2>1 DEF Requested
  <2>3. r.kind = "attendance" => r.row \in AttendanceRecord
    BY <2>2 DEF UpToDate, AttendanceRequest, PayrollRequest, FinalizeRequest
  <2>4. Undisturbed(r)
    BY <2>3 DEF Undisturbed, RunExists
  <2>5. UpToDate(r)'
    BY <1>1, <2>2, <2>4, UpToDateKept
  <2> QED BY <2>1, <2>5 DEF UpToDate
<1> QED BY <1>2 DEF Requested

\* A request that commits: whoever is not overtaken by it has still seen what there is.
LEMMA OthersOvertaken ==
  ASSUME Requested, RunsGrow, NEW t \in Threads, NEW others,
         others \subseteq OfSameKind(t), inflight' = Answered(t, others),
         \A v \in Threads \ {t} : \A r :
           r = inflight[v] /\ r # Idle /\ UpToDate(r) => v \in others \/ Undisturbed(r)
  PROVE  Requested'
<1>1. ASSUME NEW v \in Threads, (inflight[v] # Idle)'
      PROVE  UpToDate(inflight[v])'
  <2>0. inflight[v] # Idle /\ v # t
    BY <1>1 DEF Answered, OfSameKind
  <2>1. PICK r, x : r = inflight[v] /\ x = inflight'[v]
    OBVIOUS
  <2>2. UpToDate(r)
    BY <2>0, <2>1 DEF Requested
  <2>3. CASE v \in others
    <3>1. x = [r EXCEPT !.overtaken = TRUE]
      BY <2>0, <2>1, <2>3 DEF Answered
    <3>2. UpToDate([r EXCEPT !.overtaken = TRUE])'
      BY <2>2, OvertakenUpToDate
    <3> QED BY <2>1, <3>1, <3>2 DEF UpToDate
  <2>4. CASE v \notin others
    <3>1. x = r
      BY <2>0, <2>1, <2>4 DEF Answered
    <3>2. UpToDate(r)'
      BY <2>0, <2>1, <2>2, <2>4, UpToDateKept
    <3> QED BY <2>1, <3>1, <3>2 DEF UpToDate
  <2> QED BY <2>3, <2>4
<1>2. DOMAIN inflight' = Threads
  BY DEF Answered
<1> QED BY <1>1, <1>2 DEF Requested

-----------------------------------------------------------------------------
\* The runs do not depend on the attendance that is recorded once they are made.
LEMMA RunsStay ==
  ASSUME RunsKept, UNCHANGED payroll_runs, \A u : RecordedOnce(u)' => RecordedOnce(u)
  PROVE  RunsKept'
BY DEF RunsKept

\* A record that is checked out or corrected is of the same user, station and day.
LEMMA RecordEdited ==
  ASSUME AttendanceKept, NEW i \in 1..Len(attendance), NEW entry \in AttendanceRecord,
         attendance' = [attendance EXCEPT ![i] = entry],
         SameRecord(entry, attendance[i]), entry.overtaken = attendance[i].overtaken
  PROVE  /\ AttendanceKept'
         /\ \A u : RecordedOnce(u)' => RecordedOnce(u)
         /\ \A other \in AttendanceRecord : Recorded(other)' => Recorded(other)
<1>1. attendance \in Seq(AttendanceRecord) /\ attendance[i] \in AttendanceRecord
  BY DEF AttendanceKept
<1>2. /\ attendance' \in Seq(AttendanceRecord) /\ Len(attendance') = Len(attendance)
      /\ attendance'[i] = entry
      /\ \A j \in 1..Len(attendance) : j # i => attendance'[j] = attendance[j]
  BY <1>1
<1>3. \A j \in 1..Len(attendance) :
        /\ attendance'[j].user_id = attendance[j].user_id
        /\ attendance'[j].station_id = attendance[j].station_id
        /\ attendance'[j].attendance_date = attendance[j].attendance_date
        /\ attendance'[j].overtaken = attendance[j].overtaken
  BY <1>2 DEF SameRecord
<1>4. AttendanceKept'
  BY <1>2, <1>3 DEF AttendanceKept, SameRecord
<1>5. \A u : RecordedOnce(u)' => RecordedOnce(u)
  BY <1>2, <1>3 DEF RecordedOnce
<1>6. \A other \in AttendanceRecord : Recorded(other)' => Recorded(other)
  BY <1>2, <1>3 DEF Recorded, SameRecord
<1> QED BY <1>4, <1>5, <1>6

\* A record that is inserted is another one of its day only if its request was overtaken.
LEMMA InsertRecordKept ==
  ASSUME StaffInv, NEW t \in Threads, InsertRecord(t), UNCHANGED payroll_runs
  PROVE  AttendanceKept' /\ RunsKept' /\ Requested'
<1>1. PICK r : r = inflight[t]
  OBVIOUS
<1> DEFINE others == {v \in OfSameKind(t) : SameRecord(inflight[v].row, inflight[t].row)}
<1>2. /\ UpToDate(r) /\ r.kind = "attendance" /\ inflight' = Answered(t, others)
      /\ attendance' = Append(attendance, [r.row EXCEPT !.overtaken = r.overtaken])
      /\ UNCHANGED <<staff, today>>
  BY <1>1 DEF InsertRecord, StaffInv, Requested
<1>3. PICK entry : entry = [r.row EXCEPT !.overtaken = r.overtaken]
  OBVIOUS
<1>4. /\ entry \in AttendanceRecord /\ entry.overtaken = r.overtaken /\ SameRecord(entry, r.row)
      /\ ~entry.overtaken => ~Recorded(entry)
  <2>1. r \in AttendanceRequest
    BY <1>2 DEF UpToDate, PayrollRequest, FinalizeRequest
  <2>2. r.row \in AttendanceRecord /\ r.overtaken \in BOOLEAN
    BY <2>1 DEF AttendanceRequest
  <2>3. entry \in AttendanceRecord /\ entry.overtaken = r.overtaken /\ SameRecord(entry, r.row)
    BY <1>3, <2>2 DEF AttendanceRecord, SameRecord
  <2>4. Recorded(entry) => Recorded(r.row)
    BY <2>3 DEF Recorded, SameRecord
  <2> QED BY <1>2, <2>3, <2>4 DEF UpToDate
<1> DEFINE n == Len(attendance) + 1
<1>5. attendance \in Seq(AttendanceRecord) /\ Len(attendance) \in Nat
  BY DEF StaffInv, AttendanceKept
<1>6. /\ attendance' \in Seq(AttendanceRecord) /\ Len(attendance') = n /\ attendance'[n] = entry
      /\ \A j \in 1..Len(attendance) : attendance'[j] = attendance[j]
  BY <1>2, <1>3, <1>4, <1>5
<1>7. \A j \in 1..Len(attendance') : j = n \/ j \in 1..Len(attendance)
  BY <1>5, <1>6
<1>8. AttendanceKept'
  <2> SUFFICES ASSUME NEW i \in 1..Len(attendance'), NEW j \in 1..Len(attendance'), i # j,
                      SameRecord(attendance'[i], attendance'[j])
               PROVE  attendance'[i].overtaken \/ attendance'[j].overtaken
    BY <1>6 DEF AttendanceKept, SameRecord
  <2>1. \A k \in 1..Len(attendance) :
          SameRecord(attendance[k], entry) \/ SameRecord(entry, attendance[k]) => entry.overtaken
    BY <1>4 DEF Recorded, SameRecord
  <2>2. CASE i = n
    BY <1>6, <1>7, <2>1, <2>2
  <2>3. CASE j = n
    BY <1>6, <1>7, <2>1, <2>3
  <2>4. CASE i # n /\ j # n
    BY <1>6, <1>7, <2>4 DEF StaffInv, AttendanceKept
  <2> QED BY <2>2, <2>3, <2>4
<1>9. RunsKept'
  <2>1. \A u : RecordedOnce(u)' => RecordedOnce(u)
    BY <1>5, <1>6 DEF RecordedOnce
  <2> QED BY <2>1, RunsStay DEF StaffInv
<1>10. Requested'
  <2>1. RunsGrow
    <3>1. PICK R : payroll_runs \in Seq(R)
      BY DEF StaffInv, RunsKept
    <3> QED BY <3>1 DEF RunsGrow
  <2>2. ASSUME NEW v \in Threads \ {t}, NEW x, x = inflight[v], x # Idle, UpToDate(x),
               v \notin others
        PROVE  Undisturbed(x)
    <3>1. x.kind = "attendance" => ~SameRecord(x.row, r.row)
      BY <1>1, <1>2, <2>2 DEF OfSameKind
    <3>2. x.kind = "attendance" /\ Recorded(x.row)' => Recorded(x.row)
      <4>1. x.kind = "attendance" => ~SameRecord(entry, x.row)
        BY <1>4, <3>1 DEF SameRecord
      <4>2. Recorded(x.row)' =>
              SameRecord(entry, x.row) \/ \E j \in 1..Len(attendance) : SameRecord(attendance[j], x.row)
        BY <1>6, <1>7 DEF Recorded, SameRecord
      <4> QED BY <4>1, <4>2 DEF Recorded
    <3> QED BY <3>2 DEF Undisturbed, RunExists
  <2>3. others \subseteq OfSameKind(t)
    OBVIOUS
  <2> HIDE DEF others
  <2> QED BY <1>2, <2>1, <2>2, <2>3, OthersOvertaken DEF StaffInv
<1> QED BY <1>8, <1>9, <1>10

-----------------------------------------------------------------------------
\* With one record a day, a user has no more records in a period than it has days.
LEMMA RecordsWithinPeriod ==
  ASSUME AttendanceKept, NEW u, NEW s, NEW p \in Period, RecordedOnce(u)
  PROVE  /\ DateCount(p) \in Nat
         /\ IsFiniteSet(RecordsOf(u, s, p))
         /\ Cardinality(RecordsOf(u, s, p)) <= DateCount(p)
<1> DEFINE S == RecordsOf(u, s, p)
           T == p.start..p.end
           f == [i \in S |-> attendance[i].attendance_date]
<1>1. p.start \in Nat /\ p.end \in Nat /\ p.start <= p.end
  <2>1. p.start \in Days /\ p.end \in Days /\ p.start <= p.end
    BY DEF Period
  <2>2. \A d \in Days : d \in Nat
    BY AttendanceAssumption DEF Days
  <2> QED BY <2>1, <2>2
<1>2. IsFiniteSet(T) /\ Cardinality(T) = DateCount(p) /\ DateCount(p) \in Nat
  <2>1. PICK a \in Int, b \in Int : a = p.start /\ b = p.end
    BY <1>1
  <2>2. IsFiniteSet(a..b) /\ Cardinality(a..b) = IF a > b THEN 0 ELSE b - a + 1
    BY FS_Interval
  <2>3. Cardinality(a..b) = b - a + 1 /\ b - a + 1 \in Nat
    BY <1>1, <2>1, <2>2
  <2> QED BY <2>1, <2>2, <2>3 DEF DateCount
<1>3. f \in Injection(S, T)
  <2>1. f \in [S -> T]
    BY DEF RecordsOf
  <2>2. ASSUME NEW i \in S, NEW j \in S, f[i] = f[j] PROVE i = j
    <3>1. /\ i \in 1..Len(attendance) /\ j \in 1..Len(attendance)
          /\ SameRecord(attendance[i], attendance[j])
      BY <2>2 DEF RecordsOf, SameRecord
    <3>2. ~attendance[i].overtaken /\ ~attendance[j].overtaken
      BY <3>1 DEF RecordedOnce, RecordsOf
    <3> QED BY <3>1, <3>2 DEF AttendanceKept
  <2> QED BY <2>1, <2>2 DEF Injection, IsInjective
<1>4. IsFiniteSet(S) /\ Cardinality(S) <= Cardinality(T)
  <2> HIDE DEF S, T, f
  <2> QED BY <1>2, <1>3, FS_Injection
<1> QED BY <1>2, <1>4

LEMMA DisjointUnion ==
  ASSUME NEW A, NEW B, IsFiniteSet(A), IsFiniteSet(B), A \cap B = {}
  PROVE  IsFiniteSet(A \cup B) /\ Cardinality(A \cup B) = Cardinality(A) + Cardinality(B)
<1>1. /\ IsFiniteSet(A \cup B)
      /\ Cardinality(A \cup B) = Cardinality(A) + Cardinality(B) - Cardinality(A \cap B)
  BY FS_Union
<1>2. Cardinality(A \cap B) = 0 /\ Cardinality(A) \in Nat /\ Cardinality(B) \in Nat
  BY FS_EmptySet, FS_CardinalityType
<1> QED BY <1>1, <1>2

\* ... however they are split by status.
LEMMA DaysWithinPeriod ==
  ASSUME AttendanceKept, NEW u, NEW s, NEW p \in Period, RecordedOnce(u)
  PROVE  /\ DateCount(p) \in Nat
         /\ DaysWith(u, s, p, "present") \in Nat
         /\ DaysWith(u, s, p, "leave") \in Nat
         /\ DaysWith(u, s, p, "half_day") \in Nat
         /\ DaysWith(u, s, p, "present") + DaysWith(u, s, p, "leave")
              + DaysWith(u, s, p, "half_day") <= DateCount(p)
<1> DEFINE S == RecordsOf(u, s, p)
           A == {i \in S : attendance[i].status = "present"}
           B == {i \in S : attendance[i].status = "leave"}
           C == {i \in S : attendance[i].status = "half_day"}
<1>1. DateCount(p) \in Nat /\ IsFiniteSet(S) /\ Cardinality(S) <= DateCount(p)
  BY RecordsWithinPeriod
<1>2. /\ A \subseteq S /\ B \subseteq S /\ C \subseteq S
      /\ A \cap B = {} /\ (A \cup B) \cap C = {}
  OBVIOUS
<1>3. /\ DaysWith(u, s, p, "present") = Cardinality(A)
      /\ DaysWith(u, s, p, "leave") = Cardinality(B)
      /\ DaysWith(u, s, p, "half_day") = Cardinality(C)
  BY DEF DaysWith
<1> HIDE DEF S, A, B, C
<1>4. IsFiniteSet(A) /\ IsFiniteSet(B) /\ IsFiniteSet(C)
  BY <1>1, <1>2, FS_Subset
<1>5. /\ Cardinality(A) \in Nat /\ Cardinality(B) \in Nat /\ Cardinality(C) \in Nat
      /\ Cardinality(S) \in Nat
  BY <1>1, <1>4, FS_CardinalityType
<1>6. IsFiniteSet(A \cup B) /\ Cardinality(A \cup B) = Cardinality(A) + Cardinality(B)
  BY <1>2, <1>4, DisjointUnion
<1>7. Cardinality((A \cup B) \cup C) = Cardinality(A) + Cardinality(B) + Cardinality(C)
  BY <1>2, <1>4, <1>6, DisjointUnion
<1>8. Cardinality((A \cup B) \cup C) <= Cardinality(S)
  <2>1. (A \cup B) \cup C \in SUBSET S
    BY <1>2
  <2> QED BY <1>1, <2>1, FS_Subset
<1> QED BY <1>1, <1>3, <1>5, <1>7, <1>8

\* Products of naturals, for the amounts of a line.
LEMMA ProductOfNaturals ==
  \A a, b \in Nat : a * b \in Nat
OBVIOUS

LEMMA ProductGrows ==
  ASSUME NEW a \in Nat, NEW b \in Nat, NEW c \in Nat, a <= b
  PROVE  c * a <= c * b
<1>1. PICK d \in Nat : b = a + d
  <2>1. b - a \in Nat /\ b = a + (b - a)
    OBVIOUS
  <2> QED BY <2>1
<1>2. c * b = c * a + c * d
  BY <1>1
<1>3. c * d \in Nat /\ c * a \in Nat
  BY ProductOfNaturals
<1> QED BY <1>2, <1>3

\* A line over days that fit the period pays for no more than the period.
LEMMA LineWithinPeriod ==
  ASSUME AttendanceKept, NEW u, NEW s, NEW p \in Period, RecordedOnce(u),
         NEW salary \in Salaries
  PROVE  LinePaid(PayrollLine(u, salary, s, p), DateCount(p))
<1> DEFINE present   == DaysWith(u, s, p, "present")
           leave     == DaysWith(u, s, p, "leave")
           half      == DaysWith(u, s, p, "half_day")
           days      == DateCount(p)
           payable   == present + leave + half
           absent    == AtLeastZero(days - payable)
           paid      == 2 * (present + leave) + half
           gross     == (salary * paid) \div 60
           deduction == (salary \div 30) * AtLeastZero(absent - leave)
           line      == PayrollLine(u, salary, s, p)
<1>1. /\ days \in Nat /\ present \in Nat /\ leave \in Nat /\ half \in Nat
      /\ payable <= days
  BY DaysWithinPeriod
<1>2. /\ line.monthly_salary = salary /\ line.payable_days = payable
      /\ line.absent_days = absent /\ line.gross_amount = gross
      /\ line.net_amount = AtLeastZero(gross - deduction)
  BY DEF PayrollLine
<1> HIDE DEF present, leave, half, days, line
<1>3. absent = days - payable /\ absent \in Nat /\ payable \in Nat
      /\ paid \in Nat /\ paid <= 2 * days
  BY <1>1 DEF AtLeastZero
<1> HIDE DEF absent, payable, paid
<1>4. PICK k \in Nat : salary = 60 * k
  <2>1. salary \in Nat /\ salary % 60 = 0
    BY AttendanceAssumption, PayrollAssumption
  <2>2. salary = 60 * (salary \div 60) /\ salary \div 60 \in Nat
    BY <2>1
  <2> QED BY <2>2
<1>5. gross = k * paid /\ gross \in Nat
  <2>1. PICK m \in Nat : m = k * paid
    BY <1>3, ProductOfNaturals
  <2>2. salary * paid = 60 * m
    BY <1>3, <1>4, <2>1
  <2>3. (60 * m) \div 60 = m
    OBVIOUS
  <2> QED BY <2>1, <2>2, <2>3
<1>6. deduction \in Nat
  <2>1. AtLeastZero(absent - leave) \in Nat
    BY <1>1, <1>3 DEF AtLeastZero
  <2>2. salary \div 30 \in Nat
    BY <1>4
  <2> QED BY <2>1, <2>2, ProductOfNaturals
<1> HIDE DEF gross, deduction
<1>7. line.net_amount <= line.gross_amount
  <2>1. AtLeastZero(gross - deduction) <= gross
    BY <1>5, <1>6 DEF AtLeastZero
  <2> QED BY <1>2, <2>1
<1>8. 30 * gross <= salary * days
  <2>1. k * paid <= k * (2 * days)
    BY <1>1, <1>3, ProductGrows
  <2>2. PICK m \in Nat : m = k * days
    BY <1>1, ProductOfNaturals
  <2>3. k * (2 * days) = 2 * m /\ salary * days = 60 * m
    BY <1>1, <1>4, <2>2
  <2> QED BY <1>5, <2>1, <2>2, <2>3
<1>9. line.payable_days + line.absent_days = days
  BY <1>1, <1>2, <1>3
<1> QED BY <1>2, <1>7, <1>8, <1>9 DEF LinePaid, line, days

-----------------------------------------------------------------------------
\* A run that is inserted is another one of its period only if its request was
\* overtaken, and pays within the period those who were recorded once a day.
LEMMA InsertRunKept ==
  ASSUME StaffInv, NEW t \in Threads, InsertRun(t)
  PROVE  RunsKept' /\ Requested'
<1>1. PICK r : r = inflight[t]
  OBVIOUS
<1>2. PICK run : run = Run(r)
  OBVIOUS
<1> DEFINE others == {v \in OfSameKind(t) : /\ inflight[v].station_id = inflight[t].station_id
                                            /\ inflight[v].period = inflight[t].period}
<1>3. /\ UpToDate(r) /\ r.kind = "payroll" /\ inflight' = Answered(t, others)
      /\ payroll_runs' = Append(payroll_runs, run) /\ UNCHANGED attendance
  BY <1>1, <1>2 DEF InsertRun, StaffInv, Requested
<1>4. /\ r.station_id \in Stations /\ r.period \in Period /\ r.overtaken \in BOOLEAN
      /\ DOMAIN r.salaries \subseteq Users
      /\ \A u \in DOMAIN r.salaries : r.salaries[u] \in Salaries
  <2>1. r \in PayrollRequest
    BY <1>3 DEF UpToDate, AttendanceRequest, FinalizeRequest
  <2> QED BY <2>1 DEF PayrollRequest
<1>5. /\ RunKept(run)
      /\ run.station_id = r.station_id /\ run.period = r.period /\ run.overtaken = r.overtaken
      /\ DOMAIN run.lines = DOMAIN r.salaries
      /\ \A u \in DOMAIN run.lines :
           run.lines[u] = PayrollLine(u, r.salaries[u], r.station_id, r.period)
  <2> DEFINE lines == [u \in DOMAIN r.salaries |->
                         PayrollLine(u, r.salaries[u], r.station_id, r.period)]
  <2>1. /\ DOMAIN run = RunColumns
        /\ run.station_id = r.station_id /\ run.period = r.period /\ run.overtaken = r.overtaken
        /\ run.status = "draft" /\ run.finalized_by_user_id = Nobody
        /\ run.lines = lines
    BY <1>2 DEF Run, RunColumns
  <2>2. RunKept(run)
    BY <1>4, <2>1 DEF RunKept
  <2> QED BY <2>1, <2>2
<1>6. AttendanceKept /\ RunsKept
  BY DEF StaffInv
<1>7. \A u \in DOMAIN run.lines : RecordedOnce(u) => LinePaid(run.lines[u], DateCount(run.period))
  BY <1>4, <1>5, <1>6, LineWithinPeriod
<1> DEFINE n == Len(payroll_runs) + 1
<1>8. /\ \E R : payroll_runs' \in Seq(R)
      /\ Len(payroll_runs) \in Nat /\ Len(payroll_runs') = n /\ payroll_runs'[n] = run
      /\ \A i \in 1..Len(payroll_runs) : payroll_runs'[i] = payroll_runs[i]
  <2>1. PICK R : payroll_runs \in Seq(R)
    BY <1>6 DEF RunsKept
  <2>2. payroll_runs \in Seq(R \cup {run}) /\ run \in R \cup {run}
    BY <2>1
  <2>3. payroll_runs' \in Seq(R \cup {run})
    BY <1>3, <2>2
  <2> QED BY <1>3, <2>2, <2>3
<1>9. \A i \in 1..Len(payroll_runs') : i = n \/ i \in 1..Len(payroll_runs)
  BY <1>8
<1>10. \A u : RecordedOnce(u)' <=> RecordedOnce(u)
  BY <1>3 DEF RecordedOnce
<1>11. \A i \in 1..Len(payroll_runs) :
         /\ payroll_runs[i].station_id = run.station_id
         /\ payroll_runs[i].period = run.period
         => run.overtaken
  BY <1>3, <1>5 DEF UpToDate, RunExists
<1>12. RunsKept'
  <2>1. \A i \in 1..Len(payroll_runs') :
          /\ RunKept(payroll_runs'[i])
          /\ \A u \in DOMAIN payroll_runs'[i].lines :
               RecordedOnce(u)' =>
                 LinePaid(payroll_runs'[i].lines[u], DateCount(payroll_runs'[i].period))
    BY <1>5, <1>6, <1>7, <1>8, <1>9, <1>10 DEF RunsKept
  <2>2. ASSUME NEW i \in 1..Len(payroll_runs'), NEW j \in 1..Len(payroll_runs'), i # j,
               payroll_runs'[i].station_id = payroll_runs'[j].station_id,
               payroll_runs'[i].period = payroll_runs'[j].period
        PROVE  payroll_runs'[i].overtaken \/ payroll_runs'[j].overtaken
    <3>1. CASE i = n
      BY <1>8, <1>9, <1>11, <2>2, <3>1
    <3>2. CASE j = n
      BY <1>8, <1>9, <1>11, <2>2, <3>2
    <3>3. CASE i # n /\ j # n
      BY <1>6, <1>8, <1>9, <2>2, <3>3 DEF RunsKept
    <3> QED BY <3>1, <3>2, <3>3
  <2> QED BY <1>8, <2>1, <2>2 DEF RunsKept, RunKept, LinePaid, DateCount
<1>13. Requested'
  <2>1. RunsGrow
    BY <1>8 DEF RunsGrow
  <2>2. ASSUME NEW v \in Threads \ {t}, NEW x, x = inflight[v], x # Idle, UpToDate(x),
               v \notin others
        PROVE  Undisturbed(x)
    <3>1. x.kind = "payroll" => ~(x.station_id = run.station_id /\ x.period = run.period)
      BY <1>1, <1>3, <1>5, <2>2 DEF OfSameKind
    <3>2. x.kind = "payroll" /\ RunExists(x.station_id, x.period)' =>
            RunExists(x.station_id, x.period)
      BY <1>8, <1>9, <3>1 DEF RunExists
    <3>3. x.kind = "finalize" => payroll_runs'[x.run].status = payroll_runs[x.run].status
      BY <1>8, <2>2 DEF UpToDate
    <3> QED BY <1>3, <3>2, <3>3 DEF Undisturbed, Recorded
  <2>3. others \subseteq OfSameKind(t)
    OBVIOUS
  <2> HIDE DEF others
  <2> QED BY <1>3, <2>1, <2>2, <2>3, OthersOvertaken DEF StaffInv
<1> QED BY <1>12, <1>13

\* Finalizing changes the status of a run and who finalized it, and a run that is not
\* a draft only by a request that was overtaken.
LEMMA FinalizeChanges ==
  ASSUME StaffInv, NEW t \in Threads, NEW r, r = inflight[t], FinalizePayrollRun(t)
  PROVE  /\ r # Idle /\ r.kind = "finalize" /\ r.by \in FinalizerStaff
         /\ r.run \in 1..Len(payroll_runs)
         /\ r.overtaken \/ payroll_runs[r.run].status = "draft"
         /\ payroll_runs' =
              [payroll_runs EXCEPT ![r.run] = Finalized(payroll_runs[r.run], r.by)]
         /\ UNCHANGED <<staff, today, attendance>>
<1>1. /\ r # Idle /\ r.kind = "finalize"
      /\ payroll_runs' = [payroll_runs EXCEPT ![r.run].status = "finalized",
                                              ![r.run].finalized_by_user_id = r.by]
      /\ UNCHANGED <<staff, today, attendance>>
  BY DEF FinalizePayrollRun
<1>2. UpToDate(r)
  BY <1>1 DEF StaffInv, Requested
<1>3. r.by \in FinalizerStaff /\ r.run \in 1..Len(payroll_runs)
  <2>1. r \in FinalizeRequest
    BY <1>1, <1>2 DEF UpToDate, AttendanceRequest, PayrollRequest
  <2> QED BY <1>1, <1>2, <2>1 DEF UpToDate, FinalizeRequest
<1>4. r.overtaken \/ payroll_runs[r.run].status = "draft"
  BY <1>1, <1>2, <1>3 DEF UpToDate, StaffInv, RunsKept, RunKept
<1>5. PICK R : payroll_runs \in Seq(R)
  BY DEF StaffInv, RunsKept
<1>6. r.run \in DOMAIN payroll_runs
  BY <1>3, <1>5
<1> QED BY <1>1, <1>3, <1>4, <1>6 DEF Finalized

LEMMA FinalizeKept ==
  ASSUME StaffInv, NEW t \in Threads, FinalizePayrollRun(t)
  PROVE  RunsKept' /\ Requested'
<1>1. PICK r : r = inflight[t]
  OBVIOUS
<1> DEFINE i      == r.run
           u      == r.by
           others == {v \in OfSameKind(t) : inflight[v].run = i}
<1>2. /\ r # Idle /\ r.kind = "finalize"
      /\ u \in FinalizerStaff /\ i \in 1..Len(payroll_runs)
      /\ payroll_runs' = [payroll_runs EXCEPT ![i] = Finalized(payroll_runs[i], u)]
      /\ UNCHANGED <<staff, today, attendance>>
  BY <1>1, FinalizeChanges
<1>3. PICK old, run : old = payroll_runs[i] /\ run = Finalized(old, u)
  OBVIOUS
<1>4. RunsKept /\ RunKept(old)
  BY <1>2, <1>3 DEF StaffInv, RunsKept
<1>5. /\ RunKept(run)
      /\ run.station_id = old.station_id /\ run.period = old.period
      /\ run.overtaken = old.overtaken /\ run.lines = old.lines
  <2>1. /\ DOMAIN run = RunColumns
        /\ run.status = "finalized" /\ run.finalized_by_user_id = u
        /\ run.station_id = old.station_id /\ run.period = old.period
        /\ run.overtaken = old.overtaken /\ run.lines = old.lines
    BY <1>3, <1>4 DEF Finalized, RunKept, RunColumns
  <2>2. u # Nobody
    BY <1>2, RolesAssumption DEF FinalizerStaff, WithRole
  <2> QED BY <1>4, <2>1, <2>2 DEF RunKept
<1>6. /\ \E R : payroll_runs' \in Seq(R)
      /\ Len(payroll_runs) \in Nat
      /\ Len(payroll_runs') = Len(payroll_runs) /\ payroll_runs'[i] = run
      /\ \A j \in 1..Len(payroll_runs) : j # i => payroll_runs'[j] = payroll_runs[j]
  <2>1. PICK R : payroll_runs \in Seq(R)
    BY <1>4 DEF RunsKept
  <2>2. payroll_runs \in Seq(R \cup {run}) /\ run \in R \cup {run}
    BY <2>1
  <2>3. payroll_runs' \in Seq(R \cup {run})
    BY <1>2, <1>3, <2>2
  <2> QED BY <1>2, <1>3, <2>2, <2>3
<1>7. \A j \in 1..Len(payroll_runs) :
        /\ RunKept(payroll_runs'[j])
        /\ payroll_runs'[j].station_id = payroll_runs[j].station_id
        /\ payroll_runs'[j].period = payroll_runs[j].period
        /\ payroll_runs'[j].overtaken = payroll_runs[j].overtaken
        /\ payroll_runs'[j].lines = payroll_runs[j].lines
  BY <1>3, <1>4, <1>5, <1>6 DEF RunsKept
<1>8. \A v : RecordedOnce(v)' <=> RecordedOnce(v)
  BY <1>2 DEF RecordedOnce
<1>9. RunsKept'
  <2>1. \A j \in 1..Len(payroll_runs') :
          /\ RunKept(payroll_runs'[j])
          /\ \A v \in DOMAIN payroll_runs'[j].lines :
               RecordedOnce(v)' =>
                 LinePaid(payroll_runs'[j].lines[v], DateCount(payroll_runs'[j].period))
    BY <1>4, <1>6, <1>7, <1>8 DEF RunsKept
  <2>2. ASSUME NEW j \in 1..Len(payroll_runs'), NEW k \in 1..Len(payroll_runs'), j # k,
               payroll_runs'[j].station_id = payroll_runs'[k].station_id,
               payroll_runs'[j].period = payroll_runs'[k].period
        PROVE  payroll_runs'[j].overtaken \/ payroll_runs'[k].overtaken
    BY <1>4, <1>6, <1>7, <2>2 DEF RunsKept
  <2> QED BY <1>6, <2>1, <2>2 DEF RunsKept, RunKept, LinePaid, DateCount
<1>10. Requested'
  <2>1. RunsGrow
    BY <1>6 DEF RunsGrow
  <2>2. ASSUME NEW v \in Threads \ {t}, NEW x, x = inflight[v], x # Idle, UpToDate(x),
               v \notin others
        PROVE  Undisturbed(x)
    <3>1. x.kind = "finalize" => x.run # i
      BY <1>1, <1>2, <2>2 DEF OfSameKind
    <3>2. x.kind = "finalize" => payroll_runs'[x.run].status = payroll_runs[x.run].status
      BY <1>6, <2>2, <3>1 DEF UpToDate
    <3>3. RunExists(x.station_id, x.period)' => RunExists(x.station_id, x.period)
      BY <1>6, <1>7 DEF RunExists
    <3> QED BY <1>2, <3>2, <3>3 DEF Undisturbed, Recorded
  <2>3. others \subseteq OfSameKind(t) /\ inflight' = Answered(t, others)
    BY <1>1 DEF FinalizePayrollRun
  <2> HIDE DEF others
  <2> QED BY <1>2, <2>1, <2>2, <2>3, OthersOvertaken DEF StaffInv
<1> QED BY <1>9, <1>10

-----------------------------------------------------------------------------
\* Rows are checked against the station of their user, as long as it is not moved.
LEMMA FitsMoved ==
  ASSUME NEW entry \in ProfileRow, NEW moved \in BOOLEAN, Fits(entry, moved)
  PROVE  /\ Fits(entry, TRUE)'
         /\ ~LeftBehind(entry) => Fits(entry, moved)'
<1>1. entry.linked_user_id \in Users \cup {Nobody}
  BY DEF ProfileRow
<1> QED BY <1>1 DEF Fits, LeftBehind, Left

\* A profile whose user is moved says so; the others fit as they did.
LEMMA ProfilesMoved ==
  ASSUME ProfilesKept, ProfilesLeftBehind
  PROVE  ProfilesKept'
<1>1. ASSUME NEW p \in DOMAIN profiles
      PROVE  /\ profiles'[p] \in EmployeeProfile
             /\ profiles'[p].row = profiles[p].row
             /\ profiles'[p].overtaken = profiles[p].overtaken
             /\ profiles'[p].overtaken \/ Fits(profiles[p].row, profiles[p].moved)'
  <2>1. PICK old, new : old = profiles[p] /\ new = profiles'[p]
    OBVIOUS
  <2>2. /\ old \in EmployeeProfile
        /\ old.row \in ProfileRow /\ old.moved \in BOOLEAN
        /\ old.overtaken \/ Fits(old.row, old.moved)
    BY <2>1 DEF ProfilesKept, ProfilesFit, EmployeeProfile, Fits
  <2>3. CASE LeftBehind(old.row)
    <3>1. new = [old EXCEPT !.moved = TRUE]
      BY <2>1, <2>3 DEF ProfilesLeftBehind
    <3>2. /\ new \in EmployeeProfile
          /\ new.row = old.row /\ new.overtaken = old.overtaken /\ new.moved
      BY <2>2, <3>1 DEF EmployeeProfile
    <3>3. new.overtaken \/ Fits(new.row, new.moved)'
      BY <2>2, <3>2, FitsMoved DEF Fits
    <3> QED BY <2>1, <3>2, <3>3 DEF Fits
  <2>4. CASE ~LeftBehind(old.row)
    <3>1. new = old
      BY <2>1, <2>4 DEF ProfilesLeftBehind
    <3>2. new.overtaken \/ Fits(new.row, new.moved)'
      BY <2>2, <2>4, <3>1, FitsMoved
    <3> QED BY <2>1, <2>2, <3>1, <3>2 DEF Fits
  <2> QED BY <2>3, <2>4
<1>2. DOMAIN profiles' = DOMAIN profiles
  BY DEF ProfilesLeftBehind
<1>3. profiles' \in [DOMAIN profiles' -> EmployeeProfile]
  BY <1>1, <1>2 DEF ProfilesLeftBehind
<1>4. ProfilesFit'
  BY <1>1, <1>2 DEF ProfilesKept, ProfilesFit, Fits
<1> QED BY <1>2, <1>3, <1>4 DEF ProfilesKept

\* A request in flight whose user is moved says so, too.
LEMMA EditsMoved ==
  ASSUME EditsKept, ProfilesLeftBehind
  PROVE  EditsKept'
<1>1. ASSUME NEW e \in Editors, editing'[e] # Idle
      PROVE  /\ editing'[e] \in ProfileRequest
             /\ editing'[e].kind # "delete" => Fits(editing[e].row, editing[e].moved)'
  <2>1. PICK r, x : r = editing[e] /\ x = editing'[e]
    OBVIOUS
  <2>2. r # Idle
    BY <1>1, <2>1 DEF ProfilesLeftBehind
  <2>3. /\ r \in ProfileRequest /\ r.row \in ProfileRow /\ r.moved \in BOOLEAN
        /\ r.kind # "delete" => Fits(r.row, r.moved)
    BY <2>1, <2>2 DEF EditsKept, ProfileRequest
  <2>4. CASE LeftBehind(r.row)
    <3>1. x = [r EXCEPT !.moved = TRUE]
      BY <2>1, <2>2, <2>4 DEF ProfilesLeftBehind
    <3>2. x \in ProfileRequest /\ x.kind = r.kind /\ x.row = r.row /\ x.moved
      BY <2>3, <3>1 DEF ProfileRequest
    <3>3. x.kind # "delete" => Fits(x.row, x.moved)'
      BY <2>3, <3>2, FitsMoved DEF Fits
    <3> QED BY <2>1, <3>2, <3>3 DEF Fits
  <2>5. CASE ~LeftBehind(r.row)
    <3>1. x = r
      BY <2>1, <2>5 DEF ProfilesLeftBehind
    <3>2. x.kind # "delete" => Fits(x.row, x.moved)'
      BY <2>3, <2>5, <3>1, FitsMoved
    <3> QED BY <2>1, <2>3, <3>1, <3>2 DEF Fits
  <2> QED BY <2>4, <2>5
<1>2. DOMAIN editing' = Editors
  BY DEF ProfilesLeftBehind
<1> QED BY <1>1, <1>2 DEF EditsKept, Fits

-----------------------------------------------------------------------------
\* A request about a profile makes its checks.
LEMMA EditingStarted ==
  ASSUME StaffInv, NEW e \in Editors, NEW kind \in {"create", "update", "delete"},
         NEW p \in Nat, NEW loaded \in ProfileRow, NEW entry \in ProfileRow,
         StartEditing(e, kind, p, loaded, entry), kind # "delete" => LinkFits(entry)
  PROVE  ProfilesKept' /\ EditsKept'
<1>1. PICK x : x = [kind |-> kind, id |-> p, loaded |-> loaded, row |-> entry, moved |-> FALSE]
  OBVIOUS
<1>2. /\ editing' = [editing EXCEPT ![e] = x] /\ UNCHANGED <<profiles, staff>>
  BY <1>1 DEF StartEditing, payrollVars
<1>3. x \in ProfileRequest /\ (x.kind # "delete" => Fits(x.row, x.moved))
  BY <1>1 DEF ProfileRequest, Fits, LinkFits
<1>4. EditsKept'
  <2>1. ASSUME NEW f \in Editors, editing'[f] # Idle
        PROVE  /\ editing'[f] \in ProfileRequest
               /\ editing'[f].kind # "delete" => Fits(editing'[f].row, editing'[f].moved)
    BY <1>2, <1>3, <2>1 DEF StaffInv, EditsKept
  <2> QED BY <1>2, <2>1 DEF StaffInv, EditsKept, Fits
<1>5. ProfilesKept'
  BY <1>2 DEF StaffInv, ProfilesKept, ProfilesFit
<1> QED BY <1>4, <1>5

LEMMA ProfileRequestsKept ==
  ASSUME StaffInv, ProfileRequests
  PROVE  ProfilesKept' /\ EditsKept' /\ UNCHANGED payrollVars
<1>1. ASSUME NEW p \in DOMAIN profiles PROVE p \in Nat /\ profiles[p].row \in ProfileRow
  BY <1>1 DEF StaffInv, ProfilesKept, EmployeeProfile
<1>2. ASSUME NEW e \in Editors, NEW u \in Users, NEW entry \in ProfileRow,
             StartCreating(e, u, entry)
      PROVE  ProfilesKept' /\ EditsKept' /\ UNCHANGED payrollVars
  BY <1>2, EditingStarted DEF StartCreating, StartEditing
<1>3. ASSUME NEW e \in Editors, NEW u \in Users, NEW p \in DOMAIN profiles,
             NEW entry \in ProfileRow, StartUpdating(e, u, p, entry)
      PROVE  ProfilesKept' /\ EditsKept' /\ UNCHANGED payrollVars
  BY <1>1, <1>3, EditingStarted DEF StartUpdating, StartEditing
<1>4. ASSUME NEW e \in Editors, NEW u \in Users, NEW p \in DOMAIN profiles,
             StartDeleting(e, u, p)
      PROVE  ProfilesKept' /\ EditsKept' /\ UNCHANGED payrollVars
  BY <1>1, <1>4, EditingStarted DEF StartDeleting, StartEditing
<1> QED BY <1>2, <1>3, <1>4 DEF ProfileRequests

\* A profile that is written fits, unless it was overtaken, and no other one names its
\* user.
LEMMA ProfileWritten ==
  ASSUME ProfilesKept, NEW p \in Nat, NEW new \in EmployeeProfile, UNCHANGED staff,
         profiles' = [q \in DOMAIN profiles \cup {p} |-> IF q = p THEN new ELSE profiles[q]],
         NotLinkedElsewhere(new.row, DOMAIN profiles \ {p}),
         new.overtaken \/ Fits(new.row, new.moved)
  PROVE  ProfilesKept'
<1>1. /\ DOMAIN profiles' = DOMAIN profiles \cup {p}
      /\ profiles'[p] = new
      /\ \A q \in DOMAIN profiles \ {p} : profiles'[q] = profiles[q]
      /\ profiles' \in [DOMAIN profiles' -> EmployeeProfile]
  BY DEF ProfilesKept
<1>2. ASSUME NEW q \in DOMAIN profiles'
      PROVE  profiles'[q].overtaken \/ Fits(profiles[q].row, profiles[q].moved)'
  <2>1. CASE q = p
    BY <1>1, <2>1 DEF Fits
  <2>2. CASE q # p
    BY <1>1, <2>2 DEF ProfilesKept, ProfilesFit, Fits
  <2> QED BY <2>1, <2>2
<1>3. ASSUME NEW q \in DOMAIN profiles', NEW r \in DOMAIN profiles' \ {q},
             profiles'[q].row.linked_user_id # Nobody
      PROVE  profiles'[r].row.linked_user_id # profiles'[q].row.linked_user_id
  <2>1. new.row.linked_user_id # Nobody =>
          \A o \in DOMAIN profiles \ {p} :
            profiles[o].row.linked_user_id # new.row.linked_user_id
    BY DEF NotLinkedElsewhere
  <2> QED BY <1>1, <1>3, <2>1 DEF ProfilesKept, ProfilesFit
<1>4. ASSUME NEW q \in DOMAIN profiles'
      PROVE  LET profile == profiles'[q].row
                 linked  == profile.linked_user_id
             IN
             /\ profile.can_login /\ ~profiles'[q].overtaken => linked # Nobody
             /\ linked # Nobody /\ ~profiles'[q].overtaken /\ ~profiles'[q].moved
                  => staff'[linked].station_id = profile.station_id
             /\ linked # Nobody => \A r \in DOMAIN profiles' \ {q} :
                                     profiles'[r].row.linked_user_id # linked
  <2>1. profiles'[q].overtaken \in BOOLEAN
    BY <1>1 DEF EmployeeProfile
  <2> QED BY <1>2, <1>3, <2>1 DEF Fits
<1>5. ProfilesFit'
  BY <1>4 DEF ProfilesFit
<1> QED BY <1>1, <1>5 DEF ProfilesKept

\* What is written over a row that is as it was loaded is the row that was checked.
LEMMA OverwriteLoaded ==
  ASSUME NEW current \in ProfileRow, NEW loaded \in ProfileRow, NEW entry \in ProfileRow
  PROVE  /\ Overwrite(current, loaded, entry) \in ProfileRow
         /\ current = loaded => Overwrite(current, loaded, entry) = entry
BY DEF Overwrite, ProfileRow

LEMMA CreationCommitted ==
  ASSUME StaffInv, NEW e \in Editors, NEW p \in Nat, CreateEmployeeProfile(e, p)
  PROVE  ProfilesKept'
<1>1. PICK r : r = editing[e]
  OBVIOUS
<1>2. PICK new : new = [row |-> r.row, moved |-> r.moved, overtaken |-> FALSE]
  OBVIOUS
<1>3. /\ r # Idle /\ r.kind = "create" /\ p \notin DOMAIN profiles /\ UNCHANGED staff
      /\ profiles' = IF NotLinkedElsewhere(new.row, DOMAIN profiles)
                     THEN [q \in DOMAIN profiles \cup {p} |->
                             IF q = p THEN new ELSE profiles[q]]
                     ELSE profiles
  BY <1>1, <1>2 DEF CreateEmployeeProfile, CommitEdit, payrollVars
<1>4. new \in EmployeeProfile /\ Fits(new.row, new.moved)
  <2>1. r \in ProfileRequest /\ Fits(r.row, r.moved)
    BY <1>1, <1>3 DEF StaffInv, EditsKept
  <2> QED BY <1>2, <2>1 DEF ProfileRequest, EmployeeProfile
<1>5. CASE NotLinkedElsewhere(new.row, DOMAIN profiles)
  <2>1. NotLinkedElsewhere(new.row, DOMAIN profiles \ {p})
    BY <1>5 DEF NotLinkedElsewhere
  <2>2. profiles' = [q \in DOMAIN profiles \cup {p} |-> IF q = p THEN new ELSE profiles[q]]
    BY <1>3, <1>5
  <2> QED BY <1>3, <1>4, <2>1, <2>2, ProfileWritten DEF StaffInv
<1>6. CASE ~NotLinkedElsewhere(new.row, DOMAIN profiles)
  BY <1>3, <1>6 DEF StaffInv, ProfilesKept, ProfilesFit
<1> QED BY <1>5, <1>6

LEMMA UpdateCommitted ==
  ASSUME StaffInv, NEW e \in Editors, UpdateEmployeeProfile(e)
  PROVE  ProfilesKept'
<1>1. PICK r, p : r = editing[e] /\ p = r.id
  OBVIOUS
<1>2. r # Idle /\ r.kind = "update" /\ UNCHANGED staff
  BY <1>1 DEF UpdateEmployeeProfile, CommitEdit, payrollVars
<1>3. /\ r.loaded \in ProfileRow /\ r.row \in ProfileRow /\ r.moved \in BOOLEAN /\ p \in Nat
      /\ Fits(r.row, r.moved)
  BY <1>1, <1>2 DEF StaffInv, EditsKept, ProfileRequest
<1>4. CASE UNCHANGED profiles
  BY <1>2, <1>4 DEF StaffInv, ProfilesKept, ProfilesFit
<1>5. CASE p \in DOMAIN profiles
  <2>1. PICK old, new :
          /\ old = profiles[p].row
          /\ new = [row |-> Overwrite(old, r.loaded, r.row),
                    moved |-> r.moved, overtaken |-> old # r.loaded]
    OBVIOUS
  <2>2. profiles' = IF /\ new.row # old
                       /\ NotLinkedElsewhere(new.row, DOMAIN profiles \ {p})
                    THEN [profiles EXCEPT ![p] = new] ELSE profiles
    BY <1>1, <1>5, <2>1 DEF UpdateEmployeeProfile
  <2>3. old \in ProfileRow
    BY <1>5, <2>1 DEF StaffInv, ProfilesKept, EmployeeProfile
  <2>4. /\ new.row \in ProfileRow /\ new.moved = r.moved /\ new.overtaken = (old # r.loaded)
        /\ old = r.loaded => new.row = r.row
    BY <1>3, <2>1, <2>3, OverwriteLoaded
  <2>5. new \in EmployeeProfile
    <3>1. (old # r.loaded) \in BOOLEAN
      OBVIOUS
    <3>2. Overwrite(old, r.loaded, r.row) \in ProfileRow
      BY <1>3, <2>3, OverwriteLoaded
    <3> QED BY <1>3, <2>1, <3>1, <3>2 DEF EmployeeProfile
  <2>6. new.overtaken \/ Fits(new.row, new.moved)
    BY <1>3, <2>4
  <2>7. CASE new.row # old /\ NotLinkedElsewhere(new.row, DOMAIN profiles \ {p})
    <3>1. profiles' = [q \in DOMAIN profiles \cup {p} |-> IF q = p THEN new ELSE profiles[q]]
      BY <1>5, <2>2, <2>7 DEF StaffInv, ProfilesKept
    <3> QED BY <1>2, <1>3, <2>5, <2>6, <2>7, <3>1, ProfileWritten DEF StaffInv
  <2>8. CASE ~(new.row # old /\ NotLinkedElsewhere(new.row, DOMAIN profiles \ {p}))
    BY <1>4, <2>2, <2>8
  <2> QED BY <2>7, <2>8
<1>6. CASE p \notin DOMAIN profiles
  <2>1. UNCHANGED profiles
    BY <1>1, <1>6 DEF UpdateEmployeeProfile
  <2> QED BY <1>4, <2>1
<1> QED BY <1>5, <1>6

LEMMA DeletionCommitted ==
  ASSUME ProfilesKept, NEW e \in Editors, DeleteEmployeeProfile(e)
  PROVE  ProfilesKept'
<1>1. /\ DOMAIN profiles' = DOMAIN profiles \ {editing[e].id}
      /\ \A q \in DOMAIN profiles' : profiles'[q] = profiles[q]
      /\ profiles' \in [DOMAIN profiles' -> EmployeeProfile]
      /\ UNCHANGED staff
  BY DEF ProfilesKept, DeleteEmployeeProfile, CommitEdit, payrollVars
<1> QED BY <1>1 DEF ProfilesKept, ProfilesFit

LEMMA ProfileCommitsKept ==
  ASSUME StaffInv, ProfileCommits
  PROVE  ProfilesKept' /\ EditsKept' /\ UNCHANGED payrollVars
<1>1. PICK e \in Editors :
        /\ editing' = [editing EXCEPT ![e] = Idle]
        /\ UNCHANGED payrollVars
  BY DEF ProfileCommits, CreateEmployeeProfile, UpdateEmployeeProfile,
         DeleteEmployeeProfile, CommitEdit
<1>2. EditsKept'
  BY <1>1 DEF StaffInv, EditsKept, Fits, payrollVars
<1>3. \A p \in 1..MaxProfiles : p \in Nat
  BY ProfilesAssumption
<1>4. ProfilesKept'
  BY <1>3, CreationCommitted, UpdateCommitted, DeletionCommitted DEF ProfileCommits, StaffInv
<1> QED BY <1>1, <1>2, <1>4

-----------------------------------------------------------------------------
\* The records, runs and requests after a step of attendance and payroll.
BooksKept == Employed /\ AttendanceKept /\ RunsKept /\ Requested

LEMMA StartRecordKept ==
  ASSUME StaffInv, NEW t \in Threads, NEW entry \in AttendanceRecord, StartRecord(t, entry),
         UNCHANGED payroll_runs
  PROVE  BooksKept'
<1>1. PICK x : x = [kind |-> "attendance", row |-> entry, overtaken |-> FALSE]
  OBVIOUS
<1>2. /\ inflight' = [inflight EXCEPT ![t] = x] /\ ~Recorded(entry)
      /\ UNCHANGED <<staff, today, attendance>>
  BY <1>1 DEF StartRecord
<1>3. UpToDate(x)
  BY <1>1, <1>2 DEF UpToDate, AttendanceRequest
<1>4. Requested'
  BY <1>2, <1>3, TakenUp DEF StaffInv
<1>5. Employed' /\ AttendanceKept'
  BY <1>2 DEF StaffInv, Employed, AttendanceKept
<1>6. RunsKept'
  BY <1>2, RunsStay DEF RecordedOnce, StaffInv
<1> QED BY <1>4, <1>5, <1>6 DEF BooksKept

LEMMA NewRecordType ==
  ASSUME NEW u \in Users, NEW s \in Stations, NEW day \in Days, NEW status \in Statuses,
         NEW out \in BOOLEAN
  PROVE  NewRecord(u, s, day, status, out) \in AttendanceRecord
BY DEF NewRecord, AttendanceRecord

LEMMA StartRunKept ==
  ASSUME StaffInv, NEW t \in Threads, NEW by \in Users, NEW s \in Stations,
         NEW p \in Period, StartRun(t, by, s, p)
  PROVE  BooksKept'
<1> DEFINE paid     == {u \in Users : staff[u].station_id = s /\ staff[u].payroll}
           salaries == [u \in paid |-> staff[u].monthly_salary]
<1>1. PICK x : x = [kind |-> "payroll", station_id |-> s, period |-> p,
                    overtaken |-> FALSE, salaries |-> salaries]
  OBVIOUS
<1>2. /\ inflight' = [inflight EXCEPT ![t] = x] /\ ~RunExists(s, p)
      /\ UNCHANGED <<staff, today, attendance, payroll_runs>>
  BY <1>1 DEF StartRun
<1>3. salaries \in UNION {[some -> Salaries] : some \in SUBSET Users}
  <2>1. \A u \in paid : staff[u].monthly_salary \in Salaries
    BY DEF StaffInv, Employed, Employee
  <2>2. salaries \in [paid -> Salaries] /\ paid \in SUBSET Users
    BY <2>1
  <2> HIDE DEF salaries, paid
  <2> QED BY <2>2
<1>4. UpToDate(x)
  <2> HIDE DEF salaries
  <2>1. x \in PayrollRequest
    BY <1>1, <1>3 DEF PayrollRequest
  <2> QED BY <1>1, <1>2, <2>1 DEF UpToDate
<1>5. Requested'
  BY <1>2, <1>4, TakenUp DEF StaffInv
<1>6. Employed' /\ AttendanceKept'
  BY <1>2 DEF StaffInv, Employed, AttendanceKept
<1>7. RunsKept'
  BY <1>2, RunsStay DEF RecordedOnce, StaffInv
<1> QED BY <1>5, <1>6, <1>7 DEF BooksKept

LEMMA StartFinalizingKept ==
  ASSUME StaffInv, NEW t \in Threads, NEW u \in Users, NEW i \in 1..Len(payroll_runs),
         StartFinalizing(t, u, i)
  PROVE  BooksKept'
<1>1. PICK x : x = [kind |-> "finalize", run |-> i, by |-> u, overtaken |-> FALSE]
  OBVIOUS
<1>2. /\ inflight' = [inflight EXCEPT ![t] = x] /\ payroll_runs[i].status # "finalized"
      /\ u \in FinalizerStaff /\ UNCHANGED <<staff, today, attendance, payroll_runs>>
  BY <1>1 DEF StartFinalizing, MayFinalize
<1>3. UpToDate(x)
  BY <1>1, <1>2 DEF UpToDate, FinalizeRequest
<1>4. Requested'
  BY <1>2, <1>3, TakenUp DEF StaffInv
<1>5. Employed' /\ AttendanceKept'
  BY <1>2 DEF StaffInv, Employed, AttendanceKept
<1>6. RunsKept'
  BY <1>2, RunsStay DEF RecordedOnce, StaffInv
<1> QED BY <1>4, <1>5, <1>6 DEF BooksKept

LEMMA EditedRecordKept ==
  ASSUME StaffInv, NEW i \in 1..Len(attendance), NEW entry \in AttendanceRecord,
         attendance' = [attendance EXCEPT ![i] = entry],
         SameRecord(entry, attendance[i]), entry.overtaken = attendance[i].overtaken,
         UNCHANGED <<staff, today, inflight, payroll_runs>>
  PROVE  BooksKept'
<1>1. /\ AttendanceKept'
      /\ \A u : RecordedOnce(u)' => RecordedOnce(u)
      /\ \A other \in AttendanceRecord : Recorded(other)' => Recorded(other)
  BY RecordEdited DEF StaffInv
<1>2. RunsKept'
  BY <1>1, RunsStay DEF StaffInv
<1>3. Requested'
  BY <1>1, NoneTakenUp DEF StaffInv
<1>4. Employed'
  BY DEF StaffInv, Employed
<1> QED BY <1>1, <1>2, <1>3, <1>4 DEF BooksKept

\* The requests on attendance.
LEMMA AttendanceRequestsKept ==
  ASSUME StaffInv, AttendanceRequests, UNCHANGED payroll_runs
  PROVE  BooksKept'
<1> USE DEF StaffInv
<1>1. ASSUME NEW t \in Threads, NEW u \in Users, NEW s \in Stations, CheckIn(t, u, s)
      PROVE  BooksKept'
  <2>1. today \in Days /\ "present" \in Statuses
    BY DEF Employed, Statuses
  <2> QED BY <1>1, <2>1, NewRecordType, StartRecordKept DEF CheckIn
<1>2. ASSUME NEW t \in Threads, NEW by \in Users, NEW u \in Users, NEW s \in Stations,
             NEW day \in Days, NEW status \in EnteredStatuses, NEW out \in BOOLEAN,
             CreateAttendanceRecord(t, by, u, s, day, status, out)
      PROVE  BooksKept'
  <2>1. status \in Statuses
    BY AttendanceAssumption
  <2> QED BY <1>2, <2>1, NewRecordType, StartRecordKept DEF CreateAttendanceRecord
<1>3. ASSUME NEW i \in 1..Len(attendance) PROVE attendance[i] \in AttendanceRecord
  BY <1>3 DEF AttendanceKept
<1>4. ASSUME NEW u \in Users, NEW i \in 1..Len(attendance), CheckOut(u, i)
      PROVE  BooksKept'
  <2>1. PICK old, entry : old = attendance[i] /\ entry = [old EXCEPT !.checked_out = TRUE]
    OBVIOUS
  <2>2. /\ entry \in AttendanceRecord /\ SameRecord(entry, old) /\ entry.overtaken = old.overtaken
    BY <1>3, <2>1 DEF AttendanceRecord, SameRecord
  <2>3. /\ attendance' = [attendance EXCEPT ![i] = entry]
        /\ UNCHANGED <<staff, today, inflight>>
    BY <1>4, <2>1 DEF CheckOut
  <2> QED BY <2>1, <2>2, <2>3, EditedRecordKept
<1>5. ASSUME NEW u \in Users, NEW i \in 1..Len(attendance),
             NEW status \in EnteredStatuses \cup {attendance[i].status}, NEW out \in BOOLEAN,
             UpdateAttendanceRecord(u, i, status, out)
      PROVE  BooksKept'
  <2>0. PICK old : old = attendance[i]
    OBVIOUS
  <2>1. PICK entry : entry = [old EXCEPT !.status = status, !.checked_out = out]
    OBVIOUS
  <2>2. status \in Statuses
    BY <1>3, AttendanceAssumption DEF AttendanceRecord
  <2>3. /\ entry \in AttendanceRecord /\ SameRecord(entry, old) /\ entry.overtaken = old.overtaken
    BY <1>3, <2>0, <2>1, <2>2 DEF AttendanceRecord, SameRecord
  <2>4. /\ attendance' = [attendance EXCEPT ![i] = entry]
        /\ UNCHANGED <<staff, today, inflight>>
    BY <1>5, <2>0, <2>1 DEF UpdateAttendanceRecord
  <2> QED BY <2>0, <2>3, <2>4, EditedRecordKept
<1>6. ASSUME NEW u \in Users, NEW entry \in Employee, UpdateEmployee(u, entry)
      PROVE  BooksKept'
  <2>1. /\ staff' = [staff EXCEPT ![u] = entry]
        /\ UNCHANGED <<today, attendance, inflight>>
    BY <1>6 DEF UpdateEmployee
  <2>2. Employed' /\ AttendanceKept'
    BY <2>1 DEF Employed, AttendanceKept
  <2>3. RunsKept'
    BY <2>1, RunsStay DEF RecordedOnce
  <2>4. Requested'
    BY <2>1, NoneTakenUp DEF Recorded
  <2> QED BY <2>2, <2>3, <2>4 DEF BooksKept
<1> QED BY <1>1, <1>2, <1>4, <1>5, <1>6 DEF AttendanceRequests

LEMMA NextDayKept ==
  ASSUME StaffInv, NextDay, UNCHANGED payroll_runs
  PROVE  BooksKept'
<1>1. today' \in Days
  BY AttendanceAssumption DEF NextDay, StaffInv, Employed, Days
<1>2. UNCHANGED <<staff, attendance, inflight>>
  BY DEF NextDay
<1>3. Employed' /\ AttendanceKept'
  BY <1>1, <1>2 DEF StaffInv, Employed, AttendanceKept
<1>4. RunsKept'
  BY <1>2, RunsStay DEF RecordedOnce, StaffInv
<1>5. Requested'
  BY <1>2, NoneTakenUp DEF Recorded, StaffInv
<1> QED BY <1>3, <1>4, <1>5 DEF BooksKept

-----------------------------------------------------------------------------
LEMMA StaffInvInit == StaffInit => StaffInv
<1> SUFFICES ASSUME StaffInit PROVE StaffInv
  OBVIOUS
<1>1. Employed
  BY AttendanceAssumption DEF StaffInit, PayrollInit, AttendanceInit, Employed, Employee, Days
<1>2. attendance = <<>> /\ payroll_runs = <<>> /\ profiles = <<>>
      /\ inflight = [t \in Threads |-> Idle] /\ editing = [e \in Editors |-> Idle]
  BY DEF StaffInit, PayrollInit, AttendanceInit, ProfilesInit
<1>3. AttendanceKept
  BY <1>2 DEF AttendanceKept
<1>4. RunsKept
  BY <1>2 DEF RunsKept
<1>5. Requested
  BY <1>2 DEF Requested
<1>6. ProfilesKept
  BY <1>2 DEF ProfilesKept, ProfilesFit
<1>7. EditsKept
  BY <1>2 DEF EditsKept
<1> QED BY <1>1, <1>3, <1>4, <1>5, <1>6, <1>7 DEF StaffInv

LEMMA StaffInvStep == StaffInv /\ [StaffNext]_staffVars => StaffInv'
<1> SUFFICES ASSUME StaffInv, [StaffNext]_staffVars PROVE StaffInv'
  OBVIOUS
<1>1. CASE PayrollRequests /\ ProfilesLeftBehind
  <2>1. ProfilesKept' /\ EditsKept'
    BY <1>1, ProfilesMoved, EditsMoved DEF StaffInv
  <2>2. CASE AttendanceRequests /\ UNCHANGED payroll_runs
    BY <2>1, <2>2, AttendanceRequestsKept DEF BooksKept, StaffInv
  <2>3. ASSUME NEW t \in Threads, NEW by \in Users, NEW s \in Stations, NEW p \in Period,
               StartRun(t, by, s, p)
        PROVE  StaffInv'
    BY <2>1, <2>3, StartRunKept DEF BooksKept, StaffInv
  <2>4. ASSUME NEW t \in Threads, NEW u \in Users, NEW i \in 1..Len(payroll_runs),
               StartFinalizing(t, u, i)
        PROVE  StaffInv'
    BY <2>1, <2>4, StartFinalizingKept DEF BooksKept, StaffInv
  <2> QED BY <1>1, <2>2, <2>3, <2>4 DEF PayrollRequests
<1>2. CASE ProfileRequests \/ ProfileCommits
  <2>1. ProfilesKept' /\ EditsKept' /\ UNCHANGED payrollVars
    BY <1>2, ProfileRequestsKept, ProfileCommitsKept
  <2>2. UNCHANGED <<staff, today, attendance, inflight, payroll_runs>>
    BY <2>1 DEF payrollVars
  <2>3. Employed' /\ AttendanceKept'
    BY <2>2 DEF StaffInv, Employed, AttendanceKept
  <2>4. RunsKept'
    BY <2>2, RunsStay DEF RecordedOnce, StaffInv
  <2>5. Requested'
    BY <2>2, NoneTakenUp DEF Recorded, StaffInv
  <2> QED BY <2>1, <2>3, <2>4, <2>5 DEF StaffInv
<1>3. CASE PayrollCommits /\ UNCHANGED <<profileVars, requests>>
  <2>1. ASSUME NEW t \in Threads, InsertRecord(t), UNCHANGED payroll_runs
        PROVE  Employed' /\ AttendanceKept' /\ RunsKept' /\ Requested' /\ UNCHANGED staff
    BY <2>1, InsertRecordKept DEF InsertRecord, StaffInv, Employed
  <2>2. ASSUME NextDay, UNCHANGED payroll_runs
        PROVE  Employed' /\ AttendanceKept' /\ RunsKept' /\ Requested' /\ UNCHANGED staff
    BY <2>2, NextDayKept DEF BooksKept, NextDay
  <2>3. ASSUME NEW t \in Threads, InsertRun(t)
        PROVE  Employed' /\ AttendanceKept' /\ RunsKept' /\ Requested' /\ UNCHANGED staff
    BY <2>3, InsertRunKept DEF InsertRun, StaffInv, Employed, AttendanceKept
  <2>4. ASSUME NEW t \in Threads, FinalizePayrollRun(t)
        PROVE  Employed' /\ AttendanceKept' /\ RunsKept' /\ Requested' /\ UNCHANGED staff
    BY <2>4, FinalizeKept DEF FinalizePayrollRun, StaffInv, Employed, AttendanceKept
  <2>5. Employed' /\ AttendanceKept' /\ RunsKept' /\ Requested' /\ UNCHANGED staff
    BY <1>3, <2>1, <2>2, <2>3, <2>4 DEF PayrollCommits, AttendanceCommits
  <2>6. ProfilesKept'
    BY <1>3, <2>5 DEF StaffInv, ProfilesKept, ProfilesFit, profileVars
  <2>7. EditsKept'
    BY <1>3, <2>5 DEF StaffInv, EditsKept, Fits, profileVars
  <2> QED BY <2>5, <2>6, <2>7 DEF StaffInv
<1>4. CASE UNCHANGED staffVars
  <2>1. UNCHANGED <<staff, today, attendance, inflight, payroll_runs, profiles, editing>>
    BY <1>4 DEF staffVars, payrollVars, profileVars
  <2>2. Employed' /\ AttendanceKept' /\ ProfilesKept' /\ EditsKept'
    BY <2>1 DEF StaffInv, Employed, AttendanceKept, ProfilesKept, ProfilesFit, EditsKept, Fits
  <2>3. RunsKept'
    BY <2>1, RunsStay DEF RecordedOnce, StaffInv
  <2>4. Requested'
    BY <2>1, NoneTakenUp DEF Recorded, StaffInv
  <2> QED BY <2>2, <2>3, <2>4 DEF StaffInv
<1> QED BY <1>1, <1>2, <1>3, <1>4 DEF StaffNext

LEMMA StaffInvariant == StaffSpec => []StaffInv
BY StaffInvInit, StaffInvStep, PTL DEF StaffSpec

\* attendance.py:40 and :106, payroll.py:38: a second record of a day, or a second run of
\* a period, comes only from requests that others overtook; and the columns keep their
\* types.
THEOREM DuplicatesNeedOverlap == StaffSpec => []DuplicatesOnlyByOverlap
<1>1. StaffInv => DuplicatesOnlyByOverlap
  BY DEF StaffInv, Employed, AttendanceKept, RunsKept, RunKept, ProfilesKept,
         DuplicatesOnlyByOverlap, StaffTypeOK
<1> QED BY <1>1, StaffInvariant, PTL

\* payroll.py:92-97: who was recorded once a day is paid for no more than the period.
THEOREM PayStaysWithinPeriod == StaffSpec => []PaidWithinPeriod
<1>1. StaffInv => PaidWithinPeriod
  BY DEF StaffInv, RunsKept, LinePaid, PaidWithinPeriod
<1> QED BY <1>1, StaffInvariant, PTL

\* employee_profiles.py:31 and :64: a profile fits its user, edited or not, until the
\* user moves or an edit that was overtaken is committed; and no two name one user.
THEOREM ProfilesKeepFitting == StaffSpec => []ProfilesFit
<1>1. StaffInv => ProfilesFit
  BY DEF StaffInv, ProfilesKept
<1> QED BY <1>1, StaffInvariant, PTL

\* README.md:273: no step changes the lines or totals of a run or takes it back to a
\* draft, and who finalized it changes only when an overtaken finalization is committed.
THEOREM FinalizedRunsAreLocked == StaffSpec => RunsFixed
<1> DEFINE Fixed ==
      /\ Len(payroll_runs) <= Len(payroll_runs')
      /\ \A i \in 1..Len(payroll_runs) :
           \/ payroll_runs'[i] = payroll_runs[i]
           \/ \E u \in FinalizerStaff :
                /\ payroll_runs'[i] = Finalized(payroll_runs[i], u)
                /\ \/ payroll_runs[i].status = "draft"
                   \/ \E t \in Threads :
                        /\ inflight[t] # Idle /\ inflight[t].kind = "finalize"
                        /\ inflight[t].run = i /\ inflight[t].by = u
                        /\ inflight[t].overtaken
<1>1. ASSUME StaffInv, [StaffNext]_staffVars PROVE [Fixed]_staffVars
  <2>1. PICK R : payroll_runs \in Seq(R)
    BY <1>1 DEF StaffInv, RunsKept
  <2>2. CASE UNCHANGED payroll_runs
    BY <2>1, <2>2
  <2>3. ASSUME NEW t \in Threads, FinalizePayrollRun(t)
        PROVE  Fixed
    <3>1. PICK r, i, u : r = inflight[t] /\ i = r.run /\ u = r.by
      OBVIOUS
    <3>2. /\ r # Idle /\ r.kind = "finalize" /\ u \in FinalizerStaff
          /\ i \in 1..Len(payroll_runs)
          /\ r.overtaken \/ payroll_runs[i].status = "draft"
          /\ payroll_runs' = [payroll_runs EXCEPT ![i] = Finalized(payroll_runs[i], u)]
      BY <1>1, <2>3, <3>1, FinalizeChanges
    <3>3. /\ Len(payroll_runs') = Len(payroll_runs) /\ Len(payroll_runs) \in Nat
          /\ payroll_runs'[i] = Finalized(payroll_runs[i], u)
          /\ \A j \in 1..Len(payroll_runs) : j # i => payroll_runs'[j] = payroll_runs[j]
      BY <2>1, <3>2
    <3> QED BY <3>1, <3>2, <3>3
  <2>4. ASSUME NEW t \in Threads, InsertRun(t) PROVE Fixed
    <3>1. PICK run : payroll_runs' = Append(payroll_runs, run)
      BY <2>4 DEF InsertRun
    <3> QED BY <2>1, <3>1
  <2>5. CASE PayrollRequests
    <3>1. \A t \in Threads, by \in Users, s \in Stations, p \in Period :
            StartRun(t, by, s, p) => UNCHANGED payroll_runs
      BY DEF StartRun
    <3>2. \A t \in Threads, u \in Users, i \in 1..Len(payroll_runs) :
            StartFinalizing(t, u, i) => UNCHANGED payroll_runs
      BY DEF StartFinalizing
    <3> QED BY <2>2, <2>5, <3>1, <3>2 DEF PayrollRequests
  <2>6. CASE PayrollCommits
    BY <2>2, <2>3, <2>4, <2>6 DEF PayrollCommits
  <2>7. CASE ProfileRequests \/ ProfileCommits
    <3>1. UNCHANGED payroll_runs
      BY <1>1, <2>7, ProfileRequestsKept, ProfileCommitsKept DEF payrollVars
    <3> QED BY <2>2, <3>1
  <2> QED BY <1>1, <2>5, <2>6, <2>7 DEF StaffNext
<1> QED BY <1>1, StaffInvariant, PTL DEF StaffSpec, RunsFixed

=============================================================================
