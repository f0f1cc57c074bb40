---------------------------- MODULE StationProofs ---------------------------
(***************************************************************************)
(* Proofs about StationBooks for any station: any sets of tanks, nozzles,  *)
(* customers, suppliers and users, any roles, inputs and bounds.           *)
(*                                                                         *)
(*   1. the types;                                                         *)
(*   2. safety: what is owed is never negative, tanks stay between empty   *)
(*      and full, and the documents follow the reversal protocol;          *)
(*   3. the running figures are what the documents say: stock, payables,   *)
(*      balances, meters and the totals of closed shifts; and no sale goes *)
(*      beyond credit.                                                     *)
(***************************************************************************)
EXTENDS StationBooks, TotalsProofs, FiniteSetTheorems

-----------------------------------------------------------------------------
(* 1. Types *)

\* Appending a row to a table.
LEMMA AppendRow ==
  ASSUME NEW R, NEW s \in Seq(R), NEW x \in R
  PROVE  /\ Append(s, x) \in Seq(R)
         /\ Len(Append(s, x)) = Len(s) + 1
         /\ Append(s, x)[Len(s) + 1] = x
         /\ \A k \in 1..Len(s) : Append(s, x)[k] = s[k]
OBVIOUS

\* Rewriting one row of a table.
LEMMA RewriteRow ==
  ASSUME NEW R, NEW s \in Seq(R), NEW i \in 1..Len(s), NEW x \in R
  PROVE  /\ [s EXCEPT ![i] = x] \in Seq(R)
         /\ Len([s EXCEPT ![i] = x]) = Len(s)
         /\ [s EXCEPT ![i] = x][i] = x
         /\ \A k \in 1..Len(s) : k # i => [s EXCEPT ![i] = x][k] = s[k]
OBVIOUS

\* Adding to one entry of a function.
LEMMA AddAt ==
  ASSUME NEW D, NEW f \in [D -> Int], NEW d \in D, NEW x \in Int
  PROVE  /\ [f EXCEPT ![d] = @ + x] \in [D -> Int]
         /\ [f EXCEPT ![d] = @ - x] \in [D -> Int]
OBVIOUS

\* Every nozzle draws on a tank.
LEMMA FeedsTyped == \A n \in Nozzles : Feeds[n] \in Tanks
BY RecordsAssumption

-----------------------------------------------------------------------------
\* The workflow record stays one.
LEMMA WorkflowSteps ==
  ASSUME NEW d \in Workflow, NEW u \in Users
  PROVE  /\ Fresh \in Workflow
         /\ Requested(d, u) \in Workflow
         /\ Rejected(d) \in Workflow
         /\ Reversed(d, u) \in Workflow
         /\ Approved(d, u) \in Workflow
BY DEF Workflow, RequestStatuses, Fresh, Requested, Rejected, Reversed, Approved

\* A charged customer stays one.
LEMMA ChargedTyped ==
  ASSUME NEW k \in Customer, NEW amount \in Nat
  PROVE  Charged(k, amount) \in Customer
<1>1. OverrideLeft(k, amount) \in Nat
  BY DEF OverrideLeft, Customer
<1> DEFINE owing == [k EXCEPT !.outstanding_balance = k.outstanding_balance + amount]
<1>2. owing \in Customer
  BY DEF Customer
<1>3. ASSUME NEW status \in OverrideStatuses
      PROVE  [owing EXCEPT !.override_amount = OverrideLeft(k, amount),
                           !.override_requested = 0, !.override_status = status] \in Customer
  <2> HIDE DEF owing
  <2> QED BY <1>1, <1>2 DEF Customer
<1>4. "none" \in OverrideStatuses /\ owing.override_status \in OverrideStatuses
  BY <1>2 DEF Customer, OverrideStatuses
<1> QED BY <1>2, <1>3, <1>4 DEF Charged

-----------------------------------------------------------------------------
\* create_fuel_sale writes well-typed records and a well-typed row.
LEMMA CreateFuelSaleTyped ==
  ASSUME TypeOK,
         NEW u \in Users, NEW n \in Nozzles, NEW c \in Customers \cup {NoCustomer},
         NEW sale_type \in SaleTypes, NEW closing \in MeterReadings, NEW rate \in Rates,
         NEW shift_id \in 0..Len(shifts),
         CreateFuelSale(u, n, c, sale_type, closing, rate, shift_id)
  PROVE  /\ current_volume' \in [Tanks -> Int]
         /\ nozzle' \in [Nozzles -> Nozzle]
         /\ customer' \in [Customers -> Customer]
         /\ sales' \in Seq(FuelSaleRow)
<1> DEFINE opening == nozzle[n].meter_reading
           amount == (closing - opening) * rate
<1>1. /\ closing \in Nat /\ opening \in Nat /\ closing >= opening
      /\ closing - opening \in Nat /\ rate \in Nat
  <2>1. closing \in Nat /\ rate \in Nat
    BY FuelSalesAssumption
  <2>2. nozzle[n] \in Nozzle
    BY DEF TypeOK
  <2>3. opening \in Nat
    BY <2>2 DEF Nozzle
  <2>4. closing >= opening
    BY DEF CreateFuelSale
  <2> QED BY <2>1, <2>3, <2>4
<1>2. amount \in Nat
  <2> HIDE DEF opening
  <2> DEFINE q == closing - opening
  <2>1. q \in Nat /\ rate \in Nat
    BY <1>1
  <2> HIDE DEF q
  <2>2. q * rate \in Nat
    BY <2>1
  <2> QED BY <2>2 DEF q
<1> HIDE DEF amount
<1>3. current_volume' \in [Tanks -> Int]
  <2>1. current_volume' = [current_volume EXCEPT ![Feeds[n]] = @ - (closing - opening)]
    BY DEF CreateFuelSale
  <2> HIDE DEF opening
  <2> QED BY <1>1, <2>1, AddAt, FeedsTyped DEF TypeOK
<1>4. nozzle' \in [Nozzles -> Nozzle]
  BY <1>1 DEF CreateFuelSale, TypeOK, Nozzle
<1>5. customer' \in [Customers -> Customer]
  <2>1. CASE sale_type = "credit"
    <3>1. c \in Customers /\ customer[c] \in Customer
      BY <2>1 DEF CreateFuelSale, TypeOK
    <3>2. Charged(customer[c], amount) \in Customer
      BY <1>2, <3>1, ChargedTyped
    <3>3. customer' = [customer EXCEPT ![c] = Charged(customer[c], amount)]
      BY <2>1 DEF CreateFuelSale, amount
    <3> QED BY <3>2, <3>3 DEF TypeOK
  <2>2. CASE sale_type # "credit"
    BY <2>2 DEF CreateFuelSale, TypeOK
  <2> QED BY <2>1, <2>2
<1>6. sales' \in Seq(FuelSaleRow)
  <2>1. PICK shift \in ShiftChoice(u, shift_id) :
          sales' = Append(sales,
            [nozzle |-> n, customer |-> c, sale_type |-> sale_type, shift |-> shift,
             opening_meter |-> opening, closing_meter |-> closing, total_amount |-> amount,
             adjustments_before |-> Len(adjustments), after_close |-> FALSE, rev |-> Fresh])
    BY DEF CreateFuelSale, amount
  <2>2. shift \in Nat
    BY DEF ShiftChoice, OpenShiftsOf, NoShift, TypeOK
  <2>3. Fresh \in Workflow
    BY DEF Fresh, Workflow, RequestStatuses
  <2>4. Len(adjustments) \in Nat
    BY DEF TypeOK
  <2> QED BY <1>1, <1>2, <2>1, <2>2, <2>3, <2>4, AppendRow DEF FuelSaleRow, TypeOK
<1> QED BY <1>3, <1>4, <1>5, <1>6

\* So does reverse_fuel_sale, on whichever path it is called.
LEMMA UndoSaleTyped ==
  ASSUME TypeOK, NEW i \in 1..Len(sales), NEW rev \in Workflow, UndoSale(i, rev)
  PROVE  /\ current_volume' \in [Tanks -> Int]
         /\ nozzle' \in [Nozzles -> Nozzle]
         /\ customer' \in [Customers -> Customer]
         /\ sales' \in Seq(FuelSaleRow)
<1>1. sales[i] \in FuelSaleRow
  BY DEF TypeOK
<1> DEFINE sale == sales[i]
           late == sale.shift # NoShift /\ ~shifts[sale.shift].open
           row  == [sale EXCEPT !.rev = rev, !.after_close = late]
<1>2. /\ sale.nozzle \in Nozzles /\ sale.opening_meter \in Nat /\ sale.total_amount \in Nat
      /\ sale.customer \in Customers \cup {NoCustomer} /\ Quantity(sale) \in Int
  BY <1>1 DEF FuelSaleRow, Quantity
<1>3. current_volume' \in [Tanks -> Int]
  <2>1. current_volume' = [current_volume EXCEPT ![Feeds[sale.nozzle]] = @ + Quantity(sale)]
    BY DEF UndoSale
  <2> HIDE DEF sale
  <2> QED BY <1>2, <2>1, AddAt, FeedsTyped DEF TypeOK
<1>4. nozzle' \in [Nozzles -> Nozzle]
  <2>1. [nozzle[sale.nozzle] EXCEPT !.meter_reading = sale.opening_meter] \in Nozzle
    BY <1>2 DEF TypeOK, Nozzle
  <2> QED BY <1>2, <2>1 DEF UndoSale, TypeOK
<1>5. customer' \in [Customers -> Customer]
  <2>1. CASE sale.customer = NoCustomer
    BY <2>1 DEF UndoSale, TypeOK
  <2>2. CASE sale.customer # NoCustomer
    <3>1. customer[sale.customer] \in Customer
      BY <1>2, <2>2 DEF TypeOK
    <3>2. [customer[sale.customer] EXCEPT
             !.outstanding_balance = customer[sale.customer].outstanding_balance
                                       - sale.total_amount] \in Customer
      <4>1. PICK owes \in Int :
              owes = customer[sale.customer].outstanding_balance - sale.total_amount
        BY <1>2, <3>1 DEF Customer
      <4>2. [customer[sale.customer] EXCEPT !.outstanding_balance = owes] \in Customer
        BY <3>1 DEF Customer
      <4> QED BY <4>1, <4>2
    <3> QED BY <2>2, <3>2 DEF UndoSale, TypeOK
  <2> QED BY <2>1, <2>2
<1>6. sales' \in Seq(FuelSaleRow)
  <2>1. late \in BOOLEAN
    OBVIOUS
  <2>2. row \in FuelSaleRow
    <3> HIDE DEF late
    <3> QED BY <1>1, <2>1 DEF FuelSaleRow
  <2>3. sales' = [sales EXCEPT ![i] = row]
    BY DEF UndoSale
  <2> QED BY <2>2, <2>3, RewriteRow DEF TypeOK
<1> QED BY <1>3, <1>4, <1>5, <1>6

\* Every operation on sales and meters keeps the types.
LEMMA FuelSalesTyped ==
  ASSUME TypeOK, FuelSalesNext, UNCHANGED <<purchaseVars, paymentVars>>
  PROVE  TypeOK'
<1> USE DEF purchaseVars, paymentVars
<1>1. PICK u \in Users :
        \/ \E n \in Nozzles, c \in Customers \cup {NoCustomer}, sale_type \in SaleTypes,
              closing \in MeterReadings, rate \in Rates, shift_id \in 0..Len(shifts) :
             CreateFuelSale(u, n, c, sale_type, closing, rate, shift_id)
        \/ \E i \in 1..Len(sales) : SaleReversalNext(u, i)
        \/ \E n \in Nozzles, new_reading \in MeterReadings : AdjustNozzleMeter(u, n, new_reading)
  BY DEF FuelSalesNext
<1>2. ASSUME NEW n \in Nozzles, NEW c \in Customers \cup {NoCustomer}, NEW sale_type \in SaleTypes,
             NEW closing \in MeterReadings, NEW rate \in Rates, NEW shift_id \in 0..Len(shifts),
             CreateFuelSale(u, n, c, sale_type, closing, rate, shift_id)
      PROVE  TypeOK'
  <2>1. UNCHANGED <<payable_balance, shifts, adjustments>>
    BY <1>2 DEF CreateFuelSale
  <2> QED BY <1>2, <2>1, CreateFuelSaleTyped DEF TypeOK
<1>3. ASSUME NEW i \in 1..Len(sales), SaleReversalNext(u, i)
      PROVE  TypeOK'
  <2>0. sales[i] \in FuelSaleRow
    BY DEF TypeOK
  <2>1. sales[i].rev \in Workflow
    BY <2>0 DEF FuelSaleRow
  <2>2. ASSUME NEW rev \in Workflow, UndoSale(i, rev) PROVE TypeOK'
    <3>1. UNCHANGED <<payable_balance, shifts, adjustments>>
      BY <2>2 DEF UndoSale
    <3> QED BY <2>2, <3>1, UndoSaleTyped DEF TypeOK
  <2>3. ASSUME NEW rev \in Workflow, MarkSale(i, rev) PROVE TypeOK'
    <3>1. [sales[i] EXCEPT !.rev = rev] \in FuelSaleRow
      BY <2>0 DEF FuelSaleRow
    <3>2. sales' \in Seq(FuelSaleRow)
      BY <2>3, <3>1, RewriteRow DEF MarkSale, TypeOK
    <3> QED BY <2>3, <3>2 DEF MarkSale, TypeOK
  <2> QED
    BY <1>3, <2>1, <2>2, <2>3, WorkflowSteps
    DEF SaleReversalNext, ReverseFuelSale, RequestFuelSaleReversal,
        ApproveFuelSaleReversal, RejectFuelSaleReversal
<1>4. ASSUME NEW n \in Nozzles, NEW new_reading \in MeterReadings,
             AdjustNozzleMeter(u, n, new_reading)
      PROVE  TypeOK'
  <2>1. new_reading \in Nat /\ nozzle[n].meter_reading \in Nat
    BY FuelSalesAssumption DEF TypeOK, Nozzle
  <2>2. nozzle' \in [Nozzles -> Nozzle]
    BY <1>4, <2>1 DEF AdjustNozzleMeter, TypeOK, Nozzle
  <2>3. adjustments' \in Seq(AdjustmentRow)
    BY <1>4, <2>1 DEF AdjustNozzleMeter, TypeOK, AdjustmentRow
  <2> QED BY <1>4, <2>2, <2>3 DEF AdjustNozzleMeter, TypeOK
<1> QED BY <1>1, <1>2, <1>3, <1>4

-----------------------------------------------------------------------------
\* A column of amounts is a sequence of integers.
LEMMA ColumnIsSeq ==
  ASSUME NEW n \in Nat, NEW f \in [1..n -> Int]
  PROVE  f \in Seq(Int) /\ Len(f) = n
OBVIOUS

\* So does every operation on shifts; the stored totals are integers.
LEMMA ShiftsTyped ==
  ASSUME TypeOK, ShiftsNext, UNCHANGED <<adjustments, purchaseVars, paymentVars>>
  PROVE  TypeOK'
<1>1. PICK u \in Users : CreateShift(u) \/ \E k \in 1..Len(shifts) : CloseShift(u, k)
  BY DEF ShiftsNext
<1>2. CASE CreateShift(u)
  <2>1. shifts' \in Seq(ShiftRow)
    BY <1>2 DEF CreateShift, TypeOK, ShiftRow
  <2> QED BY <1>2, <2>1 DEF CreateShift, TypeOK, purchaseVars, paymentVars
<1>3. ASSUME NEW k \in 1..Len(shifts), CloseShift(u, k) PROVE TypeOK'
  <2>1. TakingsOf(k, "cash") \in Int /\ TakingsOf(k, "credit") \in Int
    <3>1. ASSUME NEW sale_type PROVE TakingsOf(k, sale_type) \in Int
      <4> DEFINE f == [i \in 1..Len(sales) |->
             IF sales[i].shift = k /\ sales[i].sale_type = sale_type /\ ~sales[i].rev.reversed
             THEN sales[i].total_amount ELSE 0]
      <4>1. f \in [1..Len(sales) -> Int] /\ Len(sales) \in Nat
        <5>1. ASSUME NEW i \in 1..Len(sales) PROVE sales[i].total_amount \in Int
          <6>1. sales[i] \in FuelSaleRow
            BY DEF TypeOK
          <6> QED BY <6>1 DEF FuelSaleRow
        <5> QED BY <5>1 DEF TypeOK
      <4>2. f \in Seq(Int)
        BY <4>1, ColumnIsSeq
      <4>3. Total(f) \in Int
        BY <4>2, TotalType
      <4> QED BY <4>3 DEF TakingsOf
    <3> QED BY <3>1
  <2>2. [shifts[k] EXCEPT !.open = FALSE, !.total_cash = TakingsOf(k, "cash"),
                          !.total_credit = TakingsOf(k, "credit")] \in ShiftRow
    <3>1. shifts[k] \in ShiftRow
      BY DEF TypeOK
    <3> QED BY <2>1, <3>1 DEF ShiftRow
  <2>3. shifts' \in Seq(ShiftRow)
    BY <1>3, <2>2, RewriteRow DEF CloseShift, TypeOK
  <2> QED BY <1>3, <2>3 DEF CloseShift, TypeOK, purchaseVars, paymentVars
<1> QED BY <1>1, <1>2, <1>3

\* What a purchase adds or takes leaves tank and payable typed.
LEMMA EffectsTyped ==
  ASSUME current_volume \in [Tanks -> Int], payable_balance \in [Suppliers -> Int],
         NEW t \in Tanks, NEW s \in Suppliers, NEW quantity \in Int, NEW amount \in Int,
         ApplyPurchaseEffects(t, s, quantity, amount)
  PROVE  current_volume' \in [Tanks -> Int] /\ payable_balance' \in [Suppliers -> Int]
<1>1. current_volume' \in [Tanks -> Int]
  BY DEF ApplyPurchaseEffects
<1>2. payable_balance' \in [Suppliers -> Int]
  BY DEF ApplyPurchaseEffects
<1> QED BY <1>1, <1>2

\* reverse_purchase takes a typed amount off the tank and the supplier.
LEMMA UndoPurchaseTyped ==
  ASSUME TypeOK, NEW i \in 1..Len(purchases), NEW rev \in Workflow,
         UndoPurchase(i, rev)
  PROVE  /\ current_volume' \in [Tanks -> Int]
         /\ payable_balance' \in [Suppliers -> Int]
         /\ purchases' \in Seq(PurchaseRow)
<1>1. purchases[i] \in PurchaseRow
  BY DEF TypeOK
<1>2. /\ purchases[i].tank \in Tanks /\ purchases[i].supplier \in Suppliers
      /\ -purchases[i].quantity \in Int /\ -purchases[i].total_amount \in Int
      /\ [purchases[i] EXCEPT !.rev = rev] \in PurchaseRow
  BY <1>1 DEF PurchaseRow
<1>3. current_volume' \in [Tanks -> Int] /\ payable_balance' \in [Suppliers -> Int]
  <2>1. ApplyPurchaseEffects(purchases[i].tank, purchases[i].supplier,
                             -purchases[i].quantity, -purchases[i].total_amount)
    BY DEF UndoPurchase
  <2>2. current_volume \in [Tanks -> Int] /\ payable_balance \in [Suppliers -> Int]
    BY DEF TypeOK
  <2> QED BY <1>2, <2>1, <2>2, EffectsTyped
<1>4. purchases' \in Seq(PurchaseRow)
  BY <1>2, RewriteRow DEF UndoPurchase, TypeOK
<1> QED BY <1>3, <1>4

\* create_purchase appends a typed row, approved or pending.
LEMMA CreatePurchaseTyped ==
  ASSUME TypeOK, NEW u \in Users, NEW s \in Suppliers, NEW t \in Tanks,
         NEW quantity \in Deliveries, NEW rate \in PurchaseRates,
         CreatePurchase(u, s, t, quantity, rate)
  PROVE  /\ current_volume' \in [Tanks -> Int]
         /\ payable_balance' \in [Suppliers -> Int]
         /\ purchases' \in Seq(PurchaseRow)
<1> DEFINE amount == quantity * rate
<1>1. quantity \in Nat /\ rate \in Nat
  BY PurchasesAssumption
<1>2. amount \in Nat
  BY <1>1
<1> HIDE DEF amount
<1>3. current_volume' \in [Tanks -> Int] /\ payable_balance' \in [Suppliers -> Int]
  <2>1. \/ ApplyPurchaseEffects(t, s, quantity, amount)
        \/ UNCHANGED <<current_volume, payable_balance>>
    BY DEF CreatePurchase, amount
  <2>2. current_volume \in [Tanks -> Int] /\ payable_balance \in [Suppliers -> Int]
    BY DEF TypeOK
  <2>3. CASE UNCHANGED <<current_volume, payable_balance>>
    BY <2>2, <2>3
  <2>4. CASE ApplyPurchaseEffects(t, s, quantity, amount)
    BY <1>1, <1>2, <2>2, <2>4, EffectsTyped
  <2> QED BY <2>1, <2>3, <2>4
<1>4. purchases' \in Seq(PurchaseRow)
  <2>1. PICK status \in PurchaseStatuses, approver \in Users \cup {Nobody} :
          purchases' = Append(purchases,
            [supplier |-> s, tank |-> t, quantity |-> quantity, total_amount |-> amount,
             status |-> status, submitted_by |-> u, approved_by |-> approver, rev |-> Fresh])
    BY DEF CreatePurchase, PurchaseStatuses, amount
  <2>2. Fresh \in Workflow
    BY WorkflowSteps DEF Fresh, Workflow, RequestStatuses
  <2> QED BY <1>1, <1>2, <2>1, <2>2 DEF PurchaseRow, TypeOK
<1> QED BY <1>3, <1>4

\* Every operation on purchases and dips keeps the types.
LEMMA PurchasesTyped ==
  ASSUME TypeOK, PurchasesNext, UNCHANGED <<salesVars, paymentVars>>
  PROVE  TypeOK'
<1> USE DEF salesVars, paymentVars
<1>1. PICK u \in Users :
        \/ \E s \in Suppliers, t \in Tanks, quantity \in Deliveries, rate \in PurchaseRates :
             CreatePurchase(u, s, t, quantity, rate)
        \/ \E i \in 1..Len(purchases) : PurchaseRowNext(u, i)
        \/ \E t \in Tanks, calculated \in DipVolumes : CreateTankDip(u, t, calculated)
  BY DEF PurchasesNext
<1>2. ASSUME NEW s \in Suppliers, NEW t \in Tanks, NEW quantity \in Deliveries,
             NEW rate \in PurchaseRates, CreatePurchase(u, s, t, quantity, rate)
      PROVE  TypeOK'
  <2>1. UNCHANGED <<otherBooks, dips>>
    BY <1>2 DEF CreatePurchase
  <2> QED BY <1>2, <2>1, CreatePurchaseTyped DEF TypeOK, otherBooks
<1>3. ASSUME NEW i \in 1..Len(purchases), PurchaseRowNext(u, i)
      PROVE  TypeOK'
  <2>0. purchases[i] \in PurchaseRow
    BY DEF TypeOK
  <2>1. /\ purchases[i].rev \in Workflow
        /\ purchases[i].tank \in Tanks /\ purchases[i].supplier \in Suppliers
        /\ purchases[i].quantity \in Int /\ purchases[i].total_amount \in Int
    BY <2>0 DEF PurchaseRow
  <2>2. ASSUME NEW rev \in Workflow, UndoPurchase(i, rev) PROVE TypeOK'
    <3>1. UNCHANGED <<otherBooks, dips>>
      BY <2>2 DEF UndoPurchase
    <3> QED BY <2>2, <3>1, UndoPurchaseTyped DEF TypeOK, otherBooks
  <2>3. ASSUME NEW rev \in Workflow, MarkPurchase(i, rev) PROVE TypeOK'
    <3>1. [purchases[i] EXCEPT !.rev = rev] \in PurchaseRow
      BY <2>0 DEF PurchaseRow
    <3>2. purchases' \in Seq(PurchaseRow)
      BY <2>3, <3>1, RewriteRow DEF MarkPurchase, TypeOK
    <3> QED BY <2>3, <3>2 DEF MarkPurchase, TypeOK, otherBooks
  <2>4. ASSUME ApprovePurchase(u, i) PROVE TypeOK'
    <3>0. [purchases[i] EXCEPT !.status = "approved", !.approved_by = u] \in PurchaseRow
      BY <2>0 DEF PurchaseRow, PurchaseStatuses
    <3>1. purchases' \in Seq(PurchaseRow)
      BY <2>4, <3>0, RewriteRow DEF ApprovePurchase, TypeOK
    <3>2. current_volume' \in [Tanks -> Int] /\ payable_balance' \in [Suppliers -> Int]
      <4>1. ApplyPurchaseEffects(purchases[i].tank, purchases[i].supplier,
                                 purchases[i].quantity, purchases[i].total_amount)
        BY <2>4 DEF ApprovePurchase
      <4>2. current_volume \in [Tanks -> Int] /\ payable_balance \in [Suppliers -> Int]
        BY DEF TypeOK
      <4> QED BY <2>1, <4>1, <4>2, EffectsTyped
    <3> QED BY <2>4, <3>1, <3>2 DEF ApprovePurchase, TypeOK, otherBooks
  <2>5. ASSUME RejectPurchase(u, i) PROVE TypeOK'
    <3>0. [purchases[i] EXCEPT !.status = "rejected", !.approved_by = Nobody] \in PurchaseRow
      BY <2>0 DEF PurchaseRow, PurchaseStatuses
    <3>1. purchases' \in Seq(PurchaseRow)
      BY <2>5, <3>0, RewriteRow DEF RejectPurchase, TypeOK
    <3> QED BY <2>5, <3>1 DEF RejectPurchase, TypeOK, otherBooks
  <2> QED
    BY <1>3, <2>1, <2>2, <2>3, <2>4, <2>5, WorkflowSteps
    DEF PurchaseRowNext, ReversePurchase, RequestPurchaseReversal,
        ApprovePurchaseReversal, RejectPurchaseReversal
<1>4. ASSUME NEW t \in Tanks, NEW calculated \in DipVolumes, CreateTankDip(u, t, calculated)
      PROVE  TypeOK'
  <2>1. calculated \in Int
    BY PurchasesAssumption
  <2>2. current_volume' \in [Tanks -> Int]
    BY <1>4, <2>1 DEF CreateTankDip, TypeOK
  <2>3. dips' \in Seq(DipRow)
    BY <1>4, <2>1 DEF CreateTankDip, TypeOK, DipRow
  <2> QED BY <1>4, <2>2, <2>3 DEF CreateTankDip, TypeOK, otherBooks
<1> QED BY <1>1, <1>2, <1>3, <1>4

-----------------------------------------------------------------------------
\* Adding to the balance of one customer.
LEMMA BalanceTyped ==
  ASSUME TypeOK, NEW c \in Customers, NEW x \in Int
  PROVE  /\ [customer EXCEPT ![c].outstanding_balance = @ + x] \in [Customers -> Customer]
         /\ [customer EXCEPT ![c].outstanding_balance = @ - x] \in [Customers -> Customer]
<1>1. customer \in [Customers -> Customer] /\ customer[c] \in Customer
  BY DEF TypeOK
<1>2. /\ [customer[c] EXCEPT !.outstanding_balance = @ + x] \in Customer
      /\ [customer[c] EXCEPT !.outstanding_balance = @ - x] \in Customer
  BY <1>1 DEF Customer
<1> QED BY <1>1, <1>2

\* Every operation on the payments of either table keeps the types.
LEMMA PaymentsTyped ==
  ASSUME TypeOK, PaymentsNext, UNCHANGED <<salesVars, purchaseVars>>
  PROVE  TypeOK'
<1> USE DEF salesVars, purchaseVars
<1>1. PICK u \in Users :
        \/ \E c \in Customers, amount \in PaymentAmounts : CreateCustomerPayment(u, c, amount)
        \/ \E s \in Suppliers, amount \in PaymentAmounts : CreateSupplierPayment(u, s, amount)
        \/ \E i \in 1..Len(customer_payments) : CustomerPaymentRowNext(u, i)
        \/ \E i \in 1..Len(supplier_payments) : SupplierPaymentRowNext(u, i)
  BY DEF PaymentsNext
<1>2. Fresh \in Workflow
  BY DEF Fresh, Workflow, RequestStatuses
<1>3. ASSUME NEW c \in Customers, NEW amount \in PaymentAmounts,
             CreateCustomerPayment(u, c, amount)
      PROVE  TypeOK'
  <2>1. amount \in Nat /\ amount \in Int
    BY PaymentsAssumption
  <2>2. [customer |-> c, amount |-> amount, rev |-> Fresh] \in CustomerPaymentRow
    BY <1>2, <2>1 DEF CustomerPaymentRow
  <2>3. customer_payments' \in Seq(CustomerPaymentRow)
    BY <1>3, <2>2, AppendRow DEF CreateCustomerPayment, TypeOK
  <2>4. customer' \in [Customers -> Customer]
    BY <1>3, <2>1, BalanceTyped DEF CreateCustomerPayment
  <2> QED BY <1>3, <2>3, <2>4 DEF CreateCustomerPayment, TypeOK, forecourt
<1>4. ASSUME NEW s \in Suppliers, NEW amount \in PaymentAmounts,
             CreateSupplierPayment(u, s, amount)
      PROVE  TypeOK'
  <2>1. amount \in Nat /\ amount \in Int
    BY PaymentsAssumption
  <2>2. [supplier |-> s, amount |-> amount, rev |-> Fresh] \in SupplierPaymentRow
    BY <1>2, <2>1 DEF SupplierPaymentRow
  <2>3. supplier_payments' \in Seq(SupplierPaymentRow)
    BY <1>4, <2>2, AppendRow DEF CreateSupplierPayment, TypeOK
  <2>4. payable_balance' \in [Suppliers -> Int]
    BY <1>4, <2>1, AddAt DEF CreateSupplierPayment, TypeOK
  <2> QED BY <1>4, <2>3, <2>4 DEF CreateSupplierPayment, TypeOK, forecourt
<1>5. ASSUME NEW i \in 1..Len(customer_payments), CustomerPaymentRowNext(u, i)
      PROVE  TypeOK'
  <2>0. customer_payments[i] \in CustomerPaymentRow
    BY DEF TypeOK
  <2>1. /\ customer_payments[i].rev \in Workflow
        /\ customer_payments[i].customer \in Customers /\ customer_payments[i].amount \in Int
    BY <2>0 DEF CustomerPaymentRow
  <2>2. ASSUME NEW rev \in Workflow,
               customer_payments' = [customer_payments EXCEPT ![i] = [@ EXCEPT !.rev = rev]]
        PROVE  customer_payments' \in Seq(CustomerPaymentRow)
    <3>1. [customer_payments[i] EXCEPT !.rev = rev] \in CustomerPaymentRow
      BY <2>0 DEF CustomerPaymentRow
    <3> QED BY <2>2, <3>1, RewriteRow DEF TypeOK
  <2>3. ASSUME NEW rev \in Workflow, UndoCustomerPayment(i, rev) PROVE TypeOK'
    <3>1. customer' \in [Customers -> Customer]
      BY <2>1, <2>3, BalanceTyped DEF UndoCustomerPayment
    <3> QED BY <2>2, <2>3, <3>1 DEF UndoCustomerPayment, TypeOK, forecourt
  <2>4. ASSUME NEW rev \in Workflow, MarkCustomerPayment(i, rev) PROVE TypeOK'
    BY <2>2, <2>4 DEF MarkCustomerPayment, TypeOK, forecourt
  <2> QED
    BY <1>5, <2>1, <2>3, <2>4, WorkflowSteps
    DEF CustomerPaymentRowNext, ReverseCustomerPayment, RequestCustomerPaymentReversal,
        ApproveCustomerPaymentReversal, RejectCustomerPaymentReversal
<1>6. ASSUME NEW i \in 1..Len(supplier_payments), SupplierPaymentRowNext(u, i)
      PROVE  TypeOK'
  <2>0. supplier_payments[i] \in SupplierPaymentRow
    BY DEF TypeOK
  <2>1. /\ supplier_payments[i].rev \in Workflow
        /\ supplier_payments[i].supplier \in Suppliers /\ supplier_payments[i].amount \in Int
    BY <2>0 DEF SupplierPaymentRow
  <2>2. ASSUME NEW rev \in Workflow,
               supplier_payments' = [supplier_payments EXCEPT ![i] = [@ EXCEPT !.rev = rev]]
        PROVE  supplier_payments' \in Seq(SupplierPaymentRow)
    <3>1. [supplier_payments[i] EXCEPT !.rev = rev] \in SupplierPaymentRow
      BY <2>0 DEF SupplierPaymentRow
    <3> QED BY <2>2, <3>1, RewriteRow DEF TypeOK
  <2>3. ASSUME NEW rev \in Workflow, UndoSupplierPayment(i, rev) PROVE TypeOK'
    <3>1. payable_balance' \in [Suppliers -> Int]
      BY <2>1, <2>3, AddAt DEF UndoSupplierPayment, TypeOK
    <3> QED BY <2>2, <2>3, <3>1 DEF UndoSupplierPayment, TypeOK, forecourt
  <2>4. ASSUME NEW rev \in Workflow, MarkSupplierPayment(i, rev) PROVE TypeOK'
    BY <2>2, <2>4 DEF MarkSupplierPayment, TypeOK, forecourt
  <2> QED
    BY <1>6, <2>1, <2>3, <2>4, WorkflowSteps
    DEF SupplierPaymentRowNext, ReverseSupplierPayment, RequestSupplierPaymentReversal,
        ApproveSupplierPaymentReversal, RejectSupplierPaymentReversal
<1> QED BY <1>1, <1>3, <1>4, <1>5, <1>6

\* Every operation on credit limits and overrides keeps the types.
LEMMA CreditOverridesTyped ==
  ASSUME TypeOK, CreditOverridesNext, UNCHANGED <<salesVars, purchaseVars, paymentVars>>
  PROVE  TypeOK'
<1>1. PICK u \in Users, c \in Customers :
        \/ \E limit \in Limits : UpdateCustomer(u, c, limit)
        \/ \E amount \in OverrideAmounts : RequestCreditOverride(u, c, amount)
        \/ ApproveCreditOverride(u, c)
        \/ RejectCreditOverride(u, c)
  BY DEF CreditOverridesNext
<1>2. customer[c] \in Customer
  BY DEF TypeOK
<1>3. \E k \in Customer : customer' = [customer EXCEPT ![c] = k]
  <2>1. CASE \E limit \in Limits : UpdateCustomer(u, c, limit)
    BY <1>2, <2>1, CreditOverridesAssumption DEF UpdateCustomer, Customer
  <2>2. CASE \E amount \in OverrideAmounts : RequestCreditOverride(u, c, amount)
    BY <1>2, <2>2, CreditOverridesAssumption
    DEF RequestCreditOverride, Customer, OverrideStatuses
  <2>3. CASE ApproveCreditOverride(u, c)
    BY <1>2, <2>3 DEF ApproveCreditOverride, Customer, OverrideStatuses
  <2>4. CASE RejectCreditOverride(u, c)
    BY <1>2, <2>4 DEF RejectCreditOverride, Customer, OverrideStatuses
  <2> QED BY <1>1, <2>1, <2>2, <2>3, <2>4
<1>4. customer' \in [Customers -> Customer]
  BY <1>3 DEF TypeOK
<1>5. UNCHANGED notCustomers
  BY <1>1 DEF UpdateCustomer, RequestCreditOverride, ApproveCreditOverride, RejectCreditOverride
<1> QED BY <1>4, <1>5 DEF TypeOK, notCustomers, salesVars, purchaseVars, paymentVars

-----------------------------------------------------------------------------
\* The tables start empty and the records as they are created.
LEMMA InitTyped == Init => TypeOK
<1> SUFFICES ASSUME Init PROVE TypeOK
  OBVIOUS
<1>1. nozzle \in [Nozzles -> Nozzle]
  BY RecordsAssumption DEF Init, StateInit, Nozzle
<1>2. customer \in [Customers -> Customer]
  BY RecordsAssumption DEF Init, StateInit, Customer, OverrideStatuses
<1>3. current_volume \in [Tanks -> Int] /\ payable_balance \in [Suppliers -> Int]
  BY RecordsAssumption DEF Init, StateInit
<1>4. \A R : << >> \in Seq(R)
  OBVIOUS
<1> QED BY <1>1, <1>2, <1>3, <1>4
        DEF Init, StateInit, ShiftsInit, FuelSalesInit, PurchasesInit, PaymentsInit, TypeOK

\* TypeOK is inductive: the services one by one.
LEMMA StepTyped == TypeOK /\ [Next]_vars => TypeOK'
<1> SUFFICES ASSUME TypeOK, [Next]_vars PROVE TypeOK'
  OBVIOUS
<1>1. CASE UNCHANGED vars
  BY <1>1 DEF TypeOK, vars, salesVars, purchaseVars, paymentVars
<1> QED BY <1>1, ShiftsTyped, FuelSalesTyped, PurchasesTyped, PaymentsTyped,
           CreditOverridesTyped DEF Next

\* In every reachable state every record and every row has the columns of its
\* model: override amounts stay naturals, meters never run below zero, a row's
\* references exist.
THEOREM TypeCorrect == Spec => []TypeOK
<1> QED BY InitTyped, StepTyped, PTL DEF Spec

-----------------------------------------------------------------------------
(* 2. Bounds of balances and tanks, and the reversal protocol *)

\* The fields of a row, once for every proof.
LEMMA SaleFields ==
  ASSUME TypeOK, NEW i \in 1..Len(sales)
  PROVE  /\ sales[i] \in FuelSaleRow
         /\ sales[i].nozzle \in Nozzles /\ Feeds[sales[i].nozzle] \in Tanks
         /\ sales[i].customer \in Customers \cup {NoCustomer}
         /\ sales[i].opening_meter \in Nat /\ sales[i].closing_meter \in Nat
         /\ sales[i].total_amount \in Nat /\ Quantity(sales[i]) \in Int
         /\ sales[i].rev \in Workflow
<1>1. sales[i] \in FuelSaleRow
  BY DEF TypeOK
<1> QED BY <1>1, FeedsTyped DEF FuelSaleRow, Quantity

\* The fields of a purchase, for every proof about purchases.
LEMMA PurchaseFields ==
  ASSUME TypeOK, NEW i \in 1..Len(purchases)
  PROVE  /\ purchases[i] \in PurchaseRow
         /\ purchases[i].tank \in Tanks /\ purchases[i].supplier \in Suppliers
         /\ purchases[i].quantity \in Nat /\ purchases[i].total_amount \in Nat
         /\ purchases[i].rev \in Workflow
<1>1. purchases[i] \in PurchaseRow
  BY DEF TypeOK
<1> QED BY <1>1 DEF PurchaseRow

\* The fields of the payments of both tables.
LEMMA PaymentFields ==
  ASSUME TypeOK
  PROVE  /\ \A i \in 1..Len(customer_payments) :
              /\ customer_payments[i] \in CustomerPaymentRow
              /\ customer_payments[i].customer \in Customers
              /\ customer_payments[i].amount \in Nat
              /\ customer_payments[i].rev \in Workflow
         /\ \A i \in 1..Len(supplier_payments) :
              /\ supplier_payments[i] \in SupplierPaymentRow
              /\ supplier_payments[i].supplier \in Suppliers
              /\ supplier_payments[i].amount \in Nat
              /\ supplier_payments[i].rev \in Workflow
<1>1. ASSUME NEW i \in 1..Len(customer_payments)
      PROVE  customer_payments[i] \in CustomerPaymentRow
  BY DEF TypeOK
<1>2. ASSUME NEW i \in 1..Len(supplier_payments)
      PROVE  supplier_payments[i] \in SupplierPaymentRow
  BY DEF TypeOK
<1> QED BY <1>1, <1>2 DEF CustomerPaymentRow, SupplierPaymentRow

-----------------------------------------------------------------------------
\* The steps of the station by what they do, the reversal workflow of a table
\* folded into undoing a row and marking one.  The invariants below look at the
\* effects only, so each is proved over these seventeen cases.

Undoing(d, rev) == ~d.reversed /\ rev.reversed /\ rev \in Workflow
Marking(d, rev) == ~d.reversed /\ ~rev.reversed /\ rev \in Workflow

SaleCreated ==
  \E u \in Users, n \in Nozzles, c \in Customers \cup {NoCustomer}, sale_type \in SaleTypes,
     closing \in MeterReadings, rate \in Rates, shift_id \in 0..Len(shifts) :
    CreateFuelSale(u, n, c, sale_type, closing, rate, shift_id)
SaleUndone ==
  \E i \in 1..Len(sales), rev \in Workflow : Undoing(sales[i].rev, rev) /\ UndoSale(i, rev)
SaleMarked ==
  \E i \in 1..Len(sales), rev \in Workflow : Marking(sales[i].rev, rev) /\ MarkSale(i, rev)
MeterAdjusted ==
  \E u \in Users, n \in Nozzles, new_reading \in MeterReadings :
    AdjustNozzleMeter(u, n, new_reading)

\* Of the workflow's four steps two mark a row and two undo it.
LEMMA WorkflowMarks ==
  ASSUME NEW d \in Workflow, NEW u \in Users
  PROVE  /\ MayRequest(d) => Marking(d, Requested(d, u))
         /\ MayReject(d) => Marking(d, Rejected(d))
         /\ MayReverse(d, u) => Undoing(d, Reversed(d, u))
         /\ MayApprove(d) => Undoing(d, Approved(d, u))
BY WorkflowSteps DEF Workflow, Marking, Undoing, MayRequest, MayReject, MayReverse, MayApprove,
   Requested, Rejected, Reversed, Approved

\* What the operations on sales and meters do is one of four things.
LEMMA FuelSalesCases ==
  ASSUME TypeOK, FuelSalesNext
  PROVE  SaleCreated \/ SaleUndone \/ SaleMarked \/ MeterAdjusted
<1>1. ASSUME NEW u \in Users, NEW i \in 1..Len(sales), SaleReversalNext(u, i)
      PROVE  SaleUndone \/ SaleMarked
  <2>1. sales[i].rev \in Workflow
    BY SaleFields
  <2>2. CASE ReverseFuelSale(u, i)
    BY <2>1, <2>2, WorkflowSteps, WorkflowMarks DEF ReverseFuelSale, SaleUndone
  <2>3. CASE RequestFuelSaleReversal(u, i)
    BY <2>1, <2>3, WorkflowSteps, WorkflowMarks DEF RequestFuelSaleReversal, SaleMarked
  <2>4. CASE ApproveFuelSaleReversal(u, i)
    BY <2>1, <2>4, WorkflowSteps, WorkflowMarks DEF ApproveFuelSaleReversal, SaleUndone
  <2>5. CASE RejectFuelSaleReversal(u, i)
    BY <2>1, <2>5, WorkflowSteps, WorkflowMarks DEF RejectFuelSaleReversal, SaleMarked
  <2> QED BY <1>1, <2>2, <2>3, <2>4, <2>5 DEF SaleReversalNext
<1> QED BY <1>1 DEF FuelSalesNext, SaleCreated, MeterAdjusted

PurchaseCreated ==
  \E u \in Users, s \in Suppliers, t \in Tanks, quantity \in Deliveries, rate \in PurchaseRates :
    CreatePurchase(u, s, t, quantity, rate)
PurchaseApprovedStep == \E u \in Users, i \in 1..Len(purchases) : ApprovePurchase(u, i)
PurchaseRejectedStep == \E u \in Users, i \in 1..Len(purchases) : RejectPurchase(u, i)
PurchaseUndone ==
  \E i \in 1..Len(purchases), rev \in Workflow :
    Undoing(purchases[i].rev, rev) /\ UndoPurchase(i, rev)
PurchaseMarked ==
  \E i \in 1..Len(purchases), rev \in Workflow :
    Marking(purchases[i].rev, rev) /\ MarkPurchase(i, rev)
TankDipped ==
  \E u \in Users, t \in Tanks, calculated \in DipVolumes : CreateTankDip(u, t, calculated)

\* What the operations on purchases and dips do is one of six things.
LEMMA PurchasesCases ==
  ASSUME TypeOK, PurchasesNext
  PROVE  \/ PurchaseCreated \/ PurchaseApprovedStep \/ PurchaseRejectedStep
         \/ PurchaseUndone \/ PurchaseMarked \/ TankDipped
<1>1. ASSUME NEW u \in Users, NEW i \in 1..Len(purchases), PurchaseRowNext(u, i)
      PROVE  \/ PurchaseApprovedStep \/ PurchaseRejectedStep
             \/ PurchaseUndone \/ PurchaseMarked
  <2>1. purchases[i].rev \in Workflow
    BY PurchaseFields
  <2>2. CASE ApprovePurchase(u, i) \/ RejectPurchase(u, i)
    BY <2>2 DEF PurchaseApprovedStep, PurchaseRejectedStep
  <2>3. CASE ReversePurchase(u, i)
    BY <2>1, <2>3, WorkflowSteps, WorkflowMarks DEF ReversePurchase, PurchaseUndone
  <2>4. CASE RequestPurchaseReversal(u, i)
    BY <2>1, <2>4, WorkflowSteps, WorkflowMarks DEF RequestPurchaseReversal, PurchaseMarked
  <2>5. CASE ApprovePurchaseReversal(u, i)
    BY <2>1, <2>5, WorkflowSteps, WorkflowMarks DEF ApprovePurchaseReversal, PurchaseUndone
  <2>6. CASE RejectPurchaseReversal(u, i)
    BY <2>1, <2>6, WorkflowSteps, WorkflowMarks DEF RejectPurchaseReversal, PurchaseMarked
  <2> QED BY <1>1, <2>2, <2>3, <2>4, <2>5, <2>6 DEF PurchaseRowNext
<1> QED BY <1>1 DEF PurchasesNext, PurchaseCreated, TankDipped

CustomerPaid ==
  \E u \in Users, c \in Customers, amount \in PaymentAmounts : CreateCustomerPayment(u, c, amount)
SupplierPaid ==
  \E u \in Users, s \in Suppliers, amount \in PaymentAmounts : CreateSupplierPayment(u, s, amount)
CustomerPaymentUndone ==
  \E i \in 1..Len(customer_payments), rev \in Workflow :
    Undoing(customer_payments[i].rev, rev) /\ UndoCustomerPayment(i, rev)
CustomerPaymentMarked ==
  \E i \in 1..Len(customer_payments), rev \in Workflow :
    Marking(customer_payments[i].rev, rev) /\ MarkCustomerPayment(i, rev)
SupplierPaymentUndone ==
  \E i \in 1..Len(supplier_payments), rev \in Workflow :
    Undoing(supplier_payments[i].rev, rev) /\ UndoSupplierPayment(i, rev)
SupplierPaymentMarked ==
  \E i \in 1..Len(supplier_payments), rev \in Workflow :
    Marking(supplier_payments[i].rev, rev) /\ MarkSupplierPayment(i, rev)

\* What the operations on payments do is one of six things.
LEMMA PaymentsCases ==
  ASSUME TypeOK, PaymentsNext
  PROVE  \/ CustomerPaid \/ CustomerPaymentUndone \/ CustomerPaymentMarked
         \/ SupplierPaid \/ SupplierPaymentUndone \/ SupplierPaymentMarked
<1>1. ASSUME NEW u \in Users, NEW i \in 1..Len(customer_payments), CustomerPaymentRowNext(u, i)
      PROVE  CustomerPaymentUndone \/ CustomerPaymentMarked
  <2>1. customer_payments[i].rev \in Workflow
    BY PaymentFields
  <2> QED
    BY <1>1, <2>1, WorkflowSteps, WorkflowMarks
    DEF CustomerPaymentRowNext, CustomerPaymentUndone, CustomerPaymentMarked,
        ReverseCustomerPayment, RequestCustomerPaymentReversal,
        ApproveCustomerPaymentReversal, RejectCustomerPaymentReversal
<1>2. ASSUME NEW u \in Users, NEW i \in 1..Len(supplier_payments), SupplierPaymentRowNext(u, i)
      PROVE  SupplierPaymentUndone \/ SupplierPaymentMarked
  <2>1. supplier_payments[i].rev \in Workflow
    BY PaymentFields
  <2> QED
    BY <1>2, <2>1, WorkflowSteps, WorkflowMarks
    DEF SupplierPaymentRowNext, SupplierPaymentUndone, SupplierPaymentMarked,
        ReverseSupplierPayment, RequestSupplierPaymentReversal,
        ApproveSupplierPaymentReversal, RejectSupplierPaymentReversal
<1> QED BY <1>1, <1>2 DEF PaymentsNext, CustomerPaid, SupplierPaid

-----------------------------------------------------------------------------
\* A sale's closing meter is not below its opening meter: a reversal puts litres
\* back, never takes them.
SalesMoveForward == \A i \in 1..Len(sales) : sales[i].opening_meter <= sales[i].closing_meter

\* What create_fuel_sale leaves in the table: one more row, all others as
\* before.
LEMMA SaleCreatedFacts ==
  ASSUME TypeOK, NEW u \in Users, NEW n \in Nozzles, NEW c \in Customers \cup {NoCustomer},
         NEW sale_type \in SaleTypes, NEW closing \in MeterReadings, NEW rate \in Rates,
         NEW shift_id \in 0..Len(shifts),
         CreateFuelSale(u, n, c, sale_type, closing, rate, shift_id)
  PROVE  LET opening  == nozzle[n].meter_reading
             last     == Len(sales) + 1
         IN  /\ Len(sales') = last
             /\ \A k \in 1..Len(sales) : sales'[k] = sales[k]
             /\ sales'[last].nozzle = n /\ sales'[last].customer = c
             /\ sales'[last].sale_type = sale_type
             /\ sales'[last].rev = Fresh
             /\ sales'[last].opening_meter = opening /\ sales'[last].closing_meter = closing
             /\ sales'[last].total_amount = (closing - opening) * rate
             /\ opening \in Nat /\ closing \in Nat /\ opening <= closing
             /\ closing - opening \in Nat /\ (closing - opening) * rate \in Nat
             /\ Len(sales) \in Nat
<1> DEFINE opening == nozzle[n].meter_reading
           amount == (closing - opening) * rate
<1>1. opening \in Nat /\ closing \in Nat /\ opening <= closing /\ rate \in Nat
  BY FuelSalesAssumption DEF TypeOK, Nozzle, CreateFuelSale
<1>2. closing - opening \in Nat
  BY <1>1
<1>3. amount \in Nat
  <2> DEFINE q == closing - opening
  <2>1. q \in Nat
    BY <1>2
  <2> HIDE DEF q
  <2>2. q * rate \in Nat
    BY <1>1, <2>1
  <2> QED BY <2>2 DEF q
<1>4. PICK shift :
        sales' = Append(sales,
          [nozzle |-> n, customer |-> c, sale_type |-> sale_type, shift |-> shift,
           opening_meter |-> opening, closing_meter |-> closing, total_amount |-> amount,
           adjustments_before |-> Len(adjustments), after_close |-> FALSE, rev |-> Fresh])
  BY DEF CreateFuelSale
<1> HIDE DEF amount, opening
<1>5. sales \in Seq(FuelSaleRow) /\ Len(sales) \in Nat
  BY DEF TypeOK
<1>6. /\ Len(sales') = Len(sales) + 1
      /\ \A k \in 1..Len(sales) : sales'[k] = sales[k]
      /\ sales'[Len(sales) + 1]
           = [nozzle |-> n, customer |-> c, sale_type |-> sale_type, shift |-> shift,
              opening_meter |-> opening, closing_meter |-> closing, total_amount |-> amount,
              adjustments_before |-> Len(adjustments), after_close |-> FALSE, rev |-> Fresh]
  BY <1>4, <1>5
<1> QED BY <1>1, <1>2, <1>3, <1>5, <1>6 DEF amount, opening

\* Undoing or marking a sale changes nothing but its workflow record.
LEMMA SaleRewritten ==
  ASSUME TypeOK, NEW i \in 1..Len(sales), NEW rev \in Workflow,
         UndoSale(i, rev) \/ MarkSale(i, rev)
  PROVE  /\ Len(sales') = Len(sales) /\ Len(sales) \in Nat
         /\ \A k \in 1..Len(sales) : k # i => sales'[k] = sales[k]
         /\ sales'[i].nozzle = sales[i].nozzle /\ sales'[i].customer = sales[i].customer
         /\ sales'[i].sale_type = sales[i].sale_type
         /\ sales'[i].opening_meter = sales[i].opening_meter
         /\ sales'[i].closing_meter = sales[i].closing_meter
         /\ sales'[i].total_amount = sales[i].total_amount
         /\ sales'[i].rev = rev
<1>1. sales[i] \in FuelSaleRow
  BY SaleFields
<1>2. PICK late \in BOOLEAN :
        sales' = [sales EXCEPT ![i] = [sales[i] EXCEPT !.rev = rev, !.after_close = late]]
  <2>1. CASE UndoSale(i, rev)
    BY <2>1 DEF UndoSale
  <2>2. CASE MarkSale(i, rev)
    <3>1. [sales[i] EXCEPT !.rev = rev]
            = [sales[i] EXCEPT !.rev = rev, !.after_close = sales[i].after_close]
      BY <1>1 DEF FuelSaleRow
    <3>2. sales[i].after_close \in BOOLEAN
      BY <1>1 DEF FuelSaleRow
    <3> QED BY <2>2, <3>1, <3>2 DEF MarkSale
  <2> QED BY <2>1, <2>2
<1> DEFINE row == [sales[i] EXCEPT !.rev = rev, !.after_close = late]
<1>3. /\ row.nozzle = sales[i].nozzle /\ row.customer = sales[i].customer
      /\ row.sale_type = sales[i].sale_type
      /\ row.opening_meter = sales[i].opening_meter
      /\ row.closing_meter = sales[i].closing_meter
      /\ row.total_amount = sales[i].total_amount
      /\ row.rev = rev
  BY <1>1 DEF FuelSaleRow
<1>4. sales' = [sales EXCEPT ![i] = row] /\ sales \in Seq(FuelSaleRow)
  BY <1>2 DEF TypeOK
<1> HIDE DEF row
<1>5. /\ Len(sales') = Len(sales) /\ Len(sales) \in Nat /\ sales'[i] = row
      /\ \A k \in 1..Len(sales) : k # i => sales'[k] = sales[k]
  BY <1>4
<1> QED BY <1>3, <1>5

-----------------------------------------------------------------------------
\* Nobody owes a negative amount: each handler that lowers a balance first
\* checks that the balance covers the amount.
LEMMA BalancesStepSales ==
  ASSUME TypeOK, NoNegativeBalance, FuelSalesNext
  PROVE  NoNegativeBalance'
<1>1. CASE SaleCreated
  <2>1. PICK u \in Users, n \in Nozzles, c \in Customers \cup {NoCustomer}, sale_type \in SaleTypes,
             closing \in MeterReadings, rate \in Rates, shift_id \in 0..Len(shifts) :
               CreateFuelSale(u, n, c, sale_type, closing, rate, shift_id)
    BY <1>1 DEF SaleCreated
  <2> DEFINE amount == (closing - nozzle[n].meter_reading) * rate
  <2>2. amount \in Nat
    BY <2>1, SaleCreatedFacts
  <2>3. customer' = IF sale_type = "credit" THEN [customer EXCEPT ![c] = Charged(@, amount)]
                                           ELSE customer
    BY <2>1 DEF CreateFuelSale
  <2>4. sale_type = "credit" => c \in Customers
    BY <2>1 DEF CreateFuelSale
  <2> HIDE DEF amount
  <2>5. ASSUME NEW k \in Customer
        PROVE  Charged(k, amount).outstanding_balance = k.outstanding_balance + amount
    BY DEF Charged, Customer
  <2>6. ASSUME NEW d \in Customers PROVE customer'[d].outstanding_balance >= 0
    <3>1. customer[d] \in Customer /\ customer[d].outstanding_balance >= 0
      BY DEF TypeOK, NoNegativeBalance
    <3>2. customer[d].outstanding_balance + amount >= 0
      BY <2>2, <3>1 DEF Customer
    <3>3. customer'[d] = customer[d] \/ customer'[d] = Charged(customer[d], amount)
      BY <2>3, <2>4 DEF TypeOK
    <3> QED BY <2>5, <3>1, <3>2, <3>3
  <2> QED BY <2>1, <2>6 DEF NoNegativeBalance, CreateFuelSale
<1>2. CASE SaleUndone
  <2>1. PICK i \in 1..Len(sales), rev \in Workflow : UndoSale(i, rev)
    BY <1>2 DEF SaleUndone
  <2>2. sales[i].total_amount \in Nat /\ sales[i].customer \in Customers \cup {NoCustomer}
    BY SaleFields
  <2>3. ASSUME NEW d \in Customers PROVE customer'[d].outstanding_balance >= 0
    <3>1. customer[d] \in Customer /\ customer[d].outstanding_balance >= 0
      BY DEF TypeOK, NoNegativeBalance
    <3>2. CASE sales[i].customer = d
      <4>1. customer[d].outstanding_balance >= sales[i].total_amount /\ d # NoCustomer
        BY <2>1, <3>2, RecordsAssumption DEF UndoSale, MayUndo
      <4>2. customer'[d].outstanding_balance = customer[d].outstanding_balance - sales[i].total_amount
        BY <2>1, <3>1, <3>2, <4>1 DEF UndoSale, TypeOK, Customer
      <4> QED BY <2>2, <3>1, <4>1, <4>2 DEF Customer
    <3>3. CASE sales[i].customer # d
      BY <2>1, <3>1, <3>3 DEF UndoSale, TypeOK
    <3> QED BY <3>2, <3>3
  <2> QED BY <2>1, <2>3 DEF NoNegativeBalance, UndoSale
<1>3. CASE SaleMarked
  BY <1>3 DEF SaleMarked, MarkSale, NoNegativeBalance
<1>4. CASE MeterAdjusted
  BY <1>4 DEF MeterAdjusted, AdjustNozzleMeter, NoNegativeBalance
<1> QED BY <1>1, <1>2, <1>3, <1>4, FuelSalesCases

\* The supply side keeps balances from going below zero: reverse_purchase
\* compares first.
LEMMA BalancesStepPurchases ==
  ASSUME TypeOK, NoNegativeBalance, PurchasesNext
  PROVE  NoNegativeBalance'
<1>1. UNCHANGED customer
  <2>1. UNCHANGED otherBooks
    BY PurchasesCases
    DEF PurchaseCreated, PurchaseApprovedStep, PurchaseRejectedStep, PurchaseUndone,
        PurchaseMarked, TankDipped, CreatePurchase, ApprovePurchase, RejectPurchase,
        UndoPurchase, MarkPurchase, CreateTankDip, otherBooks
  <2> QED BY <2>1 DEF otherBooks
<1>2. ASSUME NEW s \in Suppliers PROVE payable_balance'[s] >= 0
  <2>1. payable_balance[s] >= 0 /\ payable_balance[s] \in Int
    BY DEF NoNegativeBalance, TypeOK
  <2>2. ASSUME NEW r \in Suppliers, NEW amount \in Int,
               payable_balance' = [payable_balance EXCEPT ![r] = @ + amount],
               payable_balance[r] + amount >= 0
        PROVE  payable_balance'[s] >= 0
    BY <2>1, <2>2 DEF TypeOK
  <2>3. CASE PurchaseCreated
    <3>1. PICK u \in Users, r \in Suppliers, t \in Tanks, quantity \in Deliveries,
               rate \in PurchaseRates : CreatePurchase(u, r, t, quantity, rate)
      BY <2>3 DEF PurchaseCreated
    <3> DEFINE amount == quantity * rate
    <3>2. amount \in Nat
      BY PurchasesAssumption
    <3>3. \/ payable_balance' = [payable_balance EXCEPT ![r] = @ + amount]
          \/ UNCHANGED payable_balance
      BY <3>1 DEF CreatePurchase, ApplyPurchaseEffects
    <3> HIDE DEF amount
    <3>4. payable_balance[r] + amount >= 0
      BY <3>2 DEF NoNegativeBalance, TypeOK
    <3> QED BY <2>1, <2>2, <3>2, <3>3, <3>4
  <2>4. CASE PurchaseApprovedStep
    <3>1. PICK i \in 1..Len(purchases), u \in Users : ApprovePurchase(u, i)
      BY <2>4 DEF PurchaseApprovedStep
    <3>2. purchases[i].supplier \in Suppliers /\ purchases[i].total_amount \in Nat
      BY PurchaseFields
    <3>3. payable_balance[purchases[i].supplier] + purchases[i].total_amount >= 0
      BY <3>2 DEF NoNegativeBalance, TypeOK
    <3>4. payable_balance' = [payable_balance EXCEPT ![purchases[i].supplier]
                                                      = @ + purchases[i].total_amount]
      BY <3>1 DEF ApprovePurchase, ApplyPurchaseEffects
    <3>5. purchases[i].total_amount \in Int
      BY <3>2
    <3> QED BY <2>2, <3>2, <3>3, <3>4, <3>5
  <2>5. CASE PurchaseUndone
    <3>1. PICK i \in 1..Len(purchases), rev \in Workflow : UndoPurchase(i, rev)
      BY <2>5 DEF PurchaseUndone
    <3>2. purchases[i].supplier \in Suppliers /\ purchases[i].total_amount \in Nat
      BY PurchaseFields
    <3>3. payable_balance[purchases[i].supplier] + (-purchases[i].total_amount) >= 0
      BY <3>1, <3>2 DEF UndoPurchase, TypeOK
    <3>4. payable_balance' = [payable_balance EXCEPT ![purchases[i].supplier]
                                                      = @ + (-purchases[i].total_amount)]
      BY <3>1 DEF UndoPurchase, ApplyPurchaseEffects
    <3>5. -purchases[i].total_amount \in Int
      BY <3>2
    <3> QED BY <2>2, <3>2, <3>3, <3>4, <3>5
  <2>6. CASE PurchaseRejectedStep \/ PurchaseMarked \/ TankDipped
    BY <2>1, <2>6 DEF PurchaseRejectedStep, RejectPurchase, PurchaseMarked, MarkPurchase,
                      TankDipped, CreateTankDip
  <2> QED BY <2>3, <2>4, <2>5, <2>6, PurchasesCases
<1> QED BY <1>1, <1>2 DEF NoNegativeBalance

\* So do payments, which are limited to what is owed, and their reversals,
\* which add.
LEMMA BalancesStepPayments ==
  ASSUME TypeOK, NoNegativeBalance, PaymentsNext
  PROVE  NoNegativeBalance'
<1>1. ASSUME NEW c \in Customers, NEW amount \in Int, UNCHANGED payable_balance,
             customer' = [customer EXCEPT ![c].outstanding_balance = @ + amount],
             customer[c].outstanding_balance + amount >= 0
      PROVE  NoNegativeBalance'
  <2>1. ASSUME NEW d \in Customers PROVE customer'[d].outstanding_balance >= 0
    <3>1. customer[d] \in Customer /\ customer[d].outstanding_balance >= 0
      BY DEF TypeOK, NoNegativeBalance
    <3> QED BY <1>1, <3>1 DEF TypeOK, Customer
  <2> QED BY <1>1, <2>1 DEF NoNegativeBalance
<1>2. ASSUME NEW s \in Suppliers, NEW amount \in Int, UNCHANGED customer,
             payable_balance' = [payable_balance EXCEPT ![s] = @ + amount],
             payable_balance[s] + amount >= 0
      PROVE  NoNegativeBalance'
  BY <1>2 DEF NoNegativeBalance, TypeOK
<1>3. CASE CustomerPaid
  <2>1. PICK u \in Users, c \in Customers, amount \in PaymentAmounts :
               CreateCustomerPayment(u, c, amount)
    BY <1>3 DEF CustomerPaid
  <2>2. amount \in Nat /\ customer[c] \in Customer /\ amount <= customer[c].outstanding_balance
    BY <2>1, PaymentsAssumption DEF CreateCustomerPayment, TypeOK
  <2>3. customer' = [customer EXCEPT ![c].outstanding_balance = @ + (-amount)]
    <3>1. customer[c].outstanding_balance - amount = customer[c].outstanding_balance + (-amount)
      BY <2>2 DEF Customer
    <3> QED BY <2>1, <3>1 DEF CreateCustomerPayment
  <2>4. customer[c].outstanding_balance + (-amount) >= 0 /\ -amount \in Int
    BY <2>2 DEF Customer
  <2> QED BY <1>1, <2>1, <2>3, <2>4 DEF CreateCustomerPayment
<1>4. CASE CustomerPaymentUndone
  <2>1. PICK i \in 1..Len(customer_payments), rev \in Workflow : UndoCustomerPayment(i, rev)
    BY <1>4 DEF CustomerPaymentUndone
  <2>2. customer_payments[i].customer \in Customers /\ customer_payments[i].amount \in Nat
    BY PaymentFields
  <2>3. customer[customer_payments[i].customer].outstanding_balance
          + customer_payments[i].amount >= 0
    <3>1. customer[customer_payments[i].customer] \in Customer
      BY <2>2 DEF TypeOK
    <3> QED BY <2>2, <3>1 DEF NoNegativeBalance, Customer
  <2>4. customer' = [customer EXCEPT ![customer_payments[i].customer].outstanding_balance
                                       = @ + customer_payments[i].amount]
    BY <2>1 DEF UndoCustomerPayment
  <2>5. customer_payments[i].amount \in Int /\ UNCHANGED payable_balance
    BY <2>1, <2>2 DEF UndoCustomerPayment
  <2> QED BY <1>1, <2>2, <2>3, <2>4, <2>5
<1>5. CASE SupplierPaid
  <2>1. PICK u \in Users, s \in Suppliers, amount \in PaymentAmounts :
               CreateSupplierPayment(u, s, amount)
    BY <1>5 DEF SupplierPaid
  <2>2. amount \in Nat /\ payable_balance[s] \in Int /\ amount <= payable_balance[s]
    BY <2>1, PaymentsAssumption DEF CreateSupplierPayment, TypeOK
  <2>3. payable_balance' = [payable_balance EXCEPT ![s] = @ + (-amount)]
    <3>1. payable_balance[s] - amount = payable_balance[s] + (-amount)
      BY <2>2
    <3> QED BY <2>1, <3>1 DEF CreateSupplierPayment
  <2>4. -amount \in Int /\ payable_balance[s] + (-amount) >= 0 /\ UNCHANGED customer
    BY <2>1, <2>2 DEF CreateSupplierPayment
  <2> QED BY <1>2, <2>3, <2>4
<1>6. CASE SupplierPaymentUndone
  <2>1. PICK i \in 1..Len(supplier_payments), rev \in Workflow : UndoSupplierPayment(i, rev)
    BY <1>6 DEF SupplierPaymentUndone
  <2>2. supplier_payments[i].supplier \in Suppliers /\ supplier_payments[i].amount \in Nat
    BY PaymentFields
  <2>3. payable_balance[supplier_payments[i].supplier] + supplier_payments[i].amount >= 0
    BY <2>2 DEF NoNegativeBalance, TypeOK
  <2>4. payable_balance' = [payable_balance EXCEPT ![supplier_payments[i].supplier]
                                                    = @ + supplier_payments[i].amount]
    BY <2>1 DEF UndoSupplierPayment
  <2>5. supplier_payments[i].amount \in Int /\ UNCHANGED customer
    BY <2>1, <2>2 DEF UndoSupplierPayment
  <2> QED BY <1>2, <2>2, <2>3, <2>4, <2>5
<1>7. CASE CustomerPaymentMarked \/ SupplierPaymentMarked
  BY <1>7 DEF CustomerPaymentMarked, SupplierPaymentMarked, MarkCustomerPayment,
              MarkSupplierPayment, NoNegativeBalance
<1> QED BY <1>3, <1>4, <1>5, <1>6, <1>7, PaymentsCases

\* Credit limits and overrides leave the balances alone.
LEMMA BalancesStepOverrides ==
  ASSUME TypeOK, NoNegativeBalance, CreditOverridesNext
  PROVE  NoNegativeBalance'
<1>1. ASSUME NEW d \in Customers
      PROVE  customer'[d].outstanding_balance = customer[d].outstanding_balance
  <2>1. customer[d] \in Customer
    BY DEF TypeOK
  <2>2. PICK u \in Users, c \in Customers :
          \/ \E limit \in Limits : UpdateCustomer(u, c, limit)
          \/ \E amount \in OverrideAmounts : RequestCreditOverride(u, c, amount)
          \/ ApproveCreditOverride(u, c)
          \/ RejectCreditOverride(u, c)
    BY DEF CreditOverridesNext
  <2>3. ASSUME NEW limit \in Limits, UpdateCustomer(u, c, limit)
        PROVE  customer'[d].outstanding_balance = customer[d].outstanding_balance
    BY <2>1, <2>3 DEF UpdateCustomer, TypeOK, Customer
  <2>4. ASSUME NEW amount \in OverrideAmounts, RequestCreditOverride(u, c, amount)
        PROVE  customer'[d].outstanding_balance = customer[d].outstanding_balance
    BY <2>1, <2>4 DEF RequestCreditOverride, TypeOK, Customer
  <2>5. CASE ApproveCreditOverride(u, c)
    BY <2>1, <2>5 DEF ApproveCreditOverride, TypeOK, Customer
  <2>6. CASE RejectCreditOverride(u, c)
    BY <2>1, <2>6 DEF RejectCreditOverride, TypeOK, Customer
  <2> QED BY <2>2, <2>3, <2>4, <2>5, <2>6
<1>2. UNCHANGED payable_balance
  BY DEF CreditOverridesNext, UpdateCustomer, RequestCreditOverride,
         ApproveCreditOverride, RejectCreditOverride, notCustomers
<1> QED BY <1>1, <1>2 DEF NoNegativeBalance

\* No step makes a balance negative.
LEMMA BalancesStep == TypeOK /\ NoNegativeBalance /\ [Next]_vars => NoNegativeBalance'
<1> SUFFICES ASSUME TypeOK, NoNegativeBalance, [Next]_vars PROVE NoNegativeBalance'
  OBVIOUS
<1>1. CASE UNCHANGED vars
  BY <1>1 DEF NoNegativeBalance, vars
<1>2. CASE ShiftsNext
  BY <1>2 DEF NoNegativeBalance, ShiftsNext, CreateShift, CloseShift
<1> QED BY <1>1, <1>2, BalancesStepSales, BalancesStepPurchases, BalancesStepPayments,
           BalancesStepOverrides DEF Next

\* No customer and no supplier balance is ever negative, whatever is sold, paid,
\* reversed and refunded in whatever order: reversing a sale or a purchase that
\* was paid for is refused.
THEOREM BalancesNeverNegative == Spec => []NoNegativeBalance
<1>1. Init => NoNegativeBalance
  BY DEF Init, StateInit, NoNegativeBalance
<1> QED BY <1>1, BalancesStep, TypeCorrect, PTL DEF Spec

-----------------------------------------------------------------------------
\* Sales move meters forward, so a reversal adds litres to a tank.
LEMMA ForwardStep ==
  ASSUME TypeOK, SalesMoveForward, FuelSalesNext
  PROVE  SalesMoveForward'
<1>1. CASE SaleCreated
  <2>1. PICK u \in Users, n \in Nozzles, c \in Customers \cup {NoCustomer}, sale_type \in SaleTypes,
             closing \in MeterReadings, rate \in Rates, shift_id \in 0..Len(shifts) :
               CreateFuelSale(u, n, c, sale_type, closing, rate, shift_id)
    BY <1>1 DEF SaleCreated
  <2>2. /\ Len(sales') = Len(sales) + 1 /\ Len(sales) \in Nat
        /\ \A k \in 1..Len(sales) : sales'[k] = sales[k]
        /\ sales'[Len(sales) + 1].opening_meter <= sales'[Len(sales) + 1].closing_meter
    BY <2>1, SaleCreatedFacts
  <2> QED BY <2>2 DEF SalesMoveForward
<1>2. CASE SaleUndone \/ SaleMarked
  <2>1. PICK i \in 1..Len(sales), rev \in Workflow : UndoSale(i, rev) \/ MarkSale(i, rev)
    BY <1>2 DEF SaleUndone, SaleMarked
  <2> QED BY <2>1, SaleRewritten DEF SalesMoveForward
<1>3. CASE MeterAdjusted
  BY <1>3 DEF MeterAdjusted, AdjustNozzleMeter, SalesMoveForward
<1> QED BY <1>1, <1>2, <1>3, FuelSalesCases

\* No step makes a sale's closing reading fall below its opening one.
LEMMA ForwardInductive == TypeOK /\ SalesMoveForward /\ [Next]_vars => SalesMoveForward'
<1> SUFFICES ASSUME TypeOK, SalesMoveForward, [Next]_vars PROVE SalesMoveForward'
  OBVIOUS
<1>1. CASE FuelSalesNext
  BY <1>1, ForwardStep
<1>2. CASE UNCHANGED sales
  BY <1>2 DEF SalesMoveForward
<1>3. CASE ShiftsNext
  BY <1>2, <1>3 DEF ShiftsNext, CreateShift, CloseShift
<1>4. CASE PurchasesNext
  BY <1>2, <1>4, PurchasesCases
  DEF PurchaseCreated, PurchaseApprovedStep, PurchaseRejectedStep, PurchaseUndone,
      PurchaseMarked, TankDipped, CreatePurchase, ApprovePurchase, RejectPurchase,
      UndoPurchase, MarkPurchase, CreateTankDip, otherBooks
<1>5. CASE PaymentsNext
  BY <1>2, <1>5, PaymentsCases
  DEF CustomerPaid, CustomerPaymentUndone, CustomerPaymentMarked, SupplierPaid,
      SupplierPaymentUndone, SupplierPaymentMarked, CreateCustomerPayment,
      CreateSupplierPayment, UndoCustomerPayment, UndoSupplierPayment,
      MarkCustomerPayment, MarkSupplierPayment, forecourt
<1>6. CASE CreditOverridesNext
  BY <1>2, <1>6 DEF CreditOverridesNext, UpdateCustomer, RequestCreditOverride,
                    ApproveCreditOverride, RejectCreditOverride, notCustomers
<1>7. CASE UNCHANGED vars
  BY <1>2, <1>7 DEF vars
<1> QED BY <1>1, <1>3, <1>4, <1>5, <1>6, <1>7 DEF Next

\* What the services do to the stock: a sale takes litres the tank holds, a
\* reversal returns some that fit, a purchase adds some that fit, its reversal
\* takes litres the tank still holds, and a dip sets the figure.
StockMoved(t, x) ==
  /\ x \in Int
  /\ current_volume' = [current_volume EXCEPT ![t] = @ + x]
  /\ x >= 0 => current_volume[t] + x <= Capacity[t]
  /\ x < 0 => current_volume[t] + x >= 0
  /\ UNCHANGED dips

\* An operation on sales leaves every tank alone or moves one within its
\* bounds.
LEMMA SalesMoveStock ==
  ASSUME TypeOK, SalesMoveForward, FuelSalesNext, UNCHANGED dips
  PROVE  \/ UNCHANGED <<current_volume, dips>>
         \/ \E t \in Tanks, x \in Int : StockMoved(t, x)
<1>1. CASE SaleCreated
  <2>1. PICK u \in Users, n \in Nozzles, c \in Customers \cup {NoCustomer}, sale_type \in SaleTypes,
             closing \in MeterReadings, rate \in Rates, shift_id \in 0..Len(shifts) :
               CreateFuelSale(u, n, c, sale_type, closing, rate, shift_id)
    BY <1>1 DEF SaleCreated
  <2> DEFINE quantity == closing - nozzle[n].meter_reading
  <2>2. quantity \in Nat
    BY <2>1, SaleCreatedFacts
  <2>3. /\ current_volume' = [current_volume EXCEPT ![Feeds[n]] = @ - quantity]
        /\ quantity <= current_volume[Feeds[n]]
    BY <2>1 DEF CreateFuelSale
  <2>4. Feeds[n] \in Tanks /\ current_volume[Feeds[n]] \in Int
    BY FeedsTyped DEF TypeOK
  <2> HIDE DEF quantity
  <2>5. CASE quantity = 0
    <3>1. current_volume' = current_volume
      BY <2>3, <2>4, <2>5 DEF TypeOK
    <3> QED BY <3>1
  <2>6. CASE quantity > 0
    <3>1. /\ -quantity \in Int /\ -quantity < 0
          /\ current_volume[Feeds[n]] - quantity = current_volume[Feeds[n]] + (-quantity)
          /\ current_volume[Feeds[n]] + (-quantity) >= 0
      BY <2>2, <2>3, <2>4, <2>6
    <3>2. current_volume' = [current_volume EXCEPT ![Feeds[n]]
                                = current_volume[Feeds[n]] + (-quantity)]
      BY <2>3, <3>1
    <3>3. UNCHANGED dips
      OBVIOUS
    <3>4. ~(-quantity >= 0)
      BY <3>1
    <3> DEFINE x == -quantity
    <3>5. /\ x \in Int /\ ~(x >= 0) /\ current_volume[Feeds[n]] + x >= 0
          /\ current_volume' = [current_volume EXCEPT ![Feeds[n]] = @ + x]
      BY <3>1, <3>2, <3>4
    <3> HIDE DEF x
    <3>6. StockMoved(Feeds[n], x)
      BY <3>3, <3>5 DEF StockMoved
    <3> QED BY <2>4, <3>5, <3>6
  <2> QED BY <2>2, <2>5, <2>6
<1>2. CASE SaleUndone
  <2>1. PICK i \in 1..Len(sales), rev \in Workflow : UndoSale(i, rev)
    BY <1>2 DEF SaleUndone
  <2> DEFINE t == Feeds[sales[i].nozzle]
             x == Quantity(sales[i])
  <2>2. t \in Tanks /\ x \in Int /\ x >= 0
    BY SaleFields DEF SalesMoveForward, Quantity
  <2>3. current_volume' = [current_volume EXCEPT ![t] = @ + x] /\ current_volume[t] + x <= Capacity[t]
    BY <2>1 DEF UndoSale, MayUndo
  <2> HIDE DEF t, x
  <2>4. StockMoved(t, x)
    BY <2>2, <2>3 DEF StockMoved
  <2> QED BY <2>2, <2>4
<1>3. CASE SaleMarked \/ MeterAdjusted
  BY <1>3 DEF SaleMarked, MarkSale, MeterAdjusted, AdjustNozzleMeter
<1> QED BY <1>1, <1>2, <1>3, FuelSalesCases

\* So does one on the supply side, except a dip, which sets the figure.
LEMMA PurchasesMoveStock ==
  ASSUME TypeOK, PurchasesNext
  PROVE  \/ UNCHANGED <<current_volume, dips>>
         \/ \E t \in Tanks, x \in Int : StockMoved(t, x)
         \/ TankDipped
<1>1. ASSUME NEW t \in Tanks, NEW x \in Nat, FitsTank(t, x), UNCHANGED dips,
             current_volume' = [current_volume EXCEPT ![t] = @ + x]
      PROVE  \E tank \in Tanks, y \in Int : StockMoved(tank, y)
  <2>1. x \in Int /\ x >= 0
    OBVIOUS
  <2>2. StockMoved(t, x)
    BY <1>1, <2>1 DEF StockMoved, FitsTank
  <2> QED BY <2>1, <2>2
<1>2. CASE PurchaseCreated
  <2>1. PICK u \in Users, s \in Suppliers, t \in Tanks, quantity \in Deliveries,
             rate \in PurchaseRates : CreatePurchase(u, s, t, quantity, rate)
    BY <1>2 DEF PurchaseCreated
  <2>2. quantity \in Nat
    BY PurchasesAssumption
  <2>3. /\ \/ current_volume' = [current_volume EXCEPT ![t] = @ + quantity]
           \/ UNCHANGED current_volume
        /\ FitsTank(t, quantity) /\ UNCHANGED dips
    BY <2>1 DEF CreatePurchase, ApplyPurchaseEffects
  <2> QED BY <1>1, <2>2, <2>3
<1>3. CASE PurchaseApprovedStep
  <2>1. PICK u \in Users, i \in 1..Len(purchases) : ApprovePurchase(u, i)
    BY <1>3 DEF PurchaseApprovedStep
  <2>2. purchases[i].tank \in Tanks /\ purchases[i].quantity \in Nat
    BY PurchaseFields
  <2>3. /\ current_volume' = [current_volume EXCEPT ![purchases[i].tank] = @ + purchases[i].quantity]
        /\ FitsTank(purchases[i].tank, purchases[i].quantity) /\ UNCHANGED dips
    BY <2>1 DEF ApprovePurchase, ApplyPurchaseEffects
  <2> QED BY <1>1, <2>2, <2>3
<1>4. CASE PurchaseUndone
  <2>1. PICK i \in 1..Len(purchases), rev \in Workflow : UndoPurchase(i, rev)
    BY <1>4 DEF PurchaseUndone
  <2> DEFINE t == purchases[i].tank
             q == purchases[i].quantity
  <2>2. t \in Tanks /\ q \in Nat /\ current_volume[t] \in Int
    BY PurchaseFields DEF TypeOK
  <2>3. /\ current_volume' = [current_volume EXCEPT ![t] = @ + (-q)]
        /\ current_volume[t] >= q /\ UNCHANGED dips
    BY <2>1 DEF UndoPurchase, ApplyPurchaseEffects
  <2> HIDE DEF t, q
  <2>4. CASE q = 0
    <3>1. current_volume' = current_volume
      BY <2>2, <2>3, <2>4 DEF TypeOK
    <3> QED BY <2>3, <3>1
  <2>5. CASE q > 0
    <3>1. -q \in Int /\ -q < 0 /\ current_volume[t] + (-q) >= 0
      BY <2>2, <2>3, <2>5
    <3>2. StockMoved(t, -q)
      BY <2>3, <3>1 DEF StockMoved
    <3> QED BY <2>2, <3>1, <3>2
  <2> QED BY <2>2, <2>4, <2>5
<1>5. CASE PurchaseRejectedStep \/ PurchaseMarked
  BY <1>5 DEF PurchaseRejectedStep, RejectPurchase, PurchaseMarked, MarkPurchase
<1> QED BY <1>2, <1>3, <1>4, <1>5, PurchasesCases

\* Shifts, payments and overrides leave the tanks alone.
LEMMA OthersKeepStock ==
  ASSUME TypeOK, ShiftsNext \/ PaymentsNext \/ CreditOverridesNext
  PROVE  UNCHANGED current_volume
<1>1. CASE ShiftsNext
  BY <1>1 DEF ShiftsNext, CreateShift, CloseShift
<1>2. CASE PaymentsNext
  BY <1>2, PaymentsCases
  DEF CustomerPaid, CustomerPaymentUndone, CustomerPaymentMarked, SupplierPaid,
      SupplierPaymentUndone, SupplierPaymentMarked, CreateCustomerPayment,
      CreateSupplierPayment, UndoCustomerPayment, UndoSupplierPayment,
      MarkCustomerPayment, MarkSupplierPayment, forecourt
<1>3. CASE CreditOverridesNext
  BY <1>3 DEF CreditOverridesNext, UpdateCustomer, RequestCreditOverride,
              ApproveCreditOverride, RejectCreditOverride, notCustomers
<1> QED BY <1>1, <1>2, <1>3

\* Where a step may put the stock.
LEMMA StockSteps ==
  ASSUME TypeOK, SalesMoveForward, Next
  PROVE  \/ UNCHANGED <<current_volume, dips>>
         \/ \E t \in Tanks, x \in Int : StockMoved(t, x)
         \/ TankDipped
<1>1. CASE FuelSalesNext /\ UNCHANGED purchaseVars
  BY <1>1, SalesMoveStock DEF purchaseVars
<1>2. CASE PurchasesNext
  BY <1>2, PurchasesMoveStock
<1>3. CASE (ShiftsNext \/ PaymentsNext \/ CreditOverridesNext) /\ UNCHANGED purchaseVars
  BY <1>3, OthersKeepStock DEF purchaseVars
<1>4. CASE PaymentsNext /\ UNCHANGED <<salesVars, purchaseVars>>
  BY <1>3, <1>4
<1> QED BY <1>1, <1>2, <1>3, <1>4 DEF Next

StockSafe == TypeOK /\ SalesMoveForward /\ StockWithinTank

\* A move that the step checked keeps every tank within its bounds.
LEMMA StockMovedSafe ==
  ASSUME TypeOK, StockWithinTank, NEW t \in Tanks, NEW x \in Int, StockMoved(t, x)
  PROVE  StockWithinTank'
<1>0. \A s \in Tanks : current_volume[s] \in Int /\ Capacity[s] \in Nat
  BY RecordsAssumption DEF TypeOK
<1>1. ASSUME NEW s \in Tanks, current_volume[s] \in 0..Capacity[s]
      PROVE  current_volume'[s] \in 0..Capacity[s]
  <2>1. CASE s # t
    BY <1>1, <2>1 DEF StockMoved, TypeOK
  <2>2. CASE s = t
    <3>1. current_volume'[s] = current_volume[s] + x
      BY <2>2 DEF StockMoved, TypeOK
    <3>2. /\ x >= 0 => current_volume[s] + x <= Capacity[s]
          /\ x < 0 => current_volume[s] + x >= 0
      BY <2>2 DEF StockMoved
    <3> QED BY <1>0, <1>1, <3>1, <3>2
  <2> QED BY <2>1, <2>2
<1> QED BY <1>1 DEF StockWithinTank, StockMoved

\* StockWithinTank is preserved: each move checked its tank, a dip explains
\* itself.
LEMMA StockSafeStep == StockSafe /\ [Next]_vars => StockWithinTank'
<1> SUFFICES ASSUME StockSafe, [Next]_vars PROVE StockWithinTank'
  OBVIOUS
<1> USE DEF StockSafe
<1>1. \A t \in Tanks : current_volume[t] \in Int /\ Capacity[t] \in Nat
  BY RecordsAssumption DEF TypeOK
<1>2. CASE UNCHANGED <<current_volume, dips>>
  BY <1>2 DEF StockWithinTank
<1>3. ASSUME NEW t \in Tanks, NEW x \in Int, StockMoved(t, x) PROVE StockWithinTank'
  BY <1>3, StockMovedSafe
<1>4. CASE TankDipped
  <2>1. PICK u \in Users, t \in Tanks, calculated \in DipVolumes : CreateTankDip(u, t, calculated)
    BY <1>4 DEF TankDipped
  <2>2. /\ Len(dips') = Len(dips) + 1 /\ Len(dips) \in Nat
        /\ \A i \in 1..Len(dips) : dips'[i] = dips[i]
        /\ dips'[Len(dips) + 1].tank = t
        /\ dips'[Len(dips) + 1].calculated_volume = calculated
    BY <2>1 DEF CreateTankDip, TypeOK
  <2>3. ASSUME NEW s \in Tanks
        PROVE  \/ current_volume'[s] \in 0..Capacity[s]
               \/ \E i \in 1..Len(dips') :
                    dips'[i].tank = s /\ dips'[i].calculated_volume \notin 0..Capacity[s]
    <3>1. CASE s = t
      <4>1. current_volume'[s] = calculated
        BY <2>1, <3>1 DEF CreateTankDip, TypeOK
      <4> QED BY <2>2, <3>1, <4>1
    <3>2. CASE s # t
      <4>1. current_volume'[s] = current_volume[s]
        BY <2>1, <3>2 DEF CreateTankDip, TypeOK
      <4> QED BY <2>2, <4>1 DEF StockWithinTank
    <3> QED BY <3>1, <3>2
  <2> QED BY <2>3 DEF StockWithinTank
<1>5. CASE UNCHANGED vars
  BY <1>2, <1>5 DEF vars, purchaseVars
<1> QED BY <1>2, <1>3, <1>4, <1>5, StockSteps

\* Whatever is sold, delivered and reversed, no tank runs dry below zero or over
\* its capacity, as long as no dip recorded such a figure.
THEOREM StockStaysInTank == Spec => []StockWithinTank
<1>1. Init => SalesMoveForward /\ StockWithinTank
  BY RecordsAssumption DEF Init, StateInit, SalesMoveForward, StockWithinTank
<1> QED BY <1>1, TypeCorrect, ForwardInductive, StockSafeStep, PTL DEF Spec, StockSafe

-----------------------------------------------------------------------------
\* Reversals follow the workflow.  What a step does to the workflow record of a row,
\* when staff make the requests ...
WorkflowStep(d, e, staff) ==
  \E u \in Users :
    \/ u \in Administrators /\ MayReverse(d, u) /\ e = Reversed(d, u)
    \/ u \in staff \ Administrators /\ MayRequest(d) /\ e = Requested(d, u)
    \/ u \in Reviewers /\ MayApprove(d) /\ e = Approved(d, u)
    \/ MayReject(d) /\ e = Rejected(d)

\* ... to those of a table ...
TableStep(old, new, staff) ==
  \/ /\ Len(new) = Len(old) + 1 /\ new[Len(new)].rev = Fresh
     /\ \A k \in 1..Len(old) : new[k].rev = old[k].rev
  \/ \E i \in 1..Len(old) :
       /\ Len(new) = Len(old) /\ WorkflowStep(old[i].rev, new[i].rev, staff)
       /\ \A k \in 1..Len(old) \ {i} : new[k].rev = old[k].rev
  \/ /\ Len(new) = Len(old)
     /\ \A k \in 1..Len(old) : new[k].rev = old[k].rev

\* ... and what that is to the protocol.
DocStep(d, e, staff) ==
  \/ \E u \in staff \ Administrators :
       d.state = "standing" /\ e = [state |-> "asked", who |-> u]
  \/ d.state = "asked" /\ e = [state |-> "standing", who |-> Nobody]
  \/ \E u \in Reviewers \cup Administrators :
       /\ \/ d.state \in {"standing", "asked"} /\ u \in Administrators
          \/ d.state = "asked" /\ u \in Reviewers \ {d.who}
       /\ e = [state |-> "reversed", who |-> u]

\* The protocol's next-state relation, for any of its four instances.
ProtocolStep(old, new, staff) ==
  \/ new = Append(old, [state |-> "standing", who |-> Nobody])
  \/ \E i \in 1..Len(old) :
       DocStep(old[i], new[i], staff) /\ new = [old EXCEPT ![i] = new[i]]
  \/ new = old

\* Requests are made by those who may not decide.
Requesters(staff) == staff \subseteq Users /\ (staff \ Administrators) \cap Reviewers = {}

\* Neither kind of staff but an administrator decides.
LEMMA StaffRequest == Requesters(ForecourtStaff) /\ Requesters(PaymentStaff)
<1>1. ForecourtStaff \subseteq Users /\ PaymentStaff \subseteq Users
  BY DEF ForecourtStaff, PaymentStaff, WithRole
<1>2. ASSUME NEW u \in (ForecourtStaff \cup PaymentStaff) \ Administrators
      PROVE  u \notin Reviewers
  BY <1>2 DEF ForecourtStaff, PaymentStaff, Administrators, Reviewers, WithRole
<1> QED BY <1>1, <1>2 DEF Requesters

\* A record that is approved is reversed, and one that waits waits for somebody else.
InOrder(d) ==
  /\ d.request = "approved" => d.reversed
  /\ d.request = "pending" => d.requested_by \in Users \ Reviewers

\* A row of the protocol's table.
DocRow == [state : {"standing", "asked", "reversed"}, who : Users \cup {Nobody}]

\* A step of the workflow keeps a record in order, and is one of the protocol.
LEMMA WorkflowStepFollows ==
  ASSUME NEW d \in Workflow, NEW e, NEW staff, Requesters(staff), InOrder(d),
         WorkflowStep(d, e, staff)
  PROVE  /\ e \in Workflow /\ InOrder(e)
         /\ DocStep(DocOf(d), DocOf(e), staff) \/ DocOf(e) = DocOf(d)
<1>1. PICK u \in Users :
        \/ u \in Administrators /\ MayReverse(d, u) /\ e = Reversed(d, u)
        \/ u \in staff \ Administrators /\ MayRequest(d) /\ e = Requested(d, u)
        \/ u \in Reviewers /\ MayApprove(d) /\ e = Approved(d, u)
        \/ MayReject(d) /\ e = Rejected(d)
  BY DEF WorkflowStep
<1>2. d.request \in RequestStatuses /\ d.reversed \in BOOLEAN
      /\ d.requested_by \in Users \cup {Nobody} /\ d.reversed_by \in Users \cup {Nobody}
      /\ d = [request |-> d.request, requested_by |-> d.requested_by,
              reversed |-> d.reversed, reversed_by |-> d.reversed_by]
  BY DEF Workflow
<1>3. CASE u \in Administrators /\ MayReverse(d, u) /\ e = Reversed(d, u)
  <2>1. e \in Workflow
    BY <1>3, WorkflowSteps
  <2>2. /\ e.request = d.request /\ e.requested_by = d.requested_by
        /\ e.reversed /\ e.reversed_by = u /\ ~d.reversed
    BY <1>2, <1>3 DEF Reversed, MayReverse, Workflow
  <2>3. InOrder(e)
    BY <2>2 DEF InOrder
  <2>4. DocOf(e) = [state |-> "reversed", who |-> u] /\ DocOf(d).state \in {"standing", "asked"}
    BY <2>2 DEF DocOf
  <2> QED BY <1>3, <2>1, <2>3, <2>4 DEF DocStep
<1>4. CASE u \in staff \ Administrators /\ MayRequest(d) /\ e = Requested(d, u)
  <2>1. e \in Workflow
    BY <1>4, WorkflowSteps
  <2>2. /\ e.request = "pending" /\ e.requested_by = u
        /\ ~e.reversed /\ ~d.reversed /\ d.request # "pending"
    BY <1>2, <1>4 DEF Requested, MayRequest, Workflow
  <2>3. InOrder(e)
    BY <1>4, <2>2 DEF InOrder, Requesters
  <2>4. DocOf(e) = [state |-> "asked", who |-> u] /\ DocOf(d).state = "standing"
    BY <2>2 DEF DocOf
  <2> QED BY <1>4, <2>1, <2>3, <2>4 DEF DocStep
<1>5. CASE u \in Reviewers /\ MayApprove(d) /\ e = Approved(d, u)
  <2>1. e \in Workflow
    BY <1>5, WorkflowSteps
  <2>2. /\ e.request = "approved" /\ e.requested_by = d.requested_by
        /\ e.reversed /\ e.reversed_by = u /\ ~d.reversed /\ d.request = "pending"
    BY <1>2, <1>5 DEF Approved, Reversed, MayApprove, Workflow, InOrder
  <2>3. InOrder(e)
    BY <2>2 DEF InOrder
  <2>4. d.requested_by # u
    BY <1>5, <2>2 DEF InOrder
  <2>5. DocOf(e) = [state |-> "reversed", who |-> u] /\ DocOf(d).state = "asked"
        /\ DocOf(d).who = d.requested_by
    BY <2>2 DEF DocOf
  <2> QED BY <1>5, <2>1, <2>3, <2>4, <2>5 DEF DocStep
<1>6. CASE MayReject(d) /\ e = Rejected(d)
  <2>1. e \in Workflow
    BY <1>6, WorkflowSteps
  <2>2. /\ e.request = "rejected" /\ ~e.reversed /\ ~d.reversed /\ d.request = "pending"
    BY <1>2, <1>6 DEF Rejected, MayReject, Workflow
  <2>3. InOrder(e)
    BY <2>2 DEF InOrder
  <2>4. DocOf(e) = [state |-> "standing", who |-> Nobody] /\ DocOf(d).state = "asked"
    BY <2>2 DEF DocOf
  <2> QED BY <2>1, <2>3, <2>4 DEF DocStep
<1> QED BY <1>1, <1>3, <1>4, <1>5, <1>6

\* A table's records.
RowsInOrder(table) == \A i \in 1..Len(table) : table[i].rev \in Workflow /\ InOrder(table[i].rev)

\* The table of the protocol, row by row.
LEMMA DocsTyped ==
  ASSUME NEW table, Len(table) \in Nat, RowsInOrder(table)
  PROVE  /\ DocsOf(table) \in Seq(DocRow) /\ Len(DocsOf(table)) = Len(table)
         /\ \A i \in 1..Len(table) : DocsOf(table)[i] = DocOf(table[i].rev)
<1>1. ASSUME NEW i \in 1..Len(table) PROVE DocOf(table[i].rev) \in DocRow
  BY DEF RowsInOrder, Workflow, DocOf, DocRow
<1> QED BY <1>1 DEF DocsOf

\* A table whose rows follow the workflow follows the protocol.
LEMMA TableFollows ==
  ASSUME NEW old, NEW new, NEW staff, Requesters(staff), Len(old) \in Nat, RowsInOrder(old),
         TableStep(old, new, staff)
  PROVE  RowsInOrder(new) /\ ProtocolStep(DocsOf(old), DocsOf(new), staff)
<1>1. CASE /\ Len(new) = Len(old) + 1 /\ new[Len(new)].rev = Fresh
           /\ \A k \in 1..Len(old) : new[k].rev = old[k].rev
  <2>1. /\ Fresh \in Workflow /\ InOrder(Fresh)
        /\ DocOf(Fresh) = [state |-> "standing", who |-> Nobody]
    BY DEF Fresh, Workflow, RequestStatuses, InOrder, DocOf
  <2>2. ASSUME NEW k \in 1..Len(new), k \notin 1..Len(old) PROVE k = Len(new)
    BY <1>1, <2>2
  <2>3. RowsInOrder(new)
    BY <1>1, <2>1, <2>2 DEF RowsInOrder
  <2>4. /\ DocsOf(new) \in Seq(DocRow) /\ Len(DocsOf(new)) = Len(old) + 1
        /\ \A i \in 1..Len(new) : DocsOf(new)[i] = DocOf(new[i].rev)
    BY <1>1, <2>3, DocsTyped
  <2>5. /\ DocsOf(old) \in Seq(DocRow) /\ Len(DocsOf(old)) = Len(old)
        /\ \A i \in 1..Len(old) : DocsOf(old)[i] = DocOf(old[i].rev)
    BY DocsTyped
  <2> DEFINE posted == [state |-> "standing", who |-> Nobody]
  <2>6. posted \in DocRow
    BY DEF DocRow
  <2>7. DocsOf(new)[Len(old) + 1] = posted
    BY <1>1, <2>1, <2>4
  <2>8. \A k \in 1..Len(old) : DocsOf(new)[k] = DocsOf(old)[k]
    BY <1>1, <2>4, <2>5
  <2> HIDE DEF posted
  <2>9. DocsOf(new) = Append(DocsOf(old), posted)
    BY <2>4, <2>5, <2>6, <2>7, <2>8
  <2> QED BY <2>3, <2>9 DEF ProtocolStep, posted
<1>2. ASSUME NEW i \in 1..Len(old), Len(new) = Len(old),
             WorkflowStep(old[i].rev, new[i].rev, staff),
             \A k \in 1..Len(old) \ {i} : new[k].rev = old[k].rev
      PROVE  RowsInOrder(new) /\ ProtocolStep(DocsOf(old), DocsOf(new), staff)
  <2>1. old[i].rev \in Workflow /\ InOrder(old[i].rev)
    BY DEF RowsInOrder
  <2>2. /\ new[i].rev \in Workflow /\ InOrder(new[i].rev)
        /\ \/ DocStep(DocOf(old[i].rev), DocOf(new[i].rev), staff)
           \/ DocOf(new[i].rev) = DocOf(old[i].rev)
    BY <1>2, <2>1, WorkflowStepFollows
  <2>3. RowsInOrder(new)
    BY <1>2, <2>2 DEF RowsInOrder
  <2>4. /\ DocsOf(new) \in Seq(DocRow) /\ Len(DocsOf(new)) = Len(old)
        /\ \A k \in 1..Len(old) : DocsOf(new)[k] = DocOf(new[k].rev)
    BY <1>2, <2>3, DocsTyped
  <2>5. /\ DocsOf(old) \in Seq(DocRow) /\ Len(DocsOf(old)) = Len(old)
        /\ \A k \in 1..Len(old) : DocsOf(old)[k] = DocOf(old[k].rev)
    BY DocsTyped
  <2>6. \A k \in 1..Len(old) \ {i} : DocsOf(new)[k] = DocsOf(old)[k]
    BY <1>2, <2>4, <2>5
  <2>7. DocsOf(new) = [DocsOf(old) EXCEPT ![i] = DocsOf(new)[i]]
    BY <2>4, <2>5, <2>6
  <2>8. DocsOf(new)[i] = DocsOf(old)[i] => DocsOf(new) = DocsOf(old)
    BY <2>5, <2>7
  <2> QED BY <2>2, <2>3, <2>4, <2>5, <2>7, <2>8 DEF ProtocolStep
<1>3. CASE Len(new) = Len(old) /\ \A k \in 1..Len(old) : new[k].rev = old[k].rev
  BY <1>3 DEF RowsInOrder, DocsOf, ProtocolStep
<1> QED BY <1>1, <1>2, <1>3 DEF TableStep

\* Writing one row of a table leaves the others.
LEMMA OneRowWritten ==
  ASSUME NEW R, NEW table \in Seq(R), NEW i \in 1..Len(table), NEW row, NEW new,
         new = [table EXCEPT ![i] = row]
  PROVE  /\ Len(new) = Len(table) /\ new[i] = row
         /\ \A k \in 1..Len(table) \ {i} : new[k] = table[k]
OBVIOUS

\* One row more leaves those there are.
LEMMA OneRowMore ==
  ASSUME NEW R, NEW table \in Seq(R), NEW row, NEW new, new = Append(table, row)
  PROVE  /\ Len(new) = Len(table) + 1 /\ new[Len(new)] = row
         /\ \A k \in 1..Len(table) : new[k] = table[k]
OBVIOUS

\* Every step leaves the sales to the workflow: it posts one, turns one, or neither.
LEMMA SalesStep ==
  ASSUME TypeOK, [Next]_vars
  PROVE  TableStep(sales, sales', ForecourtStaff)
<1>0. sales \in Seq(FuelSaleRow)
  BY DEF TypeOK
<1>1. CASE UNCHANGED sales
  BY <1>1 DEF TableStep
<1>2. CASE SaleCreated
  <2>1. PICK u \in Users, n \in Nozzles, c \in Customers \cup {NoCustomer},
             sale_type \in SaleTypes, closing \in MeterReadings, rate \in Rates,
             shift_id \in 0..Len(shifts) :
               CreateFuelSale(u, n, c, sale_type, closing, rate, shift_id)
    BY <1>2 DEF SaleCreated
  <2>2. /\ Len(sales') = Len(sales) + 1 /\ sales'[Len(sales')].rev = Fresh
        /\ \A k \in 1..Len(sales) : sales'[k] = sales[k]
    BY <2>1, SaleCreatedFacts
  <2> QED BY <2>2 DEF TableStep
<1>3. ASSUME NEW u \in Users, NEW i \in 1..Len(sales), SaleReversalNext(u, i)
      PROVE  TableStep(sales, sales', ForecourtStaff)
  <2> DEFINE d == sales[i].rev
  <2>1. ASSUME NEW rev, UndoSale(i, rev) \/ MarkSale(i, rev)
        PROVE  /\ Len(sales') = Len(sales) /\ sales'[i].rev = rev
               /\ \A k \in 1..Len(sales) \ {i} : sales'[k].rev = sales[k].rev
    <3>1. PICK row : sales' = [sales EXCEPT ![i] = row] /\ row.rev = rev
      <4>1. sales[i] \in FuelSaleRow
        BY SaleFields
      <4>2. CASE UndoSale(i, rev)
        <5> DEFINE row == [sales[i] EXCEPT !.rev = rev, !.after_close =
                             sales[i].shift # NoShift /\ ~shifts[sales[i].shift].open]
        <5>1. sales' = [sales EXCEPT ![i] = row]
          BY <4>2 DEF UndoSale
        <5>2. row.rev = rev
          BY <4>1 DEF FuelSaleRow
        <5> HIDE DEF row
        <5> QED BY <5>1, <5>2
      <4>3. CASE MarkSale(i, rev)
        <5> DEFINE row == [sales[i] EXCEPT !.rev = rev]
        <5>1. sales' = [sales EXCEPT ![i] = row]
          BY <4>3 DEF MarkSale
        <5>2. row.rev = rev
          BY <4>1 DEF FuelSaleRow
        <5> HIDE DEF row
        <5> QED BY <5>1, <5>2
      <4> QED BY <2>1, <4>2, <4>3
    <3> QED BY <1>0, <3>1, OneRowWritten
  <2>2. PICK rev : WorkflowStep(d, rev, ForecourtStaff) /\ (UndoSale(i, rev) \/ MarkSale(i, rev))
    BY <1>3 DEF SaleReversalNext, ReverseFuelSale, RequestFuelSaleReversal,
       ApproveFuelSaleReversal, RejectFuelSaleReversal, WorkflowStep
  <2>3. /\ Len(sales') = Len(sales) /\ sales'[i].rev = rev
        /\ \A k \in 1..Len(sales) \ {i} : sales'[k].rev = sales[k].rev
    BY <2>1, <2>2
  <2> QED BY <2>2, <2>3 DEF TableStep
<1>4. CASE FuelSalesNext
  <2>1. CASE MeterAdjusted
    BY <1>1, <2>1 DEF MeterAdjusted, AdjustNozzleMeter
  <2>2. SaleCreated \/ MeterAdjusted
        \/ \E u \in Users, i \in 1..Len(sales) : SaleReversalNext(u, i)
    BY <1>4 DEF FuelSalesNext, SaleCreated, MeterAdjusted
  <2> QED BY <1>2, <1>3, <2>1, <2>2
<1>5. CASE ShiftsNext
  BY <1>1, <1>5 DEF ShiftsNext, CreateShift, CloseShift
<1>6. CASE PurchasesNext
  <2>1. UNCHANGED otherBooks
    BY <1>6, PurchasesCases
    DEF PurchaseCreated, PurchaseApprovedStep, PurchaseRejectedStep, PurchaseUndone,
        PurchaseMarked, TankDipped, CreatePurchase, ApprovePurchase, RejectPurchase,
        UndoPurchase, MarkPurchase, CreateTankDip, otherBooks
  <2> QED BY <1>1, <2>1 DEF otherBooks
<1>7. CASE PaymentsNext
  <2>1. UNCHANGED forecourt
    BY <1>7, PaymentsCases
    DEF CustomerPaid, CustomerPaymentUndone, CustomerPaymentMarked, SupplierPaid,
        SupplierPaymentUndone, SupplierPaymentMarked, CreateCustomerPayment,
        CreateSupplierPayment, UndoCustomerPayment, UndoSupplierPayment,
        MarkCustomerPayment, MarkSupplierPayment, forecourt
  <2> QED BY <1>1, <2>1 DEF forecourt
<1>8. CASE CreditOverridesNext
  <2>1. UNCHANGED notCustomers
    BY <1>8 DEF CreditOverridesNext, UpdateCustomer, RequestCreditOverride,
                ApproveCreditOverride, RejectCreditOverride, notCustomers
  <2> QED BY <1>1, <2>1 DEF notCustomers
<1>9. CASE UNCHANGED vars
  BY <1>1, <1>9 DEF vars
<1> QED BY <1>4, <1>5, <1>6, <1>7, <1>8, <1>9 DEF Next

\* So it does with purchases: approving one is no matter of the workflow.
LEMMA PurchasesStep ==
  ASSUME TypeOK, [Next]_vars
  PROVE  TableStep(purchases, purchases', ForecourtStaff)
<1>0. purchases \in Seq(PurchaseRow)
  BY DEF TypeOK
<1>1. CASE UNCHANGED purchases
  BY <1>1 DEF TableStep
<1>2. CASE PurchaseCreated
  <2>1. PICK row : purchases' = Append(purchases, row) /\ row.rev = Fresh
    BY <1>2 DEF PurchaseCreated, CreatePurchase
  <2>2. /\ Len(purchases') = Len(purchases) + 1 /\ purchases'[Len(purchases')].rev = Fresh
        /\ \A k \in 1..Len(purchases) : purchases'[k] = purchases[k]
    BY <1>0, <2>1, OneRowMore
  <2> QED BY <2>2 DEF TableStep
<1>3. ASSUME NEW u \in Users, NEW i \in 1..Len(purchases), PurchaseRowNext(u, i)
      PROVE  TableStep(purchases, purchases', ForecourtStaff)
  <2> DEFINE d == purchases[i].rev
  <2>1. ASSUME NEW row, purchases' = [purchases EXCEPT ![i] = row]
        PROVE  /\ Len(purchases') = Len(purchases) /\ purchases'[i].rev = row.rev
               /\ \A k \in 1..Len(purchases) \ {i} : purchases'[k].rev = purchases[k].rev
    BY <1>0, <2>1, OneRowWritten
  <2>2. purchases[i] \in PurchaseRow
    BY PurchaseFields
  <2>3. CASE ApprovePurchase(u, i) \/ RejectPurchase(u, i)
    <3>1. PICK row : purchases' = [purchases EXCEPT ![i] = row] /\ row.rev = d
      <4>1. PICK status, by :
              purchases' = [purchases EXCEPT ![i] =
                             [purchases[i] EXCEPT !.status = status, !.approved_by = by]]
        BY <2>3 DEF ApprovePurchase, RejectPurchase
      <4> DEFINE row == [purchases[i] EXCEPT !.status = status, !.approved_by = by]
      <4>2. row.rev = d
        BY <2>2 DEF PurchaseRow
      <4> HIDE DEF row
      <4> QED BY <4>1, <4>2 DEF row
    <3>2. /\ Len(purchases') = Len(purchases)
          /\ \A k \in 1..Len(purchases) : purchases'[k].rev = purchases[k].rev
      BY <2>1, <3>1
    <3> QED BY <3>2 DEF TableStep
  <2>4. CASE ~(ApprovePurchase(u, i) \/ RejectPurchase(u, i))
    <3>1. PICK rev : WorkflowStep(d, rev, ForecourtStaff)
                     /\ (UndoPurchase(i, rev) \/ MarkPurchase(i, rev))
      BY <1>3, <2>4 DEF PurchaseRowNext, ReversePurchase, RequestPurchaseReversal,
         ApprovePurchaseReversal, RejectPurchaseReversal, WorkflowStep
    <3>2. PICK row : purchases' = [purchases EXCEPT ![i] = row] /\ row.rev = rev
      BY <2>2, <3>1 DEF UndoPurchase, MarkPurchase, PurchaseRow
    <3>3. /\ Len(purchases') = Len(purchases) /\ purchases'[i].rev = rev
          /\ \A k \in 1..Len(purchases) \ {i} : purchases'[k].rev = purchases[k].rev
      BY <2>1, <3>2
    <3> QED BY <3>1, <3>3 DEF TableStep
  <2> QED BY <2>3, <2>4
<1>4. CASE PurchasesNext
  <2>1. CASE TankDipped
    BY <1>1, <2>1 DEF TankDipped, CreateTankDip
  <2>2. PurchaseCreated \/ TankDipped
        \/ \E u \in Users, i \in 1..Len(purchases) : PurchaseRowNext(u, i)
    BY <1>4 DEF PurchasesNext, PurchaseCreated, TankDipped
  <2> QED BY <1>2, <1>3, <2>1, <2>2
<1>5. CASE UNCHANGED purchaseVars
  BY <1>1, <1>5 DEF purchaseVars
<1>6. CASE UNCHANGED vars
  BY <1>5, <1>6 DEF vars
<1> QED BY <1>4, <1>5, <1>6 DEF Next

\* So it does with customer payments.
LEMMA CustomerPaymentsStep ==
  ASSUME TypeOK, [Next]_vars
  PROVE  TableStep(customer_payments, customer_payments', PaymentStaff)
<1> DEFINE table == customer_payments
<1>0. table \in Seq(CustomerPaymentRow)
  BY DEF TypeOK
<1>1. CASE UNCHANGED table
  BY <1>1 DEF TableStep
<1>2. CASE CustomerPaid
  <2>1. PICK row : table' = Append(table, row) /\ row.rev = Fresh
    BY <1>2 DEF CustomerPaid, CreateCustomerPayment
  <2>2. /\ Len(table') = Len(table) + 1 /\ table'[Len(table')].rev = Fresh
        /\ \A k \in 1..Len(table) : table'[k] = table[k]
    BY <1>0, <2>1, OneRowMore
  <2> QED BY <2>2 DEF TableStep
<1>3. ASSUME NEW u \in Users, NEW i \in 1..Len(table), CustomerPaymentRowNext(u, i)
      PROVE  TableStep(table, table', PaymentStaff)
  <2>1. table[i] \in CustomerPaymentRow
    BY PaymentFields
  <2>2. PICK rev : WorkflowStep(table[i].rev, rev, PaymentStaff)
                   /\ (UndoCustomerPayment(i, rev) \/ MarkCustomerPayment(i, rev))
    BY <1>3 DEF CustomerPaymentRowNext, ReverseCustomerPayment, RequestCustomerPaymentReversal,
       ApproveCustomerPaymentReversal, RejectCustomerPaymentReversal, WorkflowStep
  <2>3. PICK row : table' = [table EXCEPT ![i] = row] /\ row.rev = rev
    BY <2>1, <2>2 DEF UndoCustomerPayment, MarkCustomerPayment, CustomerPaymentRow
  <2>4. /\ Len(table') = Len(table) /\ table'[i].rev = rev
        /\ \A k \in 1..Len(table) \ {i} : table'[k].rev = table[k].rev
    BY <1>0, <2>3, OneRowWritten
  <2> QED BY <2>2, <2>4 DEF TableStep
<1>4. CASE PaymentsNext
  <2>1. CASE \E u \in Users : \/ \E s \in Suppliers, amount \in PaymentAmounts :
                                   CreateSupplierPayment(u, s, amount)
                              \/ \E i \in 1..Len(supplier_payments) :
                                   SupplierPaymentRowNext(u, i)
    BY <1>1, <2>1
    DEF CreateSupplierPayment, SupplierPaymentRowNext, ReverseSupplierPayment,
        RequestSupplierPaymentReversal, ApproveSupplierPaymentReversal,
        RejectSupplierPaymentReversal, UndoSupplierPayment, MarkSupplierPayment
  <2>2. \/ CustomerPaid
        \/ \E u \in Users, i \in 1..Len(table) : CustomerPaymentRowNext(u, i)
        \/ \E u \in Users : \/ \E s \in Suppliers, amount \in PaymentAmounts :
                                 CreateSupplierPayment(u, s, amount)
                            \/ \E i \in 1..Len(supplier_payments) :
                                 SupplierPaymentRowNext(u, i)
    BY <1>4 DEF PaymentsNext, CustomerPaid
  <2> QED BY <1>2, <1>3, <2>1, <2>2
<1>5. CASE UNCHANGED paymentVars
  BY <1>1, <1>5 DEF paymentVars
<1>6. CASE UNCHANGED vars
  BY <1>5, <1>6 DEF vars
<1> QED BY <1>4, <1>5, <1>6 DEF Next

\* So it does with supplier payments.
LEMMA SupplierPaymentsStep ==
  ASSUME TypeOK, [Next]_vars
  PROVE  TableStep(supplier_payments, supplier_payments', PaymentStaff)
<1> DEFINE table == supplier_payments
<1>0. table \in Seq(SupplierPaymentRow)
  BY DEF TypeOK
<1>1. CASE UNCHANGED table
  BY <1>1 DEF TableStep
<1>2. CASE SupplierPaid
  <2>1. PICK row : table' = Append(table, row) /\ row.rev = Fresh
    BY <1>2 DEF SupplierPaid, CreateSupplierPayment
  <2>2. /\ Len(table') = Len(table) + 1 /\ table'[Len(table')].rev = Fresh
        /\ \A k \in 1..Len(table) : table'[k] = table[k]
    BY <1>0, <2>1, OneRowMore
  <2> QED BY <2>2 DEF TableStep
<1>3. ASSUME NEW u \in Users, NEW i \in 1..Len(table), SupplierPaymentRowNext(u, i)
      PROVE  TableStep(table, table', PaymentStaff)
  <2>1. table[i] \in SupplierPaymentRow
    BY PaymentFields
  <2>2. PICK rev : WorkflowStep(table[i].rev, rev, PaymentStaff)
                   /\ (UndoSupplierPayment(i, rev) \/ MarkSupplierPayment(i, rev))
    BY <1>3 DEF SupplierPaymentRowNext, ReverseSupplierPayment, RequestSupplierPaymentReversal,
       ApproveSupplierPaymentReversal, RejectSupplierPaymentReversal, WorkflowStep
  <2>3. PICK row : table' = [table EXCEPT ![i] = row] /\ row.rev = rev
    BY <2>1, <2>2 DEF UndoSupplierPayment, MarkSupplierPayment, SupplierPaymentRow
  <2>4. /\ Len(table') = Len(table) /\ table'[i].rev = rev
        /\ \A k \in 1..Len(table) \ {i} : table'[k].rev = table[k].rev
    BY <1>0, <2>3, OneRowWritten
  <2> QED BY <2>2, <2>4 DEF TableStep
<1>4. CASE PaymentsNext
  <2>1. CASE \E u \in Users : \/ \E c \in Customers, amount \in PaymentAmounts :
                                   CreateCustomerPayment(u, c, amount)
                              \/ \E i \in 1..Len(customer_payments) :
                                   CustomerPaymentRowNext(u, i)
    BY <1>1, <2>1
    DEF CreateCustomerPayment, CustomerPaymentRowNext, ReverseCustomerPayment,
        RequestCustomerPaymentReversal, ApproveCustomerPaymentReversal,
        RejectCustomerPaymentReversal, UndoCustomerPayment, MarkCustomerPayment
  <2>2. \/ SupplierPaid
        \/ \E u \in Users, i \in 1..Len(table) : SupplierPaymentRowNext(u, i)
        \/ \E u \in Users : \/ \E c \in Customers, amount \in PaymentAmounts :
                                 CreateCustomerPayment(u, c, amount)
                            \/ \E i \in 1..Len(customer_payments) :
                                 CustomerPaymentRowNext(u, i)
    BY <1>4 DEF PaymentsNext, SupplierPaid
  <2> QED BY <1>2, <1>3, <2>1, <2>2
<1>5. CASE UNCHANGED paymentVars
  BY <1>1, <1>5 DEF paymentVars
<1>6. CASE UNCHANGED vars
  BY <1>5, <1>6 DEF vars
<1> QED BY <1>4, <1>5, <1>6 DEF Next

-----------------------------------------------------------------------------
\* Steps of the station are steps of the protocol, for each of its tables.
LEMMA SalesRefine ==
  ASSUME TypeOK, RowsInOrder(sales), [Next]_vars
  PROVE  /\ RowsInOrder(sales)'
         /\ [SaleReversals!ProtocolNext]_(DocsOf(sales))
<1>1. TableStep(sales, sales', ForecourtStaff) /\ Len(sales) \in Nat
  BY SalesStep DEF TypeOK
<1>2. /\ RowsInOrder(sales')
      /\ ProtocolStep(DocsOf(sales), DocsOf(sales'), ForecourtStaff)
  BY <1>1, TableFollows, StaffRequest
<1>3. RowsInOrder(sales)' /\ DocsOf(sales)' = DocsOf(sales')
  BY <1>2 DEF RowsInOrder, DocsOf, InOrder, DocOf
<1>4. [SaleReversals!ProtocolNext]_(DocsOf(sales))
  BY <1>2, <1>3
  DEF ProtocolStep, DocStep, SaleReversals!ProtocolNext, SaleReversals!Post,
      SaleReversals!Posted, SaleReversals!Ask, SaleReversals!Refuse,
      SaleReversals!Undo
<1> QED BY <1>3, <1>4

LEMMA PurchaseTableRefines ==
  ASSUME RowsInOrder(purchases), Len(purchases) \in Nat,
         TableStep(purchases, purchases', ForecourtStaff)
  PROVE  /\ RowsInOrder(purchases)'
         /\ [PurchaseReversals!ProtocolNext]_(DocsOf(purchases))
<1>1. /\ RowsInOrder(purchases')
      /\ ProtocolStep(DocsOf(purchases), DocsOf(purchases'), ForecourtStaff)
  BY TableFollows, StaffRequest
<1>2. RowsInOrder(purchases)' /\ DocsOf(purchases)' = DocsOf(purchases')
  BY <1>1 DEF RowsInOrder, DocsOf, InOrder, DocOf
<1>3. [PurchaseReversals!ProtocolNext]_(DocsOf(purchases))
  BY <1>1, <1>2
  DEF ProtocolStep, DocStep, PurchaseReversals!ProtocolNext, PurchaseReversals!Post,
      PurchaseReversals!Posted, PurchaseReversals!Ask, PurchaseReversals!Refuse,
      PurchaseReversals!Undo
<1> QED BY <1>2, <1>3

LEMMA PurchasesRefine ==
  ASSUME TypeOK, RowsInOrder(purchases), [Next]_vars
  PROVE  /\ RowsInOrder(purchases)'
         /\ [PurchaseReversals!ProtocolNext]_(DocsOf(purchases))
BY PurchasesStep, PurchaseTableRefines DEF TypeOK

LEMMA CustomerPaymentsRefine ==
  ASSUME TypeOK, RowsInOrder(customer_payments), [Next]_vars
  PROVE  /\ RowsInOrder(customer_payments)'
         /\ [CustomerPaymentReversals!ProtocolNext]_(DocsOf(customer_payments))
<1>1. /\ TableStep(customer_payments, customer_payments', PaymentStaff)
      /\ Len(customer_payments) \in Nat
  BY CustomerPaymentsStep DEF TypeOK
<1>2. /\ RowsInOrder(customer_payments')
      /\ ProtocolStep(DocsOf(customer_payments), DocsOf(customer_payments'), PaymentStaff)
  BY <1>1, TableFollows, StaffRequest
<1>3. RowsInOrder(customer_payments)' /\ DocsOf(customer_payments)' = DocsOf(customer_payments')
  BY <1>2 DEF RowsInOrder, DocsOf, InOrder, DocOf
<1>4. [CustomerPaymentReversals!ProtocolNext]_(DocsOf(customer_payments))
  BY <1>2, <1>3
  DEF ProtocolStep, DocStep, CustomerPaymentReversals!ProtocolNext, CustomerPaymentReversals!Post,
      CustomerPaymentReversals!Posted, CustomerPaymentReversals!Ask, CustomerPaymentReversals!Refuse,
      CustomerPaymentReversals!Undo
<1> QED BY <1>3, <1>4

LEMMA SupplierPaymentsRefine ==
  ASSUME TypeOK, RowsInOrder(supplier_payments), [Next]_vars
  PROVE  /\ RowsInOrder(supplier_payments)'
         /\ [SupplierPaymentReversals!ProtocolNext]_(DocsOf(supplier_payments))
<1>1. /\ TableStep(supplier_payments, supplier_payments', PaymentStaff)
      /\ Len(supplier_payments) \in Nat
  BY SupplierPaymentsStep DEF TypeOK
<1>2. /\ RowsInOrder(supplier_payments')
      /\ ProtocolStep(DocsOf(supplier_payments), DocsOf(supplier_payments'), PaymentStaff)
  BY <1>1, TableFollows, StaffRequest
<1>3. RowsInOrder(supplier_payments)' /\ DocsOf(supplier_payments)' = DocsOf(supplier_payments')
  BY <1>2 DEF RowsInOrder, DocsOf, InOrder, DocOf
<1>4. [SupplierPaymentReversals!ProtocolNext]_(DocsOf(supplier_payments))
  BY <1>2, <1>3
  DEF ProtocolStep, DocStep, SupplierPaymentReversals!ProtocolNext, SupplierPaymentReversals!Post,
      SupplierPaymentReversals!Posted, SupplierPaymentReversals!Ask, SupplierPaymentReversals!Refuse,
      SupplierPaymentReversals!Undo
<1> QED BY <1>3, <1>4


\* The invariant says what the property does.
LEMMA RowsAreOrderly ==
  ASSUME NEW table
  PROVE  RowsInOrder(table) => ApprovedMeansReversed(table)
BY DEF RowsInOrder, ApprovedMeansReversed, InOrder

\* At first there are no documents.
LEMMA EmptyTables ==
  ASSUME Init
  PROVE  /\ RowsInOrder(sales) /\ SaleReversals!ProtocolInit
         /\ RowsInOrder(purchases) /\ PurchaseReversals!ProtocolInit
         /\ RowsInOrder(customer_payments) /\ CustomerPaymentReversals!ProtocolInit
         /\ RowsInOrder(supplier_payments) /\ SupplierPaymentReversals!ProtocolInit
<1>1. ASSUME NEW table, table = << >> PROVE RowsInOrder(table) /\ DocsOf(table) = << >>
  BY <1>1 DEF RowsInOrder, DocsOf
<1>2. /\ sales = << >> /\ purchases = << >>
      /\ customer_payments = << >> /\ supplier_payments = << >>
  BY DEF Init, StateInit, PurchasesInit, PaymentsInit
<1> QED BY <1>1, <1>2 DEF SaleReversals!ProtocolInit, PurchaseReversals!ProtocolInit,
     CustomerPaymentReversals!ProtocolInit, SupplierPaymentReversals!ProtocolInit

\* Fuel sales implement the reversal protocol (fuel_sales.py:152-282): each is reversed
\* at most once and for good, by an administrator or at the request of one person and
\* the decision of another, however many users, sales and other documents there are.
THEOREM SalesAreReversedByProtocol == Spec => SalesFollowWorkflow
<1>1. Init => RowsInOrder(sales) /\ SaleReversals!ProtocolInit
  BY EmptyTables
<1>2. TypeOK /\ RowsInOrder(sales) /\ [Next]_vars
        => RowsInOrder(sales)' /\ [SaleReversals!ProtocolNext]_(DocsOf(sales))
  BY SalesRefine
<1>3. RowsInOrder(sales) => ApprovedMeansReversed(sales)
  BY RowsAreOrderly
<1> QED BY <1>1, <1>2, <1>3, TypeCorrect, PTL
     DEF Spec, SalesFollowWorkflow, SaleReversals!ProtocolSpec

\* Customer payments implement it too (payments.py:118-198).
THEOREM CustomerPaymentsAreReversedByProtocol == Spec => CustomerPaymentsFollowWorkflow
<1>1. Init => RowsInOrder(customer_payments) /\ CustomerPaymentReversals!ProtocolInit
  BY EmptyTables
<1>2. TypeOK /\ RowsInOrder(customer_payments) /\ [Next]_vars
        => /\ RowsInOrder(customer_payments)'
           /\ [CustomerPaymentReversals!ProtocolNext]_(DocsOf(customer_payments))
  BY CustomerPaymentsRefine
<1>3. RowsInOrder(customer_payments) => ApprovedMeansReversed(customer_payments)
  BY RowsAreOrderly
<1> QED BY <1>1, <1>2, <1>3, TypeCorrect, PTL
     DEF Spec, CustomerPaymentsFollowWorkflow, CustomerPaymentReversals!ProtocolSpec

\* So do purchases (purchases.py) and supplier payments (payments.py), whatever is
\* approved or rejected in between.
THEOREM SupplySideIsReversedByProtocol == Spec => SupplySideFollowsWorkflow
<1>1. Init => /\ RowsInOrder(purchases) /\ PurchaseReversals!ProtocolInit
              /\ RowsInOrder(supplier_payments) /\ SupplierPaymentReversals!ProtocolInit
  BY EmptyTables
<1>2. TypeOK /\ RowsInOrder(purchases) /\ [Next]_vars
        => RowsInOrder(purchases)' /\ [PurchaseReversals!ProtocolNext]_(DocsOf(purchases))
  BY PurchasesRefine
<1>3. TypeOK /\ RowsInOrder(supplier_payments) /\ [Next]_vars
        => /\ RowsInOrder(supplier_payments)'
           /\ [SupplierPaymentReversals!ProtocolNext]_(DocsOf(supplier_payments))
  BY SupplierPaymentsRefine
<1>4. /\ RowsInOrder(purchases) => ApprovedMeansReversed(purchases)
      /\ RowsInOrder(supplier_payments) => ApprovedMeansReversed(supplier_payments)
  BY RowsAreOrderly
<1> QED BY <1>1, <1>2, <1>3, <1>4, TypeCorrect, PTL
     DEF Spec, SupplySideFollowsWorkflow, PurchaseReversals!ProtocolSpec,
         SupplierPaymentReversals!ProtocolSpec

-----------------------------------------------------------------------------
(* 3. Figures and documents.  A table's column is a function on rows, so that the
   sums of the tables are all of one kind (Amounts).  A step appends a row or
   changes one, and each lemma says by how much that moves a sum and a figure. *)

\* Stock is what the documents say.  What a row contributes, as functions on rows, so
\* that the sums of the tables are all of one kind.

SoldBy(t) ==
  [row \in FuelSaleRow |->
     IF Feeds[row.nozzle] = t /\ ~row.rev.reversed THEN Quantity(row) ELSE 0]
DeliveredBy(t) ==
  [row \in PurchaseRow |-> IF row.tank = t /\ Counted(row) THEN row.quantity ELSE 0]
GainedBy(t) == [row \in DipRow |-> IF row.tank = t THEN row.loss_gain ELSE 0]

Booked(t) ==
  OpeningStock[t] + Total(Amounts(purchases, DeliveredBy(t))) - Total(Amounts(sales, SoldBy(t)))
                  + Total(Amounts(dips, GainedBy(t)))

StockBooked == \A t \in Tanks : current_volume[t] = Booked(t)

\* No purchase is reversed before it was approved.
ReversedWereApproved ==
  \A i \in 1..Len(purchases) : purchases[i].rev.reversed => purchases[i].status = "approved"

\* Contributions are integers.
LEMMA StockColumns ==
  ASSUME NEW t \in Tanks
  PROVE  /\ SoldBy(t) \in [FuelSaleRow -> Int]
         /\ DeliveredBy(t) \in [PurchaseRow -> Int]
         /\ GainedBy(t) \in [DipRow -> Int]
<1>1. ASSUME NEW row \in FuelSaleRow PROVE Quantity(row) \in Int
  BY DEF FuelSaleRow, Quantity
<1>2. ASSUME NEW row \in PurchaseRow PROVE row.quantity \in Int
  BY DEF PurchaseRow
<1>3. ASSUME NEW row \in DipRow PROVE row.loss_gain \in Int
  BY DEF DipRow
<1> QED BY <1>1, <1>2, <1>3 DEF SoldBy, DeliveredBy, GainedBy

\* So are their totals, in any state of the tables.
LEMMA BookedTyped ==
  ASSUME NEW t \in Tanks, NEW ss \in Seq(FuelSaleRow), NEW ps \in Seq(PurchaseRow),
         NEW ds \in Seq(DipRow)
  PROVE  /\ OpeningStock[t] \in Int
         /\ Total(Amounts(ss, SoldBy(t))) \in Int
         /\ Total(Amounts(ps, DeliveredBy(t))) \in Int
         /\ Total(Amounts(ds, GainedBy(t))) \in Int
<1>1. OpeningStock[t] \in Int
  BY RecordsAssumption
<1>2. /\ SoldBy(t) \in [FuelSaleRow -> Int]
      /\ DeliveredBy(t) \in [PurchaseRow -> Int]
      /\ GainedBy(t) \in [DipRow -> Int]
  BY StockColumns
<1> DEFINE sold == SoldBy(t)
           delivered == DeliveredBy(t)
           gained == GainedBy(t)
<1> HIDE DEF sold, delivered, gained
<1>3. Total(Amounts(ss, sold)) \in Int
  BY <1>2, AmountsTyped DEF sold
<1>4. Total(Amounts(ps, delivered)) \in Int
  BY <1>2, AmountsTyped DEF delivered
<1>5. Total(Amounts(ds, gained)) \in Int
  BY <1>2, AmountsTyped DEF gained
<1> QED BY <1>1, <1>3, <1>4, <1>5 DEF sold, delivered, gained

\* The invariant in the words of StationBooks.
LEMMA StockTables ==
  ASSUME TypeOK, NEW t \in Tanks
  PROVE  /\ SoldFrom(t) = Amounts(sales, SoldBy(t))
         /\ DeliveredTo(t) = Amounts(purchases, DeliveredBy(t))
         /\ DipGains(t) = Amounts(dips, GainedBy(t))
<1>1. SoldFrom(t) = Amounts(sales, SoldBy(t))
  <2>1. ASSUME NEW i \in 1..Len(sales) PROVE sales[i] \in FuelSaleRow
    BY SaleFields
  <2> QED BY <2>1 DEF SoldFrom, Amounts, SoldBy
<1>2. DeliveredTo(t) = Amounts(purchases, DeliveredBy(t))
  <2>1. ASSUME NEW i \in 1..Len(purchases) PROVE purchases[i] \in PurchaseRow
    BY PurchaseFields
  <2> QED BY <2>1 DEF DeliveredTo, Amounts, DeliveredBy
<1>3. DipGains(t) = Amounts(dips, GainedBy(t))
  <2>1. ASSUME NEW i \in 1..Len(dips) PROVE dips[i] \in DipRow
    BY DEF TypeOK
  <2> QED BY <2>1 DEF DipGains, Amounts, GainedBy
<1> QED BY <1>1, <1>2, <1>3

LEMMA StockForm == TypeOK => (StockBalances <=> StockBooked)
BY StockTables DEF StockBalances, StockBooked, Booked

\* What one more row does to a column of its table.
LEMMA SaleColumnGrown ==
  ASSUME NEW value \in [FuelSaleRow -> Int], sales \in Seq(FuelSaleRow),
         sales' \in Seq(FuelSaleRow), Len(sales') = Len(sales) + 1,
         \A k \in 1..Len(sales) : sales'[k] = sales[k]
  PROVE  Total(Amounts(sales', value))
           = Total(Amounts(sales, value)) + value[sales'[Len(sales) + 1]]
BY AmountsAppend

\* A sale that is rewritten changes the totals of its columns by what it now adds.
LEMMA SaleColumnChanged ==
  ASSUME NEW value \in [FuelSaleRow -> Int], sales \in Seq(FuelSaleRow),
         sales' \in Seq(FuelSaleRow), NEW i \in 1..Len(sales), Len(sales') = Len(sales),
         \A k \in 1..Len(sales) : k # i => sales'[k] = sales[k]
  PROVE  Total(Amounts(sales', value))
           = Total(Amounts(sales, value)) - value[sales[i]] + value[sales'[i]]
BY AmountsChange

\* A sale books what it takes, its reversal what it puts back.
LEMMA StockBookedSales ==
  ASSUME TypeOK, TypeOK', StockBooked, FuelSalesNext, UNCHANGED <<purchases, dips>>
  PROVE  StockBooked'
<1> SUFFICES ASSUME NEW t \in Tanks
             PROVE  /\ current_volume[t] \in Int /\ current_volume'[t] \in Int
                    /\ current_volume'[t] - current_volume[t]
                         = Total(Amounts(sales, SoldBy(t))) - Total(Amounts(sales', SoldBy(t)))
  <2>1. sales \in Seq(FuelSaleRow) /\ sales' \in Seq(FuelSaleRow)
    BY DEF TypeOK
  <2>2. purchases \in Seq(PurchaseRow) /\ dips \in Seq(DipRow)
    BY DEF TypeOK
  <2>3. ASSUME NEW t \in Tanks,
               current_volume[t] \in Int, current_volume'[t] \in Int,
               current_volume'[t] - current_volume[t]
                 = Total(Amounts(sales, SoldBy(t))) - Total(Amounts(sales', SoldBy(t)))
        PROVE  current_volume'[t] = Booked(t)'
    <3>1. /\ OpeningStock[t] \in Int
          /\ Total(Amounts(sales, SoldBy(t))) \in Int
          /\ Total(Amounts(sales', SoldBy(t))) \in Int
          /\ Total(Amounts(purchases, DeliveredBy(t))) \in Int
          /\ Total(Amounts(dips, GainedBy(t))) \in Int
      BY <2>1, <2>2, BookedTyped
    <3>2. current_volume[t] = Booked(t)
      BY DEF StockBooked
    <3>3. Booked(t)' = OpeningStock[t] + Total(Amounts(purchases, DeliveredBy(t)))
                         - Total(Amounts(sales', SoldBy(t))) + Total(Amounts(dips, GainedBy(t)))
      BY DEF Booked
    <3> QED BY <2>3, <3>1, <3>2, <3>3 DEF Booked
  <2> QED BY <2>3 DEF StockBooked
<1>0. /\ current_volume \in [Tanks -> Int] /\ current_volume' \in [Tanks -> Int]
      /\ sales \in Seq(FuelSaleRow) /\ sales' \in Seq(FuelSaleRow) /\ Len(sales) \in Nat
  BY DEF TypeOK
<1>v. SoldBy(t) \in [FuelSaleRow -> Int]
  BY StockColumns
<1>t. Total(Amounts(sales, SoldBy(t))) \in Int /\ Total(Amounts(sales', SoldBy(t))) \in Int
  BY <1>0, <1>v, AmountsTyped
<1>1. CASE SaleCreated
  <2>1. PICK u \in Users, n \in Nozzles, c \in Customers \cup {NoCustomer}, sale_type \in SaleTypes,
             closing \in MeterReadings, rate \in Rates, shift_id \in 0..Len(shifts) :
               CreateFuelSale(u, n, c, sale_type, closing, rate, shift_id)
    BY <1>1 DEF SaleCreated
  <2> DEFINE quantity == closing - nozzle[n].meter_reading
             last == Len(sales) + 1
  <2>a. /\ Len(sales') = last /\ Len(sales) \in Nat
        /\ \A k \in 1..Len(sales) : sales'[k] = sales[k]
        /\ quantity \in Nat
        /\ sales'[last].nozzle = n /\ sales'[last].rev = Fresh
        /\ sales'[last].closing_meter = closing
        /\ sales'[last].opening_meter = nozzle[n].meter_reading
    BY <2>1, SaleCreatedFacts
  <2>b. last \in 1..Len(sales')
    BY <2>a
  <2>c. Quantity(sales'[last]) = quantity
    BY <2>a DEF Quantity
  <2>2. /\ Len(sales') = last /\ last \in 1..Len(sales')
        /\ \A k \in 1..Len(sales) : sales'[k] = sales[k]
        /\ quantity \in Nat
        /\ sales'[last].nozzle = n /\ sales'[last].rev = Fresh
        /\ Quantity(sales'[last]) = quantity
    BY <2>a, <2>b, <2>c
  <2>3. sales'[last] \in FuelSaleRow
    BY <1>0, <2>2
  <2>4. current_volume' = [current_volume EXCEPT ![Feeds[n]] = @ - quantity]
    BY <2>1 DEF CreateFuelSale
  <2> HIDE DEF quantity
  <2>5. Total(Amounts(sales', SoldBy(t)))
          = Total(Amounts(sales, SoldBy(t))) + SoldBy(t)[sales'[last]]
    BY <1>0, <1>v, <2>2, SaleColumnGrown
  <2>6. SoldBy(t)[sales'[last]] = IF Feeds[n] = t THEN quantity ELSE 0
    BY <2>2, <2>3 DEF SoldBy, Fresh
  <2>7. current_volume'[t]
          = IF Feeds[n] = t THEN current_volume[t] - quantity ELSE current_volume[t]
    BY <1>0, <2>4
  <2> QED BY <1>0, <1>t, <2>2, <2>5, <2>6, <2>7
<1>2. CASE SaleUndone
  <2>1. PICK i \in 1..Len(sales), rev \in Workflow :
               Undoing(sales[i].rev, rev) /\ UndoSale(i, rev)
    BY <1>2 DEF SaleUndone
  <2>2. /\ sales[i] \in FuelSaleRow /\ Quantity(sales[i]) \in Int
        /\ Len(sales') = Len(sales) /\ \A k \in 1..Len(sales) : k # i => sales'[k] = sales[k]
        /\ sales'[i].rev = rev
    BY <2>1, SaleFields, SaleRewritten
  <2>3. sales'[i] \in FuelSaleRow
    BY <1>0, <2>2
  <2>4. current_volume' = [current_volume EXCEPT ![Feeds[sales[i].nozzle]] = @ + Quantity(sales[i])]
    BY <2>1 DEF UndoSale
  <2>5. Total(Amounts(sales', SoldBy(t)))
          = Total(Amounts(sales, SoldBy(t))) - SoldBy(t)[sales[i]] + SoldBy(t)[sales'[i]]
    BY <1>0, <1>v, <2>2, SaleColumnChanged
  <2>6. /\ SoldBy(t)[sales[i]] = IF Feeds[sales[i].nozzle] = t THEN Quantity(sales[i]) ELSE 0
        /\ SoldBy(t)[sales'[i]] = 0
    BY <2>1, <2>2, <2>3 DEF SoldBy, Undoing
  <2>7. current_volume'[t] = IF Feeds[sales[i].nozzle] = t
                             THEN current_volume[t] + Quantity(sales[i]) ELSE current_volume[t]
    BY <1>0, <2>4
  <2> QED BY <1>0, <1>t, <2>2, <2>5, <2>6, <2>7
<1>3. CASE SaleMarked
  <2>1. PICK i \in 1..Len(sales), rev \in Workflow :
               Marking(sales[i].rev, rev) /\ MarkSale(i, rev)
    BY <1>3 DEF SaleMarked
  <2>2. /\ sales[i] \in FuelSaleRow /\ sales'[i] \in FuelSaleRow /\ sales'[i].rev = rev
        /\ Len(sales') = Len(sales) /\ \A k \in 1..Len(sales) : k # i => sales'[k] = sales[k]
        /\ sales'[i].nozzle = sales[i].nozzle /\ Quantity(sales'[i]) = Quantity(sales[i])
    BY <1>0, <2>1, SaleFields, SaleRewritten DEF Quantity
  <2>3. SoldBy(t)[sales[i]] = SoldBy(t)[sales'[i]] /\ SoldBy(t)[sales[i]] \in Int
    BY <1>v, <2>1, <2>2 DEF SoldBy, Marking
  <2>4. Total(Amounts(sales', SoldBy(t)))
          = Total(Amounts(sales, SoldBy(t))) - SoldBy(t)[sales[i]] + SoldBy(t)[sales'[i]]
    BY <1>0, <1>v, <2>2, SaleColumnChanged
  <2>5. UNCHANGED current_volume
    BY <2>1 DEF MarkSale
  <2>6. current_volume'[t] = current_volume[t] /\ current_volume[t] \in Int
    BY <1>0, <2>5
  <2> DEFINE before == Total(Amounts(sales, SoldBy(t)))
             after  == Total(Amounts(sales', SoldBy(t)))
             amount == SoldBy(t)[sales[i]]
  <2>7. before \in Int /\ after \in Int /\ amount \in Int /\ after = before - amount + amount
    BY <1>t, <2>3, <2>4
  <2> HIDE DEF before, after, amount
  <2>8. before - after = 0 /\ current_volume'[t] - current_volume[t] = 0
    BY <2>6, <2>7
  <2> QED BY <2>6, <2>8 DEF before, after
<1>4. CASE MeterAdjusted
  <2>1. UNCHANGED <<current_volume, sales>>
    BY <1>4 DEF MeterAdjusted, AdjustNozzleMeter
  <2> QED BY <1>0, <1>t, <2>1
<1> QED BY <1>1, <1>2, <1>3, <1>4, FuelSalesCases

\* What create_purchase leaves in the table.
LEMMA PurchaseCreatedFacts ==
  ASSUME TypeOK, NEW u \in Users, NEW s \in Suppliers, NEW t \in Tanks,
         NEW quantity \in Deliveries, NEW rate \in PurchaseRates,
         CreatePurchase(u, s, t, quantity, rate)
  PROVE  LET last == Len(purchases) + 1
         IN  /\ Len(purchases') = last /\ Len(purchases) \in Nat
             /\ \A k \in 1..Len(purchases) : purchases'[k] = purchases[k]
             /\ purchases'[last].supplier = s /\ purchases'[last].tank = t
             /\ purchases'[last].quantity = quantity
             /\ purchases'[last].total_amount = quantity * rate
             /\ purchases'[last].status = IF u \in Administrators THEN "approved" ELSE "pending"
             /\ purchases'[last].rev = Fresh
<1> DEFINE status == IF u \in Administrators THEN "approved" ELSE "pending"
           amount == quantity * rate
           row == [supplier |-> s, tank |-> t, quantity |-> quantity, total_amount |-> amount,
                   status |-> status, submitted_by |-> u,
                   approved_by |-> IF u \in Administrators THEN u ELSE Nobody, rev |-> Fresh]
<1>1. purchases' = Append(purchases, row)
  BY DEF CreatePurchase
<1>2. /\ row.supplier = s /\ row.tank = t /\ row.quantity = quantity
      /\ row.total_amount = amount /\ row.status = status /\ row.rev = Fresh
  OBVIOUS
<1>3. purchases \in Seq(PurchaseRow) /\ Len(purchases) \in Nat
  BY DEF TypeOK
<1> HIDE DEF row
<1>4. /\ Len(purchases') = Len(purchases) + 1
      /\ \A k \in 1..Len(purchases) : purchases'[k] = purchases[k]
      /\ purchases'[Len(purchases) + 1] = row
  BY <1>1, <1>3
<1> QED BY <1>2, <1>3, <1>4

\* The operations on purchases, as changes of one row.
PurchaseMoved(i, status, rev) ==
  /\ Len(purchases') = Len(purchases)
  /\ \A k \in 1..Len(purchases) : k # i => purchases'[k] = purchases[k]
  /\ purchases'[i].supplier = purchases[i].supplier
  /\ purchases'[i].tank = purchases[i].tank
  /\ purchases'[i].quantity = purchases[i].quantity
  /\ purchases'[i].total_amount = purchases[i].total_amount
  /\ purchases'[i].status = status
  /\ purchases'[i].rev = rev

\* Every other operation on a purchase rewrites its status or its workflow record.
LEMMA PurchaseRewritten ==
  ASSUME TypeOK, NEW i \in 1..Len(purchases), NEW rev \in Workflow,
         NEW status \in PurchaseStatuses,
         \/ status = "approved" /\ rev = purchases[i].rev
            /\ \E u \in Users : ApprovePurchase(u, i)
         \/ status = "rejected" /\ rev = purchases[i].rev
            /\ \E u \in Users : RejectPurchase(u, i)
         \/ status = purchases[i].status /\ (UndoPurchase(i, rev) \/ MarkPurchase(i, rev))
  PROVE  PurchaseMoved(i, status, rev)
<1>1. purchases[i] \in PurchaseRow
  BY PurchaseFields
<1>2. PICK by \in Users \cup {Nobody} :
        purchases' = [purchases EXCEPT ![i] =
          [purchases[i] EXCEPT !.status = status, !.approved_by = by, !.rev = rev]]
  <2>1. ASSUME NEW u \in Users, status = "approved", rev = purchases[i].rev, ApprovePurchase(u, i)
        PROVE  \E by \in Users \cup {Nobody} :
                 purchases' = [purchases EXCEPT ![i] =
                   [purchases[i] EXCEPT !.status = status, !.approved_by = by, !.rev = rev]]
    <3>1. [purchases[i] EXCEPT !.status = "approved", !.approved_by = u]
            = [purchases[i] EXCEPT !.status = status, !.approved_by = u, !.rev = rev]
      BY <1>1, <2>1 DEF PurchaseRow
    <3> QED BY <2>1, <3>1 DEF ApprovePurchase
  <2>2. ASSUME NEW u \in Users, status = "rejected", rev = purchases[i].rev, RejectPurchase(u, i)
        PROVE  \E by \in Users \cup {Nobody} :
                 purchases' = [purchases EXCEPT ![i] =
                   [purchases[i] EXCEPT !.status = status, !.approved_by = by, !.rev = rev]]
    <3>1. [purchases[i] EXCEPT !.status = "rejected", !.approved_by = Nobody]
            = [purchases[i] EXCEPT !.status = status, !.approved_by = Nobody, !.rev = rev]
      BY <1>1, <2>2 DEF PurchaseRow
    <3> QED BY <2>2, <3>1 DEF RejectPurchase
  <2>3. CASE status = purchases[i].status /\ (UndoPurchase(i, rev) \/ MarkPurchase(i, rev))
    <3>1. [purchases[i] EXCEPT !.rev = rev]
            = [purchases[i] EXCEPT !.status = status, !.approved_by = purchases[i].approved_by,
                                   !.rev = rev]
      BY <1>1, <2>3 DEF PurchaseRow
    <3>2. purchases[i].approved_by \in Users \cup {Nobody}
      BY <1>1 DEF PurchaseRow
    <3> QED BY <2>3, <3>1, <3>2 DEF UndoPurchase, MarkPurchase
  <2> QED BY <2>1, <2>2, <2>3
<1> DEFINE row == [purchases[i] EXCEPT !.status = status, !.approved_by = by, !.rev = rev]
<1>3. /\ row.supplier = purchases[i].supplier /\ row.tank = purchases[i].tank
      /\ row.quantity = purchases[i].quantity
      /\ row.total_amount = purchases[i].total_amount
      /\ row.status = status /\ row.rev = rev
  BY <1>1 DEF PurchaseRow
<1>4. purchases' = [purchases EXCEPT ![i] = row] /\ purchases \in Seq(PurchaseRow)
  BY <1>2 DEF TypeOK
<1> HIDE DEF row
<1>5. /\ Len(purchases') = Len(purchases) /\ purchases'[i] = row
      /\ \A k \in 1..Len(purchases) : k # i => purchases'[k] = purchases[k]
  BY <1>4
<1> QED BY <1>3, <1>5 DEF PurchaseMoved

\* What a purchase adds to stock and payables: all of n while it counts.
Part(p, n) == IF Counted(p) THEN n ELSE 0

\* A new purchase.
PurchaseAdded ==
  LET p == purchases'[Len(purchases) + 1]
  IN  /\ Len(purchases') = Len(purchases) + 1
      /\ \A k \in 1..Len(purchases) : purchases'[k] = purchases[k]
      /\ ~p.rev.reversed
      /\ current_volume' = [current_volume EXCEPT ![p.tank] = @ + Part(p, p.quantity)]
      /\ payable_balance' = [payable_balance EXCEPT ![p.supplier] = @ + Part(p, p.total_amount)]
      /\ UNCHANGED dips

\* A purchase that starts or stops counting, or does neither.
PurchaseTurned(i) ==
  LET p == purchases[i]
      q == purchases'[i]
  IN  /\ Len(purchases') = Len(purchases)
      /\ \A k \in 1..Len(purchases) : k # i => purchases'[k] = purchases[k]
      /\ q.supplier = p.supplier /\ q.tank = p.tank
      /\ q.quantity = p.quantity /\ q.total_amount = p.total_amount
      /\ q.rev.reversed => q.status = "approved"
      /\ current_volume' = [current_volume EXCEPT ![p.tank]
                              = @ + (Part(q, p.quantity) - Part(p, p.quantity))]
      /\ payable_balance' = [payable_balance EXCEPT ![p.supplier]
                              = @ + (Part(q, p.total_amount) - Part(p, p.total_amount))]
      /\ UNCHANGED dips

\* A function whose value at one point grows by nothing is the same.
LEMMA NothingAdded ==
  ASSUME NEW S, NEW f \in [S -> Int], NEW s \in S
  PROVE  f = [f EXCEPT ![s] = @ + 0]
OBVIOUS

\* The operations on purchases turn one row, add one or dip a tank.
LEMMA PurchaseSteps ==
  ASSUME TypeOK, ReversedWereApproved, PurchasesNext
  PROVE  PurchaseAdded \/ TankDipped \/ \E i \in 1..Len(purchases) : PurchaseTurned(i)
<1>0. current_volume \in [Tanks -> Int] /\ payable_balance \in [Suppliers -> Int]
  BY DEF TypeOK
<1>1. CASE PurchaseCreated
  <2>1. PICK u \in Users, s \in Suppliers, t \in Tanks, quantity \in Deliveries,
             rate \in PurchaseRates : CreatePurchase(u, s, t, quantity, rate)
    BY <1>1 DEF PurchaseCreated
  <2> DEFINE last == Len(purchases) + 1
             amount == quantity * rate
  <2>2. /\ Len(purchases') = last
        /\ \A k \in 1..Len(purchases) : purchases'[k] = purchases[k]
        /\ purchases'[last].supplier = s /\ purchases'[last].tank = t
        /\ purchases'[last].quantity = quantity /\ purchases'[last].total_amount = amount
        /\ purchases'[last].status = IF u \in Administrators THEN "approved" ELSE "pending"
        /\ purchases'[last].rev = Fresh
    BY <2>1, PurchaseCreatedFacts
  <2>3. /\ IF u \in Administrators THEN ApplyPurchaseEffects(t, s, quantity, amount)
                                   ELSE UNCHANGED <<current_volume, payable_balance>>
        /\ UNCHANGED dips
    BY <2>1 DEF CreatePurchase
  <2>4. ~purchases'[last].rev.reversed /\ (Counted(purchases'[last]) <=> u \in Administrators)
    BY <2>2 DEF Counted, Fresh
  <2> HIDE DEF amount, last
  <2>5. /\ current_volume' = [current_volume EXCEPT ![t] = @ + Part(purchases'[last], quantity)]
        /\ payable_balance' = [payable_balance EXCEPT ![s] = @ + Part(purchases'[last], amount)]
    BY <1>0, <2>3, <2>4, NothingAdded DEF Part, ApplyPurchaseEffects
  <2> QED BY <2>2, <2>3, <2>4, <2>5 DEF PurchaseAdded, last
<1>2. ASSUME NEW i \in 1..Len(purchases), NEW status \in PurchaseStatuses, NEW rev \in Workflow,
             PurchaseMoved(i, status, rev), rev.reversed => status = "approved",
             UNCHANGED dips,
             LET p == purchases[i]
                 counts == status = "approved" /\ ~rev.reversed
             IN  \/ ~Counted(p) /\ counts
                    /\ ApplyPurchaseEffects(p.tank, p.supplier, p.quantity, p.total_amount)
                 \/ Counted(p) /\ ~counts
                    /\ ApplyPurchaseEffects(p.tank, p.supplier, -p.quantity, -p.total_amount)
                 \/ (Counted(p) <=> counts) /\ UNCHANGED <<current_volume, payable_balance>>
      PROVE  PurchaseTurned(i)
  <2> DEFINE quantity == purchases[i].quantity
             amount == purchases[i].total_amount
             tank == purchases[i].tank
             supplier == purchases[i].supplier
             before == Counted(purchases[i])
             after == Counted(purchases'[i])
  <2>1. quantity \in Nat /\ amount \in Nat /\ tank \in Tanks /\ supplier \in Suppliers
    BY PurchaseFields
  <2>2. /\ purchases'[i].status = status /\ purchases'[i].rev = rev
        /\ after <=> (status = "approved" /\ ~rev.reversed)
    BY <1>2 DEF PurchaseMoved, Counted
  <2>3. \/ ~before /\ after /\ ApplyPurchaseEffects(tank, supplier, quantity, amount)
        \/ before /\ ~after /\ ApplyPurchaseEffects(tank, supplier, -quantity, -amount)
        \/ (before <=> after) /\ UNCHANGED <<current_volume, payable_balance>>
    BY <1>2, <2>2
  <2>4. /\ Part(purchases'[i], quantity) = IF after THEN quantity ELSE 0
        /\ Part(purchases[i], quantity) = IF before THEN quantity ELSE 0
        /\ Part(purchases'[i], amount) = IF after THEN amount ELSE 0
        /\ Part(purchases[i], amount) = IF before THEN amount ELSE 0
    BY DEF Part
  <2> HIDE DEF quantity, amount, tank, supplier, before, after
  <2> DEFINE litres == Part(purchases'[i], quantity) - Part(purchases[i], quantity)
             money == Part(purchases'[i], amount) - Part(purchases[i], amount)
  <2>5. /\ current_volume' = [current_volume EXCEPT ![tank] = @ + litres]
        /\ payable_balance' = [payable_balance EXCEPT ![supplier] = @ + money]
    <3>1. CASE ~before /\ after /\ ApplyPurchaseEffects(tank, supplier, quantity, amount)
      <4>1. litres = quantity /\ money = amount
        BY <2>1, <2>4, <3>1
      <4> HIDE DEF litres, money
      <4> QED BY <3>1, <4>1 DEF ApplyPurchaseEffects
    <3>2. CASE before /\ ~after /\ ApplyPurchaseEffects(tank, supplier, -quantity, -amount)
      <4>1. litres = -quantity /\ money = -amount
        BY <2>1, <2>4, <3>2
      <4> HIDE DEF litres, money
      <4> QED BY <3>2, <4>1 DEF ApplyPurchaseEffects
    <3>3. CASE (before <=> after) /\ UNCHANGED <<current_volume, payable_balance>>
      <4>1. litres = 0 /\ money = 0
        BY <2>1, <2>4, <3>3
      <4> HIDE DEF litres, money
      <4>2. /\ current_volume = [current_volume EXCEPT ![tank] = @ + 0]
            /\ payable_balance = [payable_balance EXCEPT ![supplier] = @ + 0]
        BY <1>0, <2>1, NothingAdded
      <4> QED BY <3>3, <4>1, <4>2
    <3> QED BY <2>3, <3>1, <3>2, <3>3
  <2> HIDE DEF litres, money
  <2>6. /\ Len(purchases') = Len(purchases)
        /\ \A k \in 1..Len(purchases) : k # i => purchases'[k] = purchases[k]
        /\ purchases'[i].supplier = purchases[i].supplier
        /\ purchases'[i].tank = purchases[i].tank
        /\ purchases'[i].quantity = purchases[i].quantity
        /\ purchases'[i].total_amount = purchases[i].total_amount
        /\ purchases'[i].rev.reversed => purchases'[i].status = "approved"
    BY <1>2, <2>2 DEF PurchaseMoved
  <2> QED BY <1>2, <2>5, <2>6
          DEF PurchaseTurned, litres, money, quantity, amount, tank, supplier
<1>3. ASSUME NEW i \in 1..Len(purchases)
      PROVE  /\ purchases[i].rev \in Workflow /\ purchases[i].status \in PurchaseStatuses
             /\ purchases[i].rev.reversed => purchases[i].status = "approved"
  <2>1. purchases[i] \in PurchaseRow
    BY PurchaseFields
  <2> QED BY <2>1 DEF PurchaseRow, ReversedWereApproved
<1>4. CASE PurchaseApprovedStep
  <2>1. PICK u \in Users, i \in 1..Len(purchases) : ApprovePurchase(u, i)
    BY <1>4 DEF PurchaseApprovedStep
  <2> DEFINE rev == purchases[i].rev
             p == purchases[i]
  <2>2. PurchaseMoved(i, "approved", rev)
    BY <1>3, <2>1, PurchaseRewritten DEF PurchaseStatuses
  <2>3. /\ p.status = "pending" /\ UNCHANGED dips
        /\ ApplyPurchaseEffects(p.tank, p.supplier, p.quantity, p.total_amount)
    BY <2>1 DEF ApprovePurchase
  <2>4. ~rev.reversed /\ ~Counted(p)
    BY <1>3, <2>3 DEF Counted
  <2> HIDE DEF rev
  <2>5. rev \in Workflow /\ "approved" \in PurchaseStatuses
    BY <1>3 DEF rev, PurchaseStatuses
  <2> QED BY <1>2, <2>2, <2>3, <2>4, <2>5
<1>5. CASE PurchaseRejectedStep
  <2>1. PICK u \in Users, i \in 1..Len(purchases) : RejectPurchase(u, i)
    BY <1>5 DEF PurchaseRejectedStep
  <2> DEFINE rev == purchases[i].rev
             p == purchases[i]
  <2>2. PurchaseMoved(i, "rejected", rev)
    BY <1>3, <2>1, PurchaseRewritten DEF PurchaseStatuses
  <2>3. p.status = "pending" /\ UNCHANGED <<current_volume, payable_balance, dips>>
    BY <2>1 DEF RejectPurchase
  <2>4. ~rev.reversed /\ ~Counted(p)
    BY <1>3, <2>3 DEF Counted
  <2> HIDE DEF rev
  <2>5. rev \in Workflow /\ "rejected" \in PurchaseStatuses
    BY <1>3 DEF rev, PurchaseStatuses
  <2> QED BY <1>2, <2>2, <2>3, <2>4, <2>5
<1>6. CASE PurchaseUndone
  <2>1. PICK i \in 1..Len(purchases), rev \in Workflow :
               Undoing(purchases[i].rev, rev) /\ UndoPurchase(i, rev)
    BY <1>6 DEF PurchaseUndone
  <2> DEFINE p == purchases[i]
             status == p.status
  <2>3. PurchaseMoved(i, status, rev)
    BY <1>3, <2>1, PurchaseRewritten
  <2>4. /\ status = "approved" /\ UNCHANGED dips
        /\ ApplyPurchaseEffects(p.tank, p.supplier, -p.quantity, -p.total_amount)
    BY <2>1 DEF UndoPurchase
  <2>5. rev.reversed /\ Counted(p)
    BY <2>1, <2>4 DEF Counted, Undoing
  <2> HIDE DEF status
  <2>6. status \in PurchaseStatuses
    BY <1>3 DEF status
  <2> QED BY <1>2, <2>3, <2>4, <2>5, <2>6
<1>7. CASE PurchaseMarked
  <2>1. PICK i \in 1..Len(purchases), rev \in Workflow :
               Marking(purchases[i].rev, rev) /\ MarkPurchase(i, rev)
    BY <1>7 DEF PurchaseMarked
  <2> DEFINE p == purchases[i]
             status == p.status
  <2>3. PurchaseMoved(i, status, rev)
    BY <1>3, <2>1, PurchaseRewritten
  <2>4. UNCHANGED <<current_volume, payable_balance, dips>>
    BY <2>1 DEF MarkPurchase
  <2>5. ~rev.reversed /\ (Counted(p) <=> (status = "approved" /\ ~rev.reversed))
    BY <2>1 DEF Counted, Marking
  <2> HIDE DEF status
  <2>6. status \in PurchaseStatuses
    BY <1>3 DEF status
  <2> QED BY <1>2, <2>3, <2>4, <2>5, <2>6
<1> QED BY <1>1, <1>4, <1>5, <1>6, <1>7, PurchasesCases

\* Totals of the purchases, whatever the column: a new purchase adds its amount, one
\* that is turned changes it.
LEMMA PurchaseColumns ==
  ASSUME TypeOK, TypeOK', NEW value \in [PurchaseRow -> Int]
  PROVE  /\ Total(Amounts(purchases, value)) \in Int
         /\ PurchaseAdded =>
              /\ value[purchases'[Len(purchases) + 1]] \in Int
              /\ Total(Amounts(purchases', value))
                   = Total(Amounts(purchases, value)) + value[purchases'[Len(purchases) + 1]]
         /\ \A i \in 1..Len(purchases) :
              PurchaseTurned(i) =>
                /\ value[purchases[i]] \in Int /\ value[purchases'[i]] \in Int
                /\ Total(Amounts(purchases', value))
                     = Total(Amounts(purchases, value)) - value[purchases[i]] + value[purchases'[i]]
<1>1. /\ purchases \in Seq(PurchaseRow) /\ Len(purchases) \in Nat
      /\ purchases' \in Seq(PurchaseRow)
  BY DEF TypeOK
<1>2. Total(Amounts(purchases, value)) \in Int
  BY <1>1, AmountsTyped
<1>3. ASSUME PurchaseAdded
      PROVE  /\ value[purchases'[Len(purchases) + 1]] \in Int
             /\ Total(Amounts(purchases', value))
                  = Total(Amounts(purchases, value)) + value[purchases'[Len(purchases) + 1]]
  <2>1. /\ Len(purchases') = Len(purchases) + 1
        /\ \A k \in 1..Len(purchases) : purchases'[k] = purchases[k]
    BY <1>3 DEF PurchaseAdded
  <2>2. purchases'[Len(purchases) + 1] \in PurchaseRow
    BY <1>1, <2>1
  <2>3. Total(Amounts(purchases', value))
          = Total(Amounts(purchases, value)) + value[purchases'[Len(purchases) + 1]]
    BY <1>1, <2>1, AmountsAppend
  <2> QED BY <2>2, <2>3
<1>4. ASSUME NEW i \in 1..Len(purchases), PurchaseTurned(i)
      PROVE  /\ value[purchases[i]] \in Int /\ value[purchases'[i]] \in Int
             /\ Total(Amounts(purchases', value))
                  = Total(Amounts(purchases, value)) - value[purchases[i]] + value[purchases'[i]]
  <2>1. /\ Len(purchases') = Len(purchases)
        /\ \A k \in 1..Len(purchases) : k # i => purchases'[k] = purchases[k]
    BY <1>4 DEF PurchaseTurned
  <2>2. purchases[i] \in PurchaseRow /\ purchases'[i] \in PurchaseRow
    BY <1>1, <2>1
  <2>3. Total(Amounts(purchases', value))
          = Total(Amounts(purchases, value)) - value[purchases[i]] + value[purchases'[i]]
    BY <1>1, <2>1, AmountsChange
  <2> QED BY <2>2, <2>3
<1> QED BY <1>2, <1>3, <1>4

\* What a purchase adds to a tank, by its columns.
LEMMA DeliveredPart ==
  ASSUME NEW t \in Tanks, NEW p \in PurchaseRow
  PROVE  DeliveredBy(t)[p] = IF p.tank = t THEN Part(p, p.quantity) ELSE 0
BY DEF DeliveredBy, Part

\* An amount added at one key is seen there and nowhere else.
LEMMA AddedAt ==
  ASSUME NEW S, NEW f \in [S -> Int], NEW s \in S, NEW t \in S, NEW x \in Int, NEW g,
         g = [f EXCEPT ![s] = @ + x]
  PROVE  g[t] = f[t] + (IF s = t THEN x ELSE 0) /\ f[t] \in Int
OBVIOUS

\* A purchase and its reversal book what they deliver and take back, a dip what it
\* found.
LEMMA StockBookedPurchases ==
  ASSUME TypeOK, TypeOK', ReversedWereApproved, StockBooked, PurchasesNext
  PROVE  StockBooked'
<1> SUFFICES ASSUME NEW t \in Tanks
             PROVE  LET x == Total(Amounts(purchases', DeliveredBy(t)))
                               - Total(Amounts(purchases, DeliveredBy(t)))
                        y == Total(Amounts(dips', GainedBy(t)))
                               - Total(Amounts(dips, GainedBy(t)))
                    IN  current_volume'[t] = current_volume[t] + x + y
  <2>1. /\ sales \in Seq(FuelSaleRow)
        /\ purchases \in Seq(PurchaseRow) /\ purchases' \in Seq(PurchaseRow)
        /\ dips \in Seq(DipRow) /\ dips' \in Seq(DipRow)
    BY DEF TypeOK
  <2>2. UNCHANGED sales
    BY PurchasesCases
    DEF PurchaseCreated, PurchaseApprovedStep, PurchaseRejectedStep, PurchaseUndone,
        PurchaseMarked, TankDipped, CreatePurchase, ApprovePurchase, RejectPurchase,
        UndoPurchase, MarkPurchase, CreateTankDip, otherBooks
  <2>3. ASSUME NEW t \in Tanks, NEW x \in Int, NEW y \in Int,
               x = Total(Amounts(purchases', DeliveredBy(t)))
                     - Total(Amounts(purchases, DeliveredBy(t))),
               y = Total(Amounts(dips', GainedBy(t))) - Total(Amounts(dips, GainedBy(t))),
               current_volume'[t] = current_volume[t] + x + y
        PROVE  current_volume'[t] = Booked(t)'
    <3> DEFINE opening == OpeningStock[t]
               sold == Total(Amounts(sales, SoldBy(t)))
               delivered == Total(Amounts(purchases, DeliveredBy(t)))
               delivered_now == Total(Amounts(purchases', DeliveredBy(t)))
               gained == Total(Amounts(dips, GainedBy(t)))
               gained_now == Total(Amounts(dips', GainedBy(t)))
    <3>1. /\ opening \in Int /\ sold \in Int /\ delivered \in Int /\ gained \in Int
          /\ delivered_now \in Int /\ gained_now \in Int
      BY <2>1, BookedTyped
    <3>2. current_volume[t] = opening + delivered - sold + gained
      BY DEF StockBooked, Booked
    <3>3. Booked(t)' = opening + delivered_now - sold + gained_now
      BY <2>2 DEF Booked
    <3>4. x = delivered_now - delivered /\ y = gained_now - gained
      BY <2>3
    <3> HIDE DEF opening, sold, delivered, delivered_now, gained, gained_now
    <3>5. opening + delivered_now - sold + gained_now
            = (opening + delivered - sold + gained) + x + y
      BY <3>1, <3>4
    <3> QED BY <2>3, <3>2, <3>3, <3>5
  <2>4. ASSUME NEW t \in Tanks
        PROVE  /\ Total(Amounts(purchases', DeliveredBy(t)))
                    - Total(Amounts(purchases, DeliveredBy(t))) \in Int
               /\ Total(Amounts(dips', GainedBy(t))) - Total(Amounts(dips, GainedBy(t))) \in Int
    BY <2>1, BookedTyped
  <2> QED BY <2>3, <2>4 DEF StockBooked
<1> DEFINE delivered == DeliveredBy(t)
           gained == GainedBy(t)
           before == Total(Amounts(purchases, delivered))
           after == Total(Amounts(purchases', delivered))
           found == Total(Amounts(dips, gained))
           found_now == Total(Amounts(dips', gained))
<1>0. /\ current_volume \in [Tanks -> Int]
      /\ purchases \in Seq(PurchaseRow) /\ purchases' \in Seq(PurchaseRow)
      /\ dips \in Seq(DipRow) /\ dips' \in Seq(DipRow) /\ Len(dips) \in Nat
  BY DEF TypeOK
<1>1. delivered \in [PurchaseRow -> Int] /\ gained \in [DipRow -> Int]
  BY StockColumns
<1>2. before \in Int /\ after \in Int /\ found \in Int /\ found_now \in Int
  <2> HIDE DEF delivered, gained
  <2>1. before \in Int
    BY <1>0, <1>1, AmountsTyped
  <2>2. after \in Int
    BY <1>0, <1>1, AmountsTyped
  <2>3. found \in Int
    BY <1>0, <1>1, AmountsTyped
  <2>4. found_now \in Int
    BY <1>0, <1>1, AmountsTyped
  <2> QED BY <2>1, <2>2, <2>3, <2>4
<1>3. \A p \in PurchaseRow : delivered[p] = IF p.tank = t THEN Part(p, p.quantity) ELSE 0
  BY DeliveredPart
<1>4. \A p \in PurchaseRow : Part(p, p.quantity) \in Int /\ p.tank \in Tanks
  BY DEF Part, PurchaseRow
<1>5. \A d \in DipRow : gained[d] = IF d.tank = t THEN d.loss_gain ELSE 0
  BY DEF GainedBy
<1> SUFFICES current_volume'[t] = current_volume[t] + (after - before) + (found_now - found)
  OBVIOUS
<1> HIDE DEF delivered, gained
<1>6. CASE PurchaseAdded
  <2> DEFINE p == purchases'[Len(purchases) + 1]
             x == Part(p, p.quantity)
  <2>1. after = before + delivered[p] /\ delivered[p] \in Int
    BY <1>1, <1>6, PurchaseColumns
  <2>2. p \in PurchaseRow
    BY <1>0, <1>6 DEF PurchaseAdded
  <2>3. current_volume' = [current_volume EXCEPT ![p.tank] = @ + x] /\ UNCHANGED dips
    BY <1>6 DEF PurchaseAdded
  <2>4. x \in Int /\ p.tank \in Tanks /\ delivered[p] = IF p.tank = t THEN x ELSE 0
    BY <1>3, <1>4, <2>2
  <2> HIDE DEF p, x
  <2>5. current_volume'[t] = current_volume[t] + (IF p.tank = t THEN x ELSE 0)
        /\ current_volume[t] \in Int
    BY <1>0, <2>3, <2>4, AddedAt
  <2>6. found_now = found
    BY <2>3
  <2> HIDE DEF before, after, found, found_now
  <2> QED BY <1>2, <2>1, <2>4, <2>5, <2>6
<1>7. ASSUME NEW i \in 1..Len(purchases), PurchaseTurned(i)
      PROVE  current_volume'[t] = current_volume[t] + (after - before) + (found_now - found)
  <2> DEFINE p == purchases[i]
             q == purchases'[i]
             was == Part(p, p.quantity)
             is  == Part(q, q.quantity)
  <2>1. after = before - delivered[p] + delivered[q]
    BY <1>1, <1>7, PurchaseColumns
  <2>2. p \in PurchaseRow /\ q \in PurchaseRow
    BY <1>0, <1>7 DEF PurchaseTurned
  <2>3. /\ current_volume' = [current_volume EXCEPT ![p.tank] = @ + (is - was)]
        /\ q.tank = p.tank /\ UNCHANGED dips
    BY <1>7 DEF PurchaseTurned
  <2>4. /\ was \in Int /\ is \in Int /\ p.tank \in Tanks
        /\ delivered[p] = IF p.tank = t THEN was ELSE 0
        /\ delivered[q] = IF p.tank = t THEN is ELSE 0
    BY <1>3, <1>4, <2>2, <2>3
  <2>5. is - was \in Int
    BY <2>4
  <2> HIDE DEF p, q, was, is
  <2>6. current_volume'[t] = current_volume[t] + (IF p.tank = t THEN is - was ELSE 0)
        /\ current_volume[t] \in Int
    <3> DEFINE x == is - was
    <3>1. x \in Int /\ current_volume' = [current_volume EXCEPT ![p.tank] = @ + x]
      BY <2>3, <2>5
    <3> HIDE DEF x
    <3>2. current_volume'[t] = current_volume[t] + (IF p.tank = t THEN x ELSE 0)
          /\ current_volume[t] \in Int
      BY <1>0, <2>4, <3>1, AddedAt
    <3> QED BY <3>2 DEF x
  <2>7. found_now = found
    BY <2>3
  <2> HIDE DEF before, after, found, found_now
  <2>8. CASE p.tank = t
    <3>1. after = before - was + is /\ current_volume'[t] = current_volume[t] + (is - was)
      BY <2>1, <2>4, <2>6, <2>8
    <3> QED BY <1>2, <2>4, <2>6, <2>7, <3>1
  <2>9. CASE p.tank # t
    <3>1. after = before - 0 + 0 /\ current_volume'[t] = current_volume[t] + 0
      BY <2>1, <2>4, <2>6, <2>9
    <3> QED BY <1>2, <2>6, <2>7, <3>1
  <2> QED BY <2>8, <2>9
<1>8. CASE TankDipped
  <2>1. PICK u \in Users, tank \in Tanks, calculated \in DipVolumes :
               CreateTankDip(u, tank, calculated)
    BY <1>8 DEF TankDipped
  <2> DEFINE last == Len(dips) + 1
             x == calculated - current_volume[tank]
  <2>2. /\ current_volume' = [current_volume EXCEPT ![tank] = calculated]
        /\ dips' = Append(dips, [tank |-> tank, calculated_volume |-> calculated,
                                 loss_gain |-> x])
        /\ UNCHANGED purchases
    BY <2>1 DEF CreateTankDip
  <2>3. calculated \in Int /\ current_volume[tank] \in Int /\ x \in Int
    BY <1>0, PurchasesAssumption
  <2>4. current_volume'[t] = current_volume[t] + (IF tank = t THEN x ELSE 0)
        /\ current_volume[t] \in Int
    BY <1>0, <2>2, <2>3
  <2> HIDE DEF x
  <2>5. /\ Len(dips') = last /\ \A k \in 1..Len(dips) : dips'[k] = dips[k]
        /\ dips'[last].tank = tank /\ dips'[last].loss_gain = x
    BY <1>0, <2>2
  <2>6. dips'[last] \in DipRow
    BY <1>0, <2>5
  <2>7. found_now = found + gained[dips'[last]]
    BY <1>0, <1>1, <2>5, AmountsAppend, ZenonT(40)
  <2>8. gained[dips'[last]] = IF tank = t THEN x ELSE 0
    BY <1>5, <2>5, <2>6
  <2>9. after = before
    BY <2>2
  <2> HIDE DEF before, after, found, found_now, last
  <2>10. CASE tank = t
    <3>1. found_now = found + x /\ current_volume'[t] = current_volume[t] + x
      BY <2>4, <2>7, <2>8, <2>10
    <3> QED BY <1>2, <2>3, <2>4, <2>9, <3>1
  <2>11. CASE tank # t
    <3>1. found_now = found + 0 /\ current_volume'[t] = current_volume[t] + 0
      BY <2>4, <2>7, <2>8, <2>11
    <3>2. after - before = 0 /\ found_now - found = 0
      BY <1>2, <2>9, <3>1
    <3>3. current_volume'[t] = current_volume[t]
      BY <2>4, <3>1
    <3> QED BY <1>2, <2>4, <3>2, <3>3
  <2> QED BY <2>10, <2>11
<1> QED BY <1>6, <1>7, <1>8, PurchaseSteps

\* No step reverses a purchase that was not approved.
LEMMA ReversedStep == TypeOK /\ ReversedWereApproved /\ [Next]_vars => ReversedWereApproved'
<1> SUFFICES ASSUME TypeOK, ReversedWereApproved, [Next]_vars PROVE ReversedWereApproved'
  OBVIOUS
<1>1. CASE UNCHANGED purchases
  BY <1>1 DEF ReversedWereApproved
<1>2. CASE PurchasesNext
  <2>1. Len(purchases) \in Nat
    BY DEF TypeOK
  <2>2. CASE PurchaseAdded
    BY <2>1, <2>2 DEF PurchaseAdded, ReversedWereApproved
  <2>3. ASSUME NEW i \in 1..Len(purchases), PurchaseTurned(i) PROVE ReversedWereApproved'
    BY <2>3 DEF PurchaseTurned, ReversedWereApproved
  <2>4. CASE TankDipped
    BY <1>1, <2>4 DEF TankDipped, CreateTankDip
  <2> QED BY <1>2, <2>2, <2>3, <2>4, PurchaseSteps
<1>3. CASE PaymentsNext /\ UNCHANGED <<salesVars, purchaseVars>>
  BY <1>1, <1>3 DEF purchaseVars
<1>4. CASE UNCHANGED purchaseVars
  BY <1>1, <1>4 DEF purchaseVars
<1>5. CASE UNCHANGED vars
  BY <1>1, <1>5 DEF vars, purchaseVars
<1> QED BY <1>2, <1>3, <1>4, <1>5 DEF Next

\* No step moves stock that it does not book.
LEMMA StockBookedStep ==
  TypeOK /\ TypeOK' /\ ReversedWereApproved /\ StockBooked /\ [Next]_vars => StockBooked'
<1> SUFFICES ASSUME TypeOK, TypeOK', ReversedWereApproved, StockBooked, [Next]_vars
             PROVE  StockBooked'
  OBVIOUS
<1>1. CASE UNCHANGED <<current_volume, sales, purchases, dips>>
  BY <1>1 DEF StockBooked, Booked
<1>2. CASE FuelSalesNext /\ UNCHANGED purchaseVars
  BY <1>2, StockBookedSales DEF purchaseVars
<1>3. CASE PurchasesNext
  BY <1>3, StockBookedPurchases
<1>4. CASE (ShiftsNext \/ PaymentsNext \/ CreditOverridesNext) /\ UNCHANGED purchaseVars
  <2>1. UNCHANGED sales
    BY <1>4, PaymentsCases
    DEF ShiftsNext, CreateShift, CloseShift,
        CustomerPaid, CustomerPaymentUndone, CustomerPaymentMarked, SupplierPaid,
        SupplierPaymentUndone, SupplierPaymentMarked, CreateCustomerPayment,
        CreateSupplierPayment, UndoCustomerPayment, UndoSupplierPayment,
        MarkCustomerPayment, MarkSupplierPayment, forecourt,
        CreditOverridesNext, UpdateCustomer, RequestCreditOverride,
        ApproveCreditOverride, RejectCreditOverride, notCustomers
  <2> QED BY <1>1, <1>4, <2>1, OthersKeepStock DEF purchaseVars
<1>5. CASE UNCHANGED vars
  BY <1>1, <1>5 DEF vars, purchaseVars
<1> QED BY <1>2, <1>3, <1>4, <1>5 DEF Next

\* Nothing is booked at first.
LEMMA StockBookedInit == Init => StockBooked /\ ReversedWereApproved
<1> SUFFICES ASSUME Init PROVE StockBooked /\ ReversedWereApproved
  OBVIOUS
<1>1. sales = << >> /\ purchases = << >> /\ dips = << >> /\ current_volume = OpeningStock
  BY DEF Init, StateInit, FuelSalesInit, PurchasesInit
<1>2. ASSUME NEW t \in Tanks PROVE current_volume[t] = Booked(t)
  <2> DEFINE sold == SoldBy(t)
             delivered == DeliveredBy(t)
             gained == GainedBy(t)
  <2>1. /\ sold \in [FuelSaleRow -> Int] /\ delivered \in [PurchaseRow -> Int]
        /\ gained \in [DipRow -> Int]
    BY StockColumns
  <2> HIDE DEF sold, delivered, gained
  <2>0. /\ sales \in Seq(FuelSaleRow) /\ Len(sales) = 0
        /\ purchases \in Seq(PurchaseRow) /\ Len(purchases) = 0
        /\ dips \in Seq(DipRow) /\ Len(dips) = 0
    BY <1>1
  <2>2. Total(Amounts(sales, sold)) = 0
    BY <2>0, <2>1, AmountsEmpty
  <2>3. Total(Amounts(purchases, delivered)) = 0
    BY <2>0, <2>1, AmountsEmpty
  <2>4. Total(Amounts(dips, gained)) = 0
    BY <2>0, <2>1, AmountsEmpty
  <2>5. OpeningStock[t] \in Int
    BY RecordsAssumption
  <2> QED BY <1>1, <2>2, <2>3, <2>4, <2>5 DEF Booked, sold, delivered, gained
<1> QED BY <1>1, <1>2 DEF StockBooked, ReversedWereApproved

\* In every state of every station, whatever its tanks, users and prices: a tank holds
\* its opening stock, plus what approved purchases delivered, less what standing
\* sales took, plus what dips found (fuel_sales.py, purchases.py, tank_dips.py).
THEOREM StockIsBooked == Spec => []StockBalances
BY StockBookedInit, TypeCorrect, ReversedStep, StockBookedStep, StockForm, PTL DEF Spec

-----------------------------------------------------------------------------
\* What is owed to a supplier is what its documents say.

\* What a payment of either table still counts for.
StillPaid(p) == IF p.rev.reversed THEN 0 ELSE p.amount

BoughtFrom(s) ==
  [row \in PurchaseRow |-> IF row.supplier = s THEN Part(row, row.total_amount) ELSE 0]
SettledWith(s) ==
  [row \in SupplierPaymentRow |-> IF row.supplier = s THEN StillPaid(row) ELSE 0]

Payable(s) ==
  Total(Amounts(purchases, BoughtFrom(s))) - Total(Amounts(supplier_payments, SettledWith(s)))

PayablesBooked == \A s \in Suppliers : payable_balance[s] = Payable(s)

\* Contributions are integers.
LEMMA PayableColumns ==
  ASSUME NEW s \in Suppliers
  PROVE  /\ BoughtFrom(s) \in [PurchaseRow -> Int]
         /\ SettledWith(s) \in [SupplierPaymentRow -> Int]
<1>1. ASSUME NEW row \in PurchaseRow PROVE Part(row, row.total_amount) \in Int
  BY DEF PurchaseRow, Part
<1>2. ASSUME NEW row \in SupplierPaymentRow PROVE StillPaid(row) \in Int
  BY DEF SupplierPaymentRow, StillPaid
<1> QED BY <1>1, <1>2 DEF BoughtFrom, SettledWith

\* So are their totals, in any state of the tables.
LEMMA PayableTyped ==
  ASSUME NEW s \in Suppliers, NEW ps \in Seq(PurchaseRow), NEW qs \in Seq(SupplierPaymentRow)
  PROVE  /\ Total(Amounts(ps, BoughtFrom(s))) \in Int
         /\ Total(Amounts(qs, SettledWith(s))) \in Int
<1> DEFINE bought == BoughtFrom(s)
           settled == SettledWith(s)
<1>1. bought \in [PurchaseRow -> Int] /\ settled \in [SupplierPaymentRow -> Int]
  BY PayableColumns
<1> HIDE DEF bought, settled
<1>2. Total(Amounts(ps, bought)) \in Int
  BY <1>1, AmountsTyped
<1>3. Total(Amounts(qs, settled)) \in Int
  BY <1>1, AmountsTyped
<1> QED BY <1>2, <1>3 DEF bought, settled

\* The invariant in the words of StationBooks.
LEMMA PayableForm == TypeOK => (PayableMatchesLedger <=> PayablesBooked)
<1> SUFFICES ASSUME TypeOK PROVE PayableMatchesLedger <=> PayablesBooked
  OBVIOUS
<1>1. ASSUME NEW s \in Suppliers PROVE PurchasedFrom(s) = Amounts(purchases, BoughtFrom(s))
  <2>1. ASSUME NEW i \in 1..Len(purchases) PROVE purchases[i] \in PurchaseRow
    BY PurchaseFields
  <2>2. ASSUME NEW i \in 1..Len(purchases)
        PROVE  BoughtFrom(s)[purchases[i]]
                 = IF purchases[i].supplier = s /\ Counted(purchases[i])
                   THEN purchases[i].total_amount ELSE 0
    BY <2>1 DEF BoughtFrom, Part
  <2> QED BY <2>2 DEF PurchasedFrom, Amounts
<1>2. ASSUME NEW s \in Suppliers PROVE PaidTo(s) = Amounts(supplier_payments, SettledWith(s))
  <2>1. ASSUME NEW i \in 1..Len(supplier_payments)
        PROVE  SettledWith(s)[supplier_payments[i]]
                 = IF supplier_payments[i].supplier = s /\ ~supplier_payments[i].rev.reversed
                   THEN supplier_payments[i].amount ELSE 0
    BY PaymentFields DEF SettledWith, StillPaid
  <2> QED BY <2>1 DEF PaidTo, Amounts
<1> QED BY <1>1, <1>2 DEF PayableMatchesLedger, PayablesBooked, Payable

\* A payment to a supplier, and one that is reversed or only marked.
SupplierPaymentAdded ==
  LET p == supplier_payments'[Len(supplier_payments) + 1]
  IN  /\ Len(supplier_payments') = Len(supplier_payments) + 1
      /\ \A k \in 1..Len(supplier_payments) : supplier_payments'[k] = supplier_payments[k]
      /\ payable_balance' = [payable_balance EXCEPT ![p.supplier] = @ + (0 - StillPaid(p))]

SupplierPaymentTurned(i) ==
  LET p == supplier_payments[i]
      q == supplier_payments'[i]
  IN  /\ Len(supplier_payments') = Len(supplier_payments)
      /\ \A k \in 1..Len(supplier_payments) : k # i => supplier_payments'[k] = supplier_payments[k]
      /\ q.supplier = p.supplier
      /\ payable_balance' = [payable_balance EXCEPT ![p.supplier]
                               = @ + (StillPaid(p) - StillPaid(q))]

\* The operations on payments add one, turn one or leave the suppliers alone.
LEMMA SupplierPaymentSteps ==
  ASSUME TypeOK, PaymentsNext
  PROVE  \/ SupplierPaymentAdded
         \/ \E i \in 1..Len(supplier_payments) : SupplierPaymentTurned(i)
         \/ UNCHANGED <<payable_balance, supplier_payments>>
<1>0. /\ payable_balance \in [Suppliers -> Int]
      /\ supplier_payments \in Seq(SupplierPaymentRow) /\ Len(supplier_payments) \in Nat
  BY DEF TypeOK
<1>1. CASE SupplierPaid
  <2>1. PICK u \in Users, s \in Suppliers, amount \in PaymentAmounts :
               CreateSupplierPayment(u, s, amount)
    BY <1>1 DEF SupplierPaid
  <2> DEFINE row == [supplier |-> s, amount |-> amount, rev |-> Fresh]
             last == Len(supplier_payments) + 1
  <2>2. /\ supplier_payments' = Append(supplier_payments, row)
        /\ payable_balance' = [payable_balance EXCEPT ![s] = @ - amount]
    BY <2>1 DEF CreateSupplierPayment
  <2>3. amount \in Nat /\ payable_balance[s] \in Int
    BY <1>0, PaymentsAssumption
  <2>4. row.supplier = s /\ StillPaid(row) = amount
    BY DEF StillPaid, Fresh
  <2> HIDE DEF row
  <2>5. /\ Len(supplier_payments') = last /\ supplier_payments'[last] = row
        /\ \A k \in 1..Len(supplier_payments) : supplier_payments'[k] = supplier_payments[k]
    BY <1>0, <2>2
  <2>6. payable_balance[s] - amount = payable_balance[s] + (0 - amount)
    BY <2>3
  <2>7. payable_balance' = [payable_balance EXCEPT ![s] = @ + (0 - amount)]
    BY <2>2, <2>6
  <2> QED BY <2>4, <2>5, <2>7 DEF SupplierPaymentAdded
<1>2. ASSUME NEW i \in 1..Len(supplier_payments), NEW rev \in Workflow,
             ~supplier_payments[i].rev.reversed,
             \/ rev.reversed /\ UndoSupplierPayment(i, rev)
             \/ ~rev.reversed /\ MarkSupplierPayment(i, rev)
      PROVE  SupplierPaymentTurned(i)
  <2> DEFINE row == [supplier_payments[i] EXCEPT !.rev = rev]
             supplier == supplier_payments[i].supplier
             amount == supplier_payments[i].amount
  <2>1. supplier_payments[i] \in SupplierPaymentRow /\ supplier \in Suppliers /\ amount \in Nat
    BY PaymentFields
  <2>2. row.supplier = supplier /\ row.amount = amount /\ row.rev = rev
    BY <2>1 DEF SupplierPaymentRow
  <2>3. supplier_payments' = [supplier_payments EXCEPT ![i] = row]
    BY <1>2 DEF UndoSupplierPayment, MarkSupplierPayment
  <2>4. /\ StillPaid(supplier_payments[i]) = amount
        /\ StillPaid(row) = IF rev.reversed THEN 0 ELSE amount
    BY <1>2, <2>2 DEF StillPaid
  <2> HIDE DEF row, supplier, amount
  <2>5. /\ Len(supplier_payments') = Len(supplier_payments) /\ supplier_payments'[i] = row
        /\ \A k \in 1..Len(supplier_payments) :
             k # i => supplier_payments'[k] = supplier_payments[k]
    BY <1>0, <2>3
  <2> DEFINE x == StillPaid(supplier_payments[i]) - StillPaid(supplier_payments'[i])
  <2>6. payable_balance' = [payable_balance EXCEPT ![supplier] = @ + x]
    <3>1. CASE rev.reversed /\ UndoSupplierPayment(i, rev)
      <4>1. x = amount
        BY <2>1, <2>4, <2>5, <3>1
      <4> HIDE DEF x
      <4> QED BY <3>1, <4>1 DEF UndoSupplierPayment, supplier, amount
    <3>2. CASE ~rev.reversed /\ MarkSupplierPayment(i, rev)
      <4>1. x = 0
        BY <2>1, <2>4, <2>5, <3>2
      <4> HIDE DEF x
      <4>2. payable_balance = [payable_balance EXCEPT ![supplier] = @ + 0]
        BY <1>0, <2>1, NothingAdded
      <4> QED BY <3>2, <4>1, <4>2 DEF MarkSupplierPayment
    <3> QED BY <1>2, <3>1, <3>2
  <2> QED BY <2>2, <2>5, <2>6 DEF SupplierPaymentTurned, supplier
<1>3. CASE SupplierPaymentUndone \/ SupplierPaymentMarked
  BY <1>2, <1>3 DEF SupplierPaymentUndone, SupplierPaymentMarked, Undoing, Marking
<1>4. CASE CustomerPaid \/ CustomerPaymentUndone \/ CustomerPaymentMarked
  BY <1>4 DEF CustomerPaid, CustomerPaymentUndone, CustomerPaymentMarked,
              CreateCustomerPayment, UndoCustomerPayment, MarkCustomerPayment
<1> QED BY <1>1, <1>3, <1>4, PaymentsCases

\* What a step adds to a payable is what it adds to the documents.
LEMMA PayableShift ==
  ASSUME TypeOK, TypeOK', PayablesBooked,
         \A s \in Suppliers :
           LET x == Total(Amounts(purchases', BoughtFrom(s)))
                      - Total(Amounts(purchases, BoughtFrom(s)))
               y == Total(Amounts(supplier_payments', SettledWith(s)))
                      - Total(Amounts(supplier_payments, SettledWith(s)))
           IN  payable_balance'[s] = payable_balance[s] + x - y
  PROVE  PayablesBooked'
<1>1. /\ purchases \in Seq(PurchaseRow) /\ purchases' \in Seq(PurchaseRow)
      /\ supplier_payments \in Seq(SupplierPaymentRow)
      /\ supplier_payments' \in Seq(SupplierPaymentRow)
  BY DEF TypeOK
<1>2. ASSUME NEW s \in Suppliers PROVE payable_balance'[s] = Payable(s)'
  <2> DEFINE bought == Total(Amounts(purchases, BoughtFrom(s)))
             bought_now == Total(Amounts(purchases', BoughtFrom(s)))
             settled == Total(Amounts(supplier_payments, SettledWith(s)))
             settled_now == Total(Amounts(supplier_payments', SettledWith(s)))
  <2>1. bought \in Int /\ bought_now \in Int /\ settled \in Int /\ settled_now \in Int
    BY <1>1, PayableTyped
  <2>2. /\ payable_balance[s] = bought - settled
        /\ Payable(s)' = bought_now - settled_now
    BY DEF PayablesBooked, Payable
  <2>3. payable_balance'[s]
          = payable_balance[s] + (bought_now - bought) - (settled_now - settled)
    OBVIOUS
  <2> HIDE DEF bought, bought_now, settled, settled_now
  <2> QED BY <2>1, <2>2, <2>3
<1> QED BY <1>2 DEF PayablesBooked

\* An approved purchase and its reversal.
LEMMA PayablesBookedPurchases ==
  ASSUME TypeOK, TypeOK', ReversedWereApproved, PayablesBooked, PurchasesNext,
         UNCHANGED supplier_payments
  PROVE  PayablesBooked'
<1>0. /\ payable_balance \in [Suppliers -> Int]
      /\ purchases \in Seq(PurchaseRow) /\ purchases' \in Seq(PurchaseRow)
      /\ supplier_payments \in Seq(SupplierPaymentRow)
  BY DEF TypeOK
<1>1. ASSUME NEW s \in Suppliers
      PROVE  payable_balance'[s]
               = payable_balance[s] + (Total(Amounts(purchases', BoughtFrom(s)))
                                         - Total(Amounts(purchases, BoughtFrom(s))))
  <2> DEFINE bought == BoughtFrom(s)
             before == Total(Amounts(purchases, bought))
             after == Total(Amounts(purchases', bought))
  <2>1. bought \in [PurchaseRow -> Int] /\ before \in Int /\ after \in Int
    BY <1>0, PayableColumns, PayableTyped
  <2>2. \A p \in PurchaseRow :
          /\ bought[p] = IF p.supplier = s THEN Part(p, p.total_amount) ELSE 0
          /\ Part(p, p.total_amount) \in Int /\ p.supplier \in Suppliers
    BY DEF BoughtFrom, Part, PurchaseRow
  <2> SUFFICES payable_balance'[s] = payable_balance[s] + (after - before)
    OBVIOUS
  <2> HIDE DEF bought
  <2>3. CASE PurchaseAdded
    <3> DEFINE p == purchases'[Len(purchases) + 1]
               x == Part(p, p.total_amount)
    <3>1. after = before + bought[p]
      BY <2>1, <2>3, PurchaseColumns
    <3>2. p \in PurchaseRow
      BY <1>0, <2>3 DEF PurchaseAdded
    <3>3. payable_balance' = [payable_balance EXCEPT ![p.supplier] = @ + x]
      BY <2>3 DEF PurchaseAdded
    <3>4. x \in Int /\ p.supplier \in Suppliers /\ bought[p] = IF p.supplier = s THEN x ELSE 0
      BY <2>2, <3>2
    <3> HIDE DEF p, x, before, after
    <3>5. payable_balance'[s] = payable_balance[s] + (IF p.supplier = s THEN x ELSE 0)
          /\ payable_balance[s] \in Int
      BY <1>0, <3>3, <3>4, AddedAt
    <3> QED BY <2>1, <3>1, <3>4, <3>5
  <2>4. ASSUME NEW i \in 1..Len(purchases), PurchaseTurned(i)
        PROVE  payable_balance'[s] = payable_balance[s] + (after - before)
    <3> DEFINE p == purchases[i]
               q == purchases'[i]
               was == Part(p, p.total_amount)
               is  == Part(q, q.total_amount)
               x   == is - was
    <3>1. after = before - bought[p] + bought[q]
      BY <2>1, <2>4, PurchaseColumns
    <3>2. p \in PurchaseRow /\ q \in PurchaseRow
      BY <1>0, <2>4 DEF PurchaseTurned
    <3>3. /\ payable_balance' = [payable_balance EXCEPT ![p.supplier] = @ + x]
          /\ q.supplier = p.supplier
      BY <2>4 DEF PurchaseTurned
    <3>4. /\ was \in Int /\ is \in Int /\ p.supplier \in Suppliers
          /\ bought[p] = IF p.supplier = s THEN was ELSE 0
          /\ bought[q] = IF p.supplier = s THEN is ELSE 0
      BY <2>2, <3>2, <3>3
    <3> HIDE DEF p, q, was, is
    <3>5. x \in Int
      BY <3>4
    <3> HIDE DEF x, before, after
    <3>6. payable_balance'[s] = payable_balance[s] + (IF p.supplier = s THEN x ELSE 0)
          /\ payable_balance[s] \in Int
      BY <1>0, <3>3, <3>4, <3>5, AddedAt
    <3>7. CASE p.supplier = s
      <4>1. after = before - was + is /\ payable_balance'[s] = payable_balance[s] + (is - was)
        BY <3>1, <3>4, <3>6, <3>7 DEF x
      <4> QED BY <2>1, <3>4, <3>6, <4>1
    <3>8. CASE p.supplier # s
      <4>1. /\ after = before - 0 + 0 /\ payable_balance'[s] = payable_balance[s] + 0
            /\ payable_balance[s] \in Int
        BY <3>1, <3>4, <3>6, <3>8
      <4> QED BY <2>1, <4>1
    <3> QED BY <3>7, <3>8
  <2>5. CASE TankDipped
    <3>1. UNCHANGED <<payable_balance, purchases>>
      BY <2>5 DEF TankDipped, CreateTankDip
    <3>2. after = before /\ payable_balance'[s] = payable_balance[s] /\ payable_balance[s] \in Int
      BY <1>0, <3>1
    <3> HIDE DEF before, after
    <3> QED BY <2>1, <3>2
  <2> QED BY <2>3, <2>4, <2>5, PurchaseSteps
<1>2. ASSUME NEW s \in Suppliers
      PROVE  LET x == Total(Amounts(purchases', BoughtFrom(s)))
                        - Total(Amounts(purchases, BoughtFrom(s)))
                 y == Total(Amounts(supplier_payments', SettledWith(s)))
                        - Total(Amounts(supplier_payments, SettledWith(s)))
             IN  payable_balance'[s] = payable_balance[s] + x - y
  <2> DEFINE x == Total(Amounts(purchases', BoughtFrom(s)))
                    - Total(Amounts(purchases, BoughtFrom(s)))
             settled == Total(Amounts(supplier_payments, SettledWith(s)))
             settled_now == Total(Amounts(supplier_payments', SettledWith(s)))
  <2>1. settled_now = settled /\ settled \in Int
    BY <1>0, PayableTyped
  <2>2. x \in Int
    BY <1>0, PayableTyped
  <2>3. payable_balance'[s] = payable_balance[s] + x /\ payable_balance[s] \in Int
    BY <1>0, <1>1
  <2> HIDE DEF x, settled, settled_now
  <2>4. payable_balance'[s] = payable_balance[s] + x - (settled_now - settled)
    BY <2>1, <2>2, <2>3
  <2> QED BY <2>4 DEF x, settled, settled_now
<1> QED BY <1>2, PayableShift

\* One more supplier payment.
LEMMA SupplierPaymentColumnGrown ==
  ASSUME NEW value \in [SupplierPaymentRow -> Int], supplier_payments \in Seq(SupplierPaymentRow),
         supplier_payments' \in Seq(SupplierPaymentRow), Len(supplier_payments') = Len(supplier_payments) + 1,
         \A k \in 1..Len(supplier_payments) : supplier_payments'[k] = supplier_payments[k]
  PROVE  Total(Amounts(supplier_payments', value))
           = Total(Amounts(supplier_payments, value))
               + value[supplier_payments'[Len(supplier_payments) + 1]]
BY AmountsAppend

\* A payment that is rewritten changes the totals of its columns.
LEMMA SupplierPaymentColumnChanged ==
  ASSUME NEW value \in [SupplierPaymentRow -> Int], supplier_payments \in Seq(SupplierPaymentRow),
         supplier_payments' \in Seq(SupplierPaymentRow), NEW i \in 1..Len(supplier_payments),
         Len(supplier_payments') = Len(supplier_payments),
         \A k \in 1..Len(supplier_payments) :
           k # i => supplier_payments'[k] = supplier_payments[k]
  PROVE  Total(Amounts(supplier_payments', value))
           = Total(Amounts(supplier_payments, value))
               - value[supplier_payments[i]] + value[supplier_payments'[i]]
BY AmountsChange

\* A payment and its reversal.
LEMMA PayablesBookedPayments ==
  ASSUME TypeOK, TypeOK', PayablesBooked, PaymentsNext, UNCHANGED purchases
  PROVE  PayablesBooked'
<1>0. /\ payable_balance \in [Suppliers -> Int]
      /\ purchases \in Seq(PurchaseRow)
      /\ supplier_payments \in Seq(SupplierPaymentRow)
      /\ supplier_payments' \in Seq(SupplierPaymentRow) /\ Len(supplier_payments) \in Nat
  BY DEF TypeOK
<1>1. ASSUME NEW s \in Suppliers
      PROVE  payable_balance'[s]
               = payable_balance[s] - (Total(Amounts(supplier_payments', SettledWith(s)))
                                         - Total(Amounts(supplier_payments, SettledWith(s))))
  <2> DEFINE settled == SettledWith(s)
             before == Total(Amounts(supplier_payments, settled))
             after == Total(Amounts(supplier_payments', settled))
  <2>1. settled \in [SupplierPaymentRow -> Int] /\ before \in Int /\ after \in Int
    BY <1>0, PayableColumns, PayableTyped
  <2>2. \A p \in SupplierPaymentRow :
          /\ settled[p] = IF p.supplier = s THEN StillPaid(p) ELSE 0
          /\ StillPaid(p) \in Int /\ p.supplier \in Suppliers
    BY DEF SettledWith, StillPaid, SupplierPaymentRow
  <2> SUFFICES payable_balance'[s] = payable_balance[s] - (after - before)
    OBVIOUS
  <2> HIDE DEF settled
  <2>3. CASE SupplierPaymentAdded
    <3> DEFINE p == supplier_payments'[Len(supplier_payments) + 1]
               x == 0 - StillPaid(p)
    <3>1. p \in SupplierPaymentRow
      BY <1>0, <2>3 DEF SupplierPaymentAdded
    <3>2. after = before + settled[p]
      BY <1>0, <2>1, <2>3, SupplierPaymentColumnGrown DEF SupplierPaymentAdded
    <3>3. payable_balance' = [payable_balance EXCEPT ![p.supplier] = @ + x]
      BY <2>3 DEF SupplierPaymentAdded
    <3>4. /\ StillPaid(p) \in Int /\ p.supplier \in Suppliers
          /\ settled[p] = IF p.supplier = s THEN StillPaid(p) ELSE 0
      BY <2>2, <3>1
    <3>5. x \in Int
      BY <3>4
    <3> HIDE DEF p, x, before, after
    <3>6. payable_balance'[s] = payable_balance[s] + (IF p.supplier = s THEN x ELSE 0)
          /\ payable_balance[s] \in Int
      BY <1>0, <3>3, <3>4, <3>5, AddedAt
    <3>7. CASE p.supplier = s
      <4>1. /\ after = before + StillPaid(p)
            /\ payable_balance'[s] = payable_balance[s] + (0 - StillPaid(p))
        BY <3>2, <3>4, <3>6, <3>7 DEF x
      <4> QED BY <2>1, <3>4, <3>6, <4>1
    <3>8. CASE p.supplier # s
      <4>1. /\ after = before + 0 /\ payable_balance'[s] = payable_balance[s] + 0
            /\ payable_balance[s] \in Int
        BY <3>2, <3>4, <3>6, <3>8
      <4> QED BY <2>1, <4>1
    <3> QED BY <3>7, <3>8
  <2>4. ASSUME NEW i \in 1..Len(supplier_payments), SupplierPaymentTurned(i)
        PROVE  payable_balance'[s] = payable_balance[s] - (after - before)
    <3> DEFINE p == supplier_payments[i]
               q == supplier_payments'[i]
               was == StillPaid(p)
               is  == StillPaid(q)
               x   == was - is
    <3>0. /\ Len(supplier_payments') = Len(supplier_payments)
          /\ \A k \in 1..Len(supplier_payments) :
               k # i => supplier_payments'[k] = supplier_payments[k]
      BY <2>4 DEF SupplierPaymentTurned
    <3>1. after = before - settled[p] + settled[q]
      BY <1>0, <2>1, <3>0, SupplierPaymentColumnChanged
    <3>2. p \in SupplierPaymentRow /\ q \in SupplierPaymentRow
      BY <1>0, <2>4 DEF SupplierPaymentTurned
    <3>3. /\ payable_balance' = [payable_balance EXCEPT ![p.supplier] = @ + x]
          /\ q.supplier = p.supplier
      BY <2>4 DEF SupplierPaymentTurned
    <3>4. /\ was \in Int /\ is \in Int /\ p.supplier \in Suppliers
          /\ settled[p] = IF p.supplier = s THEN was ELSE 0
          /\ settled[q] = IF p.supplier = s THEN is ELSE 0
      BY <2>2, <3>2, <3>3
    <3> HIDE DEF p, q, was, is
    <3>5. x \in Int
      BY <3>4
    <3> HIDE DEF x, before, after
    <3>6. payable_balance'[s] = payable_balance[s] + (IF p.supplier = s THEN x ELSE 0)
          /\ payable_balance[s] \in Int
      BY <1>0, <3>3, <3>4, <3>5, AddedAt
    <3>7. CASE p.supplier = s
      <4>1. after = before - was + is /\ payable_balance'[s] = payable_balance[s] + (was - is)
        BY <3>1, <3>4, <3>6, <3>7 DEF x
      <4> QED BY <2>1, <3>4, <3>6, <4>1
    <3>8. CASE p.supplier # s
      <4>1. /\ after = before - 0 + 0 /\ payable_balance'[s] = payable_balance[s] + 0
            /\ payable_balance[s] \in Int
        BY <3>1, <3>4, <3>6, <3>8
      <4> QED BY <2>1, <4>1
    <3> QED BY <3>7, <3>8
  <2>5. CASE UNCHANGED <<payable_balance, supplier_payments>>
    <3>1. after = before /\ payable_balance'[s] = payable_balance[s] /\ payable_balance[s] \in Int
      BY <1>0, <2>5
    <3> HIDE DEF before, after
    <3> QED BY <2>1, <3>1
  <2> QED BY <2>3, <2>4, <2>5, SupplierPaymentSteps
<1>2. ASSUME NEW s \in Suppliers
      PROVE  LET x == Total(Amounts(purchases', BoughtFrom(s)))
                        - Total(Amounts(purchases, BoughtFrom(s)))
                 y == Total(Amounts(supplier_payments', SettledWith(s)))
                        - Total(Amounts(supplier_payments, SettledWith(s)))
             IN  payable_balance'[s] = payable_balance[s] + x - y
  <2> DEFINE y == Total(Amounts(supplier_payments', SettledWith(s)))
                    - Total(Amounts(supplier_payments, SettledWith(s)))
             bought == Total(Amounts(purchases, BoughtFrom(s)))
             bought_now == Total(Amounts(purchases', BoughtFrom(s)))
  <2>1. bought_now = bought /\ bought \in Int
    BY <1>0, PayableTyped
  <2>2. y \in Int
    BY <1>0, PayableTyped
  <2>3. payable_balance'[s] = payable_balance[s] - y /\ payable_balance[s] \in Int
    BY <1>0, <1>1
  <2> HIDE DEF y, bought, bought_now
  <2>4. payable_balance'[s] = payable_balance[s] + (bought_now - bought) - y
    BY <2>1, <2>2, <2>3
  <2> QED BY <2>4 DEF y, bought, bought_now
<1> QED BY <1>2, PayableShift

\* No step changes a payable without its document.
LEMMA PayablesBookedStep ==
  TypeOK /\ TypeOK' /\ ReversedWereApproved /\ PayablesBooked /\ [Next]_vars => PayablesBooked'
<1> SUFFICES ASSUME TypeOK, TypeOK', ReversedWereApproved, PayablesBooked, [Next]_vars
             PROVE  PayablesBooked'
  OBVIOUS
<1>1. CASE UNCHANGED <<payable_balance, purchases, supplier_payments>>
  BY <1>1 DEF PayablesBooked, Payable
<1>2. CASE FuelSalesNext /\ UNCHANGED <<purchaseVars, paymentVars>>
  <2>1. ASSUME SaleCreated PROVE UNCHANGED payable_balance
    BY <2>1 DEF SaleCreated, CreateFuelSale
  <2>2. ASSUME SaleUndone PROVE UNCHANGED payable_balance
    BY <2>2 DEF SaleUndone, UndoSale
  <2>3. ASSUME SaleMarked PROVE UNCHANGED payable_balance
    BY <2>3 DEF SaleMarked, MarkSale
  <2>4. ASSUME MeterAdjusted PROVE UNCHANGED payable_balance
    BY <2>4 DEF MeterAdjusted, AdjustNozzleMeter
  <2>5. UNCHANGED payable_balance
    BY <1>2, <2>1, <2>2, <2>3, <2>4, FuelSalesCases
  <2> QED BY <1>1, <1>2, <2>5 DEF purchaseVars, paymentVars
<1>3. CASE PurchasesNext /\ UNCHANGED <<salesVars, paymentVars>>
  BY <1>3, PayablesBookedPurchases DEF paymentVars
<1>4. CASE PaymentsNext /\ UNCHANGED <<salesVars, purchaseVars>>
  BY <1>4, PayablesBookedPayments DEF purchaseVars
<1>5. CASE (ShiftsNext \/ CreditOverridesNext) /\ UNCHANGED <<purchaseVars, paymentVars>>
  <2>1. UNCHANGED payable_balance
    BY <1>5
    DEF ShiftsNext, CreateShift, CloseShift, CreditOverridesNext, UpdateCustomer,
        RequestCreditOverride, ApproveCreditOverride, RejectCreditOverride, notCustomers
  <2> QED BY <1>1, <1>5, <2>1 DEF purchaseVars, paymentVars
<1>6. CASE UNCHANGED vars
  BY <1>1, <1>6 DEF vars, purchaseVars, paymentVars
<1> QED BY <1>2, <1>3, <1>4, <1>5, <1>6 DEF Next

\* Nothing is owed at first.
LEMMA PayablesBookedInit == Init => PayablesBooked /\ ReversedWereApproved
<1> SUFFICES ASSUME Init PROVE PayablesBooked /\ ReversedWereApproved
  OBVIOUS
<1>1. /\ purchases = << >> /\ supplier_payments = << >>
      /\ payable_balance = [s \in Suppliers |-> 0]
  BY DEF Init, StateInit, PurchasesInit, PaymentsInit
<1>2. ASSUME NEW s \in Suppliers PROVE payable_balance[s] = Payable(s)
  <2> DEFINE bought == BoughtFrom(s)
             settled == SettledWith(s)
  <2>1. bought \in [PurchaseRow -> Int] /\ settled \in [SupplierPaymentRow -> Int]
    BY PayableColumns
  <2> HIDE DEF bought, settled
  <2>2. /\ purchases \in Seq(PurchaseRow) /\ Len(purchases) = 0
        /\ supplier_payments \in Seq(SupplierPaymentRow) /\ Len(supplier_payments) = 0
    BY <1>1
  <2>3. Total(Amounts(purchases, bought)) = 0
    BY <2>1, <2>2, AmountsEmpty
  <2>4. Total(Amounts(supplier_payments, settled)) = 0
    BY <2>1, <2>2, AmountsEmpty
  <2>5. payable_balance[s] = 0
    BY <1>1
  <2> QED BY <2>3, <2>4, <2>5 DEF Payable, bought, settled
<1> QED BY <1>1, <1>2 DEF PayablesBooked, ReversedWereApproved

\* For every station: a supplier is owed its approved, standing purchases less its
\* standing payments (purchases.py, payments.py), which is the closing balance of
\* supplier_ledger (api/ledger.py).
THEOREM PayablesAreBooked == Spec => []PayableMatchesLedger
BY PayablesBookedInit, TypeCorrect, ReversedStep, PayablesBookedStep, PayableForm, PTL DEF Spec

-----------------------------------------------------------------------------
\* What a customer owes is what the documents say.

Owing(c) == customer[c].outstanding_balance

BoughtOnCredit(c) ==
  [row \in FuelSaleRow |-> IF OnLedger(row, c) THEN row.total_amount ELSE 0]
Refunded(c) ==
  [row \in FuelSaleRow |->
     IF row.customer = c /\ row.sale_type = "cash" /\ row.rev.reversed
     THEN row.total_amount ELSE 0]
PaidFor(c) == [row \in CustomerPaymentRow |-> IF row.customer = c THEN StillPaid(row) ELSE 0]

Account(c) ==
  Total(Amounts(sales, BoughtOnCredit(c))) - Total(Amounts(customer_payments, PaidFor(c)))
    - Total(Amounts(sales, Refunded(c)))

AccountsBooked == \A c \in Customers : Owing(c) = Account(c)

\* Contributions are integers.
LEMMA AccountColumns ==
  ASSUME NEW c \in Customers
  PROVE  /\ BoughtOnCredit(c) \in [FuelSaleRow -> Int] /\ Refunded(c) \in [FuelSaleRow -> Int]
         /\ PaidFor(c) \in [CustomerPaymentRow -> Int]
<1>1. ASSUME NEW row \in FuelSaleRow PROVE row.total_amount \in Int
  BY DEF FuelSaleRow
<1>2. ASSUME NEW row \in CustomerPaymentRow PROVE StillPaid(row) \in Int
  BY DEF CustomerPaymentRow, StillPaid
<1> QED BY <1>1, <1>2 DEF BoughtOnCredit, Refunded, PaidFor

\* So are their totals, in any state of the tables.
LEMMA AccountTyped ==
  ASSUME NEW c \in Customers, NEW ss \in Seq(FuelSaleRow), NEW ps \in Seq(CustomerPaymentRow)
  PROVE  /\ Total(Amounts(ss, BoughtOnCredit(c))) \in Int
         /\ Total(Amounts(ss, Refunded(c))) \in Int
         /\ Total(Amounts(ps, PaidFor(c))) \in Int
<1> DEFINE bought == BoughtOnCredit(c)
           refunded == Refunded(c)
           paid == PaidFor(c)
<1>1. /\ bought \in [FuelSaleRow -> Int] /\ refunded \in [FuelSaleRow -> Int]
      /\ paid \in [CustomerPaymentRow -> Int]
  BY AccountColumns
<1> HIDE DEF bought, refunded, paid
<1>2. Total(Amounts(ss, bought)) \in Int
  BY <1>1, AmountsTyped
<1>3. Total(Amounts(ss, refunded)) \in Int
  BY <1>1, AmountsTyped
<1>4. Total(Amounts(ps, paid)) \in Int
  BY <1>1, AmountsTyped
<1> QED BY <1>2, <1>3, <1>4 DEF bought, refunded, paid

\* The columns in the words of StationBooks.
LEMMA AccountColumnsForm ==
  ASSUME TypeOK, NEW c \in Customers
  PROVE  /\ CreditSalesTo(c) = Amounts(sales, BoughtOnCredit(c))
         /\ CashRefundsTo(c) = Amounts(sales, Refunded(c))
         /\ PaidBy(c) = Amounts(customer_payments, PaidFor(c))
<1>1. ASSUME NEW i \in 1..Len(sales) PROVE sales[i] \in FuelSaleRow
  BY SaleFields
<1>2. ASSUME NEW i \in 1..Len(customer_payments)
      PROVE  PaidFor(c)[customer_payments[i]]
               = IF customer_payments[i].customer = c /\ ~customer_payments[i].rev.reversed
                 THEN customer_payments[i].amount ELSE 0
  BY PaymentFields DEF PaidFor, StillPaid
<1>3. CreditSalesTo(c) = Amounts(sales, BoughtOnCredit(c))
  BY <1>1 DEF CreditSalesTo, Amounts, BoughtOnCredit
<1>4. CashRefundsTo(c) = Amounts(sales, Refunded(c))
  BY <1>1 DEF CashRefundsTo, Amounts, Refunded
<1>5. PaidBy(c) = Amounts(customer_payments, PaidFor(c))
  BY <1>2 DEF PaidBy, Amounts
<1> QED BY <1>3, <1>4, <1>5

\* The invariant in the words of StationBooks.
LEMMA AccountForm == TypeOK => (BalanceExplained <=> AccountsBooked)
BY AccountColumnsForm DEF BalanceExplained, CustomerLedger, AccountsBooked, Account, Owing

\* A new sale charges the customer it names, on credit; a sale that is reversed takes
\* its amount off, on credit or not.
SaleCharged ==
  LET p == sales'[Len(sales) + 1]
  IN  /\ Len(sales') = Len(sales) + 1
      /\ \A k \in 1..Len(sales) : sales'[k] = sales[k]
      /\ ~p.rev.reversed
      /\ \A c \in Customers :
           Owing(c)' = Owing(c) + (IF p.customer = c /\ p.sale_type = "credit"
                                   THEN p.total_amount ELSE 0)

SaleTurned(i) ==
  LET p == sales[i]
      q == sales'[i]
  IN  /\ Len(sales') = Len(sales)
      /\ \A k \in 1..Len(sales) : k # i => sales'[k] = sales[k]
      /\ q.customer = p.customer /\ q.sale_type = p.sale_type
      /\ q.total_amount = p.total_amount
      /\ ~p.rev.reversed
      /\ \A c \in Customers :
           Owing(c)' = Owing(c) - (IF p.customer = c /\ q.rev.reversed
                                   THEN p.total_amount ELSE 0)

\* The operations on sales charge, turn or leave the customers alone.
LEMMA SaleSteps ==
  ASSUME TypeOK, FuelSalesNext
  PROVE  \/ SaleCharged
         \/ \E i \in 1..Len(sales) : SaleTurned(i)
         \/ UNCHANGED <<customer, sales>>
<1>0. ASSUME NEW c \in Customers PROVE customer[c] \in Customer /\ Owing(c) \in Int
  BY DEF TypeOK, Customer, Owing
<1>1. CASE SaleCreated
  <2>1. PICK u \in Users, n \in Nozzles, c \in Customers \cup {NoCustomer}, sale_type \in SaleTypes,
             closing \in MeterReadings, rate \in Rates, shift_id \in 0..Len(shifts) :
               CreateFuelSale(u, n, c, sale_type, closing, rate, shift_id)
    BY <1>1 DEF SaleCreated
  <2> DEFINE amount == (closing - nozzle[n].meter_reading) * rate
             last == Len(sales) + 1
  <2>2. /\ Len(sales') = last
        /\ \A k \in 1..Len(sales) : sales'[k] = sales[k]
        /\ sales'[last].customer = c /\ sales'[last].sale_type = sale_type
        /\ sales'[last].rev = Fresh /\ sales'[last].total_amount = amount
        /\ amount \in Nat
    BY <2>1, SaleCreatedFacts
  <2>3. customer' = IF sale_type = "credit" THEN [customer EXCEPT ![c] = Charged(@, amount)]
                                            ELSE customer
    BY <2>1 DEF CreateFuelSale
  <2> HIDE DEF amount
  <2>4. ASSUME NEW k \in Customer
        PROVE  Charged(k, amount).outstanding_balance = k.outstanding_balance + amount
    BY DEF Charged, Customer
  <2>5. ASSUME NEW d \in Customers
        PROVE  Owing(d)' = Owing(d) + (IF c = d /\ sale_type = "credit" THEN amount ELSE 0)
    <3>1. CASE c = d /\ sale_type = "credit"
      <4>1. customer'[d] = Charged(customer[d], amount)
        BY <2>3, <3>1 DEF TypeOK
      <4> QED BY <1>0, <2>4, <3>1, <4>1 DEF Owing
    <3>2. CASE ~(c = d /\ sale_type = "credit")
      <4>1. customer'[d] = customer[d]
        BY <2>3, <3>2 DEF TypeOK
      <4>2. Owing(d)' = Owing(d) /\ Owing(d) \in Int
        BY <1>0, <4>1 DEF Owing
      <4> QED BY <3>2, <4>2
    <3> QED BY <3>1, <3>2
  <2>6. ~sales'[last].rev.reversed
    BY <2>2 DEF Fresh
  <2> QED BY <2>2, <2>5, <2>6 DEF SaleCharged
<1>2. CASE SaleUndone
  <2>1. PICK i \in 1..Len(sales), rev \in Workflow :
               Undoing(sales[i].rev, rev) /\ UndoSale(i, rev)
    BY <1>2 DEF SaleUndone
  <2>2. /\ Len(sales') = Len(sales)
        /\ \A k \in 1..Len(sales) : k # i => sales'[k] = sales[k]
        /\ sales'[i].customer = sales[i].customer /\ sales'[i].sale_type = sales[i].sale_type
        /\ sales'[i].total_amount = sales[i].total_amount /\ sales'[i].rev = rev
    BY <2>1, SaleRewritten
  <2>3. ~sales[i].rev.reversed /\ rev.reversed
    BY <2>1 DEF Undoing
  <2>4. sales[i].total_amount \in Nat /\ sales[i].customer \in Customers \cup {NoCustomer}
    BY SaleFields
  <2>5. ASSUME NEW d \in Customers
        PROVE  Owing(d)' = Owing(d) - (IF sales[i].customer = d THEN sales[i].total_amount ELSE 0)
    <3>1. CASE sales[i].customer = d
      <4>1. d # NoCustomer
        BY RecordsAssumption
      <4>2. customer'[d].outstanding_balance
              = customer[d].outstanding_balance - sales[i].total_amount
        BY <1>0, <2>1, <3>1, <4>1 DEF UndoSale, TypeOK, Customer
      <4> QED BY <3>1, <4>2 DEF Owing
    <3>2. CASE sales[i].customer # d
      <4>1. customer'[d] = customer[d]
        BY <2>1, <3>2 DEF UndoSale, TypeOK
      <4>2. Owing(d)' = Owing(d) /\ Owing(d) \in Int
        BY <1>0, <4>1 DEF Owing
      <4> QED BY <3>2, <4>2
    <3> QED BY <3>1, <3>2
  <2>6. SaleTurned(i)
    BY <2>2, <2>3, <2>5 DEF SaleTurned
  <2> QED BY <2>6
<1>3. CASE SaleMarked
  <2>1. PICK i \in 1..Len(sales), rev \in Workflow :
               Marking(sales[i].rev, rev) /\ MarkSale(i, rev)
    BY <1>3 DEF SaleMarked
  <2>2. /\ Len(sales') = Len(sales)
        /\ \A k \in 1..Len(sales) : k # i => sales'[k] = sales[k]
        /\ sales'[i].customer = sales[i].customer /\ sales'[i].sale_type = sales[i].sale_type
        /\ sales'[i].total_amount = sales[i].total_amount /\ sales'[i].rev = rev
    BY <2>1, SaleRewritten
  <2>3. ~sales[i].rev.reversed /\ ~rev.reversed /\ UNCHANGED customer
    BY <2>1 DEF Marking, MarkSale
  <2>4. ASSUME NEW d \in Customers PROVE Owing(d)' = Owing(d) - 0
    BY <1>0, <2>3 DEF Owing
  <2>5. SaleTurned(i)
    BY <2>2, <2>3, <2>4 DEF SaleTurned
  <2> QED BY <2>5
<1>4. CASE MeterAdjusted
  BY <1>4 DEF MeterAdjusted, AdjustNozzleMeter
<1> QED BY <1>1, <1>2, <1>3, <1>4, FuelSalesCases

\* Totals of the sales: a new sale adds its amount, one that is turned changes it.
LEMMA SaleColumns ==
  ASSUME TypeOK, TypeOK', NEW value \in [FuelSaleRow -> Int]
  PROVE  /\ SaleCharged =>
              /\ sales'[Len(sales) + 1] \in FuelSaleRow
              /\ Total(Amounts(sales', value))
                   = Total(Amounts(sales, value)) + value[sales'[Len(sales) + 1]]
         /\ \A i \in 1..Len(sales) :
              SaleTurned(i) =>
                /\ sales[i] \in FuelSaleRow /\ sales'[i] \in FuelSaleRow
                /\ Total(Amounts(sales', value))
                     = Total(Amounts(sales, value)) - value[sales[i]] + value[sales'[i]]
<1>1. sales \in Seq(FuelSaleRow) /\ Len(sales) \in Nat /\ sales' \in Seq(FuelSaleRow)
  BY DEF TypeOK
<1>2. ASSUME SaleCharged
      PROVE  /\ sales'[Len(sales) + 1] \in FuelSaleRow
             /\ Total(Amounts(sales', value))
                  = Total(Amounts(sales, value)) + value[sales'[Len(sales) + 1]]
  <2>1. Len(sales') = Len(sales) + 1 /\ \A k \in 1..Len(sales) : sales'[k] = sales[k]
    BY <1>2 DEF SaleCharged
  <2>2. sales'[Len(sales) + 1] \in FuelSaleRow
    BY <1>1, <2>1
  <2>3. Total(Amounts(sales', value))
          = Total(Amounts(sales, value)) + value[sales'[Len(sales) + 1]]
    BY <1>1, <2>1, SaleColumnGrown
  <2> QED BY <2>2, <2>3
<1>3. ASSUME NEW i \in 1..Len(sales), SaleTurned(i)
      PROVE  /\ sales[i] \in FuelSaleRow /\ sales'[i] \in FuelSaleRow
             /\ Total(Amounts(sales', value))
                  = Total(Amounts(sales, value)) - value[sales[i]] + value[sales'[i]]
  <2>1. /\ Len(sales') = Len(sales)
        /\ \A k \in 1..Len(sales) : k # i => sales'[k] = sales[k]
    BY <1>3 DEF SaleTurned
  <2>2. sales[i] \in FuelSaleRow /\ sales'[i] \in FuelSaleRow
    BY <1>1, <2>1
  <2>3. Total(Amounts(sales', value))
          = Total(Amounts(sales, value)) - value[sales[i]] + value[sales'[i]]
    BY <1>1, <2>1, SaleColumnChanged
  <2> QED BY <2>2, <2>3
<1> QED BY <1>2, <1>3

\* A sale moves the two columns of a customer by what it moves the balance.
LEMMA AccountSales ==
  ASSUME TypeOK, TypeOK', FuelSalesNext, NEW c \in Customers
  PROVE  LET bought == Total(Amounts(sales', BoughtOnCredit(c)))
                         - Total(Amounts(sales, BoughtOnCredit(c)))
             refunded == Total(Amounts(sales', Refunded(c))) - Total(Amounts(sales, Refunded(c)))
         IN  Owing(c)' = Owing(c) + bought - refunded
<1> DEFINE bought == BoughtOnCredit(c)
           refunded == Refunded(c)
           b == Total(Amounts(sales, bought))
           b_now == Total(Amounts(sales', bought))
           r == Total(Amounts(sales, refunded))
           r_now == Total(Amounts(sales', refunded))
<1>0. /\ sales \in Seq(FuelSaleRow) /\ sales' \in Seq(FuelSaleRow)
      /\ customer_payments \in Seq(CustomerPaymentRow) /\ Owing(c) \in Int
  <2>1. customer[c] \in Customer
    BY DEF TypeOK
  <2> QED BY <2>1 DEF TypeOK, Owing, Customer
<1>1. bought \in [FuelSaleRow -> Int] /\ refunded \in [FuelSaleRow -> Int]
  BY AccountColumns
<1>2. b \in Int /\ b_now \in Int /\ r \in Int /\ r_now \in Int
  <2>1. b \in Int /\ r \in Int
    BY <1>0, AccountTyped
  <2>2. b_now \in Int /\ r_now \in Int
    BY <1>0, AccountTyped
  <2> QED BY <2>1, <2>2
<1>3. ASSUME NEW p \in FuelSaleRow
      PROVE  /\ bought[p] = IF p.customer = c /\ p.sale_type = "credit" /\ ~p.rev.reversed
                            THEN p.total_amount ELSE 0
             /\ refunded[p] = IF p.customer = c /\ p.sale_type = "cash" /\ p.rev.reversed
                              THEN p.total_amount ELSE 0
             /\ p.total_amount \in Int /\ (p.sale_type = "cash" <=> p.sale_type # "credit")
  BY DEF BoughtOnCredit, OnLedger, Refunded, FuelSaleRow, SaleTypes
<1> SUFFICES Owing(c)' = Owing(c) + (b_now - b) - (r_now - r)
  OBVIOUS
<1> HIDE DEF bought, refunded
<1>4. CASE SaleCharged
  <2> DEFINE p == sales'[Len(sales) + 1]
  <2>1. p \in FuelSaleRow /\ b_now = b + bought[p]
    BY <1>1, <1>4, SaleColumns
  <2>2. r_now = r + refunded[p]
    BY <1>1, <1>4, SaleColumns
  <2>3. /\ ~p.rev.reversed
        /\ Owing(c)' = Owing(c) + (IF p.customer = c /\ p.sale_type = "credit"
                                   THEN p.total_amount ELSE 0)
    BY <1>4 DEF SaleCharged
  <2> HIDE DEF p, b, b_now, r, r_now
  <2> DEFINE x == IF p.customer = c /\ p.sale_type = "credit" THEN p.total_amount ELSE 0
  <2>4. bought[p] = x /\ refunded[p] = 0 /\ x \in Int
    BY <1>3, <2>1, <2>3
  <2>5. Owing(c)' = Owing(c) + x
    BY <2>3
  <2> HIDE DEF x
  <2> QED BY <1>0, <1>2, <2>1, <2>2, <2>4, <2>5
<1>5. ASSUME NEW i \in 1..Len(sales), SaleTurned(i)
      PROVE  Owing(c)' = Owing(c) + (b_now - b) - (r_now - r)
  <2> DEFINE p == sales[i]
             q == sales'[i]
  <2>1. p \in FuelSaleRow /\ q \in FuelSaleRow /\ b_now = b - bought[p] + bought[q]
    BY <1>1, <1>5, SaleColumns
  <2>2. r_now = r - refunded[p] + refunded[q]
    BY <1>1, <1>5, SaleColumns
  <2>3. /\ ~p.rev.reversed /\ q.customer = p.customer /\ q.sale_type = p.sale_type
        /\ q.total_amount = p.total_amount
        /\ Owing(c)' = Owing(c) - (IF p.customer = c /\ q.rev.reversed
                                   THEN p.total_amount ELSE 0)
    BY <1>5 DEF SaleTurned
  <2> HIDE DEF p, q, b, b_now, r, r_now
  <2> DEFINE x == IF p.customer = c /\ q.rev.reversed THEN p.total_amount ELSE 0
             w == bought[p]
             y == bought[q]
             z == refunded[q]
  <2>4. refunded[p] = 0 /\ w \in Int /\ y \in Int /\ z \in Int /\ x \in Int
    BY <1>1, <1>3, <2>1, <2>3
  <2>5. CASE p.customer = c /\ q.rev.reversed /\ p.sale_type = "credit"
    <3>1. w = x /\ y = 0 /\ z = 0
      BY <1>3, <2>1, <2>3, <2>5
    <3>2. Owing(c)' = Owing(c) - x
      BY <2>3
    <3> HIDE DEF w, x, y, z
    <3> QED BY <1>0, <1>2, <2>1, <2>2, <2>4, <3>1, <3>2 DEF w, y, z
  <2>6. CASE p.customer = c /\ q.rev.reversed /\ p.sale_type # "credit"
    <3>1. w = 0 /\ y = 0 /\ z = x
      BY <1>3, <2>1, <2>3, <2>6
    <3>2. Owing(c)' = Owing(c) - x
      BY <2>3
    <3> HIDE DEF w, x, y, z
    <3> QED BY <1>0, <1>2, <2>1, <2>2, <2>4, <3>1, <3>2 DEF w, y, z
  <2>7. CASE ~(p.customer = c /\ q.rev.reversed)
    <3>1. w = y /\ z = 0 /\ x = 0
      BY <1>3, <2>1, <2>3, <2>7
    <3>2. Owing(c)' = Owing(c) - x
      BY <2>3
    <3> HIDE DEF w, x, y, z
    <3> QED BY <1>0, <1>2, <2>1, <2>2, <2>4, <3>1, <3>2 DEF w, y, z
  <2> QED BY <2>5, <2>6, <2>7
<1>6. CASE UNCHANGED <<customer, sales>>
  <2>1. b_now = b /\ r_now = r /\ Owing(c)' = Owing(c)
    BY <1>6 DEF Owing
  <2> HIDE DEF b, b_now, r, r_now
  <2> QED BY <1>0, <1>2, <2>1
<1> QED BY <1>4, <1>5, <1>6, SaleSteps

\* A payment, and one that is reversed or only marked.
CustomerPaymentAdded ==
  LET p == customer_payments'[Len(customer_payments) + 1]
  IN  /\ Len(customer_payments') = Len(customer_payments) + 1
      /\ \A k \in 1..Len(customer_payments) : customer_payments'[k] = customer_payments[k]
      /\ \A c \in Customers :
           Owing(c)' = Owing(c) - (IF p.customer = c THEN StillPaid(p) ELSE 0)

CustomerPaymentTurned(i) ==
  LET p == customer_payments[i]
      q == customer_payments'[i]
  IN  /\ Len(customer_payments') = Len(customer_payments)
      /\ \A k \in 1..Len(customer_payments) : k # i => customer_payments'[k] = customer_payments[k]
      /\ q.customer = p.customer
      /\ \A c \in Customers :
           Owing(c)' = Owing(c) + (IF p.customer = c THEN StillPaid(p) - StillPaid(q) ELSE 0)

\* The operations on payments add one, turn one or leave the customers alone.
LEMMA CustomerPaymentSteps ==
  ASSUME TypeOK, PaymentsNext
  PROVE  \/ CustomerPaymentAdded
         \/ \E i \in 1..Len(customer_payments) : CustomerPaymentTurned(i)
         \/ UNCHANGED <<customer, customer_payments>>
<1>0. /\ customer_payments \in Seq(CustomerPaymentRow) /\ Len(customer_payments) \in Nat
      /\ \A c \in Customers : Owing(c) \in Int
  <2>1. ASSUME NEW c \in Customers PROVE customer[c] \in Customer
    BY DEF TypeOK
  <2> QED BY <2>1 DEF TypeOK, Customer, Owing
<1>a. ASSUME NEW d \in Customers, NEW x \in Int, NEW c \in Customers,
             customer' = [customer EXCEPT ![d].outstanding_balance = @ + x]
      PROVE  Owing(c)' = Owing(c) + (IF d = c THEN x ELSE 0)
  <2>1. customer[c] \in Customer /\ Owing(c) \in Int
    BY <1>0 DEF TypeOK
  <2>2. CASE d = c
    <3>1. customer'[c].outstanding_balance = customer[c].outstanding_balance + x
      BY <1>a, <2>1, <2>2 DEF TypeOK, Customer
    <3> QED BY <2>2, <3>1 DEF Owing
  <2>3. CASE d # c
    <3>1. customer'[c] = customer[c]
      BY <1>a, <2>3 DEF TypeOK
    <3>2. Owing(c)' = Owing(c)
      BY <3>1 DEF Owing
    <3> QED BY <2>1, <2>3, <3>2
  <2> QED BY <2>2, <2>3
<1>1. CASE CustomerPaid
  <2>1. PICK u \in Users, d \in Customers, amount \in PaymentAmounts :
               CreateCustomerPayment(u, d, amount)
    BY <1>1 DEF CustomerPaid
  <2> DEFINE row == [customer |-> d, amount |-> amount, rev |-> Fresh]
             last == Len(customer_payments) + 1
             x == -amount
  <2>2. /\ customer_payments' = Append(customer_payments, row)
        /\ customer' = [customer EXCEPT ![d].outstanding_balance = @ - amount]
    BY <2>1 DEF CreateCustomerPayment
  <2>3. amount \in Nat /\ customer[d].outstanding_balance \in Int
    BY <1>0, PaymentsAssumption DEF Owing
  <2>4. row.customer = d /\ StillPaid(row) = amount
    BY DEF StillPaid, Fresh
  <2> HIDE DEF row
  <2>5. /\ Len(customer_payments') = last /\ customer_payments'[last] = row
        /\ \A k \in 1..Len(customer_payments) : customer_payments'[k] = customer_payments[k]
    BY <1>0, <2>2
  <2>6. x \in Int /\ customer[d].outstanding_balance - amount = customer[d].outstanding_balance + x
    BY <2>3
  <2>7. customer' = [customer EXCEPT ![d].outstanding_balance = @ + x]
    BY <2>2, <2>6
  <2>8. ASSUME NEW c \in Customers
        PROVE  Owing(c)' = Owing(c) - (IF d = c THEN amount ELSE 0)
    <3>1. Owing(c)' = Owing(c) + (IF d = c THEN x ELSE 0) /\ Owing(c) \in Int
      <4> HIDE DEF x
      <4> QED BY <1>0, <1>a, <2>6, <2>7
    <3> QED BY <2>3, <3>1
  <2> QED BY <2>4, <2>5, <2>8 DEF CustomerPaymentAdded
<1>2. ASSUME NEW i \in 1..Len(customer_payments), NEW rev \in Workflow,
             ~customer_payments[i].rev.reversed,
             \/ rev.reversed /\ UndoCustomerPayment(i, rev)
             \/ ~rev.reversed /\ MarkCustomerPayment(i, rev)
      PROVE  CustomerPaymentTurned(i)
  <2> DEFINE row == [customer_payments[i] EXCEPT !.rev = rev]
             d == customer_payments[i].customer
             amount == customer_payments[i].amount
  <2>1. customer_payments[i] \in CustomerPaymentRow /\ d \in Customers /\ amount \in Nat
    BY PaymentFields
  <2>2. row.customer = d /\ row.amount = amount /\ row.rev = rev
    BY <2>1 DEF CustomerPaymentRow
  <2>3. customer_payments' = [customer_payments EXCEPT ![i] = row]
    BY <1>2 DEF UndoCustomerPayment, MarkCustomerPayment
  <2>4. /\ StillPaid(customer_payments[i]) = amount
        /\ StillPaid(row) = IF rev.reversed THEN 0 ELSE amount
    BY <1>2, <2>2 DEF StillPaid
  <2> HIDE DEF row, d, amount
  <2>5. /\ Len(customer_payments') = Len(customer_payments) /\ customer_payments'[i] = row
        /\ \A k \in 1..Len(customer_payments) :
             k # i => customer_payments'[k] = customer_payments[k]
    BY <1>0, <2>3
  <2> DEFINE x == StillPaid(customer_payments[i]) - StillPaid(customer_payments'[i])
  <2>6. ASSUME NEW c \in Customers PROVE Owing(c)' = Owing(c) + (IF d = c THEN x ELSE 0)
    <3>1. CASE rev.reversed /\ UndoCustomerPayment(i, rev)
      <4>1. x = amount /\ amount \in Int
        BY <2>1, <2>4, <2>5, <3>1
      <4>2. customer' = [customer EXCEPT ![d].outstanding_balance = @ + amount]
        BY <3>1 DEF UndoCustomerPayment, d, amount
      <4> HIDE DEF x
      <4> QED BY <1>a, <2>1, <4>1, <4>2
    <3>2. CASE ~rev.reversed /\ MarkCustomerPayment(i, rev)
      <4>1. x = 0
        BY <2>1, <2>4, <2>5, <3>2
      <4>2. Owing(c)' = Owing(c)
        BY <3>2 DEF MarkCustomerPayment, Owing
      <4> HIDE DEF x
      <4> QED BY <1>0, <4>1, <4>2
    <3> QED BY <1>2, <3>1, <3>2
  <2> QED BY <2>2, <2>5, <2>6 DEF CustomerPaymentTurned, d
<1>3. CASE CustomerPaymentUndone \/ CustomerPaymentMarked
  BY <1>2, <1>3 DEF CustomerPaymentUndone, CustomerPaymentMarked, Undoing, Marking
<1>4. CASE SupplierPaid \/ SupplierPaymentUndone \/ SupplierPaymentMarked
  BY <1>4 DEF SupplierPaid, SupplierPaymentUndone, SupplierPaymentMarked,
              CreateSupplierPayment, UndoSupplierPayment, MarkSupplierPayment
<1> QED BY <1>1, <1>3, <1>4, PaymentsCases

\* One more customer payment.
LEMMA CustomerPaymentColumnGrown ==
  ASSUME NEW value \in [CustomerPaymentRow -> Int], customer_payments \in Seq(CustomerPaymentRow),
         customer_payments' \in Seq(CustomerPaymentRow), Len(customer_payments') = Len(customer_payments) + 1,
         \A k \in 1..Len(customer_payments) : customer_payments'[k] = customer_payments[k]
  PROVE  Total(Amounts(customer_payments', value))
           = Total(Amounts(customer_payments, value))
               + value[customer_payments'[Len(customer_payments) + 1]]
BY AmountsAppend

\* A payment that is rewritten changes the totals of its columns.
LEMMA CustomerPaymentColumnChanged ==
  ASSUME NEW value \in [CustomerPaymentRow -> Int], customer_payments \in Seq(CustomerPaymentRow),
         customer_payments' \in Seq(CustomerPaymentRow), NEW i \in 1..Len(customer_payments),
         Len(customer_payments') = Len(customer_payments),
         \A k \in 1..Len(customer_payments) :
           k # i => customer_payments'[k] = customer_payments[k]
  PROVE  Total(Amounts(customer_payments', value))
           = Total(Amounts(customer_payments, value))
               - value[customer_payments[i]] + value[customer_payments'[i]]
BY AmountsChange

\* A payment moves the paid column of a customer by what it moves the balance.
LEMMA AccountPayments ==
  ASSUME TypeOK, TypeOK', PaymentsNext, NEW c \in Customers
  PROVE  LET paid == Total(Amounts(customer_payments', PaidFor(c)))
                       - Total(Amounts(customer_payments, PaidFor(c)))
         IN  Owing(c)' = Owing(c) - paid
<1> DEFINE paid == PaidFor(c)
           before == Total(Amounts(customer_payments, paid))
           after == Total(Amounts(customer_payments', paid))
<1>0. /\ customer_payments \in Seq(CustomerPaymentRow) /\ Len(customer_payments) \in Nat
      /\ customer_payments' \in Seq(CustomerPaymentRow)
      /\ sales \in Seq(FuelSaleRow) /\ Owing(c) \in Int
  <2>1. customer[c] \in Customer
    BY DEF TypeOK
  <2> QED BY <2>1 DEF TypeOK, Owing, Customer
<1>1. paid \in [CustomerPaymentRow -> Int]
  BY AccountColumns
<1>2. before \in Int /\ after \in Int
  BY <1>0, AccountTyped
<1>3. ASSUME NEW p \in CustomerPaymentRow
      PROVE  paid[p] = (IF p.customer = c THEN StillPaid(p) ELSE 0) /\ StillPaid(p) \in Int
  BY DEF PaidFor, StillPaid, CustomerPaymentRow
<1> SUFFICES Owing(c)' = Owing(c) - (after - before)
  OBVIOUS
<1> HIDE DEF paid
<1>4. CASE CustomerPaymentAdded
  <2> DEFINE p == customer_payments'[Len(customer_payments) + 1]
             x == IF p.customer = c THEN StillPaid(p) ELSE 0
  <2>1. /\ Len(customer_payments') = Len(customer_payments) + 1
        /\ \A k \in 1..Len(customer_payments) : customer_payments'[k] = customer_payments[k]
        /\ Owing(c)' = Owing(c) - x
    BY <1>4 DEF CustomerPaymentAdded
  <2>2. p \in CustomerPaymentRow
    BY <1>0, <2>1
  <2>3. after = before + paid[p]
    BY <1>0, <1>1, <2>1, CustomerPaymentColumnGrown
  <2> HIDE DEF p, before, after
  <2>4. paid[p] = x /\ x \in Int
    BY <1>3, <2>2
  <2> HIDE DEF x
  <2> QED BY <1>0, <1>2, <2>1, <2>3, <2>4
<1>5. ASSUME NEW i \in 1..Len(customer_payments), CustomerPaymentTurned(i)
      PROVE  Owing(c)' = Owing(c) - (after - before)
  <2> DEFINE p == customer_payments[i]
             q == customer_payments'[i]
             x == IF p.customer = c THEN StillPaid(p) - StillPaid(q) ELSE 0
  <2>1. /\ Len(customer_payments') = Len(customer_payments)
        /\ \A k \in 1..Len(customer_payments) :
             k # i => customer_payments'[k] = customer_payments[k]
        /\ q.customer = p.customer
        /\ Owing(c)' = Owing(c) + x
    BY <1>5 DEF CustomerPaymentTurned
  <2>2. p \in CustomerPaymentRow /\ q \in CustomerPaymentRow
    BY <1>0, <2>1
  <2>3. after = before - paid[p] + paid[q]
    BY <1>0, <1>1, <2>1, CustomerPaymentColumnChanged
  <2> HIDE DEF p, q, before, after
  <2>4. paid[p] \in Int /\ paid[q] \in Int /\ x \in Int /\ paid[p] - paid[q] = x
    BY <1>3, <2>1, <2>2
  <2> HIDE DEF x
  <2>5. after - before = 0 - x
    BY <1>2, <2>3, <2>4
  <2> QED BY <1>0, <1>2, <2>1, <2>4, <2>5
<1>6. CASE UNCHANGED <<customer, customer_payments>>
  <2>1. after = before /\ Owing(c)' = Owing(c)
    BY <1>6 DEF Owing
  <2> HIDE DEF before, after
  <2> QED BY <1>0, <1>2, <2>1
<1> QED BY <1>4, <1>5, <1>6, CustomerPaymentSteps

\* Credit limits and overrides leave what is owed alone.
LEMMA OverridesKeepOwing ==
  ASSUME TypeOK, CreditOverridesNext, NEW d \in Customers
  PROVE  Owing(d)' = Owing(d)
<1>1. customer[d] \in Customer
  BY DEF TypeOK
<1>2. PICK u \in Users, c \in Customers :
        \/ \E limit \in Limits : UpdateCustomer(u, c, limit)
        \/ \E amount \in OverrideAmounts : RequestCreditOverride(u, c, amount)
        \/ ApproveCreditOverride(u, c)
        \/ RejectCreditOverride(u, c)
  BY DEF CreditOverridesNext
<1>3. ASSUME NEW limit \in Limits, UpdateCustomer(u, c, limit) PROVE Owing(d)' = Owing(d)
  BY <1>1, <1>3 DEF UpdateCustomer, TypeOK, Customer, Owing
<1>4. ASSUME NEW amount \in OverrideAmounts, RequestCreditOverride(u, c, amount)
      PROVE  Owing(d)' = Owing(d)
  BY <1>1, <1>4 DEF RequestCreditOverride, TypeOK, Customer, Owing
<1>5. CASE ApproveCreditOverride(u, c)
  BY <1>1, <1>5 DEF ApproveCreditOverride, TypeOK, Customer, Owing
<1>6. CASE RejectCreditOverride(u, c)
  BY <1>1, <1>6 DEF RejectCreditOverride, TypeOK, Customer, Owing
<1> QED BY <1>2, <1>3, <1>4, <1>5, <1>6

\* No step changes what is owed without its document: balance and account move alike,
\* whatever they differed by before.
LEMMA OwingFollowsAccount ==
  ASSUME TypeOK, TypeOK', [Next]_vars, NEW c \in Customers
  PROVE  /\ Account(c) \in Int /\ Account(c)' \in Int
         /\ Owing(c)' - Owing(c) = Account(c)' - Account(c)
<1> DEFINE b == Total(Amounts(sales, BoughtOnCredit(c)))
           b_now == Total(Amounts(sales', BoughtOnCredit(c)))
           r == Total(Amounts(sales, Refunded(c)))
           r_now == Total(Amounts(sales', Refunded(c)))
           p == Total(Amounts(customer_payments, PaidFor(c)))
           p_now == Total(Amounts(customer_payments', PaidFor(c)))
<1>0. /\ customer_payments \in Seq(CustomerPaymentRow)
      /\ customer_payments' \in Seq(CustomerPaymentRow)
      /\ sales \in Seq(FuelSaleRow) /\ sales' \in Seq(FuelSaleRow)
  BY DEF TypeOK
<1>1. /\ b \in Int /\ b_now \in Int /\ r \in Int /\ r_now \in Int /\ p \in Int /\ p_now \in Int
  <2>1. b \in Int /\ r \in Int /\ p \in Int
    BY <1>0, AccountTyped
  <2>2. b_now \in Int /\ r_now \in Int /\ p_now \in Int
    BY <1>0, AccountTyped
  <2> QED BY <2>1, <2>2
<1>2. /\ Account(c) = b - p - r /\ Account(c)' = b_now - p_now - r_now
      /\ Owing(c) \in Int /\ Owing(c)' \in Int
  BY DEF Account, Owing, TypeOK, Customer
<1>3. CASE FuelSalesNext /\ UNCHANGED <<purchaseVars, paymentVars>>
  <2>1. Owing(c)' = Owing(c) + (b_now - b) - (r_now - r)
    BY <1>3, AccountSales
  <2>2. p_now = p
    BY <1>3 DEF paymentVars
  <2> HIDE DEF b, b_now, r, r_now, p, p_now
  <2> QED BY <1>1, <1>2, <2>1, <2>2
<1>4. CASE PaymentsNext
  <2>1. Owing(c)' = Owing(c) - (p_now - p)
    BY <1>4, AccountPayments
  <2>2. UNCHANGED sales
    BY <1>4, PaymentsCases
    DEF CustomerPaid, CustomerPaymentUndone, CustomerPaymentMarked, SupplierPaid,
        SupplierPaymentUndone, SupplierPaymentMarked, CreateCustomerPayment,
        CreateSupplierPayment, UndoCustomerPayment, UndoSupplierPayment,
        MarkCustomerPayment, MarkSupplierPayment, forecourt
  <2>3. b_now = b /\ r_now = r
    BY <2>2
  <2> HIDE DEF b, b_now, r, r_now, p, p_now
  <2> QED BY <1>1, <1>2, <2>1, <2>3
<1>5. CASE Owing(c)' = Owing(c) /\ UNCHANGED <<sales, customer_payments>>
  <2>1. b_now = b /\ r_now = r /\ p_now = p
    BY <1>5
  <2> HIDE DEF b, b_now, r, r_now, p, p_now
  <2> QED BY <1>1, <1>2, <1>5, <2>1
<1>6. CASE ShiftsNext /\ UNCHANGED <<adjustments, purchaseVars, paymentVars>>
  <2>1. UNCHANGED <<customer, sales>>
    BY <1>6 DEF ShiftsNext, CreateShift, CloseShift
  <2> QED BY <1>5, <1>6, <2>1 DEF paymentVars, Owing
<1>7. CASE PurchasesNext /\ UNCHANGED <<salesVars, paymentVars>>
  <2>1. UNCHANGED otherBooks
    BY <1>7, PurchasesCases
    DEF PurchaseCreated, PurchaseApprovedStep, PurchaseRejectedStep, PurchaseUndone,
        PurchaseMarked, TankDipped, CreatePurchase, ApprovePurchase, RejectPurchase,
        UndoPurchase, MarkPurchase, CreateTankDip, otherBooks
  <2> QED BY <1>5, <1>7, <2>1 DEF paymentVars, otherBooks, Owing
<1>8. CASE CreditOverridesNext /\ UNCHANGED <<salesVars, purchaseVars, paymentVars>>
  <2>1. UNCHANGED sales
    BY <1>8 DEF CreditOverridesNext, UpdateCustomer, RequestCreditOverride,
                ApproveCreditOverride, RejectCreditOverride, notCustomers
  <2> QED BY <1>5, <1>8, <2>1, OverridesKeepOwing DEF paymentVars
<1>9. CASE UNCHANGED vars
  BY <1>5, <1>9 DEF vars, paymentVars, Owing
<1> QED BY <1>3, <1>4, <1>6, <1>7, <1>8, <1>9 DEF Next

\* So accounts that are booked stay so.
LEMMA AccountsBookedStep ==
  TypeOK /\ TypeOK' /\ AccountsBooked /\ [Next]_vars => AccountsBooked'
<1> SUFFICES ASSUME TypeOK, TypeOK', AccountsBooked, [Next]_vars, NEW c \in Customers
             PROVE  Owing(c)' = Account(c)'
  BY DEF AccountsBooked
<1> DEFINE owing == Owing(c)
           owing_now == Owing(c)'
           account == Account(c)
           account_now == Account(c)'
<1>1. account \in Int /\ account_now \in Int /\ owing_now - owing = account_now - account
  BY OwingFollowsAccount
<1>2. owing = account
  BY DEF AccountsBooked
<1>3. owing_now \in Int
  BY DEF Owing, TypeOK, Customer
<1> HIDE DEF owing, owing_now, account, account_now
<1>4. owing_now = account_now
  BY <1>1, <1>2, <1>3
<1> QED BY <1>4 DEF owing_now, account_now

\* An empty table is booked.
LEMMA AccountsBookedInit == Init => AccountsBooked
<1> SUFFICES ASSUME Init PROVE AccountsBooked
  OBVIOUS
<1>1. /\ sales = << >> /\ customer_payments = << >>
      /\ \A c \in Customers : Owing(c) = 0
  BY DEF Init, StateInit, PaymentsInit, Owing
<1>2. ASSUME NEW c \in Customers PROVE Owing(c) = Account(c)
  <2> DEFINE bought == BoughtOnCredit(c)
             refunded == Refunded(c)
             paid == PaidFor(c)
  <2>1. /\ bought \in [FuelSaleRow -> Int] /\ refunded \in [FuelSaleRow -> Int]
        /\ paid \in [CustomerPaymentRow -> Int]
    BY AccountColumns
  <2> HIDE DEF bought, refunded, paid
  <2>2. /\ sales \in Seq(FuelSaleRow) /\ Len(sales) = 0
        /\ customer_payments \in Seq(CustomerPaymentRow) /\ Len(customer_payments) = 0
    BY <1>1
  <2>3. Total(Amounts(sales, bought)) = 0
    BY <2>1, <2>2, AmountsEmpty
  <2>4. Total(Amounts(sales, refunded)) = 0
    BY <2>1, <2>2, AmountsEmpty
  <2>5. Total(Amounts(customer_payments, paid)) = 0
    BY <2>1, <2>2, AmountsEmpty
  <2> QED BY <1>1, <2>3, <2>4, <2>5 DEF Account, bought, refunded, paid
<1> QED BY <1>2 DEF AccountsBooked

\* For every station: a customer owes the standing credit sales less the standing
\* payments, less the cash sales reversed in its name, which reverse_fuel_sale takes
\* off a balance they were never on (fuel_sales.py:152-198, api/ledger.py).
THEOREM BalancesAreBooked == Spec => []BalanceExplained
BY AccountsBookedInit, TypeCorrect, StepTyped, AccountsBookedStep, AccountForm, PTL DEF Spec

-----------------------------------------------------------------------------
\* A meter reads what its sales and corrections say.

Reading(n) == nozzle[n].meter_reading

SoldThrough(n) ==
  [row \in FuelSaleRow |-> IF row.nozzle = n /\ ~row.rev.reversed THEN Quantity(row) ELSE 0]
CorrectedBy(n) ==
  [row \in AdjustmentRow |-> IF row.nozzle = n THEN row.new_reading - row.old_reading ELSE 0]

Metered(n) ==
  OpeningMeter[n] + Total(Amounts(sales, SoldThrough(n)))
                  + Total(Amounts(adjustments, CorrectedBy(n)))

MetersBooked == \A n \in Nozzles : Reading(n) = Metered(n)

\* Contributions are integers, and so are their totals, in any state of the tables.
LEMMA MeterColumns ==
  ASSUME NEW n \in Nozzles
  PROVE  /\ SoldThrough(n) \in [FuelSaleRow -> Int]
         /\ CorrectedBy(n) \in [AdjustmentRow -> Int]
         /\ OpeningMeter[n] \in Int
         /\ \A ss \in Seq(FuelSaleRow) : Total(Amounts(ss, SoldThrough(n))) \in Int
         /\ \A as \in Seq(AdjustmentRow) : Total(Amounts(as, CorrectedBy(n))) \in Int
<1>1. ASSUME NEW row \in FuelSaleRow PROVE Quantity(row) \in Int
  BY DEF FuelSaleRow, Quantity
<1>2. ASSUME NEW row \in AdjustmentRow PROVE row.new_reading - row.old_reading \in Int
  BY DEF AdjustmentRow
<1> DEFINE sold == SoldThrough(n)
           corrected == CorrectedBy(n)
<1>3. sold \in [FuelSaleRow -> Int] /\ corrected \in [AdjustmentRow -> Int]
  BY <1>1, <1>2 DEF SoldThrough, CorrectedBy
<1> HIDE DEF sold, corrected
<1>4. ASSUME NEW ss \in Seq(FuelSaleRow) PROVE Total(Amounts(ss, sold)) \in Int
  BY <1>3, AmountsTyped
<1>5. ASSUME NEW as \in Seq(AdjustmentRow) PROVE Total(Amounts(as, corrected)) \in Int
  BY <1>3, AmountsTyped
<1>6. OpeningMeter[n] \in Int
  BY RecordsAssumption
<1> QED BY <1>3, <1>4, <1>5, <1>6 DEF sold, corrected

\* The invariant in the words of StationBooks.
LEMMA MeterForm == TypeOK => (MeterExplained <=> MetersBooked)
<1> SUFFICES ASSUME TypeOK PROVE MeterExplained <=> MetersBooked
  OBVIOUS
<1>1. ASSUME NEW n \in Nozzles PROVE MeteredBy(n) = Amounts(sales, SoldThrough(n))
  <2>1. ASSUME NEW i \in 1..Len(sales) PROVE sales[i] \in FuelSaleRow
    BY SaleFields
  <2> QED BY <2>1 DEF MeteredBy, Amounts, SoldThrough
<1>2. ASSUME NEW n \in Nozzles PROVE Corrections(n) = Amounts(adjustments, CorrectedBy(n))
  <2>1. ASSUME NEW i \in 1..Len(adjustments) PROVE adjustments[i] \in AdjustmentRow
    BY DEF TypeOK
  <2> QED BY <2>1 DEF Corrections, Amounts, CorrectedBy
<1> QED BY <1>1, <1>2 DEF MeterExplained, MetersBooked, Metered, Reading

\* What a step adds to a reading is what it adds to the tables.
LEMMA MeterShift ==
  ASSUME TypeOK, TypeOK', NEW n \in Nozzles, MetersBooked,
         LET sold == Total(Amounts(sales', SoldThrough(n)))
                       - Total(Amounts(sales, SoldThrough(n)))
             corrected == Total(Amounts(adjustments', CorrectedBy(n)))
                            - Total(Amounts(adjustments, CorrectedBy(n)))
         IN  Reading(n)' = Reading(n) + sold + corrected
  PROVE  Reading(n)' = Metered(n)'
<1> DEFINE opening == OpeningMeter[n]
           s == Total(Amounts(sales, SoldThrough(n)))
           s_now == Total(Amounts(sales', SoldThrough(n)))
           a == Total(Amounts(adjustments, CorrectedBy(n)))
           a_now == Total(Amounts(adjustments', CorrectedBy(n)))
<1>1. /\ sales \in Seq(FuelSaleRow) /\ sales' \in Seq(FuelSaleRow)
      /\ adjustments \in Seq(AdjustmentRow) /\ adjustments' \in Seq(AdjustmentRow)
  BY DEF TypeOK
<1>2. opening \in Int /\ s \in Int /\ s_now \in Int /\ a \in Int /\ a_now \in Int
  BY <1>1, MeterColumns
<1>3. Reading(n) = opening + s + a /\ Metered(n)' = opening + s_now + a_now
  BY DEF MetersBooked, Metered
<1>4. Reading(n)' = Reading(n) + (s_now - s) + (a_now - a)
  OBVIOUS
<1> HIDE DEF opening, s, s_now, a, a_now
<1> QED BY <1>2, <1>3, <1>4

\* One more adjustment.
LEMMA AdjustmentColumnGrown ==
  ASSUME NEW value \in [AdjustmentRow -> Int], adjustments \in Seq(AdjustmentRow),
         adjustments' \in Seq(AdjustmentRow), Len(adjustments') = Len(adjustments) + 1,
         \A k \in 1..Len(adjustments) : adjustments'[k] = adjustments[k]
  PROVE  Total(Amounts(adjustments', value))
           = Total(Amounts(adjustments, value))
               + value[adjustments'[Len(adjustments) + 1]]
BY AmountsAppend

\* A sale moves its nozzle from its opening to its closing reading, its reversal back,
\* an adjustment to the new reading.
LEMMA MetersBookedSales ==
  ASSUME TypeOK, TypeOK', MetersBooked, FuelSalesNext
  PROVE  MetersBooked'
<1> SUFFICES ASSUME NEW n \in Nozzles PROVE Reading(n)' = Metered(n)'
  BY DEF MetersBooked
<1> DEFINE sold == SoldThrough(n)
           corrected == CorrectedBy(n)
           s == Total(Amounts(sales, sold))
           s_now == Total(Amounts(sales', sold))
           a == Total(Amounts(adjustments, corrected))
           a_now == Total(Amounts(adjustments', corrected))
<1>0. /\ sales \in Seq(FuelSaleRow) /\ sales' \in Seq(FuelSaleRow) /\ Len(sales) \in Nat
      /\ adjustments \in Seq(AdjustmentRow) /\ adjustments' \in Seq(AdjustmentRow)
      /\ Len(adjustments) \in Nat
  BY DEF TypeOK
<1>1. sold \in [FuelSaleRow -> Int] /\ corrected \in [AdjustmentRow -> Int]
  BY MeterColumns
<1>2. s \in Int /\ s_now \in Int /\ a \in Int /\ a_now \in Int
  BY <1>0, MeterColumns
<1>3. ASSUME NEW m \in Nozzles PROVE nozzle[m] \in Nozzle /\ Reading(m) \in Int
  BY DEF TypeOK, Nozzle, Reading
<1>4. ASSUME NEW p \in FuelSaleRow
      PROVE  /\ sold[p] = IF p.nozzle = n /\ ~p.rev.reversed THEN Quantity(p) ELSE 0
             /\ Quantity(p) \in Int
  BY DEF SoldThrough, FuelSaleRow, Quantity
<1>m. ASSUME NEW m \in Nozzles, NEW x, nozzle' = [nozzle EXCEPT ![m].meter_reading = x]
      PROVE  Reading(n)' = IF m = n THEN x ELSE Reading(n)
  <2>1. nozzle[n] \in Nozzle
    BY <1>3
  <2> QED BY <1>m, <2>1 DEF TypeOK, Nozzle, Reading
<1> SUFFICES Reading(n)' = Reading(n) + (s_now - s) + (a_now - a)
  BY MeterShift
<1> HIDE DEF sold, corrected
<1>5. CASE SaleCreated
  <2>1. PICK u \in Users, m \in Nozzles, c \in Customers \cup {NoCustomer}, sale_type \in SaleTypes,
             closing \in MeterReadings, rate \in Rates, shift_id \in 0..Len(shifts) :
               CreateFuelSale(u, m, c, sale_type, closing, rate, shift_id)
    BY <1>5 DEF SaleCreated
  <2> DEFINE opening == nozzle[m].meter_reading
             last == Len(sales) + 1
             p == sales'[last]
  <2>2. /\ Len(sales') = last /\ \A k \in 1..Len(sales) : sales'[k] = sales[k]
        /\ p.nozzle = m /\ p.rev = Fresh
        /\ p.opening_meter = opening /\ p.closing_meter = closing
        /\ opening \in Nat /\ closing \in Nat
    BY <2>1, SaleCreatedFacts
  <2>3. p \in FuelSaleRow
    BY <1>0, <2>2
  <2>4. /\ nozzle' = [nozzle EXCEPT ![m].meter_reading = closing]
        /\ UNCHANGED adjustments
    BY <2>1 DEF CreateFuelSale
  <2>5. Reading(n)' = IF m = n THEN closing ELSE Reading(n)
    BY <1>m, <2>4
  <2>6. s_now = s + sold[p]
    BY <1>0, <1>1, <2>2, SaleColumnGrown
  <2>7. Quantity(p) = closing - opening /\ ~p.rev.reversed
    BY <2>2 DEF Quantity, Fresh
  <2>8. sold[p] = IF m = n THEN closing - opening ELSE 0
    BY <1>4, <2>2, <2>3, <2>7
  <2>9. a_now = a /\ opening = Reading(m)
    BY <2>4 DEF Reading
  <2> HIDE DEF p, opening, s, s_now, a, a_now
  <2>10. CASE m = n
    <3>1. Reading(n)' = closing /\ s_now = s + (closing - opening) /\ opening = Reading(n)
      BY <2>5, <2>6, <2>8, <2>9, <2>10
    <3> QED BY <1>2, <2>2, <2>9, <3>1
  <2>11. CASE m # n
    <3>1. Reading(n)' = Reading(n) /\ s_now = s + 0 /\ Reading(n) \in Int
      BY <1>3, <2>5, <2>6, <2>8, <2>11
    <3> QED BY <1>2, <2>9, <3>1
  <2> QED BY <2>10, <2>11
<1>6. CASE SaleUndone
  <2>1. PICK i \in 1..Len(sales), rev \in Workflow :
               Undoing(sales[i].rev, rev) /\ UndoSale(i, rev)
    BY <1>6 DEF SaleUndone
  <2> DEFINE p == sales[i]
             q == sales'[i]
             m == p.nozzle
  <2>2. /\ Len(sales') = Len(sales)
        /\ \A k \in 1..Len(sales) : k # i => sales'[k] = sales[k]
        /\ q.rev = rev
    BY <2>1, SaleRewritten
  <2>3. p \in FuelSaleRow /\ q \in FuelSaleRow /\ m \in Nozzles
    BY <1>0, <2>2, SaleFields
  <2>4. /\ nozzle' = [nozzle EXCEPT ![m].meter_reading = p.opening_meter]
        /\ Reading(m) = p.closing_meter /\ UNCHANGED adjustments
    BY <2>1 DEF UndoSale, MayUndo, Reading
  <2>5. Reading(n)' = IF m = n THEN p.opening_meter ELSE Reading(n)
    BY <1>m, <2>3, <2>4
  <2>6. s_now = s - sold[p] + sold[q]
    BY <1>0, <1>1, <2>2, SaleColumnChanged
  <2>7. /\ Quantity(p) = p.closing_meter - p.opening_meter
        /\ p.closing_meter \in Nat /\ p.opening_meter \in Nat
        /\ ~p.rev.reversed /\ q.rev.reversed
    BY <2>1, <2>2, SaleFields DEF Quantity, Undoing
  <2>8. sold[q] = 0 /\ sold[p] = IF m = n THEN p.closing_meter - p.opening_meter ELSE 0
    BY <1>4, <2>3, <2>7
  <2>9. a_now = a
    BY <2>4
  <2> HIDE DEF p, q, m, s, s_now, a, a_now
  <2>10. CASE m = n
    <3>1. /\ Reading(n)' = p.opening_meter /\ Reading(n) = p.closing_meter
          /\ s_now = s - (p.closing_meter - p.opening_meter) + 0
      BY <2>4, <2>5, <2>6, <2>8, <2>10
    <3> QED BY <1>2, <2>7, <2>9, <3>1
  <2>11. CASE m # n
    <3>1. Reading(n)' = Reading(n) /\ s_now = s - 0 + 0 /\ Reading(n) \in Int
      BY <1>3, <2>5, <2>6, <2>8, <2>11
    <3> QED BY <1>2, <2>9, <3>1
  <2> QED BY <2>10, <2>11
<1>7. CASE SaleMarked
  <2>1. PICK i \in 1..Len(sales), rev \in Workflow :
               Marking(sales[i].rev, rev) /\ MarkSale(i, rev)
    BY <1>7 DEF SaleMarked
  <2> DEFINE p == sales[i]
             q == sales'[i]
  <2>2. /\ Len(sales') = Len(sales)
        /\ \A k \in 1..Len(sales) : k # i => sales'[k] = sales[k]
        /\ q.rev = rev /\ q.nozzle = p.nozzle /\ Quantity(q) = Quantity(p)
    BY <2>1, SaleRewritten DEF Quantity
  <2>3. p \in FuelSaleRow /\ q \in FuelSaleRow
    BY <1>0, <2>2
  <2>4. ~p.rev.reversed /\ ~q.rev.reversed /\ UNCHANGED <<nozzle, adjustments>>
    BY <2>1, <2>2 DEF Marking, MarkSale
  <2>5. s_now = s - sold[p] + sold[q]
    BY <1>0, <1>1, <2>2, SaleColumnChanged
  <2>6. sold[p] = sold[q] /\ sold[q] \in Int
    BY <1>4, <2>2, <2>3, <2>4
  <2>7. a_now = a /\ Reading(n)' = Reading(n) /\ Reading(n) \in Int
    BY <1>3, <2>4 DEF Reading
  <2> HIDE DEF p, q, s, s_now, a, a_now
  <2>8. s_now = s
    BY <1>2, <2>5, <2>6
  <2> QED BY <1>2, <2>7, <2>8
<1>8. CASE MeterAdjusted
  <2>1. PICK u \in Users, m \in Nozzles, new_reading \in MeterReadings :
               AdjustNozzleMeter(u, m, new_reading)
    BY <1>8 DEF MeterAdjusted
  <2> DEFINE row == [nozzle |-> m, new_reading |-> new_reading, old_reading |-> Reading(m)]
             last == Len(adjustments) + 1
  <2>2. /\ adjustments' = Append(adjustments, row)
        /\ nozzle' = [nozzle EXCEPT ![m] = [meter_reading |-> new_reading,
                                            segment_start |-> new_reading]]
        /\ UNCHANGED sales
    BY <2>1 DEF AdjustNozzleMeter, Reading
  <2>3. /\ row.nozzle = m /\ row.new_reading = new_reading /\ row.old_reading = Reading(m)
        /\ new_reading \in Int /\ Reading(m) \in Int
    BY <1>3, FuelSalesAssumption
  <2>4. Reading(n)' = IF m = n THEN new_reading ELSE Reading(n)
    BY <2>2 DEF TypeOK, Reading
  <2> HIDE DEF row
  <2>5. /\ Len(adjustments') = last /\ adjustments'[last] = row
        /\ \A k \in 1..Len(adjustments) : adjustments'[k] = adjustments[k]
    BY <1>0, <2>2
  <2>6. row \in AdjustmentRow
    BY <1>0, <2>5
  <2>7. a_now = a + corrected[row]
    BY <1>0, <1>1, <2>5, AdjustmentColumnGrown
  <2>8. corrected[row] = IF m = n THEN new_reading - Reading(m) ELSE 0
    BY <2>3, <2>6 DEF corrected, CorrectedBy
  <2>9. s_now = s
    BY <2>2
  <2> HIDE DEF s, s_now, a, a_now
  <2>10. CASE m = n
    <3>1. Reading(n)' = new_reading /\ a_now = a + (new_reading - Reading(n))
      BY <2>4, <2>7, <2>8, <2>10
    <3> QED BY <1>2, <1>3, <2>3, <2>9, <3>1
  <2>11. CASE m # n
    <3>1. Reading(n)' = Reading(n) /\ a_now = a + 0 /\ Reading(n) \in Int
      BY <1>3, <2>4, <2>7, <2>8, <2>11
    <3> QED BY <1>2, <2>9, <3>1
  <2> QED BY <2>10, <2>11
<1> QED BY <1>5, <1>6, <1>7, <1>8, FuelSalesCases

\* No step moves a meter without its row.
LEMMA MetersBookedStep == TypeOK /\ TypeOK' /\ MetersBooked /\ [Next]_vars => MetersBooked'
<1> SUFFICES ASSUME TypeOK, TypeOK', MetersBooked, [Next]_vars PROVE MetersBooked'
  OBVIOUS
<1>1. CASE UNCHANGED <<nozzle, sales, adjustments>>
  BY <1>1 DEF MetersBooked, Metered, Reading
<1>2. CASE FuelSalesNext
  BY <1>2, MetersBookedSales
<1>3. CASE ShiftsNext /\ UNCHANGED <<adjustments, purchaseVars, paymentVars>>
  BY <1>1, <1>3 DEF ShiftsNext, CreateShift, CloseShift
<1>4. CASE PurchasesNext /\ UNCHANGED <<salesVars, paymentVars>>
  <2>1. UNCHANGED otherBooks
    BY <1>4, PurchasesCases
    DEF PurchaseCreated, PurchaseApprovedStep, PurchaseRejectedStep, PurchaseUndone,
        PurchaseMarked, TankDipped, CreatePurchase, ApprovePurchase, RejectPurchase,
        UndoPurchase, MarkPurchase, CreateTankDip, otherBooks
  <2> QED BY <1>1, <1>4, <2>1 DEF otherBooks, salesVars
<1>5. CASE PaymentsNext /\ UNCHANGED <<salesVars, purchaseVars>>
  <2>1. UNCHANGED forecourt
    BY <1>5, PaymentsCases
    DEF CustomerPaid, CustomerPaymentUndone, CustomerPaymentMarked, SupplierPaid,
        SupplierPaymentUndone, SupplierPaymentMarked, CreateCustomerPayment,
        CreateSupplierPayment, UndoCustomerPayment, UndoSupplierPayment,
        MarkCustomerPayment, MarkSupplierPayment, forecourt
  <2> QED BY <1>1, <1>5, <2>1 DEF forecourt, salesVars
<1>6. CASE CreditOverridesNext /\ UNCHANGED <<salesVars, purchaseVars, paymentVars>>
  <2>1. UNCHANGED notCustomers
    BY <1>6 DEF CreditOverridesNext, UpdateCustomer, RequestCreditOverride,
                ApproveCreditOverride, RejectCreditOverride, notCustomers
  <2> QED BY <1>1, <1>6, <2>1 DEF notCustomers, salesVars
<1>7. CASE UNCHANGED vars
  BY <1>1, <1>7 DEF vars, salesVars
<1> QED BY <1>2, <1>3, <1>4, <1>5, <1>6, <1>7 DEF Next

\* At first a meter reads its opening figure.
LEMMA MetersBookedInit == Init => MetersBooked
<1> SUFFICES ASSUME Init PROVE MetersBooked
  OBVIOUS
<1>1. /\ sales = << >> /\ adjustments = << >>
      /\ \A n \in Nozzles : Reading(n) = OpeningMeter[n]
  BY DEF Init, StateInit, FuelSalesInit, Reading
<1>2. ASSUME NEW n \in Nozzles PROVE Reading(n) = Metered(n)
  <2> DEFINE sold == SoldThrough(n)
             corrected == CorrectedBy(n)
  <2>1. /\ sold \in [FuelSaleRow -> Int] /\ corrected \in [AdjustmentRow -> Int]
        /\ OpeningMeter[n] \in Int
    BY MeterColumns
  <2> HIDE DEF sold, corrected
  <2>2. /\ sales \in Seq(FuelSaleRow) /\ Len(sales) = 0
        /\ adjustments \in Seq(AdjustmentRow) /\ Len(adjustments) = 0
    BY <1>1
  <2>3. Total(Amounts(sales, sold)) = 0
    BY <2>1, <2>2, AmountsEmpty
  <2>4. Total(Amounts(adjustments, corrected)) = 0
    BY <2>1, <2>2, AmountsEmpty
  <2> QED BY <1>1, <2>1, <2>3, <2>4 DEF Metered, sold, corrected
<1> QED BY <1>2 DEF MetersBooked

\* For every station: a meter reads its opening figure, plus what its standing sales
\* drew, plus what its adjustments corrected (fuel_sales.py, nozzle_meter.py).
THEOREM MetersAreBooked == Spec => []MeterExplained
<1> QED BY MetersBookedInit, TypeCorrect, StepTyped, MetersBookedStep, MeterForm, PTL DEF Spec

-----------------------------------------------------------------------------
\* Credit.

\* A balance that rises with no payment taken back ends within the credit allowed.
RaisedWithinLimit(c) ==
  (/\ customer'[c].outstanding_balance > customer[c].outstanding_balance
   /\ UNCHANGED customer_payments)
  => \/ customer[c].credit_limit = 0
     \/ customer'[c].outstanding_balance
          <= customer[c].credit_limit + customer[c].override_amount

\* Only a sale raises one so, and it compares first.
LEMMA CreditStep ==
  ASSUME TypeOK, Next, NEW c \in Customers
  PROVE  RaisedWithinLimit(c)
<1> USE DEF RaisedWithinLimit
<1>0. customer[c] \in Customer /\ customer[c].outstanding_balance \in Int
  <2>1. customer[c] \in Customer
    BY DEF TypeOK
  <2> QED BY <2>1 DEF Customer
<1>1. CASE Owing(c)' = Owing(c)
  BY <1>0, <1>1 DEF Owing
<1>2. CASE SaleCreated
  <2>1. PICK u \in Users, n \in Nozzles, d \in Customers \cup {NoCustomer},
             sale_type \in SaleTypes, closing \in MeterReadings, rate \in Rates,
             shift_id \in 0..Len(shifts) :
               CreateFuelSale(u, n, d, sale_type, closing, rate, shift_id)
    BY <1>2 DEF SaleCreated
  <2> DEFINE amount == (closing - nozzle[n].meter_reading) * rate
  <2>2. /\ customer' = IF sale_type = "credit" THEN [customer EXCEPT ![d] = Charged(@, amount)]
                                               ELSE customer
        /\ sale_type = "credit" => WithinCredit(customer[d], amount)
    BY <2>1 DEF CreateFuelSale
  <2> HIDE DEF amount
  <2>3. CASE sale_type = "credit" /\ d = c
    <3>1. customer'[c] = Charged(customer[c], amount) /\ WithinCredit(customer[c], amount)
      BY <2>2, <2>3 DEF TypeOK
    <3>2. customer'[c].outstanding_balance = customer[c].outstanding_balance + amount
      BY <1>0, <3>1 DEF Charged, Customer
    <3>3. customer[c].credit_limit \in Nat
      BY <1>0 DEF Customer
    <3> QED BY <3>1, <3>2, <3>3 DEF WithinCredit
  <2>4. CASE ~(sale_type = "credit" /\ d = c)
    <3>1. customer'[c] = customer[c]
      BY <2>2, <2>4 DEF TypeOK
    <3> QED BY <1>0, <3>1
  <2> QED BY <2>3, <2>4
<1>3. ASSUME NEW i \in 1..Len(sales), SaleTurned(i) PROVE RaisedWithinLimit(c)
  <2>1. Owing(c)' = Owing(c) - (IF sales[i].customer = c /\ sales'[i].rev.reversed
                                THEN sales[i].total_amount ELSE 0)
    BY <1>3 DEF SaleTurned
  <2>2. sales[i].total_amount \in Nat /\ Owing(c) \in Int
    BY <1>0, SaleFields DEF Owing
  <2>3. ~(Owing(c)' > Owing(c))
    BY <2>1, <2>2
  <2> QED BY <2>3 DEF Owing
<1>4. CASE FuelSalesNext
  <2>1. CASE SaleCharged /\ ~SaleCreated
    <3>1. SaleUndone \/ SaleMarked \/ MeterAdjusted
      BY <1>4, <2>1, FuelSalesCases
    <3>2. Len(sales') = Len(sales) + 1 /\ Len(sales) \in Nat
      BY <2>1 DEF SaleCharged, TypeOK
    <3>3. Len(sales') = Len(sales)
      <4>1. CASE SaleUndone \/ SaleMarked
        BY <4>1, SaleRewritten DEF SaleUndone, SaleMarked
      <4>2. CASE MeterAdjusted
        BY <4>2 DEF MeterAdjusted, AdjustNozzleMeter
      <4> QED BY <3>1, <4>1, <4>2
    <3> QED BY <3>2, <3>3
  <2>2. CASE UNCHANGED customer
    BY <1>1, <2>2 DEF Owing
  <2> QED BY <1>2, <1>3, <1>4, <2>1, <2>2, SaleSteps
<1>5. CASE PaymentsNext
  <2> QED
    <3>1. CASE CustomerPaymentAdded
      <4>1. Len(customer_payments') = Len(customer_payments) + 1
            /\ Len(customer_payments) \in Nat
        BY <3>1 DEF CustomerPaymentAdded, TypeOK
      <4> QED BY <4>1
    <3>2. ASSUME NEW i \in 1..Len(customer_payments), CustomerPaymentTurned(i),
                 UNCHANGED customer_payments
          PROVE  Owing(c)' = Owing(c)
      <4> DEFINE p == customer_payments[i]
      <4>1. StillPaid(p) \in Int
        BY PaymentFields DEF StillPaid
      <4>2. Owing(c)' = Owing(c) + (IF p.customer = c THEN StillPaid(p) - StillPaid(p) ELSE 0)
        BY <3>2 DEF CustomerPaymentTurned
      <4>3. Owing(c) \in Int
        BY <1>0 DEF Owing
      <4> HIDE DEF p
      <4> QED BY <4>1, <4>2, <4>3
    <3>3. CASE UNCHANGED customer
      BY <1>1, <3>3 DEF Owing
    <3>4. CASE ~UNCHANGED customer_payments
      BY <3>4
    <3> QED BY <1>1, <1>5, <3>1, <3>2, <3>3, <3>4, CustomerPaymentSteps
<1>6. CASE ShiftsNext \/ PurchasesNext
  <2>1. UNCHANGED customer
    BY <1>6, PurchasesCases
    DEF ShiftsNext, CreateShift, CloseShift,
        PurchaseCreated, PurchaseApprovedStep, PurchaseRejectedStep, PurchaseUndone,
        PurchaseMarked, TankDipped, CreatePurchase, ApprovePurchase, RejectPurchase,
        UndoPurchase, MarkPurchase, CreateTankDip, otherBooks
  <2> QED BY <1>1, <2>1 DEF Owing
<1>7. CASE CreditOverridesNext
  BY <1>1, <1>7, OverridesKeepOwing
<1> QED BY <1>4, <1>5, <1>6, <1>7 DEF Next

\* No step raises a balance beyond the credit allowed, unless it takes a payment back:
\* create_fuel_sale compares first, and nothing else raises one (fuel_sales.py,
\* payments.py).
THEOREM CreditStaysWithinLimit == Spec => CreditRaisedOnlyWithinLimit
<1>1. TypeOK /\ [Next]_vars => [\A c \in Customers : RaisedWithinLimit(c)]_vars
  BY CreditStep
<1> QED BY <1>1, TypeCorrect, PTL DEF Spec, CreditRaisedOnlyWithinLimit, RaisedWithinLimit

-----------------------------------------------------------------------------
\* What closing a shift stored.

SalesPosted(k, sale_type) ==
  [row \in FuelSaleRow |->
     IF /\ row.shift = k /\ row.sale_type = sale_type
        /\ (~row.rev.reversed \/ row.after_close)
     THEN row.total_amount ELSE 0]

Stored(k) ==
  /\ shifts[k].total_cash = Total(Amounts(sales, SalesPosted(k, "cash")))
  /\ shifts[k].total_credit = Total(Amounts(sales, SalesPosted(k, "credit")))

\* A sale marked as reversed late belongs to a shift that had closed; with that, no sale
\* of an open shift counts for the totals once it is reversed.
LateMarksClosed ==
  \A i \in 1..Len(sales) :
    sales[i].after_close => sales[i].shift # NoShift /\ ~shifts[sales[i].shift].open
SalesHaveShifts == \A i \in 1..Len(sales) : sales[i].shift \in 0..Len(shifts)
ClosedStored == \A k \in 1..Len(shifts) : ~shifts[k].open => Stored(k)
OneOpen ==
  \A k, l \in 1..Len(shifts) :
    shifts[k].open /\ shifts[l].open /\ shifts[k].user = shifts[l].user => k = l

ShiftsHold == LateMarksClosed /\ SalesHaveShifts /\ ClosedStored /\ OneOpen

\* Contributions are integers.
LEMMA PostedColumns ==
  ASSUME NEW k, NEW sale_type
  PROVE  SalesPosted(k, sale_type) \in [FuelSaleRow -> Int]
<1>1. ASSUME NEW row \in FuelSaleRow PROVE row.total_amount \in Int
  BY DEF FuelSaleRow
<1> QED BY <1>1 DEF SalesPosted

\* The fields of a shift.
LEMMA ShiftFields ==
  ASSUME TypeOK, NEW k \in 1..Len(shifts)
  PROVE  shifts[k] \in ShiftRow /\ shifts[k].open \in BOOLEAN /\ shifts[k].user \in Users
<1>1. shifts[k] \in ShiftRow
  BY DEF TypeOK
<1> QED BY <1>1 DEF ShiftRow

\* The invariant gives the property in the words of StationBooks.
LEMMA ShiftsForm == TypeOK /\ ShiftsHold => ClosedTotalsHold
<1> SUFFICES ASSUME TypeOK, ShiftsHold PROVE ClosedTotalsHold
  OBVIOUS
<1>1. ASSUME NEW k \in 1..Len(shifts), ~shifts[k].open
      PROVE  /\ shifts[k].total_cash = Total(PostedTo(k, "cash"))
             /\ shifts[k].total_credit = Total(PostedTo(k, "credit"))
  <2>1. ASSUME NEW sale_type PROVE PostedTo(k, sale_type) = Amounts(sales, SalesPosted(k, sale_type))
    <3>1. ASSUME NEW i \in 1..Len(sales) PROVE sales[i] \in FuelSaleRow
      BY SaleFields
    <3> QED BY <3>1 DEF PostedTo, Amounts, SalesPosted
  <2> QED BY <1>1, <2>1 DEF ShiftsHold, ClosedStored, Stored
<1>2. ASSUME NEW u \in Users PROVE Cardinality(OpenShiftsOf(u)) <= 1
  <2>1. CASE OpenShiftsOf(u) = {}
    BY <2>1, FS_EmptySet
  <2>2. ASSUME NEW k \in OpenShiftsOf(u) PROVE Cardinality(OpenShiftsOf(u)) <= 1
    <3>1. OpenShiftsOf(u) = {k}
      BY <2>2 DEF OpenShiftsOf, ShiftsHold, OneOpen
    <3> QED BY <3>1, FS_Singleton
  <2> QED BY <2>1, <2>2
<1> QED BY <1>1, <1>2 DEF ClosedTotalsHold, ShiftsHold, SalesHaveShifts

\* Opening a shift adds an open one of a user who has none.
LEMMA ShiftsHoldOpened ==
  ASSUME TypeOK, ShiftsHold, NEW u \in Users, CreateShift(u)
  PROVE  ShiftsHold'
<1> DEFINE row == [user |-> u, open |-> TRUE, total_cash |-> 0, total_credit |-> 0]
           last == Len(shifts) + 1
<1>1. shifts \in Seq(ShiftRow) /\ Len(shifts) \in Nat /\ UNCHANGED sales
  BY DEF TypeOK, CreateShift
<1>2. row.user = u /\ row.open
  OBVIOUS
<1>3. shifts' = Append(shifts, row) /\ OpenShiftsOf(u) = {}
  BY DEF CreateShift
<1> HIDE DEF row
<1>4. /\ Len(shifts') = last /\ shifts'[last] = row
      /\ \A k \in 1..Len(shifts) : shifts'[k] = shifts[k]
  BY <1>1, <1>3
<1>5. \A k \in 1..last : k \in 1..Len(shifts) \/ k = last
  BY <1>1
<1>6. LateMarksClosed'
  <2> SUFFICES ASSUME NEW i \in 1..Len(sales), sales[i].after_close
               PROVE  sales[i].shift # NoShift /\ ~shifts'[sales[i].shift].open
    BY <1>1 DEF LateMarksClosed
  <2>1. /\ sales[i].shift \in 0..Len(shifts) /\ sales[i].shift # NoShift
        /\ ~shifts[sales[i].shift].open
    BY DEF ShiftsHold, LateMarksClosed, SalesHaveShifts
  <2>2. sales[i].shift \in 1..Len(shifts)
    BY <1>1, <2>1 DEF NoShift
  <2> QED BY <1>4, <2>1, <2>2
<1>7. SalesHaveShifts'
  BY <1>1, <1>4 DEF ShiftsHold, SalesHaveShifts
<1>8. ClosedStored'
  <2>1. ASSUME NEW k \in 1..last, ~shifts'[k].open PROVE Stored(k)'
    <3>1. k \in 1..Len(shifts) /\ shifts'[k] = shifts[k]
      BY <1>2, <1>4, <1>5, <2>1
    <3> QED BY <1>1, <2>1, <3>1 DEF ShiftsHold, ClosedStored, Stored
  <2> QED BY <1>4, <2>1 DEF ClosedStored
<1>9. OneOpen'
  <2>1. ASSUME NEW k \in 1..Len(shifts) PROVE ~(shifts[k].open /\ shifts[k].user = u)
    BY <1>3 DEF OpenShiftsOf
  <2> QED BY <1>2, <1>4, <1>5, <2>1 DEF ShiftsHold, OneOpen
<1> QED BY <1>6, <1>7, <1>8, <1>9 DEF ShiftsHold

\* Closing a shift stores what its standing sales sum to.
LEMMA ShiftsHoldClosed ==
  ASSUME TypeOK, ShiftsHold, NEW u \in Users, NEW k \in 1..Len(shifts), CloseShift(u, k)
  PROVE  ShiftsHold'
<1> DEFINE cash == TakingsOf(k, "cash")
           credit == TakingsOf(k, "credit")
           row == [shifts[k] EXCEPT !.open = FALSE, !.total_cash = cash, !.total_credit = credit]
<1>1. /\ shifts \in Seq(ShiftRow) /\ UNCHANGED sales /\ shifts[k] \in ShiftRow
      /\ shifts[k].open /\ shifts' = [shifts EXCEPT ![k] = row]
  BY ShiftFields DEF TypeOK, CloseShift
<1>2. ASSUME NEW sale_type
      PROVE  TakingsOf(k, sale_type) = Total(Amounts(sales, SalesPosted(k, sale_type)))
  <2>1. ASSUME NEW i \in 1..Len(sales)
        PROVE  sales[i] \in FuelSaleRow /\ ~(sales[i].shift = k /\ sales[i].after_close)
    BY <1>1, SaleFields DEF ShiftsHold, LateMarksClosed
  <2>2. ASSUME NEW i \in 1..Len(sales)
        PROVE  SalesPosted(k, sale_type)[sales[i]]
                 = IF sales[i].shift = k /\ sales[i].sale_type = sale_type /\ ~sales[i].rev.reversed
                   THEN sales[i].total_amount ELSE 0
    BY <2>1 DEF SalesPosted
  <2> QED BY <2>2 DEF TakingsOf, Amounts
<1>3. /\ row.user = shifts[k].user /\ ~row.open
      /\ row.total_cash = cash /\ row.total_credit = credit
  BY <1>1 DEF ShiftRow
<1> HIDE DEF row, cash, credit
<1>4. /\ Len(shifts') = Len(shifts) /\ shifts'[k] = row
      /\ \A l \in 1..Len(shifts) : l # k => shifts'[l] = shifts[l]
  BY <1>1
<1>5. LateMarksClosed'
  <2> SUFFICES ASSUME NEW i \in 1..Len(sales), sales[i].after_close
               PROVE  sales[i].shift # NoShift /\ ~shifts'[sales[i].shift].open
    BY <1>1 DEF LateMarksClosed
  <2>1. /\ sales[i].shift \in 0..Len(shifts) /\ sales[i].shift # NoShift
        /\ ~shifts[sales[i].shift].open
    BY DEF ShiftsHold, LateMarksClosed, SalesHaveShifts
  <2>2. sales[i].shift \in 1..Len(shifts)
    BY <2>1 DEF NoShift
  <2> QED BY <1>3, <1>4, <2>1, <2>2
<1>6. SalesHaveShifts'
  BY <1>1, <1>4 DEF ShiftsHold, SalesHaveShifts
<1>7. ClosedStored'
  <2>1. ASSUME NEW l \in 1..Len(shifts), ~shifts'[l].open PROVE Stored(l)'
    <3>1. CASE l = k
      BY <1>1, <1>2, <1>3, <1>4, <3>1 DEF Stored, cash, credit
    <3>2. CASE l # k
      BY <1>1, <1>4, <2>1, <3>2 DEF ShiftsHold, ClosedStored, Stored
    <3> QED BY <3>1, <3>2
  <2> QED BY <1>4, <2>1 DEF ClosedStored
<1>8. OneOpen'
  BY <1>3, <1>4 DEF ShiftsHold, OneOpen
<1> QED BY <1>5, <1>6, <1>7, <1>8 DEF ShiftsHold

\* A sale is posted to a shift that is open, or to none.
LEMMA SalePosted ==
  ASSUME TypeOK, NEW u \in Users, NEW n \in Nozzles, NEW c \in Customers \cup {NoCustomer},
         NEW sale_type \in SaleTypes, NEW closing \in MeterReadings, NEW rate \in Rates,
         NEW shift_id \in 0..Len(shifts),
         CreateFuelSale(u, n, c, sale_type, closing, rate, shift_id)
  PROVE  LET p == sales'[Len(sales) + 1]
         IN  /\ p.shift \in 0..Len(shifts) /\ ~p.after_close
             /\ p.shift = NoShift \/ shifts[p.shift].open
             /\ UNCHANGED shifts
<1> DEFINE opening == nozzle[n].meter_reading
           amount == (closing - opening) * rate
           row(shift) ==
             [nozzle |-> n, customer |-> c, sale_type |-> sale_type, shift |-> shift,
              opening_meter |-> opening, closing_meter |-> closing, total_amount |-> amount,
              adjustments_before |-> Len(adjustments), after_close |-> FALSE, rev |-> Fresh]
<1>1. PICK shift \in ShiftChoice(u, shift_id) : sales' = Append(sales, row(shift))
  BY DEF CreateFuelSale
<1>2. row(shift).shift = shift /\ ~row(shift).after_close
  OBVIOUS
<1> HIDE DEF row
<1>3. sales \in Seq(FuelSaleRow) /\ Len(sales) \in Nat /\ Len(shifts) \in Nat
  BY DEF TypeOK
<1>4. sales'[Len(sales) + 1] = row(shift)
  BY <1>1, <1>3
<1>5. shift = NoShift \/ (shift \in 1..Len(shifts) /\ shifts[shift].open)
  BY DEF ShiftChoice, OpenShiftsOf
<1>6. shift \in 0..Len(shifts) /\ (shift = NoShift \/ shifts[shift].open)
  BY <1>3, <1>5 DEF NoShift
<1>7. UNCHANGED shifts
  BY DEF CreateFuelSale
<1> QED BY <1>2, <1>4, <1>6, <1>7

\* A reversal keeps the shift and records whether it had closed.
LEMMA SaleKeepsShift ==
  ASSUME TypeOK, NEW i \in 1..Len(sales), NEW rev \in Workflow,
         UndoSale(i, rev) \/ MarkSale(i, rev)
  PROVE  /\ sales'[i].shift = sales[i].shift
         /\ UndoSale(i, rev) =>
              (sales'[i].after_close <=> sales[i].shift # NoShift /\ ~shifts[sales[i].shift].open)
         /\ MarkSale(i, rev) => sales'[i].after_close = sales[i].after_close
         /\ UNCHANGED shifts
<1>1. sales[i] \in FuelSaleRow /\ sales \in Seq(FuelSaleRow)
  BY SaleFields DEF TypeOK
<1>2. ASSUME UndoSale(i, rev)
      PROVE  /\ sales'[i].shift = sales[i].shift
             /\ sales'[i].after_close <=> sales[i].shift # NoShift /\ ~shifts[sales[i].shift].open
  <2> DEFINE late == sales[i].shift # NoShift /\ ~shifts[sales[i].shift].open
             row == [sales[i] EXCEPT !.rev = rev, !.after_close = late]
  <2>1. sales' = [sales EXCEPT ![i] = row]
    BY <1>2 DEF UndoSale
  <2>2. row.shift = sales[i].shift /\ (row.after_close <=> late)
    BY <1>1 DEF FuelSaleRow
  <2> HIDE DEF row
  <2>3. sales'[i] = row
    BY <1>1, <2>1
  <2> QED BY <2>2, <2>3
<1>3. ASSUME MarkSale(i, rev)
      PROVE  sales'[i].shift = sales[i].shift /\ sales'[i].after_close = sales[i].after_close
  <2> DEFINE row == [sales[i] EXCEPT !.rev = rev]
  <2>1. sales' = [sales EXCEPT ![i] = row]
    BY <1>3 DEF MarkSale
  <2>2. row.shift = sales[i].shift /\ row.after_close = sales[i].after_close
    BY <1>1 DEF FuelSaleRow
  <2> HIDE DEF row
  <2>3. sales'[i] = row
    BY <1>1, <2>1
  <2> QED BY <2>2, <2>3
<1>4. UNCHANGED shifts
  BY DEF UndoSale, MarkSale
<1> QED BY <1>2, <1>3, <1>4

\* A sale changes no total of a closed shift.
LEMMA ShiftsHoldSales ==
  ASSUME TypeOK, TypeOK', ShiftsHold, FuelSalesNext
  PROVE  ShiftsHold'
<1>0. sales \in Seq(FuelSaleRow) /\ sales' \in Seq(FuelSaleRow) /\ Len(sales) \in Nat
  BY DEF TypeOK
<1>1. ASSUME UNCHANGED shifts, LateMarksClosed', SalesHaveShifts',
             \A k \in 1..Len(shifts), sale_type \in SaleTypes :
               ~shifts[k].open =>
                 Total(Amounts(sales', SalesPosted(k, sale_type)))
                   = Total(Amounts(sales, SalesPosted(k, sale_type)))
      PROVE  ShiftsHold'
  <2>1. ClosedStored'
    <3>1. ASSUME NEW k \in 1..Len(shifts), ~shifts[k].open PROVE Stored(k)'
      <4>1. Stored(k)
        BY <3>1 DEF ShiftsHold, ClosedStored
      <4>2. "cash" \in SaleTypes /\ "credit" \in SaleTypes
        BY DEF SaleTypes
      <4>3. Total(Amounts(sales', SalesPosted(k, "cash"))) = Total(Amounts(sales, SalesPosted(k, "cash")))
        BY <1>1, <3>1, <4>2
      <4>4. Total(Amounts(sales', SalesPosted(k, "credit")))
              = Total(Amounts(sales, SalesPosted(k, "credit")))
        BY <1>1, <3>1, <4>2
      <4> QED BY <1>1, <4>1, <4>3, <4>4 DEF Stored
    <3> QED BY <1>1, <3>1 DEF ClosedStored
  <2>2. OneOpen'
    BY <1>1 DEF ShiftsHold, OneOpen
  <2> QED BY <1>1, <2>1, <2>2 DEF ShiftsHold
<1>2. CASE SaleCreated
  <2>1. PICK u \in Users, n \in Nozzles, c \in Customers \cup {NoCustomer}, sale_type \in SaleTypes,
             closing \in MeterReadings, rate \in Rates, shift_id \in 0..Len(shifts) :
               CreateFuelSale(u, n, c, sale_type, closing, rate, shift_id)
    BY <1>2 DEF SaleCreated
  <2> DEFINE last == Len(sales) + 1
             p == sales'[last]
  <2>2. Len(sales') = last /\ \A k \in 1..Len(sales) : sales'[k] = sales[k]
    BY <2>1, SaleCreatedFacts
  <2>3. /\ p.shift \in 0..Len(shifts) /\ ~p.after_close
        /\ p.shift = NoShift \/ shifts[p.shift].open
        /\ UNCHANGED shifts
    BY <2>1, SalePosted
  <2>4. p \in FuelSaleRow
    BY <1>0, <2>2
  <2>5. \A i \in 1..last : i \in 1..Len(sales) \/ i = last
    BY <1>0
  <2>6. LateMarksClosed' /\ SalesHaveShifts'
    BY <2>2, <2>3, <2>5 DEF ShiftsHold, LateMarksClosed, SalesHaveShifts
  <2>7. ASSUME NEW k \in 1..Len(shifts), NEW type \in SaleTypes, ~shifts[k].open
        PROVE  Total(Amounts(sales', SalesPosted(k, type))) = Total(Amounts(sales, SalesPosted(k, type)))
    <3> DEFINE value == SalesPosted(k, type)
    <3>1. value[p] = 0
      <4>1. p.shift # k
        BY <2>3, <2>7 DEF NoShift
      <4> QED BY <2>4, <4>1 DEF SalesPosted
    <3>2. value \in [FuelSaleRow -> Int]
      BY PostedColumns
    <3> HIDE DEF value
    <3>3. Total(Amounts(sales', value)) = Total(Amounts(sales, value)) + value[p]
      BY <1>0, <2>2, <3>2, SaleColumnGrown
    <3>4. Total(Amounts(sales, value)) \in Int
      BY <1>0, <3>2, AmountsTyped
    <3>5. Total(Amounts(sales', value)) = Total(Amounts(sales, value))
      BY <3>1, <3>3, <3>4
    <3> QED BY <3>5 DEF value
  <2> QED BY <1>1, <2>3, <2>6, <2>7
<1>3. CASE SaleUndone \/ SaleMarked
  <2>1. PICK i \in 1..Len(sales), rev \in Workflow :
               \/ Undoing(sales[i].rev, rev) /\ UndoSale(i, rev)
               \/ Marking(sales[i].rev, rev) /\ MarkSale(i, rev)
    BY <1>3 DEF SaleUndone, SaleMarked
  <2> DEFINE p == sales[i]
             q == sales'[i]
  <2>2. /\ Len(sales') = Len(sales)
        /\ \A k \in 1..Len(sales) : k # i => sales'[k] = sales[k]
        /\ q.sale_type = p.sale_type /\ q.total_amount = p.total_amount /\ q.rev = rev
    BY <2>1, SaleRewritten
  <2>3. /\ q.shift = p.shift /\ UNCHANGED shifts
        /\ \/ rev.reversed /\ (q.after_close <=> p.shift # NoShift /\ ~shifts[p.shift].open)
           \/ ~rev.reversed /\ q.after_close = p.after_close
    BY <2>1, SaleKeepsShift DEF Undoing, Marking
  <2>4. ~p.rev.reversed
    BY <2>1 DEF Undoing, Marking
  <2>5. p \in FuelSaleRow /\ q \in FuelSaleRow
    BY <1>0, <2>2
  <2>6. LateMarksClosed'
    <3>1. p.after_close => p.shift # NoShift /\ ~shifts[p.shift].open
      BY DEF ShiftsHold, LateMarksClosed
    <3>2. q.after_close => q.shift # NoShift /\ ~shifts'[q.shift].open
      BY <2>3, <3>1
    <3> QED BY <2>2, <2>3, <3>2 DEF ShiftsHold, LateMarksClosed
  <2>7. SalesHaveShifts'
    BY <2>2, <2>3 DEF ShiftsHold, SalesHaveShifts
  <2>8. ASSUME NEW k \in 1..Len(shifts), NEW type \in SaleTypes, ~shifts[k].open
        PROVE  Total(Amounts(sales', SalesPosted(k, type))) = Total(Amounts(sales, SalesPosted(k, type)))
    <3> DEFINE value == SalesPosted(k, type)
    <3>1. value[p] = value[q]
      <4>1. CASE p.shift = k
        <5>1. k # NoShift
          BY DEF NoShift
        <5>2. q.after_close \/ ~q.rev.reversed
          BY <2>2, <2>3, <2>8, <4>1, <5>1
        <5> QED BY <2>2, <2>3, <2>4, <2>5, <5>2 DEF SalesPosted
      <4>2. CASE p.shift # k
        BY <2>3, <2>5, <4>2 DEF SalesPosted
      <4> QED BY <4>1, <4>2
    <3>2. value \in [FuelSaleRow -> Int]
      BY PostedColumns
    <3> HIDE DEF value
    <3>3. Total(Amounts(sales', value)) = Total(Amounts(sales, value)) - value[p] + value[q]
      BY <1>0, <2>2, <3>2, SaleColumnChanged
    <3>4. Total(Amounts(sales, value)) \in Int /\ value[q] \in Int
      BY <1>0, <2>5, <3>2, AmountsTyped
    <3> DEFINE before == Total(Amounts(sales, value))
               after == Total(Amounts(sales', value))
               x == value[q]
    <3>5. after = before - x + x /\ before \in Int /\ x \in Int
      BY <3>1, <3>3, <3>4
    <3> HIDE DEF before, after, x
    <3>6. after = before
      BY <3>5
    <3> QED BY <3>6 DEF before, after, value
  <2> QED BY <1>1, <2>3, <2>6, <2>7, <2>8
<1>4. CASE MeterAdjusted
  <2>1. UNCHANGED <<sales, shifts>>
    BY <1>4 DEF MeterAdjusted, AdjustNozzleMeter
  <2> QED BY <2>1 DEF ShiftsHold, LateMarksClosed, SalesHaveShifts, ClosedStored, Stored, OneOpen
<1> QED BY <1>2, <1>3, <1>4, FuelSalesCases

\* No step breaks what the closed shifts hold.
LEMMA ShiftsHoldStep == TypeOK /\ TypeOK' /\ ShiftsHold /\ [Next]_vars => ShiftsHold'
<1> SUFFICES ASSUME TypeOK, TypeOK', ShiftsHold, [Next]_vars PROVE ShiftsHold'
  OBVIOUS
<1>1. CASE UNCHANGED <<sales, shifts>>
  BY <1>1 DEF ShiftsHold, LateMarksClosed, SalesHaveShifts, ClosedStored, Stored, OneOpen
<1>2. CASE FuelSalesNext
  BY <1>2, ShiftsHoldSales
<1>3. CASE ShiftsNext
  BY <1>3, ShiftsHoldOpened, ShiftsHoldClosed DEF ShiftsNext
<1>4. CASE PurchasesNext /\ UNCHANGED <<salesVars, paymentVars>>
  <2>1. UNCHANGED otherBooks
    BY <1>4, PurchasesCases
    DEF PurchaseCreated, PurchaseApprovedStep, PurchaseRejectedStep, PurchaseUndone,
        PurchaseMarked, TankDipped, CreatePurchase, ApprovePurchase, RejectPurchase,
        UndoPurchase, MarkPurchase, CreateTankDip, otherBooks
  <2> QED BY <1>1, <1>4, <2>1 DEF otherBooks, salesVars
<1>5. CASE PaymentsNext /\ UNCHANGED <<salesVars, purchaseVars>>
  <2>1. UNCHANGED forecourt
    BY <1>5, PaymentsCases
    DEF CustomerPaid, CustomerPaymentUndone, CustomerPaymentMarked, SupplierPaid,
        SupplierPaymentUndone, SupplierPaymentMarked, CreateCustomerPayment,
        CreateSupplierPayment, UndoCustomerPayment, UndoSupplierPayment,
        MarkCustomerPayment, MarkSupplierPayment, forecourt
  <2> QED BY <1>1, <1>5, <2>1 DEF forecourt, salesVars
<1>6. CASE CreditOverridesNext /\ UNCHANGED <<salesVars, purchaseVars, paymentVars>>
  <2>1. UNCHANGED notCustomers
    BY <1>6 DEF CreditOverridesNext, UpdateCustomer, RequestCreditOverride,
                ApproveCreditOverride, RejectCreditOverride, notCustomers
  <2> QED BY <1>1, <1>6, <2>1 DEF notCustomers, salesVars
<1>7. CASE UNCHANGED vars
  BY <1>1, <1>7 DEF vars, salesVars
<1> QED BY <1>2, <1>3, <1>4, <1>5, <1>6, <1>7 DEF Next

\* At first there are no shifts.
LEMMA ShiftsHoldInit == Init => ShiftsHold
<1> SUFFICES ASSUME Init PROVE ShiftsHold
  OBVIOUS
<1>1. sales = << >> /\ shifts = << >>
  BY DEF Init, StateInit, ShiftsInit
<1> QED BY <1>1 DEF ShiftsHold, LateMarksClosed, SalesHaveShifts, ClosedStored, OneOpen

\* For every station: a closed shift keeps the totals of the sales that stood when it
\* closed, no user has two open shifts, and a sale belongs to a shift that exists or to
\* none (shifts.py).
THEOREM ShiftsHoldTheirTotals == Spec => []ClosedTotalsHold
<1> QED BY ShiftsHoldInit, TypeCorrect, StepTyped, ShiftsHoldStep, ShiftsForm, PTL DEF Spec

=============================================================================
