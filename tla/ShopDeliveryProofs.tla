------------------------- MODULE ShopDeliveryProofs -------------------------
(***************************************************************************)
(* Proofs about ShopBooks for any shop: the stock of every product stays   *)
(* explained by its sales, is oversold only as the code allows it, and     *)
(* expenses follow the approval workflow. And proofs about DeliveryQueue   *)
(* for any number of rows and sessions: what is recorded as sent was       *)
(* accepted, and a row that nothing disturbed is delivered once at most.   *)
(***************************************************************************)
EXTENDS ShopBooks, DeliveryQueue, TotalsProofs, TLAPS

\* The items of a sale name products in the table, so a product with a sales history
\* is never deleted (api/pos_product.py:90).
ItemsNameProducts ==
  \A i \in 1..Len(pos_sales) : \A k \in 1..Len(pos_sales[i].lines) :
    pos_sales[i].lines[k].product \in DOMAIN products

\* The part of the invariant that is about expenses: they are entered by those who
\* may, and name an approver only while approved.
SoundExpense ==
  {x \in Expense : /\ x.submitted_by_user_id \in ExpenseStaff
                   /\ x.status # "approved" => x.approved_by_user_id = Nobody}

ExpensesTyped ==
  /\ DOMAIN expenses \subseteq ExpenseIds
  /\ expenses \in [DOMAIN expenses -> SoundExpense]

IInv == ShopTypeOK /\ ExpensesTyped /\ ItemsNameProducts /\ StockExplained /\ OversoldOnlyByRepeatedLines

-----------------------------------------------------------------------------
\* What the lines sell of a product is a natural.
LEMMA SoldTyped ==
  ASSUME NEW lines \in Seq(Line), NEW p
  PROVE  Sold(lines, p) \in Nat
<1> DEFINE v == [k \in 1..Len(lines) |-> IF lines[k].product = p THEN lines[k].quantity ELSE 0]
<1>1. \A k \in 1..Len(lines) : lines[k] \in Line
  OBVIOUS
<1>2. \A k \in 1..Len(lines) : lines[k].quantity \in Nat
  BY <1>1, PosAssumption DEF Line
<1>3. v \in Seq(Nat)
  BY <1>2
<1>4. Sold(lines, p) = Total(v)
  BY DEF Sold
<1> HIDE DEF v
<1> QED BY <1>3, <1>4, TotalNatural

\* Lines that do not name a product sell nothing of it.
LEMMA SoldNone ==
  ASSUME NEW lines \in Seq(Line), NEW p, \A k \in 1..Len(lines) : lines[k].product # p
  PROVE  Sold(lines, p) = 0
<1> DEFINE v == [k \in 1..Len(lines) |-> IF lines[k].product = p THEN lines[k].quantity ELSE 0]
<1>1. v \in Seq(Int) /\ Len(v) = Len(lines)
  OBVIOUS
<1>2. \A k \in 1..Len(v) : v[k] = 0
  BY <1>1
<1>3. Sold(lines, p) = Total(v)
  BY DEF Sold
<1> HIDE DEF v
<1> QED BY <1>1, <1>2, <1>3, TotalZero

\* Lines that name a product once sell that line's quantity of it.
LEMMA SoldOnce ==
  ASSUME NEW lines \in Seq(Line), NEW j \in 1..Len(lines),
         \A k \in 1..Len(lines) : lines[k].product = lines[j].product => k = j
  PROVE  Sold(lines, lines[j].product) = lines[j].quantity
<1> DEFINE p == lines[j].product
           v == [k \in 1..Len(lines) |-> IF lines[k].product = p THEN lines[k].quantity ELSE 0]
           z == [k \in 1..Len(lines) |-> 0]
<1>1. /\ z \in Seq(Int) /\ Len(z) = Len(lines) /\ z[j] = 0
      /\ \A k \in 1..Len(z) : z[k] = 0
  OBVIOUS
<1>2. \A k \in 1..Len(lines) : lines[k] \in Line
  OBVIOUS
<1>3. \A k \in 1..Len(lines) : lines[k].quantity \in Nat
  BY <1>2, PosAssumption DEF Line
<1>4. v \in Seq(Int) /\ Len(v) = Len(lines) /\ v[j] = lines[j].quantity
  BY <1>3
<1>5. \A k \in 1..Len(z) : k # j => v[k] = z[k]
  OBVIOUS
<1>6. Sold(lines, p) = Total(v)
  BY DEF Sold
<1>7. Total(z) = 0
  <2> HIDE DEF z
  <2> QED BY <1>1, TotalZero
<1>8. lines[j].quantity \in Nat
  BY <1>3
<1> HIDE DEF p, v, z
<1>9. Total(v) = Total(z) - z[j] + v[j]
  BY <1>1, <1>4, <1>5, TotalChange
<1>10. Sold(lines, p) = lines[j].quantity
  BY <1>1, <1>4, <1>6, <1>7, <1>8, <1>9
<1> QED BY <1>10 DEF p

-----------------------------------------------------------------------------
\* What a row of the sales table counts for a product.
Counted(rows, p) ==
  [i \in 1..Len(rows) |-> IF rows[i].is_reversed THEN 0 ELSE Sold(rows[i].lines, p)]

LEMMA CountedTyped ==
  ASSUME NEW rows \in Seq(PosSale), NEW p
  PROVE  Counted(rows, p) \in Seq(Nat) /\ Len(Counted(rows, p)) = Len(rows)
<1>1. \A i \in 1..Len(rows) : rows[i] \in PosSale
  OBVIOUS
<1>2. \A i \in 1..Len(rows) : rows[i].lines \in Seq(Line)
  BY <1>1 DEF PosSale
<1>3. \A i \in 1..Len(rows) : Sold(rows[i].lines, p) \in Nat
  BY <1>2, SoldTyped
<1> QED BY <1>3 DEF Counted

\* The totals of the sales table are those of its rows' counts.
LEMMA StandingCounted ==
  ASSUME NEW p
  PROVE  Standing(p) = Total(Counted(pos_sales, p)) /\ Standing(p)' = Total(Counted(pos_sales', p))
BY DEF Standing, Counted, Sold

LEMMA StandingTyped ==
  ASSUME pos_sales \in Seq(PosSale), NEW p
  PROVE  Standing(p) \in Nat
BY CountedTyped, StandingCounted, TotalNatural

\* Nothing stands of a product that no sale names.
LEMMA StandingNone ==
  ASSUME pos_sales \in Seq(PosSale), NEW p, MayDelete(p)
  PROVE  Standing(p) = 0
<1>1. \A i \in 1..Len(pos_sales) : pos_sales[i] \in PosSale
  OBVIOUS
<1>2. \A i \in 1..Len(pos_sales) : pos_sales[i].lines \in Seq(Line)
  BY <1>1 DEF PosSale
<1>3. \A i \in 1..Len(pos_sales) : Sold(pos_sales[i].lines, p) = 0
  BY <1>2, SoldNone DEF MayDelete
<1>4. \A i \in 1..Len(Counted(pos_sales, p)) : Counted(pos_sales, p)[i] = 0
  BY <1>3 DEF Counted
<1>5. Counted(pos_sales, p) \in Seq(Int)
  BY CountedTyped
<1> QED BY <1>4, <1>5, StandingCounted, TotalZero

\* A new sale adds what its lines sell.
LEMMA StandingAppend ==
  ASSUME pos_sales \in Seq(PosSale), NEW p, NEW lines \in Seq(Line),
         pos_sales' = Append(pos_sales, [lines |-> lines, is_reversed |-> FALSE])
  PROVE  Standing(p)' = Standing(p) + Sold(lines, p)
<1> DEFINE entry == [lines |-> lines, is_reversed |-> FALSE]
           v == Counted(pos_sales, p)
           w == Counted(pos_sales', p)
<1>1. entry \in PosSale
  BY DEF PosSale
<1>2. /\ pos_sales' \in Seq(PosSale) /\ Len(pos_sales') = Len(pos_sales) + 1
      /\ pos_sales'[Len(pos_sales')] = entry
      /\ \A i \in 1..Len(pos_sales) : pos_sales'[i] = pos_sales[i]
  BY <1>1
<1>3. Len(pos_sales) \in Nat
  OBVIOUS
<1>4. w[Len(pos_sales')] = Sold(lines, p)
  BY <1>2, <1>3 DEF Counted
<1>5. \A i \in 1..Len(pos_sales) : w[i] = v[i]
  BY <1>2, <1>3 DEF Counted
<1> HIDE DEF v, w
<1>6. v \in Seq(Int) /\ w \in Seq(Int) /\ Len(v) = Len(pos_sales) /\ Len(w) = Len(pos_sales')
  <2>1. v \in Seq(Nat) /\ Len(v) = Len(pos_sales)
    BY CountedTyped DEF v
  <2>2. w \in Seq(Nat) /\ Len(w) = Len(pos_sales')
    BY <1>2, CountedTyped DEF w
  <2> QED BY <2>1, <2>2
<1>7. Total(w) = Total(v) + w[Len(w)]
  BY <1>2, <1>5, <1>6, TotalAppend
<1>8. Standing(p) = Total(v) /\ Standing(p)' = Total(w)
  BY StandingCounted DEF v, w
<1> QED BY <1>4, <1>6, <1>7, <1>8

\* Replacing one row of the sales table.
LEMMA ReplaceSale ==
  ASSUME NEW rows \in Seq(PosSale), NEW i \in 1..Len(rows), NEW entry \in PosSale
  PROVE  /\ [rows EXCEPT ![i] = entry] \in Seq(PosSale)
         /\ Len([rows EXCEPT ![i] = entry]) = Len(rows)
         /\ [rows EXCEPT ![i] = entry][i] = entry
         /\ \A k \in 1..Len(rows) : k # i => [rows EXCEPT ![i] = entry][k] = rows[k]
OBVIOUS

\* Reversing a sale takes away what its lines sold.
LEMMA StandingReversed ==
  ASSUME pos_sales \in Seq(PosSale), NEW p, NEW i \in 1..Len(pos_sales),
         ~pos_sales[i].is_reversed,
         pos_sales' = [pos_sales EXCEPT ![i] = [@ EXCEPT !.is_reversed = TRUE]]
  PROVE  Standing(p)' = Standing(p) - Sold(pos_sales[i].lines, p)
<1> DEFINE v == Counted(pos_sales, p)
           w == Counted(pos_sales', p)
           entry == [pos_sales[i] EXCEPT !.is_reversed = TRUE]
<1>1. pos_sales[i] \in PosSale
  OBVIOUS
<1>2. entry \in PosSale /\ entry.is_reversed
  BY <1>1 DEF PosSale
<1>3. /\ pos_sales' \in Seq(PosSale) /\ Len(pos_sales') = Len(pos_sales)
      /\ pos_sales'[i] = entry
      /\ \A k \in 1..Len(pos_sales) : k # i => pos_sales'[k] = pos_sales[k]
  <2> DEFINE new == [pos_sales EXCEPT ![i] = entry]
  <2>1. pos_sales' = new
    OBVIOUS
  <2> HIDE DEF entry
  <2>2. /\ new \in Seq(PosSale) /\ Len(new) = Len(pos_sales) /\ new[i] = entry
        /\ \A k \in 1..Len(pos_sales) : k # i => new[k] = pos_sales[k]
    BY <1>2, ReplaceSale
  <2> HIDE DEF new
  <2> QED BY <2>1, <2>2
<1>4. v[i] = Sold(pos_sales[i].lines, p) /\ w[i] = 0
  BY <1>2, <1>3 DEF Counted
<1>5. \A k \in 1..Len(pos_sales) : k # i => w[k] = v[k]
  BY <1>3 DEF Counted
<1> HIDE DEF v, w
<1>6. v \in Seq(Int) /\ w \in Seq(Int) /\ Len(v) = Len(pos_sales) /\ Len(w) = Len(pos_sales)
  <2>1. v \in Seq(Nat) /\ Len(v) = Len(pos_sales)
    BY CountedTyped DEF v
  <2>2. w \in Seq(Nat) /\ Len(w) = Len(pos_sales')
    BY <1>3, CountedTyped DEF w
  <2> QED BY <1>3, <2>1, <2>2
<1>7. v[i] \in Int
  BY <1>6
<1>8. Total(w) = Total(v) - v[i] + w[i]
  BY <1>5, <1>6, TotalChange
<1>9. Total(v) \in Int
  BY <1>6, TotalType
<1>10. Standing(p) = Total(v) /\ Standing(p)' = Total(w)
  BY StandingCounted DEF v, w
<1> QED BY <1>4, <1>7, <1>8, <1>9, <1>10

-----------------------------------------------------------------------------
\* What the type invariant says of single rows.
LEMMA RowsTyped ==
  ASSUME ShopTypeOK
  PROVE  /\ \A p \in DOMAIN products : products[p] \in Product
         /\ \A i \in 1..Len(pos_sales) :
              pos_sales[i] \in PosSale /\ pos_sales[i].lines \in Seq(Line)
         /\ pos_sales \in Seq(PosSale)
<1>1. products \in [DOMAIN products -> Product] /\ pos_sales \in Seq(PosSale)
  BY DEF ShopTypeOK
<1>2. \A p \in DOMAIN products : products[p] \in Product
  BY <1>1
<1>3. \A i \in 1..Len(pos_sales) : pos_sales[i] \in PosSale
  BY <1>1
<1>4. \A i \in 1..Len(pos_sales) : pos_sales[i].lines \in Seq(Line)
  BY <1>3 DEF PosSale
<1> QED BY <1>1, <1>2, <1>3, <1>4

\* Moving stock changes the stock of the tracked products and nothing else.
LEMMA MovedRows ==
  ASSUME ShopTypeOK, NEW lines \in Seq(Line), NEW n \in Int
  PROVE  /\ DOMAIN Moved(lines, n) = DOMAIN products
         /\ Moved(lines, n) \in [DOMAIN products -> Product]
         /\ \A p \in DOMAIN products :
              LET old == products[p]
                  new == Moved(lines, n)[p]
              IN  /\ new.track_inventory = old.track_inventory
                  /\ new.opening = old.opening
                  /\ new.kept = old.kept
                  /\ old.track_inventory =>
                       new.stock_quantity = old.stock_quantity + n * Sold(lines, p)
                  /\ ~old.track_inventory => new.stock_quantity = old.stock_quantity
<1> DEFINE M == Moved(lines, n)
<1>1. DOMAIN M = DOMAIN products
  BY DEF Moved
<1>2. ASSUME NEW p \in DOMAIN products
      PROVE  /\ M[p] \in Product
             /\ M[p].track_inventory = products[p].track_inventory
             /\ M[p].opening = products[p].opening
             /\ M[p].kept = products[p].kept
             /\ products[p].track_inventory =>
                  M[p].stock_quantity = products[p].stock_quantity + n * Sold(lines, p)
             /\ ~products[p].track_inventory =>
                  M[p].stock_quantity = products[p].stock_quantity
  <2> DEFINE old == products[p]
             moved == old.stock_quantity + n * Sold(lines, p)
  <2>1. old \in Product
    BY RowsTyped
  <2>2. old.stock_quantity \in Int
    BY <2>1 DEF Product
  <2>3. Sold(lines, p) \in Int
    BY SoldTyped
  <2>4. moved \in Int
    BY <2>2, <2>3
  <2>5. M[p] = IF old.track_inventory THEN [old EXCEPT !.stock_quantity = moved] ELSE old
    BY DEF Moved
  <2>6. old.track_inventory \in BOOLEAN
    BY <2>1 DEF Product
  <2> HIDE DEF M, moved, old
  <2>7. CASE old.track_inventory
    <3>1. M[p] = [old EXCEPT !.stock_quantity = moved]
      BY <2>5, <2>7
    <3>2. M[p] \in Product
      BY <2>1, <2>4, <3>1 DEF Product
    <3>3. /\ M[p].track_inventory = old.track_inventory /\ M[p].opening = old.opening
          /\ M[p].kept = old.kept /\ M[p].stock_quantity = moved
      BY <2>1, <3>1 DEF Product
    <3> QED BY <2>7, <3>2, <3>3 DEF old, moved
  <2>8. CASE ~old.track_inventory
    <3>1. M[p] = old
      BY <2>5, <2>8
    <3> QED BY <2>1, <2>8, <3>1 DEF old
  <2> QED BY <2>7, <2>8
<1>3. M \in [DOMAIN products -> Product]
  <2>1. M = [p \in DOMAIN products |-> M[p]]
    BY DEF Moved
  <2> HIDE DEF M
  <2> QED BY <1>2, <2>1
<1> HIDE DEF M
<1>4. \A p \in DOMAIN products :
        /\ M[p].track_inventory = products[p].track_inventory
        /\ M[p].opening = products[p].opening
        /\ M[p].kept = products[p].kept
        /\ products[p].track_inventory =>
             M[p].stock_quantity = products[p].stock_quantity + n * Sold(lines, p)
        /\ ~products[p].track_inventory =>
             M[p].stock_quantity = products[p].stock_quantity
  BY <1>2
<1> QED BY <1>1, <1>3, <1>4 DEF M

-----------------------------------------------------------------------------
\* The part of the invariant that is about products and their sales.
PosTyped ==
  /\ DOMAIN products \subseteq ProductIds
  /\ products \in [DOMAIN products -> Product]
  /\ pos_sales \in Seq(PosSale)

PosInv == PosTyped /\ ItemsNameProducts /\ StockExplained /\ OversoldOnlyByRepeatedLines

\* Each operation of the shop preserves it.
LEMMA CreateProductStep ==
  ASSUME IInv, NEW u \in Users, CreatePosProduct(u)
  PROVE  PosInv'
<1>1. PICK p \in ProductIds, n \in StockCounts, tracked \in BOOLEAN, active \in BOOLEAN :
        /\ NextId(p)
        /\ products' = [q \in DOMAIN products \cup {p} |->
             IF q = p
             THEN [stock_quantity |-> n, track_inventory |-> tracked, is_active |-> active,
                   opening |-> n, kept |-> TRUE]
             ELSE products[q]]
  BY DEF CreatePosProduct
<1> DEFINE entry == [stock_quantity |-> n, track_inventory |-> tracked, is_active |-> active,
                   opening |-> n, kept |-> TRUE]
<1>2. n \in Nat
  BY PosAssumption
<1>3. entry \in Product
  BY <1>2 DEF Product
<1>4. p \notin DOMAIN products
  <2>1. \A q \in DOMAIN products : q < p
    BY <1>1 DEF NextId
  <2> QED BY <2>1 DEF ProductIds
<1>5. ShopTypeOK /\ ItemsNameProducts /\ pos_sales' = pos_sales
  BY DEF IInv, CreatePosProduct
<1>6. /\ DOMAIN products' = DOMAIN products \cup {p}
      /\ products'[p] = entry
      /\ \A q \in DOMAIN products : products'[q] = products[q]
  BY <1>1, <1>4
<1>7. entry.stock_quantity = n /\ entry.opening = n /\ entry.track_inventory = tracked
  OBVIOUS
<1> HIDE DEF entry
<1>8. PosTyped'
  <2>1. \A q \in DOMAIN products : products[q] \in Product
    BY <1>5, RowsTyped
  <2>2. \A q \in DOMAIN products' : products'[q] \in Product
    BY <1>3, <1>6, <2>1
  <2>3. products' = [q \in DOMAIN products' |-> products'[q]]
    BY <1>1
  <2>4. products' \in [DOMAIN products' -> Product]
    BY <2>2, <2>3
  <2> QED BY <1>5, <1>6, <2>4 DEF PosTyped, ShopTypeOK
<1>9. ItemsNameProducts'
  BY <1>5, <1>6 DEF ItemsNameProducts
<1>10. ASSUME NEW q \in DOMAIN products'
       PROVE  Explained(q)'
  <2>1. Standing(q)' = Standing(q)
    BY <1>5 DEF Standing, Sold
  <2>2. CASE q = p
    <3>1. MayDelete(p)
      BY <1>4, <1>5 DEF MayDelete, ItemsNameProducts
    <3>2. Standing(q)' = 0
      BY <1>5, <2>1, <2>2, <3>1, RowsTyped, StandingNone
    <3> QED BY <1>2, <1>6, <1>7, <2>2, <3>2 DEF Explained, Taken
  <2>3. CASE q # p
    <3>1. q \in DOMAIN products /\ products'[q] = products[q]
      BY <1>6, <2>3
    <3> QED BY <2>1, <3>1 DEF Taken, IInv, StockExplained, Explained
  <2> QED BY <2>2, <2>3
<1>11. ASSUME NEW q \in DOMAIN products', products'[q].stock_quantity < 0
       PROVE  q \in DOMAIN products /\ products[q].stock_quantity < 0
  BY <1>2, <1>6, <1>7, <1>11
<1>12. StockExplained'
  BY <1>10 DEF StockExplained
<1>13. OversoldOnlyByRepeatedLines'
  BY <1>5, <1>11 DEF IInv, OversoldOnlyByRepeatedLines, RepeatedOnSomeSale
<1> QED BY <1>8, <1>9, <1>12, <1>13 DEF PosInv

LEMMA UpdateProductStep ==
  ASSUME IInv, NEW u \in Users, NEW p \in DOMAIN products, UpdatePosProduct(u, p)
  PROVE  PosInv'
<1>1. PICK n \in StockCounts \cup {products[p].stock_quantity},
           tracked \in BOOLEAN, active \in BOOLEAN :
        products' = [products EXCEPT ![p] =
          [stock_quantity |-> n, track_inventory |-> tracked, is_active |-> active,
           opening |-> n + Taken(p, tracked),
           kept |-> @.kept /\ tracked = @.track_inventory]]
  BY DEF UpdatePosProduct
<1> DEFINE opening == n + Taken(p, tracked)
           kept == products[p].kept /\ tracked = products[p].track_inventory
           entry == [stock_quantity |-> n, track_inventory |-> tracked, is_active |-> active,
                   opening |-> opening, kept |-> kept]
<1>2. ShopTypeOK /\ ItemsNameProducts /\ pos_sales' = pos_sales
  BY DEF IInv, UpdatePosProduct
<1>3. /\ \A q \in DOMAIN products : products[q] \in Product
      /\ products \in [DOMAIN products -> Product]
  BY <1>2, RowsTyped DEF ShopTypeOK
<1>4. n \in Int /\ (n < 0 => n = products[p].stock_quantity)
  <2>1. products[p] \in Product
    BY <1>3
  <2>2. products[p].stock_quantity \in Int
    BY <2>1 DEF Product
  <2>3. n \in Nat \/ n = products[p].stock_quantity
    BY PosAssumption
  <2> QED BY <2>2, <2>3
<1>5. Taken(p, tracked) \in Int
  BY <1>2, RowsTyped, StandingTyped DEF Taken
<1>6. opening \in Int /\ kept \in BOOLEAN
  BY <1>4, <1>5
<1>7. products' = [products EXCEPT ![p] = entry]
  BY <1>1
<1>8. /\ entry.stock_quantity = n /\ entry.track_inventory = tracked
      /\ entry.opening = opening
  OBVIOUS
<1>9. entry \in Product
  <2> HIDE DEF opening, kept
  <2> QED BY <1>4, <1>6 DEF Product
<1> HIDE DEF entry
<1>10. /\ DOMAIN products' = DOMAIN products
       /\ products'[p] = entry
       /\ \A q \in DOMAIN products : q # p => products'[q] = products[q]
       /\ products' \in [DOMAIN products -> Product]
  BY <1>3, <1>7, <1>9
<1>11. PosTyped'
  BY <1>2, <1>10 DEF PosTyped, ShopTypeOK
<1>12. ItemsNameProducts'
  BY <1>2, <1>10 DEF ItemsNameProducts
<1>13. ASSUME NEW q \in DOMAIN products' PROVE Explained(q)'
  <2>1. Standing(q)' = Standing(q)
    BY <1>2 DEF Standing, Sold
  <2>2. CASE q = p
    <3>1. Taken(p, tracked)' = Taken(p, tracked)
      BY <2>1, <2>2 DEF Taken
    <3>2. n = opening - Taken(p, tracked)
      BY <1>4, <1>5
    <3> HIDE DEF opening
    <3> QED BY <1>8, <1>10, <2>1, <2>2, <3>2 DEF Explained, Taken
  <2>3. CASE q # p
    <3>1. q \in DOMAIN products /\ products'[q] = products[q]
      BY <1>10, <2>3
    <3> QED BY <2>1, <3>1 DEF Taken, IInv, StockExplained, Explained
  <2> QED BY <2>2, <2>3
<1>14. ASSUME NEW q \in DOMAIN products', products'[q].stock_quantity < 0
       PROVE  q \in DOMAIN products /\ products[q].stock_quantity < 0
  BY <1>4, <1>8, <1>10, <1>14
<1>15. StockExplained'
  BY <1>13 DEF StockExplained
<1>16. OversoldOnlyByRepeatedLines'
  BY <1>2, <1>14 DEF IInv, OversoldOnlyByRepeatedLines, RepeatedOnSomeSale
<1> QED BY <1>11, <1>12, <1>15, <1>16 DEF PosInv

LEMMA DeleteProductStep ==
  ASSUME IInv, NEW u \in Users, NEW p \in DOMAIN products, DeletePosProduct(u, p)
  PROVE  PosInv'
<1>1. /\ ShopTypeOK /\ ItemsNameProducts /\ pos_sales' = pos_sales /\ MayDelete(p)
      /\ products' = [q \in DOMAIN products \ {p} |-> products[q]]
  BY DEF IInv, DeletePosProduct
<1>2. /\ DOMAIN products' = DOMAIN products \ {p}
      /\ \A q \in DOMAIN products' : products'[q] = products[q]
  BY <1>1
<1>3. PosTyped'
  <2>1. \A q \in DOMAIN products : products[q] \in Product
    BY <1>1, RowsTyped
  <2>2. products' \in [DOMAIN products' -> Product]
    BY <1>1, <1>2, <2>1
  <2> QED BY <1>1, <1>2, <2>2 DEF PosTyped, ShopTypeOK
<1>4. ItemsNameProducts'
  BY <1>1, <1>2 DEF ItemsNameProducts, MayDelete
<1>5. ASSUME NEW q \in DOMAIN products' PROVE Explained(q)'
  <2>1. Standing(q)' = Standing(q)
    BY <1>1 DEF Standing, Sold
  <2> QED BY <1>2, <2>1 DEF Taken, IInv, StockExplained, Explained
<1>6. StockExplained'
  BY <1>5 DEF StockExplained
<1>7. OversoldOnlyByRepeatedLines'
  BY <1>1, <1>2 DEF IInv, OversoldOnlyByRepeatedLines, RepeatedOnSomeSale
<1> QED BY <1>3, <1>4, <1>6, <1>7 DEF PosInv

LEMMA CreateSaleStep ==
  ASSUME IInv, NEW u \in Users, CreatePosSale(u)
  PROVE  PosInv'
<1>1. PICK m \in 1..MaxLines : \E ls \in [1..m -> Line] :
        /\ LinesAvailable(ls)
        /\ products' = Moved(ls, -1)
        /\ pos_sales' = Append(pos_sales, [lines |-> ls, is_reversed |-> FALSE])
  BY DEF CreatePosSale
<1>2. PICK lines \in [1..m -> Line] :
        /\ LinesAvailable(lines)
        /\ products' = Moved(lines, -1)
        /\ pos_sales' = Append(pos_sales, [lines |-> lines, is_reversed |-> FALSE])
  BY <1>1
<1>3. ShopTypeOK /\ ItemsNameProducts /\ pos_sales \in Seq(PosSale)
  BY RowsTyped DEF IInv
<1>4. lines \in Seq(Line) /\ m \in Nat
  BY PosAssumption
<1> DEFINE entry == [lines |-> lines, is_reversed |-> FALSE]
           last == Len(pos_sales) + 1
<1>5. entry \in PosSale /\ entry.lines = lines
  BY <1>4 DEF PosSale
<1> HIDE DEF entry
<1>6. /\ pos_sales' \in Seq(PosSale) /\ Len(pos_sales') = last
      /\ pos_sales'[last] = entry
      /\ \A i \in 1..Len(pos_sales) : pos_sales'[i] = pos_sales[i]
      /\ last \in 1..last
  BY <1>2, <1>3, <1>5 DEF entry
<1>7. /\ DOMAIN products' = DOMAIN products
      /\ products' \in [DOMAIN products -> Product]
  BY <1>2, <1>3, <1>4, MovedRows
<1>8. PosTyped'
  BY <1>3, <1>6, <1>7 DEF PosTyped, ShopTypeOK
<1>9. ItemsNameProducts'
  <2>1. ASSUME NEW i \in 1..Len(pos_sales'), NEW k \in 1..Len(pos_sales'[i].lines)
        PROVE  pos_sales'[i].lines[k].product \in DOMAIN products
    <3>1. CASE i = last
      BY <1>2, <1>5, <1>6, <2>1, <3>1 DEF LinesAvailable
    <3>2. CASE i # last
      BY <1>3, <1>6, <2>1, <3>2 DEF ItemsNameProducts
    <3> QED BY <3>1, <3>2
  <2> QED BY <1>7, <2>1 DEF ItemsNameProducts
<1>10. ASSUME NEW p \in DOMAIN products
       PROVE  /\ products[p].stock_quantity \in Int /\ products[p].track_inventory \in BOOLEAN
              /\ Sold(lines, p) \in Nat
              /\ products'[p].track_inventory = products[p].track_inventory
              /\ products'[p].opening = products[p].opening
              /\ products'[p].kept = products[p].kept
              /\ products[p].track_inventory => products'[p].stock_quantity =
                   products[p].stock_quantity - Sold(lines, p)
              /\ ~products[p].track_inventory =>
                   products'[p].stock_quantity = products[p].stock_quantity
  <2>1. products[p] \in Product
    BY <1>3, RowsTyped
  <2>2. products[p].stock_quantity \in Int /\ products[p].track_inventory \in BOOLEAN
    BY <2>1 DEF Product
  <2>3. Sold(lines, p) \in Nat
    BY <1>4, SoldTyped
  <2>4. (-1) * Sold(lines, p) = -Sold(lines, p)
    BY <2>3
  <2>5. /\ products'[p].track_inventory = products[p].track_inventory
        /\ products'[p].opening = products[p].opening
        /\ products'[p].kept = products[p].kept
        /\ products[p].track_inventory => products'[p].stock_quantity =
             products[p].stock_quantity + (-1) * Sold(lines, p)
        /\ ~products[p].track_inventory =>
             products'[p].stock_quantity = products[p].stock_quantity
    BY <1>2, <1>3, <1>4, MovedRows
  <2> QED BY <2>2, <2>3, <2>4, <2>5
<1>11. ASSUME NEW p \in DOMAIN products' PROVE Explained(p)'
  <2>1. p \in DOMAIN products
    BY <1>7
  <2>2. Standing(p)' = Standing(p) + Sold(lines, p) /\ Standing(p) \in Nat
    BY <1>2, <1>3, <1>4, StandingAppend, StandingTyped
  <2>3. products[p].opening \in Int
    <3>1. products[p] \in Product
      BY <1>3, <2>1, RowsTyped
    <3> QED BY <3>1 DEF Product
  <2>4. Explained(p)
    BY <2>1 DEF IInv, StockExplained
  <2>5. CASE products[p].track_inventory
    BY <1>10, <2>1, <2>2, <2>3, <2>4, <2>5 DEF Explained, Taken
  <2>6. CASE ~products[p].track_inventory
    BY <1>10, <2>1, <2>3, <2>4, <2>6 DEF Explained, Taken
  <2> QED BY <2>5, <2>6
<1>12. ASSUME NEW p \in DOMAIN products', products'[p].stock_quantity < 0
       PROVE  RepeatedOnSomeSale(p)'
  <2>1. p \in DOMAIN products
    BY <1>7
  <2>2. CASE products[p].stock_quantity < 0
    <3>1. RepeatedOnSomeSale(p)
      BY <2>1, <2>2 DEF IInv, OversoldOnlyByRepeatedLines
    <3> QED BY <1>6, <3>1 DEF RepeatedOnSomeSale
  <2>3. CASE ~(products[p].stock_quantity < 0)
    <3>1. products[p].track_inventory
      BY <1>10, <1>12, <2>1, <2>3
    <3>2. Sold(lines, p) # 0
      BY <1>10, <1>12, <2>1, <2>3
    <3>3. PICK j \in 1..Len(lines) : lines[j].product = p
      BY <1>4, <3>2, SoldNone
    <3>4. products[p].stock_quantity >= lines[j].quantity
      BY <1>2, <3>1, <3>3 DEF LinesAvailable
    <3>5. Sold(lines, p) # lines[j].quantity
      <4>1. lines[j] \in Line
        BY <1>4
      <4>2. lines[j].quantity \in Nat
        BY <4>1, PosAssumption DEF Line
      <4> QED BY <1>10, <1>12, <2>1, <3>1, <3>4, <4>2
    <3>6. PICK k \in 1..Len(lines) : lines[k].product = p /\ k # j
      BY <1>4, <3>3, <3>5, SoldOnce
    <3> QED BY <1>5, <1>6, <3>3, <3>6 DEF RepeatedOnSomeSale
  <2> QED BY <2>2, <2>3
<1>13. StockExplained'
  BY <1>11 DEF StockExplained
<1>14. OversoldOnlyByRepeatedLines'
  BY <1>12 DEF OversoldOnlyByRepeatedLines
<1> QED BY <1>8, <1>9, <1>13, <1>14 DEF PosInv

LEMMA ReverseSaleStep ==
  ASSUME IInv, NEW u \in Users, NEW i \in 1..Len(pos_sales), ReversePosSale(u, i)
  PROVE  PosInv'
<1> DEFINE lines == pos_sales[i].lines
           entry == [pos_sales[i] EXCEPT !.is_reversed = TRUE]
           new == [pos_sales EXCEPT ![i] = entry]
<1>1. /\ ~pos_sales[i].is_reversed
      /\ products' = Moved(lines, 1)
      /\ pos_sales' = [pos_sales EXCEPT ![i] = [@ EXCEPT !.is_reversed = TRUE]]
  BY DEF ReversePosSale, MayReversePosSale
<1>2. ShopTypeOK /\ ItemsNameProducts /\ pos_sales \in Seq(PosSale)
  BY RowsTyped DEF IInv
<1>3. pos_sales[i] \in PosSale /\ lines \in Seq(Line)
  BY <1>2, RowsTyped
<1>4. entry \in PosSale /\ entry.lines = lines
  BY <1>3 DEF PosSale
<1>5. pos_sales' = new
  BY <1>1
<1> HIDE DEF entry
<1>6. /\ new \in Seq(PosSale) /\ Len(new) = Len(pos_sales) /\ new[i] = entry
      /\ \A k \in 1..Len(pos_sales) : k # i => new[k] = pos_sales[k]
  BY <1>2, <1>4, ReplaceSale
<1> HIDE DEF new
<1>7. /\ pos_sales' \in Seq(PosSale) /\ Len(pos_sales') = Len(pos_sales)
      /\ \A k \in 1..Len(pos_sales) : pos_sales'[k].lines = pos_sales[k].lines
  BY <1>4, <1>5, <1>6
<1>8. /\ DOMAIN products' = DOMAIN products
      /\ products' \in [DOMAIN products -> Product]
  BY <1>1, <1>2, <1>3, MovedRows
<1>9. PosTyped'
  BY <1>2, <1>7, <1>8 DEF PosTyped, ShopTypeOK
<1>10. ItemsNameProducts'
  BY <1>2, <1>7, <1>8 DEF ItemsNameProducts
<1>11. ASSUME NEW p \in DOMAIN products
       PROVE  /\ products[p].stock_quantity \in Int /\ products[p].track_inventory \in BOOLEAN
              /\ Sold(lines, p) \in Nat
              /\ products'[p].track_inventory = products[p].track_inventory
              /\ products'[p].opening = products[p].opening
              /\ products'[p].kept = products[p].kept
              /\ products[p].track_inventory => products'[p].stock_quantity =
                   products[p].stock_quantity + Sold(lines, p)
              /\ ~products[p].track_inventory =>
                   products'[p].stock_quantity = products[p].stock_quantity
  <2>1. products[p] \in Product
    BY <1>2, RowsTyped
  <2>2. products[p].stock_quantity \in Int /\ products[p].track_inventory \in BOOLEAN
    BY <2>1 DEF Product
  <2>3. Sold(lines, p) \in Nat
    BY <1>3, SoldTyped
  <2>4. 1 * Sold(lines, p) = Sold(lines, p)
    BY <2>3
  <2> HIDE DEF lines
  <2>5. /\ products'[p].track_inventory = products[p].track_inventory
        /\ products'[p].opening = products[p].opening
        /\ products'[p].kept = products[p].kept
        /\ products[p].track_inventory => products'[p].stock_quantity =
             products[p].stock_quantity + 1 * Sold(lines, p)
        /\ ~products[p].track_inventory =>
             products'[p].stock_quantity = products[p].stock_quantity
    BY <1>1, <1>2, <1>3, MovedRows
  <2> QED BY <2>2, <2>3, <2>4, <2>5
<1>12. ASSUME NEW p \in DOMAIN products' PROVE Explained(p)'
  <2>1. p \in DOMAIN products
    BY <1>8
  <2>2. Standing(p)' = Standing(p) - Sold(lines, p) /\ Standing(p) \in Nat
    BY <1>1, <1>2, StandingReversed, StandingTyped
  <2>3. products[p].opening \in Int
    <3>1. products[p] \in Product
      BY <1>2, <2>1, RowsTyped
    <3> QED BY <3>1 DEF Product
  <2>4. Explained(p)
    BY <2>1 DEF IInv, StockExplained
  <2> HIDE DEF lines
  <2>5. CASE products[p].track_inventory
    BY <1>11, <2>1, <2>2, <2>3, <2>4, <2>5 DEF Explained, Taken
  <2>6. CASE ~products[p].track_inventory
    BY <1>11, <2>1, <2>3, <2>4, <2>6 DEF Explained, Taken
  <2> QED BY <2>5, <2>6
<1>13. ASSUME NEW p \in DOMAIN products', products'[p].stock_quantity < 0
       PROVE  RepeatedOnSomeSale(p)'
  <2>1. p \in DOMAIN products /\ products[p].stock_quantity < 0
    BY <1>8, <1>11, <1>13
  <2>2. RepeatedOnSomeSale(p)
    BY <2>1 DEF IInv, OversoldOnlyByRepeatedLines
  <2> QED BY <1>7, <2>2 DEF RepeatedOnSomeSale
<1>14. StockExplained'
  BY <1>12 DEF StockExplained
<1>15. OversoldOnlyByRepeatedLines'
  BY <1>13 DEF OversoldOnlyByRepeatedLines
<1> QED BY <1>9, <1>10, <1>14, <1>15 DEF PosInv

-----------------------------------------------------------------------------
\* Each operation on expenses preserves it.
LEMMA ExpensesStep ==
  ASSUME ExpensesTyped, ExpensesNext
  PROVE  ExpensesTyped'
<1>1. \A e \in DOMAIN expenses : expenses[e] \in SoundExpense
  BY DEF ExpensesTyped
<1>2. ASSUME NEW u \in Users, CreateExpense(u) PROVE ExpensesTyped'
  <2>1. PICK e \in ExpenseIds, a \in ExpenseAmounts :
          expenses' = [d \in DOMAIN expenses \cup {e} |->
            IF d # e THEN expenses[d]
            ELSE [amount |-> a, submitted_by_user_id |-> u,
                  status |-> IF u \in Administrators THEN "approved" ELSE "pending",
                  approved_by_user_id |-> IF u \in Administrators THEN u ELSE Nobody]]
    BY <1>2 DEF CreateExpense
  <2> DEFINE entry == [amount |-> a, submitted_by_user_id |-> u,
                     status |-> IF u \in Administrators THEN "approved" ELSE "pending",
                     approved_by_user_id |-> IF u \in Administrators THEN u ELSE Nobody]
  <2>2. entry \in SoundExpense
    BY <1>2 DEF Expense, SoundExpense, CreateExpense
  <2> HIDE DEF entry
  <2>3. expenses' = [d \in DOMAIN expenses \cup {e} |-> IF d # e THEN expenses[d] ELSE entry]
    BY <2>1 DEF entry
  <2> QED BY <1>1, <2>2, <2>3 DEF ExpensesTyped
<1>3. ASSUME NEW e \in DOMAIN expenses, NEW entry \in SoundExpense,
             expenses' = [expenses EXCEPT ![e] = entry]
      PROVE  ExpensesTyped'
  BY <1>3 DEF ExpensesTyped
<1>4. ASSUME NEW u \in Users, NEW e \in DOMAIN expenses, UpdateExpense(u, e)
      PROVE  ExpensesTyped'
  <2>1. PICK a \in ExpenseAmounts :
          expenses' = [expenses EXCEPT ![e] = [expenses[e] EXCEPT !.amount = a]]
    BY <1>4 DEF UpdateExpense
  <2>2. [expenses[e] EXCEPT !.amount = a] \in SoundExpense
    BY <1>1 DEF Expense, SoundExpense
  <2> QED BY <1>3, <2>1, <2>2
<1>5. ASSUME NEW u \in Users, NEW e \in DOMAIN expenses, DeleteExpense(u, e)
      PROVE  ExpensesTyped'
  BY <1>1, <1>5 DEF DeleteExpense, ExpensesTyped
<1>6. ASSUME NEW u \in Users, NEW e \in DOMAIN expenses, ApproveExpense(u, e)
      PROVE  ExpensesTyped'
  <2>1. expenses' = [expenses EXCEPT ![e] =
          [expenses[e] EXCEPT !.status = "approved", !.approved_by_user_id = u]]
    BY <1>6 DEF ApproveExpense
  <2>2. [expenses[e] EXCEPT !.status = "approved", !.approved_by_user_id = u] \in SoundExpense
    BY <1>1 DEF Expense, SoundExpense
  <2> QED BY <1>3, <2>1, <2>2
<1>7. ASSUME NEW u \in Users, NEW e \in DOMAIN expenses, RejectExpense(u, e)
      PROVE  ExpensesTyped'
  <2>1. expenses' = [expenses EXCEPT ![e] =
          [expenses[e] EXCEPT !.status = "rejected", !.approved_by_user_id = Nobody]]
    BY <1>7 DEF RejectExpense
  <2>2. [expenses[e] EXCEPT !.status = "rejected", !.approved_by_user_id = Nobody] \in SoundExpense
    BY <1>1 DEF Expense, SoundExpense
  <2> QED BY <1>3, <2>1, <2>2
<1> QED BY <1>2, <1>4, <1>5, <1>6, <1>7 DEF ExpensesNext

-----------------------------------------------------------------------------
\* The two parts make up the type invariant.
LEMMA TypesTogether ==
  /\ PosTyped /\ ExpensesTyped => ShopTypeOK
  /\ PosTyped' /\ ExpensesTyped' => ShopTypeOK'
<1>1. SoundExpense \subseteq Expense
  BY DEF SoundExpense
<1> QED BY <1>1 DEF PosTyped, ExpensesTyped, ShopTypeOK

LEMMA InvInit == ShopInit => IInv
<1> SUFFICES ASSUME ShopInit PROVE IInv
  OBVIOUS
<1>1. products = << >> /\ pos_sales = << >> /\ expenses = << >>
  BY DEF ShopInit, PosInit, ExpensesInit
<1>2. DOMAIN products = {} /\ DOMAIN expenses = {} /\ Len(pos_sales) = 0
  BY <1>1
<1>3. /\ products \in [DOMAIN products -> Product]
      /\ expenses \in [DOMAIN expenses -> SoundExpense]
  <2>1. << >> = [x \in {} |-> x]
    OBVIOUS
  <2> QED BY <1>1, <1>2, <2>1
<1>4. pos_sales \in Seq(PosSale)
  BY <1>1
<1>5. ExpensesTyped
  BY <1>2, <1>3 DEF ExpensesTyped
<1>6. ShopTypeOK
  <2>1. PosTyped
    BY <1>2, <1>3, <1>4 DEF PosTyped
  <2> QED BY <1>5, <2>1, TypesTogether
<1> QED BY <1>2, <1>5, <1>6 DEF IInv, ItemsNameProducts, StockExplained, OversoldOnlyByRepeatedLines

LEMMA InvStep == IInv /\ [ShopNext]_shopVars => IInv'
<1> SUFFICES ASSUME IInv, [ShopNext]_shopVars PROVE IInv'
  OBVIOUS
<1>1. ASSUME PosNext, UNCHANGED expenses PROVE IInv'
  <2>1. PosInv'
    BY <1>1, CreateProductStep, UpdateProductStep, DeleteProductStep, CreateSaleStep,
       ReverseSaleStep DEF PosNext
  <2>2. ExpensesTyped'
    BY <1>1 DEF IInv, ExpensesTyped
  <2> QED BY <2>1, <2>2, TypesTogether DEF IInv, PosInv
<1>2. ASSUME UNCHANGED posVars PROVE PosInv'
  BY <1>2 DEF posVars, IInv, PosInv, PosTyped, ShopTypeOK, ItemsNameProducts, StockExplained,
       OversoldOnlyByRepeatedLines, Explained, RepeatedOnSomeSale, Taken, Standing, Sold
<1>3. ASSUME ExpensesNext, UNCHANGED posVars PROVE IInv'
  <2>1. ExpensesTyped'
    BY <1>3, ExpensesStep DEF IInv
  <2>2. PosInv'
    BY <1>2, <1>3
  <2> QED BY <2>1, <2>2, TypesTogether DEF IInv, PosInv
<1>4. ASSUME UNCHANGED shopVars PROVE IInv'
  <2>1. ExpensesTyped' /\ UNCHANGED posVars
    BY <1>4 DEF IInv, ExpensesTyped, shopVars, posVars
  <2>2. PosInv'
    BY <1>2, <2>1
  <2> QED BY <2>1, <2>2, TypesTogether DEF IInv, PosInv
<1> QED BY <1>1, <1>3, <1>4 DEF ShopNext

\* The invariant holds in every shop.
THEOREM ShopInvariant == ShopSpec => []IInv
BY InvInit, InvStep, PTL DEF ShopSpec

\* The stock of every product whose tracking was never switched is explained by
\* the sales that stand, however many products, sales and lines there are.
THEOREM StockIsExplained == ShopSpec => []StockExplained
<1>1. IInv => StockExplained
  BY DEF IInv
<1> QED BY <1>1, ShopInvariant, PTL

\* Only a product that one sale names on two lines is ever oversold.
THEOREM OversoldByRepetition == ShopSpec => []OversoldOnlyByRepeatedLines
<1>1. IInv => OversoldOnlyByRepeatedLines
  BY DEF IInv
<1> QED BY <1>1, ShopInvariant, PTL

-----------------------------------------------------------------------------
\* The refinement: every request about an expense is a step of the protocol.

Docs == [e \in ExpenseIds |-> Document(e)]

\* A request changes the document of one expense.
LEMMA OneDocument ==
  ASSUME NEW e \in ExpenseIds, \A d \in ExpenseIds \ {e} : Document(d)' = Document(d)
  PROVE  Docs' = [Docs EXCEPT ![e] = Document(e)']
BY DEF Docs

\* The document of an expense that is entered, and of one that is not.
LEMMA DocumentOf ==
  ASSUME ExpensesTyped, NEW e \in ExpenseIds
  PROVE  /\ Docs[e] = Document(e)
         /\ e \notin DOMAIN expenses => Docs[e] = Approval!Unused
         /\ e \in DOMAIN expenses =>
              /\ expenses[e] \in SoundExpense /\ expenses[e] \in Expense
              /\ Docs[e] = [state |-> StateOf[expenses[e].status], amount |-> expenses[e].amount,
                            by |-> expenses[e].submitted_by_user_id,
                            decider |-> expenses[e].approved_by_user_id]
              /\ expenses[e].status = "pending"  => Docs[e].state = "submitted"
              /\ expenses[e].status = "approved" => Docs[e].state = "accepted"
              /\ expenses[e].status = "rejected" => Docs[e].state = "refused"
BY DEF ExpensesTyped, SoundExpense, Docs, Document, StateOf, Approval!Unused

LEMMA CreateIsSubmit ==
  ASSUME ExpensesTyped, NEW u \in Users, CreateExpense(u)
  PROVE  \E d \in ExpenseIds, a \in ExpenseAmounts : Approval!Submit(d, u, a)
<1>1. PICK e \in ExpenseIds, a \in ExpenseAmounts :
        /\ NextExpenseId(e)
        /\ expenses' = [d \in DOMAIN expenses \cup {e} |->
             IF d # e THEN expenses[d]
             ELSE [amount |-> a, submitted_by_user_id |-> u,
                   status |-> IF u \in Administrators THEN "approved" ELSE "pending",
                   approved_by_user_id |-> IF u \in Administrators THEN u ELSE Nobody]]
  BY DEF CreateExpense
<1>2. e \notin DOMAIN expenses
  <2>1. \A d \in DOMAIN expenses : d < e
    BY <1>1 DEF NextExpenseId
  <2> QED BY <2>1 DEF ExpenseIds
<1>3. Docs[e] = Approval!Unused
  BY <1>2, DocumentOf
<1>4. /\ e \in DOMAIN expenses'
      /\ expenses'[e] = [amount |-> a, submitted_by_user_id |-> u,
            status |-> IF u \in Administrators THEN "approved" ELSE "pending",
            approved_by_user_id |-> IF u \in Administrators THEN u ELSE Nobody]
      /\ \A d \in ExpenseIds \ {e} :
           /\ d \in DOMAIN expenses' <=> d \in DOMAIN expenses
           /\ d \in DOMAIN expenses => expenses'[d] = expenses[d]
  BY <1>1
<1>5. Docs' = [Docs EXCEPT ![e] = Document(e)']
  BY <1>4, OneDocument DEF Document
<1>6. CASE u \in Administrators
  <2>1. Document(e)' = [state |-> "accepted", amount |-> a, by |-> u, decider |-> u]
    BY <1>4, <1>6 DEF Document, StateOf
  <2> QED BY <1>3, <1>5, <1>6, <2>1 DEF Approval!Submit, Docs
<1>7. CASE u \notin Administrators
  <2>1. Document(e)' = [state |-> "submitted", amount |-> a, by |-> u, decider |-> Nobody]
    BY <1>4, <1>7 DEF Document, StateOf
  <2> QED BY <1>3, <1>5, <2>1 DEF Approval!Submit, Docs
<1> QED BY <1>6, <1>7

LEMMA UpdateIsAmend ==
  ASSUME ExpensesTyped, NEW u \in Users, NEW e \in DOMAIN expenses, UpdateExpense(u, e)
  PROVE  \E a \in ExpenseAmounts : Approval!Amend(e, a)
<1>1. PICK a \in ExpenseAmounts :
        expenses' = [expenses EXCEPT ![e] = [expenses[e] EXCEPT !.amount = a]]
  BY DEF UpdateExpense
<1>2. e \in ExpenseIds /\ expenses[e] \in Expense
  BY DEF ExpensesTyped, SoundExpense
<1>3. Docs[e].state = "submitted"
  BY <1>2, DocumentOf DEF UpdateExpense, MayChange
<1>4. /\ DOMAIN expenses' = DOMAIN expenses
      /\ expenses'[e] = [expenses[e] EXCEPT !.amount = a]
      /\ \A d \in DOMAIN expenses \ {e} : expenses'[d] = expenses[d]
  BY <1>1
<1>5. Docs' = [Docs EXCEPT ![e] = Document(e)']
  BY <1>2, <1>4, OneDocument DEF Document
<1>6. Document(e)' = [Docs[e] EXCEPT !.amount = a]
  <2>1. /\ expenses'[e].amount = a
        /\ expenses'[e].status = expenses[e].status
        /\ expenses'[e].submitted_by_user_id = expenses[e].submitted_by_user_id
        /\ expenses'[e].approved_by_user_id = expenses[e].approved_by_user_id
    BY <1>2, <1>4 DEF Expense
  <2>2. Document(e)' = [state |-> StateOf[expenses[e].status], amount |-> a,
                        by |-> expenses[e].submitted_by_user_id,
                        decider |-> expenses[e].approved_by_user_id]
    BY <1>4, <2>1 DEF Document
  <2>3. Docs[e] = [state |-> StateOf[expenses[e].status], amount |-> expenses[e].amount,
                   by |-> expenses[e].submitted_by_user_id,
                   decider |-> expenses[e].approved_by_user_id]
    BY <1>2, DocumentOf
  <2> QED BY <2>2, <2>3
<1>7. Docs' = [Docs EXCEPT ![e].amount = a]
  BY <1>5, <1>6
<1> QED BY <1>3, <1>7 DEF Approval!Amend, Docs

LEMMA DeleteIsWithdraw ==
  ASSUME ExpensesTyped, NEW u \in Users, NEW e \in DOMAIN expenses, DeleteExpense(u, e)
  PROVE  Approval!Withdraw(e)
<1>1. e \in ExpenseIds /\ expenses[e] \in Expense
  BY DEF ExpensesTyped, SoundExpense
<1>2. Docs[e].state = "submitted"
  BY <1>1, DocumentOf DEF DeleteExpense, MayChange
<1>3. /\ DOMAIN expenses' = DOMAIN expenses \ {e}
      /\ \A d \in DOMAIN expenses \ {e} : expenses'[d] = expenses[d]
  BY DEF DeleteExpense
<1>4. Docs' = [Docs EXCEPT ![e] = Document(e)']
  BY <1>1, <1>3, OneDocument DEF Document
<1>5. Document(e)' = Approval!Unused
  BY <1>3 DEF Document, Approval!Unused
<1> QED BY <1>2, <1>4, <1>5 DEF Approval!Withdraw, Docs

\* A decision changes the status and the approver of one expense.
LEMMA DecisionOnDocument ==
  ASSUME ExpensesTyped, NEW e \in DOMAIN expenses, NEW s \in {"approved", "rejected"},
         NEW d \in Users \cup {Nobody},
         expenses' = [expenses EXCEPT ![e] =
           [expenses[e] EXCEPT !.status = s, !.approved_by_user_id = d]]
  PROVE  Docs' = [Docs EXCEPT ![e] = Approval!Decided(Docs[e], StateOf[s], d)]
<1>1. e \in ExpenseIds /\ expenses[e] \in Expense
  BY DEF ExpensesTyped, SoundExpense
<1>2. /\ DOMAIN expenses' = DOMAIN expenses
      /\ expenses'[e] = [expenses[e] EXCEPT !.status = s, !.approved_by_user_id = d]
      /\ \A x \in DOMAIN expenses \ {e} : expenses'[x] = expenses[x]
  OBVIOUS
<1>3. Docs' = [Docs EXCEPT ![e] = Document(e)']
  BY <1>1, <1>2, OneDocument DEF Document
<1>4. /\ expenses'[e].status = s /\ expenses'[e].approved_by_user_id = d
      /\ expenses'[e].amount = expenses[e].amount
      /\ expenses'[e].submitted_by_user_id = expenses[e].submitted_by_user_id
  BY <1>1, <1>2 DEF Expense
<1>5. Document(e)' = [state |-> StateOf[s], amount |-> expenses[e].amount,
                      by |-> expenses[e].submitted_by_user_id, decider |-> d]
  BY <1>2, <1>4 DEF Document
<1>6. Docs[e] = [state |-> StateOf[expenses[e].status], amount |-> expenses[e].amount,
                 by |-> expenses[e].submitted_by_user_id,
                 decider |-> expenses[e].approved_by_user_id]
  BY <1>1, DocumentOf
<1>7. Document(e)' = Approval!Decided(Docs[e], StateOf[s], d)
  BY <1>5, <1>6 DEF Approval!Decided
<1> QED BY <1>3, <1>7

\* The reviewers who did not submit an expense may decide it, and administrators
\* all: what the permission matrix grants keeps submitters and reviewers apart.
LEMMA DecidersApart ==
  ASSUME NEW u \in Reviewers, u \notin Administrators
  PROVE  u \notin ExpenseStaff
BY RolesAssumption DEF Reviewers, Administrators, ExpenseStaff, WithRole

LEMMA ApproveIsAccept ==
  ASSUME ExpensesTyped, NEW u \in Users, NEW e \in DOMAIN expenses, ApproveExpense(u, e)
  PROVE  u \in Reviewers /\ Approval!Accept(e, u)
<1>1. u \in Reviewers /\ expenses[e].status # "approved" /\ e \in ExpenseIds
  BY DEF ApproveExpense, MayDecide, ExpensesTyped
<1>2. Docs' = [Docs EXCEPT ![e] = Approval!Decided(Docs[e], "accepted", u)]
  <2>1. expenses' = [expenses EXCEPT ![e] =
          [expenses[e] EXCEPT !.status = "approved", !.approved_by_user_id = u]]
    BY DEF ApproveExpense
  <2>2. StateOf["approved"] = "accepted"
    BY DEF StateOf
  <2> QED BY <2>1, <2>2, DecisionOnDocument
<1>3. Docs[e].state \in {"submitted", "refused"}
  <2>1. expenses[e].status \in {"pending", "rejected"}
    <3>1. expenses[e] \in Expense
      BY <1>1, DocumentOf
    <3> QED BY <1>1, <3>1 DEF Expense
  <2> QED BY <1>1, <2>1, DocumentOf
<1>4. u \in Administrators \/ u # Docs[e].by
  <2>1. Docs[e].by = expenses[e].submitted_by_user_id
    <3>1. Docs[e] = [state |-> StateOf[expenses[e].status], amount |-> expenses[e].amount,
                     by |-> expenses[e].submitted_by_user_id,
                     decider |-> expenses[e].approved_by_user_id]
      BY <1>1, DocumentOf
    <3> QED BY <3>1
  <2>2. expenses[e].submitted_by_user_id \in ExpenseStaff
    BY DEF ExpensesTyped, SoundExpense
  <2> QED BY <1>1, <2>1, <2>2, DecidersApart
<1> QED BY <1>1, <1>2, <1>3, <1>4 DEF Approval!Accept, Docs

\* Rejecting an expense that was rejected before changes nothing.
LEMMA RejectIsRefuse ==
  ASSUME ExpensesTyped, NEW u \in Users, NEW e \in DOMAIN expenses, RejectExpense(u, e)
  PROVE  Approval!Refuse(e) \/ Docs' = Docs
<1>1. expenses[e].status # "approved" /\ e \in ExpenseIds
  BY DEF RejectExpense, MayDecide, ExpensesTyped
<1>2. Docs' = [Docs EXCEPT ![e] = Approval!Decided(Docs[e], "refused", Nobody)]
  <2>1. expenses' = [expenses EXCEPT ![e] =
          [expenses[e] EXCEPT !.status = "rejected", !.approved_by_user_id = Nobody]]
    BY DEF RejectExpense
  <2>2. StateOf["rejected"] = "refused"
    BY DEF StateOf
  <2> QED BY <2>1, <2>2, DecisionOnDocument
<1>3. CASE expenses[e].status = "pending"
  <2>1. Docs[e].state = "submitted"
    BY <1>1, <1>3, DocumentOf
  <2> QED BY <1>2, <2>1 DEF Approval!Refuse, Docs
<1>4. CASE expenses[e].status = "rejected"
  <2>1. expenses[e].approved_by_user_id = Nobody
    BY <1>4 DEF ExpensesTyped, SoundExpense
  <2>2. Docs[e] = [state |-> "refused", amount |-> expenses[e].amount,
                   by |-> expenses[e].submitted_by_user_id, decider |-> Nobody]
    BY <1>1, <1>4, <2>1, DocumentOf DEF StateOf
  <2>3. Approval!Decided(Docs[e], "refused", Nobody) = Docs[e]
    BY <2>2 DEF Approval!Decided
  <2> QED BY <1>2, <2>3 DEF Docs
<1>5. expenses[e].status \in {"pending", "rejected"}
  <2>1. expenses[e] \in Expense
    BY <1>1, DocumentOf
  <2> QED BY <1>1, <2>1 DEF Expense
<1> QED BY <1>3, <1>4, <1>5

LEMMA ExpensesRefine ==
  ASSUME ExpensesTyped, [ShopNext]_shopVars
  PROVE  [Approval!ApprovalNext]_Docs
<1>1. ASSUME UNCHANGED expenses PROVE Docs' = Docs
  BY <1>1 DEF Docs, Document
<1>2. ASSUME ExpensesNext PROVE Approval!ApprovalNext \/ Docs' = Docs
  <2>1. ASSUME NEW u \in Users, CreateExpense(u) PROVE Approval!ApprovalNext
    <3>1. u \in ExpenseStaff
      BY <2>1 DEF CreateExpense
    <3> QED BY <2>1, <3>1, CreateIsSubmit DEF Approval!ApprovalNext
  <2>2. ASSUME NEW u \in Users, NEW e \in DOMAIN expenses,
               \/ UpdateExpense(u, e) \/ DeleteExpense(u, e)
               \/ ApproveExpense(u, e) \/ RejectExpense(u, e)
        PROVE  Approval!ApprovalNext \/ Docs' = Docs
    <3>1. e \in ExpenseIds
      BY DEF ExpensesTyped
    <3>2. CASE UpdateExpense(u, e)
      BY <3>1, <3>2, UpdateIsAmend DEF Approval!ApprovalNext
    <3>3. CASE DeleteExpense(u, e)
      BY <3>1, <3>3, DeleteIsWithdraw DEF Approval!ApprovalNext
    <3>4. CASE ApproveExpense(u, e)
      BY <3>1, <3>4, ApproveIsAccept DEF Approval!ApprovalNext
    <3>5. CASE RejectExpense(u, e)
      BY <3>1, <3>5, RejectIsRefuse DEF Approval!ApprovalNext
    <3> QED BY <2>2, <3>2, <3>3, <3>4, <3>5
  <2> QED BY <1>2, <2>1, <2>2 DEF ExpensesNext
<1> QED BY <1>1, <1>2 DEF ShopNext, shopVars

\* Expenses implement the approval protocol: an approved expense was approved by an
\* administrator or by another than its submitter, and stays as it is.
THEOREM ExpensesAreApproved == ShopSpec => ExpensesFollowApproval
<1>1. ShopInit => Approval!ApprovalInit
  <2> SUFFICES ASSUME ShopInit PROVE Approval!ApprovalInit
    OBVIOUS
  <2>1. \A e \in ExpenseIds : Document(e) = Approval!Unused
    BY DEF ShopInit, ExpensesInit, Document, Approval!Unused
  <2> QED BY <2>1 DEF Approval!ApprovalInit
<1>2. IInv /\ [ShopNext]_shopVars => [Approval!ApprovalNext]_Docs
  BY ExpensesRefine DEF IInv
<1> QED BY <1>1, <1>2, ShopInvariant, PTL
     DEF ShopSpec, ExpensesFollowApproval, Approval!ApprovalSpec, Docs

-----------------------------------------------------------------------------
(***************************************************************************)
(* Deliveries.                                                             *)
(***************************************************************************)

\* No session has, or has called for, a row twice, and an answer is about a row.
SessionsKept ==
  \A p \in Processes :
    /\ session[p].left \cap session[p].done = {}
    /\ session[p].answer # "none" => session[p].left # {}
    /\ session[p].kind = "idle" => session[p].left = {} /\ session[p].done = {}

\* What a session is about to commit as sent was accepted, too.
AcceptedKept ==
  \A p \in Processes :
    /\ \A i \in Items : session[p].view[i].status = "sent" => accepted[i] > 0
    /\ session[p].answer = "sent" => accepted[AtHand(p)] > 0

Unsettled == {"none", "queued", "retrying"}

\* A session that has a row found it to be attempted, or to be retried, and nobody
\* has attempted it since.
StillAsSelected(p, i) ==
  /\ session[p].base[i].status = row[i].status
  /\ session[p].base[i].attempts = row[i].attempts
  /\ IF session[p].kind = "retry" THEN row[i].status \in {"failed", "retrying"}
                                  ELSE row[i].status \in Unsettled

\* What is flushed of a row is one more attempt.
OneMoreAttempt(p, i) ==
  LET view == session[p].view[i] IN
  /\ view.attempts = row[i].attempts + 1
  /\ view.status \in {"retrying"} \cup Results
  /\ view.status = "retrying" => view.attempts < MAX_DELIVERY_ATTEMPTS

Once(sent) == IF sent THEN 1 ELSE 0

\* What a session that may have the row knows of it.
Attempting(p, i) ==
  /\ i \in Held(p) => StillAsSelected(p, i)
  /\ i \in session[p].left => session[p].view[i].attempts = row[i].attempts
  /\ i \in session[p].done =>
       OneMoreAttempt(p, i) /\ accepted[i] = Once(session[p].view[i].status = "sent")
  /\ session[p].answer # "none" /\ i = AtHand(p) =>
       accepted[i] = Once(session[p].answer = "sent")
  /\ i \in Called(p) => calls[i] <= row[i].attempts + 1

\* A row that no two sessions had and no session lost: who has it, what was
\* accepted of it, and how often it was called for.
Undisturbed(i) ==
  /\ \A p, q \in Processes : p # q => ~(i \in Held(p) /\ i \in Held(q))
  /\ \A p \in Processes : Attempting(p, i)
  /\ (\A p \in Processes : i \notin Called(p)) =>
       accepted[i] = Once(row[i].status = "sent") /\ calls[i] <= row[i].attempts
  /\ row[i].status \in Unsettled => row[i].attempts < MAX_DELIVERY_ATTEMPTS
  /\ calls[i] <= MAX_DELIVERY_ATTEMPTS

DeliveryInv ==
  /\ TypeOK /\ SessionsKept /\ AcceptedKept /\ SentWasAccepted
  /\ \A i \in Items \ disturbed : Undisturbed(i)

USE DeliveryAssumption

-----------------------------------------------------------------------------
LEMMA LeastChosen ==
  ASSUME NEW T \in SUBSET Nat, T # {}
  PROVE  (CHOOSE i \in T : \A j \in T : i <= j) \in T
BY LeastElement

\* The row at hand is one of those left, and the rows that a session called for
\* are among those it has.
LEMMA AtHandIsLeft ==
  ASSUME TypeOK, SessionsKept, NEW p \in Processes
  PROVE  /\ session[p] \in Session /\ session[p].left \subseteq Items
         /\ session[p].left # {} => AtHand(p) \in session[p].left
         /\ Called(p) \subseteq Held(p)
<1>1. session[p] \in Session /\ session[p].left \subseteq Items
  BY DEF TypeOK, Session
<1>2. session[p].left # {} => AtHand(p) \in session[p].left
  <2>1. session[p].left \subseteq Nat
    BY <1>1 DEF Items
  <2> QED BY <2>1, LeastChosen DEF AtHand
<1>3. Called(p) \subseteq Held(p)
  BY <1>2 DEF SessionsKept, Called, Held
<1> QED BY <1>1, <1>2, <1>3

LEMMA DeliveryRowsTyped ==
  /\ Absent \in Row /\ Queued \in Row /\ NoRows \in [Items -> Row] /\ Idle \in Session
  /\ Absent.status = "none" /\ Queued.status = "queued"
  /\ Absent.attempts = 0 /\ Queued.attempts = 0
<1>1. Absent \in Row /\ Queued \in Row
  BY DEF Absent, Queued, Row, Results
<1>2. NoRows \in [Items -> Row]
  BY <1>1 DEF NoRows
<1>3. Idle \in Session
  BY <1>2 DEF Idle, Session, Kinds
<1> QED BY <1>1, <1>2, <1>3 DEF Absent, Queued

\* A session that opens on rows it may attempt knows them as they are.
LEMMA OpenKeeps ==
  ASSUME DeliveryInv, NEW p \in Processes, NEW kind \in Kinds \ {"idle"},
         NEW batch \in SUBSET Items, NEW view \in [Items -> Row],
         Open(p, kind, batch, view),
         \A i \in Items : view[i].status # "sent",
         \A i \in batch :
           /\ view[i].attempts = row[i].attempts
           /\ IF kind = "retry" THEN row[i].status \in {"failed", "retrying"}
                                ELSE row[i].status \in Unsettled
  PROVE  /\ session' \in [Processes -> Session]
         /\ SessionsKept' /\ AcceptedKept' /\ SentWasAccepted'
         /\ \A i \in Items \ disturbed' : Undisturbed(i)'
<1>0. /\ TypeOK /\ SessionsKept /\ AcceptedKept /\ SentWasAccepted
      /\ row \in [Items -> Row] /\ session \in [Processes -> Session]
  BY DEF DeliveryInv, TypeOK
<1> DEFINE base == [i \in Items |-> IF i \in batch THEN row[i] ELSE Absent]
           new  == [kind |-> kind, left |-> batch, done |-> {}, answer |-> "none",
                    base |-> base, view |-> view]
<1>1. base \in [Items -> Row] /\ \A i \in batch : base[i] = row[i]
  BY <1>0, DeliveryRowsTyped
<1>2. session' = [session EXCEPT ![p] = new]
  BY DEF Open
<1>3. new \in Session
  BY <1>1 DEF Session, Kinds
<1>4. /\ new.kind = kind /\ new.left = batch /\ new.done = {} /\ new.answer = "none"
      /\ new.base = base /\ new.view = view
  OBVIOUS
<1> HIDE DEF base, new
<1>5. /\ session' \in [Processes -> Session]
      /\ session'[p] = new
      /\ \A q \in Processes \ {p} : session'[q] = session[q]
  BY <1>0, <1>2, <1>3
<1>6. /\ row' = row /\ accepted' = accepted /\ calls' = calls
      /\ disturbed' = disturbed \cup {i \in batch : \E q \in Processes \ {p} : i \in Held(q)}
      /\ session[p].kind = "idle"
  BY DEF Open
<1>7. SessionsKept'
  BY <1>0, <1>4, <1>5 DEF SessionsKept
<1>8. AcceptedKept' /\ SentWasAccepted'
  <2>1. \A q \in Processes \ {p} : AtHand(q)' = AtHand(q)
    BY <1>5 DEF AtHand
  <2>2. SentWasAccepted'
    BY <1>0, <1>6 DEF SentWasAccepted
  <2> QED BY <1>0, <1>4, <1>5, <1>6, <2>1, <2>2 DEF AcceptedKept
<1>9. /\ Held(p)' = batch /\ Called(p)' = {} /\ Called(p) = {}
      /\ \A q \in Processes \ {p} : Held(q)' = Held(q) /\ Called(q)' = Called(q)
  BY <1>0, <1>4, <1>5, <1>6 DEF Held, Called, SessionsKept, AtHand
<1>10. ASSUME NEW i \in Items, i \notin disturbed' PROVE Undisturbed(i)'
  <2>1. Undisturbed(i) /\ (i \in batch => \A q \in Processes \ {p} : i \notin Held(q))
    BY <1>6, <1>10 DEF DeliveryInv
  <2>2. \A q \in Processes, r \in Processes : q # r => ~(i \in Held(q)' /\ i \in Held(r)')
    BY <1>9, <2>1 DEF Undisturbed
  <2>3. ASSUME NEW q \in Processes PROVE Attempting(q, i)'
    <3>1. CASE q = p
      BY <1>1, <1>4, <1>5, <1>6, <1>9, <3>1 DEF Attempting, StillAsSelected
    <3>2. CASE q # p
      <4>1. Attempting(q, i)
        BY <2>1 DEF Undisturbed
      <4> QED BY <1>5, <1>6, <1>9, <3>2, <4>1
          DEF Attempting, StillAsSelected, OneMoreAttempt, AtHand
    <3> QED BY <3>1, <3>2
  <2>4. (\A q \in Processes : i \notin Called(q)') =>
          accepted'[i] = Once(row'[i].status = "sent") /\ calls'[i] <= row'[i].attempts
    BY <1>6, <1>9, <2>1 DEF Undisturbed
  <2> QED BY <1>6, <2>1, <2>2, <2>3, <2>4 DEF Undisturbed
<1> QED BY <1>5, <1>7, <1>8, <1>10

LEMMA SelectDueKeeps ==
  ASSUME DeliveryInv, NEW p \in Processes, NEW kind \in {"notices", "documents"},
         NEW items \in SUBSET Items, SelectDue(p, kind, items)
  PROVE  /\ session' \in [Processes -> Session]
         /\ SessionsKept' /\ AcceptedKept' /\ SentWasAccepted'
         /\ \A i \in Items \ disturbed' : Undisturbed(i)'
<1> DEFINE batch == {i \in items : Due(i)}
           view  == [i \in Items |-> IF i \in batch THEN row[i] ELSE Absent]
<1>1. row \in [Items -> Row]
  BY DEF DeliveryInv, TypeOK
<1>2. /\ kind \in Kinds \ {"idle"} /\ kind # "retry" /\ batch \in SUBSET Items
      /\ Open(p, kind, batch, view)
  BY DEF SelectDue, Kinds
<1>3. \A i \in batch : row[i].status \in {"queued", "retrying"}
  BY DEF Due
<1>4. view \in [Items -> Row]
  BY <1>1, DeliveryRowsTyped
<1>5. \A i \in Items : view[i] = IF i \in batch THEN row[i] ELSE Absent
  OBVIOUS
<1> HIDE DEF batch, view
<1>6. /\ \A i \in Items : view[i].status # "sent"
      /\ \A i \in batch :
           /\ view[i].attempts = row[i].attempts
           /\ IF kind = "retry" THEN row[i].status \in {"failed", "retrying"}
                                ELSE row[i].status \in Unsettled
  BY <1>2, <1>3, <1>5, DeliveryRowsTyped DEF Unsettled
<1> QED BY <1>2, <1>4, <1>6, OpenKeeps, ZenonT(40)

LEMMA CreateKeeps ==
  ASSUME DeliveryInv, NEW t \in Threads, NEW i \in Items, Create(t, i)
  PROVE  /\ session' \in [Processes -> Session]
         /\ SessionsKept' /\ AcceptedKept' /\ SentWasAccepted'
         /\ \A j \in Items \ disturbed' : Undisturbed(j)'
<1> DEFINE view == [NoRows EXCEPT ![i] = Queued]
<1>1. t \in Processes /\ row[i] = Absent
  BY DEF Create, Processes
<1>2. PICK kind \in Kinds \ {"idle"}, batch \in SUBSET Items :
        kind # "retry" /\ batch = {i} /\ Open(t, kind, batch, view)
  BY DEF Create, Kinds
<1>3. view \in [Items -> Row] /\ view[i] = Queued
  BY DeliveryRowsTyped
<1>4. \A j \in Items : view[j] = Absent \/ view[j] = Queued
  BY DeliveryRowsTyped DEF NoRows
<1> HIDE DEF view
<1>5. \A j \in Items : view[j].status # "sent"
  BY <1>4, DeliveryRowsTyped
<1>6. \A j \in batch :
        /\ view[j].attempts = row[j].attempts
        /\ IF kind = "retry" THEN row[j].status \in {"failed", "retrying"}
                             ELSE row[j].status \in Unsettled
  BY <1>1, <1>2, <1>3, DeliveryRowsTyped DEF Unsettled
<1> QED BY <1>1, <1>2, <1>3, <1>5, <1>6, OpenKeeps

LEMMA RetryKeeps ==
  ASSUME DeliveryInv, NEW t \in Threads, NEW i \in Items, Retry(t, i)
  PROVE  /\ session' \in [Processes -> Session]
         /\ SessionsKept' /\ AcceptedKept' /\ SentWasAccepted'
         /\ \A j \in Items \ disturbed' : Undisturbed(j)'
<1> DEFINE again == [row[i] EXCEPT !.next_retry_at = "null"]
           view  == [NoRows EXCEPT ![i] = again]
<1>1. /\ t \in Processes /\ "retry" \in Kinds \ {"idle"} /\ {i} \in SUBSET Items
      /\ row[i] \in Row /\ row[i].status \in {"failed", "retrying"}
  BY DEF Retry, MayRetry, Processes, Kinds, DeliveryInv, TypeOK
<1>2. Open(t, "retry", {i}, view)
  BY DEF Retry
<1>3. again \in Row /\ again.status = row[i].status /\ again.attempts = row[i].attempts
  BY <1>1 DEF Row
<1> HIDE DEF again
<1>4. view \in [Items -> Row] /\ view[i] = again
  BY <1>3, DeliveryRowsTyped
<1>5. \A j \in Items : view[j] = Absent \/ view[j] = again
  BY DeliveryRowsTyped DEF NoRows
<1> HIDE DEF view
<1>6. \A j \in Items : view[j].status # "sent"
  BY <1>1, <1>3, <1>5, DeliveryRowsTyped
<1> QED BY <1>1, <1>2, <1>3, <1>4, <1>6, OpenKeeps

-----------------------------------------------------------------------------
\* A call counts the acceptance it is answered with.
LEMMA CallKeeps ==
  ASSUME DeliveryInv, NEW p \in Processes, NEW result \in Results, Call(p, result)
  PROVE  /\ session' \in [Processes -> Session]
         /\ accepted' \in [Items -> 0..2]
         /\ calls' \in [Items -> 0..MAX_DELIVERY_ATTEMPTS + 1]
         /\ SessionsKept' /\ AcceptedKept' /\ SentWasAccepted'
         /\ \A i \in Items \ disturbed' : Undisturbed(i)'
<1>0. /\ TypeOK /\ SessionsKept /\ AcceptedKept /\ SentWasAccepted
      /\ row \in [Items -> Row] /\ session \in [Processes -> Session]
      /\ accepted \in [Items -> 0..2] /\ calls \in [Items -> 0..MAX_DELIVERY_ATTEMPTS + 1]
  BY DEF DeliveryInv, TypeOK
<1>1. /\ session[p].left # {} /\ session[p].answer = "none"
      /\ row' = row /\ disturbed' = disturbed
      /\ session' = [session EXCEPT ![p].answer = result]
  BY DEF Call, Waiting
<1>2. PICK h \in Items : h = AtHand(p) /\ h \in session[p].left
  BY <1>0, <1>1, AtHandIsLeft
<1>3. /\ accepted' = IF result = "sent"
                     THEN [accepted EXCEPT ![h] = AtMost(accepted[h] + 1, 2)] ELSE accepted
      /\ calls' = IF session[p].kind = "retry" THEN calls
                  ELSE [calls EXCEPT ![h] = AtMost(calls[h] + 1, MAX_DELIVERY_ATTEMPTS + 1)]
  BY <1>2 DEF Call
<1>4. /\ accepted' \in [Items -> 0..2] /\ calls' \in [Items -> 0..MAX_DELIVERY_ATTEMPTS + 1]
      /\ \A i \in Items : i # h => accepted'[i] = accepted[i] /\ calls'[i] = calls[i]
      /\ accepted'[h] = IF result = "sent" THEN AtMost(accepted[h] + 1, 2) ELSE accepted[h]
      /\ calls'[h] = IF session[p].kind = "retry" THEN calls[h]
                     ELSE AtMost(calls[h] + 1, MAX_DELIVERY_ATTEMPTS + 1)
  BY <1>0, <1>3 DEF AtMost
<1>5. \A i \in Items : accepted[i] > 0 => accepted'[i] > 0
  BY <1>0, <1>4 DEF AtMost
<1>6. /\ session' \in [Processes -> Session]
      /\ session'[p] = [session[p] EXCEPT !.answer = result]
      /\ \A q \in Processes \ {p} : session'[q] = session[q]
  <2>1. [session[p] EXCEPT !.answer = result] \in Session
    BY <1>0 DEF Session
  <2> QED BY <1>0, <1>1, <2>1
<1>7. /\ session'[p].kind = session[p].kind /\ session'[p].left = session[p].left
      /\ session'[p].done = session[p].done /\ session'[p].answer = result
      /\ session'[p].base = session[p].base /\ session'[p].view = session[p].view
  BY <1>0, <1>6 DEF Session
<1>8. \A q \in Processes : AtHand(q)' = AtHand(q) /\ Held(q)' = Held(q)
  BY <1>6, <1>7 DEF AtHand, Held
<1>9. /\ SessionsKept'
      /\ result # "none"
  BY <1>0, <1>1, <1>6, <1>7 DEF SessionsKept, Results
<1>10. AcceptedKept' /\ SentWasAccepted'
  <2>1. SentWasAccepted'
    BY <1>0, <1>1, <1>5 DEF SentWasAccepted
  <2>2. result = "sent" => accepted'[h] > 0
    BY <1>0, <1>4 DEF AtMost
  <2>3. ASSUME NEW q \in Processes, session'[q].answer = "sent" PROVE accepted'[AtHand(q)'] > 0
    <3>1. CASE q = p
      BY <1>2, <1>7, <1>8, <2>2, <2>3, <3>1
    <3>2. CASE q # p
      <4>1. session[q].answer = "sent" /\ AtHand(q) \in Items
        BY <1>0, <1>6, <2>3, <3>2, AtHandIsLeft DEF SessionsKept
      <4> QED BY <1>0, <1>5, <1>8, <4>1 DEF AcceptedKept
    <3> QED BY <3>1, <3>2
  <2>4. ASSUME NEW q \in Processes, NEW i \in Items, session'[q].view[i].status = "sent"
        PROVE  accepted'[i] > 0
    <3>1. session'[q].view = session[q].view
      BY <1>6, <1>7
    <3> QED BY <1>0, <1>5, <2>4, <3>1 DEF AcceptedKept
  <2> QED BY <2>1, <2>3, <2>4 DEF AcceptedKept
<1>11. /\ Called(p)' = Called(p) \cup {h} /\ h \notin Called(p)
       /\ \A q \in Processes \ {p} : Called(q)' = Called(q)
  BY <1>0, <1>1, <1>2, <1>6, <1>7, <1>8, <1>9 DEF Called, SessionsKept
<1>12. ASSUME NEW i \in Items, i \notin disturbed' PROVE Undisturbed(i)'
  <2>1. Undisturbed(i) /\ \A q \in Processes : Attempting(q, i)
    BY <1>1, <1>12 DEF DeliveryInv, Undisturbed
  <2>2. CASE i # h
    <3>1. \A q \in Processes : (i \in Called(q)') = (i \in Called(q))
      BY <1>11, <2>2
    <3>2. accepted'[i] = accepted[i] /\ calls'[i] = calls[i]
      BY <1>4, <2>2
    <3>3. ASSUME NEW q \in Processes PROVE Attempting(q, i)'
      BY <1>1, <1>2, <1>6, <1>7, <1>8, <2>1, <2>2, <3>1, <3>2
      DEF Attempting, StillAsSelected, OneMoreAttempt
    <3> QED BY <1>1, <1>8, <2>1, <3>1, <3>2, <3>3 DEF Undisturbed
  <2>3. CASE i = h
    <3>1. \A q \in Processes \ {p} : h \notin Held(q) /\ h \notin Called(q)
      BY <1>0, <1>2, <2>1, <2>3, AtHandIsLeft DEF Undisturbed, Held
    <3>2. accepted[h] = Once(row[h].status = "sent") /\ calls[h] <= row[h].attempts
      BY <1>11, <2>1, <2>3, <3>1 DEF Undisturbed
    <3>3. /\ StillAsSelected(p, h) /\ row[h].status # "sent"
          /\ session[p].kind # "retry" => row[h].attempts < MAX_DELIVERY_ATTEMPTS
      BY <1>2, <2>1, <2>3 DEF Undisturbed, Attempting, Held, StillAsSelected, Unsettled
    <3>4. row[h].attempts \in Nat
      BY <1>0 DEF Row
    <3>5. accepted'[h] = Once(result = "sent")
      BY <1>4, <3>2, <3>3 DEF Once, AtMost
    <3>6. calls'[h] <= row[h].attempts + 1 /\ calls'[h] <= MAX_DELIVERY_ATTEMPTS
      BY <1>0, <1>4, <2>1, <2>3, <3>2, <3>3, <3>4 DEF AtMost, Undisturbed
    <3>7. Attempting(p, h)'
      BY <1>0, <1>1, <1>2, <1>7, <1>8, <2>1, <2>3, <3>5, <3>6
      DEF Attempting, StillAsSelected, SessionsKept
    <3>8. ASSUME NEW q \in Processes \ {p} PROVE Attempting(q, h)'
      <4>1. h \notin Held(q)' /\ h \notin Called(q)'
        BY <1>8, <1>11, <3>1
      <4>2. session'[q].answer # "none" => h # AtHand(q)'
        <5>1. session[q].answer # "none" => AtHand(q) \in session[q].left
          BY <1>0, AtHandIsLeft DEF SessionsKept
        <5> QED BY <1>6, <1>8, <3>1, <5>1 DEF Held
      <4> QED BY <4>1, <4>2 DEF Attempting, Held
    <3>9. h \in Called(p)'
      BY <1>11
    <3> QED BY <1>1, <1>8, <2>1, <2>3, <3>6, <3>7, <3>8, <3>9 DEF Undisturbed
  <2> QED BY <2>2, <2>3
<1> QED BY <1>4, <1>6, <1>9, <1>10, <1>12

-----------------------------------------------------------------------------
\* What an attempt makes of a row.
LEMMA AttemptedIs ==
  ASSUME NEW r \in Row, NEW result \in Results
  PROVE  /\ Attempted(r, result) \in Row
         /\ Attempted(r, result).attempts = r.attempts + 1
         /\ Attempted(r, result).status \in {"retrying", result}
         /\ Attempted(r, result).status = "sent" <=> result = "sent"
         /\ Attempted(r, result).status = "retrying" =>
              r.attempts + 1 < MAX_DELIVERY_ATTEMPTS
BY DEF Attempted, Row, Results, ShouldRetry

\* A session records the answer for the row at hand.
LEMMA RecordKeeps ==
  ASSUME DeliveryInv, NEW p \in Processes, Record(p)
  PROVE  /\ session' \in [Processes -> Session]
         /\ SessionsKept' /\ AcceptedKept' /\ SentWasAccepted'
         /\ \A i \in Items \ disturbed' : Undisturbed(i)'
<1>0. /\ TypeOK /\ SessionsKept /\ AcceptedKept /\ SentWasAccepted
      /\ row \in [Items -> Row] /\ session \in [Processes -> Session]
  BY DEF DeliveryInv, TypeOK
<1>1. /\ session[p].answer # "none" /\ session[p].left # {}
      /\ row' = row /\ accepted' = accepted /\ calls' = calls /\ disturbed' = disturbed
  BY <1>0 DEF Record, SessionsKept, history
<1>2. PICK h \in Items : h = AtHand(p) /\ h \in session[p].left
  BY <1>0, <1>1, AtHandIsLeft
<1>3. PICK view : view = [session[p].view EXCEPT ![h] =
                            Attempted(session[p].view[h], session[p].answer)]
  OBVIOUS
<1>4. /\ session[p].view \in [Items -> Row] /\ session[p].view[h] \in Row
      /\ session[p].answer \in Results
  BY <1>0, <1>1, <1>2 DEF Session
<1>5. /\ view \in [Items -> Row]
      /\ view[h] = Attempted(session[p].view[h], session[p].answer)
      /\ \A i \in Items : i # h => view[i] = session[p].view[i]
  BY <1>3, <1>4, AttemptedIs
<1>6. session' = [session EXCEPT ![p] =
        [session[p] EXCEPT !.left = session[p].left \ {h}, !.done = session[p].done \cup {h},
                           !.answer = "none", !.view = view]]
  BY <1>2, <1>3 DEF Record
<1>7. /\ session' \in [Processes -> Session]
      /\ \A q \in Processes \ {p} : session'[q] = session[q]
      /\ session'[p].kind = session[p].kind /\ session'[p].left = session[p].left \ {h}
      /\ session'[p].done = session[p].done \cup {h} /\ session'[p].answer = "none"
      /\ session'[p].base = session[p].base /\ session'[p].view = view
  <2>1. session[p] \in Session
    BY <1>0
  <2>2. PICK next : next = [session[p] EXCEPT !.left = session[p].left \ {h},
                             !.done = session[p].done \cup {h}, !.answer = "none", !.view = view]
    OBVIOUS
  <2>3. /\ next \in Session
        /\ next.kind = session[p].kind /\ next.left = session[p].left \ {h}
        /\ next.done = session[p].done \cup {h} /\ next.answer = "none"
        /\ next.base = session[p].base /\ next.view = view
    BY <1>2, <1>5, <2>1, <2>2 DEF Session
  <2> QED BY <1>0, <1>6, <2>2, <2>3
<1>8. /\ session[p].left \cap session[p].done = {}
      /\ \A q \in Processes : Held(q)' = Held(q)
      /\ \A q \in Processes \ {p} : AtHand(q)' = AtHand(q)
  <2>1. session[p].left \cap session[p].done = {}
    BY <1>0 DEF SessionsKept
  <2>2. ASSUME NEW q \in Processes PROVE Held(q)' = Held(q)
    <3>1. CASE q = p
      BY <1>2, <1>7, <3>1 DEF Held
    <3>2. CASE q # p
      BY <1>7, <3>2 DEF Held
    <3> QED BY <3>1, <3>2
  <2>3. \A q \in Processes \ {p} : AtHand(q)' = AtHand(q)
    BY <1>7 DEF AtHand
  <2> QED BY <2>1, <2>2, <2>3
<1>9. SessionsKept'
  BY <1>0, <1>2, <1>7 DEF SessionsKept
<1>10. /\ Called(p)' = Called(p) /\ h \in Called(p)
       /\ \A q \in Processes \ {p} : Called(q)' = Called(q)
  BY <1>1, <1>2, <1>7, <1>8 DEF Called
<1>11. AcceptedKept' /\ SentWasAccepted'
  <2>1. SentWasAccepted'
    BY <1>0, <1>1 DEF SentWasAccepted
  <2>2. \A q \in Processes : session'[q].answer = "sent" => accepted'[AtHand(q)'] > 0
    BY <1>0, <1>1, <1>7, <1>8 DEF AcceptedKept
  <2>3. ASSUME NEW q \in Processes, NEW i \in Items, session'[q].view[i].status = "sent"
        PROVE  accepted'[i] > 0
    <3>1. CASE q = p /\ i = h
      BY <1>0, <1>1, <1>2, <1>4, <1>5, <1>7, <2>3, <3>1, AttemptedIs DEF AcceptedKept
    <3>2. CASE ~(q = p /\ i = h)
      <4>1. session'[q].view[i] = session[q].view[i]
        BY <1>5, <1>7, <3>2
      <4> QED BY <1>0, <1>1, <2>3, <4>1 DEF AcceptedKept
    <3> QED BY <3>1, <3>2
  <2> QED BY <2>1, <2>2, <2>3 DEF AcceptedKept
<1>12. ASSUME NEW i \in Items, i \notin disturbed' PROVE Undisturbed(i)'
  <2>1. Undisturbed(i) /\ \A q \in Processes : Attempting(q, i)
    BY <1>1, <1>12 DEF DeliveryInv, Undisturbed
  <2>2. ASSUME NEW q \in Processes PROVE Attempting(q, i)'
    <3>1. CASE q # p
      BY <1>1, <1>7, <1>8, <1>10, <2>1, <3>1
      DEF Attempting, StillAsSelected, OneMoreAttempt
    <3>2. CASE q = p
      <4>1. i \in Held(p)' => StillAsSelected(p, i)'
        BY <1>1, <1>7, <1>8, <2>1 DEF Attempting, StillAsSelected
      <4>2. i \in session'[p].left => session'[p].view[i].attempts = row'[i].attempts
        BY <1>1, <1>5, <1>7, <2>1 DEF Attempting
      <4>3. i \in Called(p)' => calls'[i] <= row'[i].attempts + 1
        BY <1>1, <1>10, <2>1 DEF Attempting
      <4>4. ASSUME i \in session'[p].done
            PROVE  OneMoreAttempt(p, i)' /\ accepted'[i] = Once(session'[p].view[i].status = "sent")
        <5>1. CASE i # h
          BY <1>1, <1>5, <1>7, <2>1, <4>4, <5>1 DEF Attempting, OneMoreAttempt
        <5>2. CASE i = h
          <6>1. /\ session[p].view[h].attempts = row[h].attempts
                /\ accepted[h] = Once(session[p].answer = "sent")
            BY <1>1, <1>2, <2>1, <5>2 DEF Attempting
          <6> QED BY <1>1, <1>4, <1>5, <1>7, <5>2, <6>1, AttemptedIs DEF OneMoreAttempt
        <5> QED BY <5>1, <5>2
      <4> QED BY <1>7, <3>2, <4>1, <4>2, <4>3, <4>4 DEF Attempting
    <3> QED BY <3>1, <3>2
  <2> QED BY <1>1, <1>8, <1>10, <2>1, <2>2 DEF Undisturbed
<1> QED BY <1>7, <1>9, <1>11, <1>12

-----------------------------------------------------------------------------
\* A row that is committed takes the status and the attempts that were flushed,
\* unless they are as selected, and then keeps those it has.
LEMMA CommitKeeps ==
  ASSUME DeliveryInv, NEW p \in Processes, Commit(p)
  PROVE  /\ row' \in [Items -> Row] /\ session' \in [Processes -> Session]
         /\ SessionsKept' /\ AcceptedKept' /\ SentWasAccepted'
         /\ \A i \in Items \ disturbed' : Undisturbed(i)'
<1>0. /\ TypeOK /\ SessionsKept /\ AcceptedKept /\ SentWasAccepted
      /\ row \in [Items -> Row] /\ session \in [Processes -> Session]
      /\ session[p] \in Session
  BY DEF DeliveryInv, TypeOK
<1>1. /\ session[p].left = {} /\ session[p].answer = "none"
      /\ row' = [i \in Items |-> IF i \in session[p].done THEN Saved(session[p], i) ELSE row[i]]
      /\ session' = [session EXCEPT ![p] = Idle]
      /\ accepted' = accepted /\ calls' = calls /\ disturbed' = disturbed
  BY <1>0 DEF Commit, SessionsKept, history
<1>2. ASSUME NEW i \in Items
      PROVE  /\ Saved(session[p], i) \in Row
             /\ LET base == session[p].base[i]
                    view == session[p].view[i]
                    saved == Saved(session[p], i)
                IN  /\ saved.status = IF view.status # base.status THEN view.status ELSE row[i].status
                    /\ saved.attempts = IF view.attempts # base.attempts THEN view.attempts
                                        ELSE row[i].attempts
  <2>1. PICK base, view : base = session[p].base[i] /\ view = session[p].view[i]
    OBVIOUS
  <2>2. base \in Row /\ view \in Row /\ row[i] \in Row
    BY <1>0, <2>1 DEF Session
  <2>3. DOMAIN row[i] = {"status", "attempts", "next_retry_at"}
    BY <2>2 DEF Row
  <2>4. Saved(session[p], i) =
          [k \in {"status", "attempts", "next_retry_at"} |->
             IF view[k] # base[k] \/ (k = "next_retry_at" /\ view[k] = "future")
             THEN view[k] ELSE row[i][k]]
    BY <2>1, <2>3 DEF Saved
  <2>5. PICK saved : saved = Saved(session[p], i)
    OBVIOUS
  <2>6. /\ saved.status = IF view.status # base.status THEN view.status ELSE row[i].status
        /\ saved.attempts = IF view.attempts # base.attempts THEN view.attempts
                            ELSE row[i].attempts
        /\ saved.next_retry_at \in {view.next_retry_at, row[i].next_retry_at}
    BY <2>4, <2>5
  <2>7. saved = [status |-> saved.status, attempts |-> saved.attempts,
                 next_retry_at |-> saved.next_retry_at]
    BY <2>4, <2>5
  <2>8. saved \in Row
    BY <2>2, <2>6, <2>7 DEF Row
  <2> QED BY <2>1, <2>5, <2>6, <2>8
<1>3. /\ row' \in [Items -> Row]
      /\ \A i \in Items : row'[i] = IF i \in session[p].done THEN Saved(session[p], i) ELSE row[i]
  BY <1>0, <1>1, <1>2
<1>4. /\ session' \in [Processes -> Session] /\ session'[p] = Idle
      /\ \A q \in Processes \ {p} : session'[q] = session[q]
  BY <1>0, <1>1, DeliveryRowsTyped
<1>5. /\ Held(p)' = {} /\ Called(p)' = {} /\ Held(p) = session[p].done /\ Called(p) = session[p].done
      /\ \A q \in Processes \ {p} :
           Held(q)' = Held(q) /\ Called(q)' = Called(q) /\ AtHand(q)' = AtHand(q)
  BY <1>1, <1>4 DEF Held, Called, Idle, AtHand
<1>6. SessionsKept'
  BY <1>0, <1>4 DEF SessionsKept, Idle
<1>7. SentWasAccepted'
  BY <1>0, <1>1, <1>2, <1>3 DEF SentWasAccepted, AcceptedKept
<1>8. AcceptedKept'
  BY <1>0, <1>1, <1>4, <1>5 DEF AcceptedKept, Idle, NoRows, Absent
<1>9. ASSUME NEW i \in Items, i \notin disturbed' PROVE Undisturbed(i)'
  <2>1. Undisturbed(i) /\ \A q \in Processes : Attempting(q, i)
    BY <1>1, <1>9 DEF DeliveryInv, Undisturbed
  <2>2. CASE i \notin session[p].done
    <3>1. row'[i] = row[i] /\ i \notin Held(p)' /\ i \notin Called(p)
      BY <1>3, <1>5, <2>2
    <3>2. ASSUME NEW q \in Processes PROVE Attempting(q, i)'
      <4>1. CASE q = p
        BY <1>4, <1>5, <4>1 DEF Attempting, Idle
      <4>2. CASE q # p
        BY <1>1, <1>4, <1>5, <2>1, <3>1, <4>2 DEF Attempting, StillAsSelected, OneMoreAttempt
      <4> QED BY <4>1, <4>2
    <3> QED BY <1>1, <1>5, <2>1, <3>1, <3>2 DEF Undisturbed
  <2>3. CASE i \in session[p].done
    <3>1. /\ StillAsSelected(p, i) /\ OneMoreAttempt(p, i)
          /\ accepted[i] = Once(session[p].view[i].status = "sent")
          /\ calls[i] <= row[i].attempts + 1
      BY <1>5, <2>1, <2>3 DEF Attempting
    <3>2. row[i].attempts \in Nat
      BY <1>0 DEF Row
    <3>3. /\ row'[i].status = session[p].view[i].status
          /\ row'[i].attempts = session[p].view[i].attempts
      BY <1>2, <1>3, <2>3, <3>1 DEF StillAsSelected
    <3>4. \A q \in Processes : i \notin Held(q)' /\ i \notin Called(q)'
      BY <1>0, <1>5, <2>1, <2>3, AtHandIsLeft DEF Undisturbed
    <3>5. ASSUME NEW q \in Processes PROVE Attempting(q, i)'
      <4>1. CASE q = p
        BY <1>4, <1>5, <4>1 DEF Attempting, Idle
      <4>2. CASE q # p
        <5>1. session'[q].answer # "none" => AtHand(q)' \in session'[q].left
          BY <1>0, <1>4, <1>5, <4>2, AtHandIsLeft DEF SessionsKept
        <5> QED BY <3>4, <5>1 DEF Attempting, Held
      <4> QED BY <4>1, <4>2
    <3>6. accepted'[i] = Once(row'[i].status = "sent") /\ calls'[i] <= row'[i].attempts
      BY <1>1, <3>1, <3>3 DEF OneMoreAttempt
    <3>7. row'[i].status \in Unsettled => row'[i].attempts < MAX_DELIVERY_ATTEMPTS
      BY <3>1, <3>3 DEF OneMoreAttempt, Unsettled, Results
    <3> QED BY <1>1, <2>1, <3>4, <3>5, <3>6, <3>7 DEF Undisturbed
  <2> QED BY <2>2, <2>3
<1> QED BY <1>3, <1>4, <1>6, <1>7, <1>8, <1>9

-----------------------------------------------------------------------------
\* A session that is rolled back leaves the rows it called for disturbed, and the
\* others as nobody had had them.
LEMMA RollBacksKeep ==
  ASSUME DeliveryInv, NEW P \in SUBSET Processes,
         session' = [p \in Processes |-> IF p \in P THEN Idle ELSE session[p]],
         disturbed' = disturbed \cup UNION {Called(p) : p \in P},
         UNCHANGED <<row, accepted, calls>>
  PROVE  /\ session' \in [Processes -> Session] /\ disturbed' \subseteq Items
         /\ SessionsKept' /\ AcceptedKept' /\ SentWasAccepted'
         /\ \A i \in Items \ disturbed' : Undisturbed(i)'
<1>0. /\ TypeOK /\ SessionsKept /\ AcceptedKept /\ SentWasAccepted
      /\ session \in [Processes -> Session] /\ disturbed \subseteq Items
  BY DEF DeliveryInv, TypeOK
<1>1. /\ session' \in [Processes -> Session]
      /\ \A p \in Processes : session'[p] = IF p \in P THEN Idle ELSE session[p]
  BY <1>0, DeliveryRowsTyped
<1>2. disturbed' \subseteq Items
  <2>1. \A p \in Processes : Called(p) \subseteq Items
    BY <1>0, AtHandIsLeft DEF Session, Held
  <2> QED BY <1>0, <2>1
<1>3. \A p \in Processes :
        IF p \in P THEN Held(p)' = {} /\ Called(p)' = {}
        ELSE Held(p)' = Held(p) /\ Called(p)' = Called(p) /\ AtHand(p)' = AtHand(p)
  BY <1>1 DEF Held, Called, AtHand, Idle
<1>4. SessionsKept'
  BY <1>0, <1>1 DEF SessionsKept, Idle
<1>5. SentWasAccepted'
  BY <1>0 DEF SentWasAccepted
<1>6. AcceptedKept'
  BY <1>0, <1>1, <1>3 DEF AcceptedKept, Idle, NoRows, Absent
<1>7. ASSUME NEW i \in Items, i \notin disturbed' PROVE Undisturbed(i)'
  <2>1. Undisturbed(i) /\ \A p \in P : i \notin Called(p)
    BY <1>7 DEF DeliveryInv
  <2>2. ASSUME NEW p \in Processes PROVE Attempting(p, i)'
    <3>1. CASE p \in P
      BY <1>1, <1>3, <3>1 DEF Attempting, Idle
    <3>2. CASE p \notin P
      BY <1>1, <1>3, <2>1, <3>2 DEF Undisturbed, Attempting, StillAsSelected, OneMoreAttempt
    <3> QED BY <3>1, <3>2
  <2> QED BY <1>3, <2>1, <2>2 DEF Undisturbed
<1> QED BY <1>1, <1>2, <1>4, <1>5, <1>6, <1>7

LEMMA RollBackKeeps ==
  ASSUME DeliveryInv, NEW p \in Processes, RollBack(p)
  PROVE  /\ session' \in [Processes -> Session] /\ disturbed' \subseteq Items
         /\ SessionsKept' /\ AcceptedKept' /\ SentWasAccepted'
         /\ \A i \in Items \ disturbed' : Undisturbed(i)'
<1>1. session \in [Processes -> Session]
  BY DEF DeliveryInv, TypeOK
<1>2. session' = [q \in Processes |-> IF q \in {p} THEN Idle ELSE session[q]]
  BY <1>1 DEF RollBack
<1>3. disturbed' = disturbed \cup UNION {Called(q) : q \in {p}}
  BY DEF RollBack
<1>4. UNCHANGED <<row, accepted, calls>> /\ {p} \in SUBSET Processes
  BY DEF RollBack
<1> QED BY <1>2, <1>3, <1>4, RollBacksKeep

LEMMA CrashKeeps ==
  ASSUME DeliveryInv, Crash
  PROVE  /\ session' \in [Processes -> Session] /\ disturbed' \subseteq Items
         /\ SessionsKept' /\ AcceptedKept' /\ SentWasAccepted'
         /\ \A i \in Items \ disturbed' : Undisturbed(i)'
<1>1. session' = [q \in Processes |-> IF q \in Processes THEN Idle ELSE session[q]]
  BY DEF Crash
<1>2. /\ disturbed' = disturbed \cup UNION {Called(q) : q \in Processes}
      /\ UNCHANGED <<row, accepted, calls>>
  BY DEF Crash
<1> QED BY <1>1, <1>2, RollBacksKeep

\* The passing of time disturbs nothing.
LEMMA RipenKeeps ==
  ASSUME DeliveryInv, NEW h \in Items, Ripen(h)
  PROVE  /\ row' \in [Items -> Row]
         /\ SessionsKept' /\ AcceptedKept' /\ SentWasAccepted'
         /\ \A i \in Items \ disturbed' : Undisturbed(i)'
<1>0. /\ row \in [Items -> Row] /\ SessionsKept /\ AcceptedKept /\ SentWasAccepted
  BY DEF DeliveryInv, TypeOK
<1>1. /\ row' = [row EXCEPT ![h] = [row[h] EXCEPT !.next_retry_at = "past"]]
      /\ UNCHANGED <<session, accepted, calls, disturbed>>
  BY DEF Ripen, history
<1>2. /\ row' \in [Items -> Row]
      /\ \A i \in Items : row'[i].status = row[i].status /\ row'[i].attempts = row[i].attempts
  BY <1>0, <1>1 DEF Row
<1>3. \A p \in Processes :
        Held(p)' = Held(p) /\ Called(p)' = Called(p) /\ AtHand(p)' = AtHand(p)
  BY <1>1 DEF Held, Called, AtHand
<1>4. SessionsKept' /\ AcceptedKept' /\ SentWasAccepted'
  BY <1>0, <1>1, <1>2, <1>3 DEF SessionsKept, AcceptedKept, SentWasAccepted
<1>5. ASSUME NEW i \in Items, i \notin disturbed' PROVE Undisturbed(i)'
  <2>1. Undisturbed(i)
    BY <1>1, <1>5 DEF DeliveryInv
  <2>2. ASSUME NEW p \in Processes PROVE Attempting(p, i)'
    BY <1>1, <1>2, <1>3, <2>1 DEF Undisturbed, Attempting, StillAsSelected, OneMoreAttempt
  <2> QED BY <1>1, <1>2, <1>3, <2>1, <2>2 DEF Undisturbed
<1> QED BY <1>2, <1>4, <1>5

-----------------------------------------------------------------------------
LEMMA DeliveryInit == Init => DeliveryInv
<1> SUFFICES ASSUME Init PROVE DeliveryInv
  OBVIOUS
<1>1. /\ row = NoRows /\ session = [p \in Processes |-> Idle] /\ disturbed = {}
      /\ \A i \in Items : accepted[i] = 0 /\ calls[i] = 0 /\ row[i] = Absent
      /\ \A p \in Processes : session[p] = Idle
  BY DEF Init, NoRows
<1>2. TypeOK
  BY DeliveryRowsTyped DEF Init, TypeOK
<1>3. SessionsKept /\ AcceptedKept /\ SentWasAccepted
  BY <1>1, DeliveryRowsTyped DEF SessionsKept, AcceptedKept, SentWasAccepted, Idle, NoRows
<1>4. ASSUME NEW i \in Items PROVE Undisturbed(i)
  <2>1. \A p \in Processes : Held(p) = {} /\ Called(p) = {} /\ session[p].answer = "none"
                             /\ session[p].left = {} /\ session[p].done = {}
    BY <1>1 DEF Held, Called, Idle
  <2> QED BY <1>1, <2>1, DeliveryRowsTyped DEF Undisturbed, Attempting, Once, Unsettled
<1> QED BY <1>2, <1>3, <1>4 DEF DeliveryInv

LEMMA DeliveryStep == DeliveryInv /\ [Next]_vars => DeliveryInv'
<1> SUFFICES ASSUME DeliveryInv, [Next]_vars PROVE DeliveryInv'
  OBVIOUS
<1>0. TypeOK
  BY DEF DeliveryInv
<1>1. CASE UNCHANGED vars
  BY <1>1 DEF DeliveryInv, vars, faultVars, history, TypeOK, SessionsKept, AcceptedKept,
    SentWasAccepted, Undisturbed, Attempting, StillAsSelected, OneMoreAttempt, AtHand, Held, Called
<1>2. ASSUME NEW kind \in {"notices", "documents"}, NEW items \in SUBSET Items,
             NEW p \in Processes, SelectDue(p, kind, items), requests' \in 0..MaxRequests
      PROVE  DeliveryInv'
  <2>1. /\ UNCHANGED <<row, stage, accepted, calls, faultVars>>
        /\ disturbed' \subseteq disturbed \cup items
    BY <1>2 DEF SelectDue, Open
  <2>2. TypeOK'
    BY <1>0, <1>2, <2>1, SelectDueKeeps DEF TypeOK, faultVars
  <2> QED BY <1>2, <2>2, SelectDueKeeps DEF DeliveryInv
<1>3. ASSUME Serve PROVE requests' \in 0..MaxRequests
  BY <1>0, <1>3 DEF Serve, TypeOK
<1>4. CASE WorkerTurns
  <2>1. requests' \in 0..MaxRequests
    BY <1>0, <1>4 DEF WorkerTurns, Turn, TypeOK
  <2> QED BY <1>2, <1>4, <2>1 DEF WorkerTurns, Turn, Processes, Items
<1>5. ASSUME NEW t \in Threads, Request(t) PROVE DeliveryInv'
  <2>1. t \in Processes
    BY DEF Processes
  <2>2. CASE ProcessDueNotices(t) \/ ProcessDueDocuments(t)
    BY <1>2, <1>3, <2>1, <2>2 DEF ProcessDueNotices, ProcessDueDocuments, Items
  <2>3. ASSUME NEW i \in Items, Create(t, i) PROVE DeliveryInv'
    <3>1. /\ UNCHANGED <<row, stage, accepted, calls, faultVars>> /\ Serve
          /\ disturbed' \subseteq disturbed \cup {i}
      BY <2>3 DEF Create, Open
    <3>2. TypeOK'
      BY <1>0, <1>3, <2>3, <3>1, CreateKeeps DEF TypeOK, faultVars
    <3> QED BY <2>3, <3>2, CreateKeeps DEF DeliveryInv
  <2>4. ASSUME NEW i \in Items, Retry(t, i) PROVE DeliveryInv'
    <3>1. /\ UNCHANGED <<row, stage, accepted, calls, faultVars>> /\ Serve
          /\ disturbed' \subseteq disturbed \cup {i}
      BY <2>4 DEF Retry, Open
    <3>2. TypeOK'
      BY <1>0, <1>3, <2>4, <3>1, RetryKeeps DEF TypeOK, faultVars
    <3> QED BY <2>4, <3>2, RetryKeeps DEF DeliveryInv
  <2> QED BY <1>5, <2>2, <2>3, <2>4 DEF Request
<1>6. ASSUME NEW p \in Processes, Proceed(p) PROVE DeliveryInv'
  <2>1. ASSUME NEW result \in Results, Call(p, result) PROVE DeliveryInv'
    <3>1. UNCHANGED <<row, stage, disturbed, requests, faultVars>>
      BY <2>1 DEF Call
    <3>2. TypeOK'
      BY <1>0, <2>1, <3>1, CallKeeps DEF TypeOK, faultVars
    <3> QED BY <2>1, <3>2, CallKeeps DEF DeliveryInv
  <2>2. CASE Record(p)
    <3>1. UNCHANGED <<row, stage, requests, faultVars, history>>
      BY <2>2 DEF Record
    <3>2. TypeOK'
      BY <1>0, <2>2, <3>1, RecordKeeps DEF TypeOK, faultVars, history
    <3> QED BY <2>2, <3>2, RecordKeeps DEF DeliveryInv
  <2>3. CASE Commit(p)
    <3>1. UNCHANGED <<requests, faultVars, history>> /\ stage' \in {"notices", "documents"}
      BY <1>0, <2>3 DEF Commit, TypeOK, NextStage
    <3>2. TypeOK'
      BY <1>0, <2>3, <3>1, CommitKeeps DEF TypeOK, faultVars, history
    <3> QED BY <2>3, <3>2, CommitKeeps DEF DeliveryInv
  <2>4. CASE RenderingFails(p) \/ LockTimeout(p)
    <3>1. /\ RollBack(p)
          /\ UNCHANGED <<row, accepted, calls, requests, faultVars>>
          /\ stage' \in {"notices", "documents"}
      BY <1>0, <2>4 DEF RenderingFails, LockTimeout, RollBack, TypeOK, AfterFailure
    <3>2. TypeOK'
      BY <1>0, <3>1, RollBackKeeps DEF TypeOK, faultVars
    <3> QED BY <3>1, <3>2, RollBackKeeps DEF DeliveryInv
  <2> QED BY <1>6, <2>1, <2>2, <2>3, <2>4 DEF Proceed
<1>7. CASE Crash
  <2>1. TypeOK'
    BY <1>0, <1>7, CrashKeeps DEF TypeOK, Crash
  <2> QED BY <1>7, <2>1, CrashKeeps DEF DeliveryInv
<1>8. ASSUME NEW d \in Documents, BreakOrRepair(d) PROVE DeliveryInv'
  <2>1. UNCHANGED <<row, stage, session, requests, crashes, accepted, calls, disturbed>>
        /\ broken' \subseteq Documents
    BY <1>0, <1>8 DEF BreakOrRepair, TypeOK, history
  <2> QED BY <2>1 DEF DeliveryInv, TypeOK, SessionsKept, AcceptedKept,
    SentWasAccepted, Undisturbed, Attempting, StillAsSelected, OneMoreAttempt, AtHand, Held, Called
<1>9. ASSUME NEW i \in Items, Ripen(i) PROVE DeliveryInv'
  <2>1. UNCHANGED <<stage, session, requests, faultVars, history>>
    BY <1>9 DEF Ripen
  <2>2. TypeOK'
    BY <1>0, <1>9, <2>1, RipenKeeps DEF TypeOK, faultVars, history
  <2> QED BY <1>9, <2>2, RipenKeeps DEF DeliveryInv
<1> QED BY <1>1, <1>4, <1>5, <1>6, <1>7, <1>8, <1>9 DEF Next

LEMMA DeliveryInvariant == Spec => []DeliveryInv
BY DeliveryInit, DeliveryStep, PTL DEF Spec

\* A row that is recorded as sent was accepted by the provider, whatever overlapped,
\* failed or was restarted (delivery_worker.py, notifications.py:161).
THEOREM SentMeansAccepted == Spec => []SentWasAccepted
<1>1. DeliveryInv => SentWasAccepted
  BY DEF DeliveryInv
<1> QED BY <1>1, DeliveryInvariant, PTL

\* A row that no two sessions had at a time, and no rolled-back session had called
\* for, reaches the provider's client once, is not in the dead-letter list once it
\* did, and takes MAX_DELIVERY_ATTEMPTS calls at most without a retry request
\* (notifications.py:161).
THEOREM UndisturbedDeliveryIsOrderly == Spec => []OrderlyDelivery
<1>1. DeliveryInv => OrderlyDelivery
  <2> SUFFICES ASSUME DeliveryInv, NEW i \in Items \ disturbed
               PROVE  /\ accepted[i] <= 1
                      /\ row[i].status = "failed" /\ (\A p \in Processes : i \notin Called(p))
                           => accepted[i] = 0
                      /\ calls[i] <= MAX_DELIVERY_ATTEMPTS
    BY DEF OrderlyDelivery
  <2>1. Undisturbed(i) /\ TypeOK /\ SessionsKept
    BY DEF DeliveryInv
  <2>2. accepted[i] \in {0, 1}
    <3>1. CASE \A p \in Processes : i \notin Called(p)
      BY <2>1, <3>1 DEF Undisturbed, Once
    <3>2. ASSUME NEW p \in Processes, i \in Called(p) PROVE accepted[i] \in {0, 1}
      BY <2>1, <3>2 DEF Undisturbed, Attempting, Called, Once
    <3> QED BY <3>1, <3>2
  <2> QED BY <2>1, <2>2 DEF Undisturbed, Once
<1> QED BY <1>1, DeliveryInvariant, PTL

=============================================================================
