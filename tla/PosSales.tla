------------------------------ MODULE PosSales ------------------------------
(***************************************************************************)
(* ppms/app/services/pos.py: the products of the station's shop and the    *)
(* sales of several lines that take them from stock.  What decides nothing *)
(* about stock is left out: prices and totals, who reversed a sale, and    *)
(* the POS module ("mart", "tyre_shop", ...), which is one for all.        *)
(*                                                                         *)
(* Products are deleted, so their table is a function from ids to rows; a  *)
(* new row gets the id after the largest one, which a deleted row may have *)
(* had.                                                                    *)
(***************************************************************************)
EXTENDS Integers, Sequences, Permissions, Totals

CONSTANTS
  StockCounts,    \* quantities a product may be given by hand
  LineQuantities, \* quantities on a line of a sale
  MaxProducts,    \* bound: rows of the pos_products table
  MaxPosSales,    \* bound: rows of the pos_sales table
  MaxLines        \* bound: lines of a sale

ASSUME PosAssumption ==
  /\ StockCounts \subseteq Nat
  /\ LineQuantities \subseteq Nat \ {0}
  /\ MaxProducts \in Nat /\ MaxPosSales \in Nat /\ MaxLines \in Nat

VARIABLES
  products,   \* the pos_products table
  pos_sales   \* the pos_sales table, each row with its items

posVars == <<products, pos_sales>>

-----------------------------------------------------------------------------
ProductIds == 1..MaxProducts

\* The last two fields are history: the stock there would be without the standing
\* sales, and whether track_inventory was never changed.
Product == [stock_quantity : Int, track_inventory : BOOLEAN, is_active : BOOLEAN,
            opening : Int, kept : BOOLEAN]

Line == [product : ProductIds, quantity : LineQuantities]

PosSale == [lines : Seq(Line), is_reversed : BOOLEAN]

-----------------------------------------------------------------------------
\* What the lines sell of product p, and what the sales that stand have sold of it.

Sold(lines, p) ==
  Total([k \in 1..Len(lines) |-> IF lines[k].product = p THEN lines[k].quantity ELSE 0])

Standing(p) ==
  Total([i \in 1..Len(pos_sales) |->
           IF pos_sales[i].is_reversed THEN 0 ELSE Sold(pos_sales[i].lines, p)])

\* What stands of it against the stock.
Taken(p, tracked) == IF tracked THEN Standing(p) ELSE 0

\* The products in the table after their stock is changed by n times what lines sell.
Moved(lines, n) ==
  [p \in DOMAIN products |->
     IF products[p].track_inventory
     THEN [products[p] EXCEPT !.stock_quantity = @ + n * Sold(lines, p)]
     ELSE products[p]]

-----------------------------------------------------------------------------
NextId(p) ==
  /\ p = 1 \/ p - 1 \in DOMAIN products
  /\ \A q \in DOMAIN products : q < p

CreatePosProduct(u) ==
  /\ u \in ProductStaff
  /\ \E p \in ProductIds, n \in StockCounts, tracked, active \in BOOLEAN :
       /\ NextId(p)
       /\ products' = [q \in DOMAIN products \cup {p} |->
            IF q = p
            THEN [stock_quantity |-> n, track_inventory |-> tracked, is_active |-> active,
                  opening |-> n, kept |-> TRUE]
            ELSE products[q]]
  /\ UNCHANGED pos_sales

\* Any of the columns may be set, and stock only to a quantity that is not negative.
UpdatePosProduct(u, p) ==
  /\ u \in ProductStaff
  /\ \E n \in StockCounts \cup {products[p].stock_quantity}, tracked, active \in BOOLEAN :
       products' = [products EXCEPT ![p] =
         [stock_quantity |-> n, track_inventory |-> tracked, is_active |-> active,
          opening |-> n + Taken(p, tracked),
          kept |-> @.kept /\ tracked = @.track_inventory]]
  /\ UNCHANGED pos_sales

\* Only a product that no sale names, reversed or not, can be deleted.
MayDelete(p) ==
  \A i \in 1..Len(pos_sales) : \A k \in 1..Len(pos_sales[i].lines) :
    pos_sales[i].lines[k].product # p

DeletePosProduct(u, p) ==
  /\ u \in ProductStaff
  /\ MayDelete(p)
  /\ products' = [q \in DOMAIN products \ {p} |-> products[q]]
  /\ UNCHANGED pos_sales

-----------------------------------------------------------------------------
\* Slip: the stock is not compared.
LinesActive(lines) ==
  \A k \in 1..Len(lines) :
    /\ lines[k].product \in DOMAIN products
    /\ products[lines[k].product].is_active

\* Each line is compared with the stock as it is before any line is taken from it.
LinesAvailable(lines) ==
  \A k \in 1..Len(lines) :
    /\ lines[k].product \in DOMAIN products
    /\ products[lines[k].product].is_active
    /\ \/ ~products[lines[k].product].track_inventory
       \/ products[lines[k].product].stock_quantity >= lines[k].quantity

CreatePosSale(u) ==
  /\ u \in ForecourtStaff
  /\ Len(pos_sales) < MaxPosSales
  /\ \E n \in 1..MaxLines : \E lines \in [1..n -> Line] :
       /\ LinesAvailable(lines)
       /\ products' = Moved(lines, -1)
       /\ pos_sales' = Append(pos_sales, [lines |-> lines, is_reversed |-> FALSE])

\* Slip: a sale can be reversed again.
MayReversePosSaleAgain(i) == TRUE

MayReversePosSale(i) == ~pos_sales[i].is_reversed

\* The stock goes back, of the products that are tracked now.
ReversePosSale(u, i) ==
  /\ u \in ForecourtStaff
  /\ MayReversePosSale(i)
  /\ products' = Moved(pos_sales[i].lines, 1)
  /\ pos_sales' = [pos_sales EXCEPT ![i] = [@ EXCEPT !.is_reversed = TRUE]]

PosInit == products = << >> /\ pos_sales = << >>

PosNext ==
  \E u \in Users :
    \/ CreatePosProduct(u)
    \/ \E p \in DOMAIN products : UpdatePosProduct(u, p) \/ DeletePosProduct(u, p)
    \/ CreatePosSale(u)
    \/ \E i \in 1..Len(pos_sales) : ReversePosSale(u, i)

=============================================================================
