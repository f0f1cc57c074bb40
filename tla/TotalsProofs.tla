---------------------------- MODULE TotalsProofs ----------------------------
(***************************************************************************)
(* What Total does when a row is appended to a table or one of its rows    *)
(* changes: the two ways every handler of the backend changes a table.     *)
(***************************************************************************)
EXTENDS Totals, WellFoundedInduction, TLAPS

\* A non-empty set of naturals has a least element.
LEMMA LeastElement ==
  ASSUME NEW T \in SUBSET Nat, T # {}
  PROVE  \E x \in T : \A y \in T : x <= y
<1> DEFINE R == OpToRel(<, Nat)
<1>1. IsWellFoundedOn(R, Nat)
  BY NatLessThanWellFounded
<1>2. \E x \in T : \A y \in T : <<y, x>> \notin R
  <2> HIDE DEF R
  <2> QED BY <1>1, WFMin
<1>3. \A x, y \in Nat : <<y, x>> \notin R => x <= y
  BY DEF OpToRel
<1> QED BY <1>2, <1>3

\* Induction over the naturals, for the set of numbers that have a property.
LEMMA SetInduction ==
  ASSUME NEW S \in SUBSET Nat, 0 \in S, \A n \in Nat : n \in S => n+1 \in S
  PROVE  S = Nat
<1> SUFFICES ASSUME S # Nat PROVE FALSE
  OBVIOUS
<1> DEFINE T == Nat \ S
<1>1. PICK x \in T : \A y \in T : x <= y
  BY LeastElement
<1>2. x # 0 /\ x - 1 \in Nat /\ ~(x <= x - 1)
  OBVIOUS
<1>3. x - 1 \in S
  BY <1>1, <1>2
<1> QED BY <1>2, <1>3

-----------------------------------------------------------------------------

\* g is the running balance of the first n rows of v.
IsRunning(g, v, n) ==
  /\ g \in [0..n -> Int]
  /\ g[0] = 0
  /\ \A k \in 1..n : g[k] = g[k-1] + v[k]

\* Every sequence of amounts has a running balance.
LEMMA RunningExists ==
  ASSUME NEW v \in Seq(Int)
  PROVE  \E g : IsRunning(g, v, Len(v))
<1> DEFINE S == {n \in Nat : n <= Len(v) => \E g : IsRunning(g, v, n)}
<1>1. 0 \in S
  <2>1. IsRunning([k \in 0..0 |-> 0], v, 0)
    BY DEF IsRunning
  <2> QED BY <2>1
<1>2. ASSUME NEW n \in Nat, n \in S PROVE n+1 \in S
  <2> SUFFICES ASSUME n+1 <= Len(v) PROVE \E g : IsRunning(g, v, n+1)
    OBVIOUS
  <2>1. PICK g : IsRunning(g, v, n)
    BY <1>2
  <2> DEFINE h == [k \in 0..(n+1) |-> IF k = n+1 THEN g[n] + v[n+1] ELSE g[k]]
  <2>2. n+1 \in 1..Len(v) /\ v[n+1] \in Int /\ g[n] \in Int
    BY <2>1 DEF IsRunning
  <2>3. h \in [0..(n+1) -> Int] /\ h[0] = 0
    BY <2>1, <2>2 DEF IsRunning
  <2>4. ASSUME NEW k \in 1..(n+1) PROVE h[k] = h[k-1] + v[k]
    <3>1. CASE k = n+1
      BY <3>1
    <3>2. CASE k # n+1
      <4>1. k \in 1..n /\ k-1 \in 0..n /\ k-1 # n+1
        BY <3>2
      <4> QED BY <2>1, <4>1, <3>2 DEF IsRunning
    <3> QED BY <3>1, <3>2
  <2>5. IsRunning(h, v, n+1)
    BY <2>3, <2>4 DEF IsRunning
  <2> QED BY <2>5
<1>3. S = Nat
  <2>1. S \in SUBSET Nat
    OBVIOUS
  <2> HIDE DEF S
  <2> QED BY <1>1, <1>2, <2>1, SetInduction
<1>4. Len(v) \in Nat /\ Len(v) <= Len(v)
  OBVIOUS
<1>5. Len(v) \in S
  <2> HIDE DEF S
  <2> QED BY <1>3, <1>4
<1> QED BY <1>4, <1>5

\* A sequence of amounts has one running balance.
LEMMA RunningUnique ==
  ASSUME NEW v \in Seq(Int), NEW n \in Nat, NEW g, NEW h,
         IsRunning(g, v, n), IsRunning(h, v, n)
  PROVE  g = h
<1> DEFINE S == {m \in Nat : m <= n => g[m] = h[m]}
<1>1. 0 \in S
  BY DEF IsRunning
<1>2. ASSUME NEW m \in Nat, m \in S PROVE m+1 \in S
  <2> SUFFICES ASSUME m+1 <= n PROVE g[m+1] = h[m+1]
    OBVIOUS
  <2>1. m+1 \in 1..n /\ m <= n /\ (m+1)-1 = m
    OBVIOUS
  <2>2. g[m+1] = g[m] + v[m+1] /\ h[m+1] = h[m] + v[m+1]
    BY <2>1 DEF IsRunning
  <2> QED BY <1>2, <2>1, <2>2
<1>3. S = Nat
  <2>1. S \in SUBSET Nat
    OBVIOUS
  <2> HIDE DEF S
  <2> QED BY <1>1, <1>2, <2>1, SetInduction
<1>4. \A k \in 0..n : g[k] = h[k]
  BY <1>3
<1> QED BY <1>4 DEF IsRunning

\* Total is the last value of the running balance.
LEMMA TotalIsRunning ==
  ASSUME NEW v \in Seq(Int), NEW g, IsRunning(g, v, Len(v))
  PROVE  Total(v) = g[Len(v)]
<1> DEFINE F(h) == [k \in 0..Len(v) |-> IF k = 0 THEN 0 ELSE h[k-1] + v[k]]
<1>1. Len(v) \in Nat
  OBVIOUS
<1>2. ASSUME NEW h, h = F(h), NEW m \in 0..Len(v) PROVE h[m] \in Int
  <2> DEFINE S == {i \in Nat : i <= Len(v) => h[i] \in Int}
  <2>1. 0 \in S
    BY <1>1, <1>2
  <2>2. ASSUME NEW i \in Nat, i \in S PROVE i+1 \in S
    <3> SUFFICES ASSUME i+1 <= Len(v) PROVE h[i+1] \in Int
      OBVIOUS
    <3>1. i+1 \in 1..Len(v) /\ i+1 # 0 /\ (i+1)-1 = i /\ i <= Len(v)
      BY <1>1
    <3>2. h[i+1] = h[i] + v[i+1]
      BY <1>2, <3>1
    <3>3. v[i+1] \in Int /\ h[i] \in Int
      BY <2>2, <3>1
    <3> QED BY <3>2, <3>3
  <2>3. S = Nat
    <3>1. S \in SUBSET Nat
      OBVIOUS
    <3> HIDE DEF S
    <3> QED BY <2>1, <2>2, <3>1, SetInduction
  <2> QED BY <2>3, <1>1
<1>3. \A h : h = F(h) => IsRunning(h, v, Len(v))
  <2> SUFFICES ASSUME NEW h, h = F(h) PROVE IsRunning(h, v, Len(v))
    OBVIOUS
  <2>1. h \in [0..Len(v) -> Int]
    BY <1>2
  <2>2. h[0] = 0
    BY <1>1
  <2>3. \A k \in 1..Len(v) : h[k] = h[k-1] + v[k]
    BY <1>1
  <2> QED BY <2>1, <2>2, <2>3 DEF IsRunning
<1>4. g = F(g)
  <2>1. \A k \in 0..Len(v) : g[k] = IF k = 0 THEN 0 ELSE g[k-1] + v[k]
    BY <1>1 DEF IsRunning
  <2> QED BY <2>1 DEF IsRunning
<1>5. (CHOOSE h : h = F(h)) = g
  <2> DEFINE c == CHOOSE h : h = F(h)
  <2>1. c = F(c)
    BY <1>4
  <2>2. IsRunning(c, v, Len(v))
    BY <2>1, <1>3
  <2> QED BY <2>2, <1>1, RunningUnique
<1> QED BY <1>5 DEF Total

-----------------------------------------------------------------------------

\* A total of integers is an integer.
LEMMA TotalType ==
  ASSUME NEW v \in Seq(Int)
  PROVE  Total(v) \in Int
<1>1. PICK g : IsRunning(g, v, Len(v))
  BY RunningExists
<1>2. Len(v) \in 0..Len(v)
  OBVIOUS
<1> QED BY <1>1, <1>2, TotalIsRunning DEF IsRunning

\* The total of an empty table is 0.
LEMMA TotalEmpty ==
  ASSUME NEW v \in Seq(Int), Len(v) = 0
  PROVE  Total(v) = 0
<1>1. PICK g : IsRunning(g, v, Len(v))
  BY RunningExists
<1> QED BY <1>1, TotalIsRunning DEF IsRunning

\* A total of naturals is a natural.
LEMMA TotalNatural ==
  ASSUME NEW v \in Seq(Nat)
  PROVE  Total(v) \in Nat
<1>1. v \in Seq(Int)
  OBVIOUS
<1>2. PICK g : IsRunning(g, v, Len(v))
  BY <1>1, RunningExists
<1> DEFINE S == {n \in Nat : n <= Len(v) => g[n] >= 0}
<1>3. 0 \in S
  BY <1>2 DEF IsRunning
<1>4. ASSUME NEW n \in Nat, n \in S PROVE n+1 \in S
  <2> SUFFICES ASSUME n+1 <= Len(v) PROVE g[n+1] >= 0
    OBVIOUS
  <2>1. n+1 \in 1..Len(v) /\ n \in 0..Len(v) /\ v[n+1] \in Nat /\ g[n] >= 0
    BY <1>4
  <2>2. g \in [0..Len(v) -> Int] /\ \A k \in 1..Len(v) : g[k] = g[k-1] + v[k]
    BY <1>2 DEF IsRunning
  <2>3. g[n+1] = g[(n+1)-1] + v[n+1]
    BY <2>1, <2>2
  <2>4. (n+1)-1 = n
    OBVIOUS
  <2>5. g[n] \in Int
    BY <2>1, <2>2
  <2> QED BY <2>1, <2>3, <2>4, <2>5
<1>5. S = Nat
  <2> HIDE DEF S
  <2>1. S \in SUBSET Nat
    BY DEF S
  <2> QED BY <1>3, <1>4, <2>1, SetInduction
<1>6. Len(v) \in Nat /\ g[Len(v)] >= 0 /\ Total(v) = g[Len(v)]
  BY <1>1, <1>2, <1>5, TotalIsRunning
<1> QED BY <1>1, <1>6, TotalType

\* A new last row adds its amount: w has one row more than v.
LEMMA TotalAppend ==
  ASSUME NEW v \in Seq(Int), NEW w \in Seq(Int), Len(w) = Len(v) + 1,
         \A k \in 1..Len(v) : w[k] = v[k]
  PROVE  Total(w) = Total(v) + w[Len(w)]
<1>1. PICK g : IsRunning(g, w, Len(w))
  BY RunningExists
<1> DEFINE h == [k \in 0..Len(v) |-> g[k]]
<1>2. Len(v) \in Nat /\ Len(w) \in 1..Len(w) /\ Len(w) - 1 = Len(v)
  OBVIOUS
<1>3. IsRunning(h, v, Len(v))
  <2>1. h \in [0..Len(v) -> Int] /\ h[0] = 0
    BY <1>1, <1>2 DEF IsRunning
  <2>2. \A k \in 1..Len(v) : h[k] = h[k-1] + v[k]
    BY <1>1, <1>2 DEF IsRunning
  <2> QED BY <2>1, <2>2 DEF IsRunning
<1>4. Total(v) = h[Len(v)] /\ Total(w) = g[Len(w)]
  BY <1>1, <1>3, TotalIsRunning
<1>5. g[Len(w)] = g[Len(v)] + w[Len(w)]
  BY <1>1, <1>2 DEF IsRunning
<1> QED BY <1>2, <1>4, <1>5

\* When one row changes, the total changes by as much.
LEMMA TotalChange ==
  ASSUME NEW v \in Seq(Int), NEW w \in Seq(Int), NEW i \in 1..Len(v),
         Len(w) = Len(v), \A k \in 1..Len(v) : k # i => w[k] = v[k]
  PROVE  Total(w) = Total(v) - v[i] + w[i]
<1>1. PICK g : IsRunning(g, v, Len(v))
  BY RunningExists
<1> DEFINE h == [k \in 0..Len(v) |-> IF k < i THEN g[k] ELSE g[k] - v[i] + w[i]]
<1>2. Len(v) \in Nat /\ v[i] \in Int /\ w[i] \in Int
  OBVIOUS
<1>3. IsRunning(h, w, Len(w))
  <2>1. h \in [0..Len(w) -> Int] /\ h[0] = 0
    BY <1>1, <1>2 DEF IsRunning
  <2>2. ASSUME NEW k \in 1..Len(w) PROVE h[k] = h[k-1] + w[k]
    <3>1. k \in 0..Len(v) /\ k-1 \in 0..Len(v) /\ g[k] = g[k-1] + v[k]
      BY <1>1, <1>2 DEF IsRunning
    <3>2. k \in 1..Len(v) /\ v[k] \in Int /\ w[k] \in Int
      BY <1>2
    <3>3. g[k] \in Int /\ g[k-1] \in Int
      BY <1>1, <3>1 DEF IsRunning
    <3>4. CASE k < i
      BY <1>2, <3>1, <3>2, <3>3, <3>4
    <3>5. CASE k = i
      BY <1>2, <3>1, <3>2, <3>3, <3>5
    <3>6. CASE k > i
      <4>1. w[k] = v[k]
        BY <3>2, <3>6
      <4>2. h[k] = g[k] - v[i] + w[i] /\ h[k-1] = g[k-1] - v[i] + w[i]
        BY <3>1, <3>2, <3>6
      <4> DEFINE now == g[k]
                 before == g[k-1]
                 amount == v[k]
                 old == v[i]
                 new == w[i]
      <4>3. /\ now \in Int /\ before \in Int /\ amount \in Int /\ old \in Int /\ new \in Int
            /\ now = before + amount
        BY <1>2, <3>1, <3>2, <3>3
      <4>4. h[k] = now - old + new /\ h[k-1] = before - old + new /\ w[k] = amount
        BY <4>1, <4>2
      <4> HIDE DEF h, now, before, amount, old, new
      <4>5. now - old + new = (before - old + new) + amount
        BY <4>3
      <4> QED BY <4>4, <4>5
    <3> QED BY <3>4, <3>5, <3>6
  <2> QED BY <2>1, <2>2 DEF IsRunning
<1>4. Total(v) = g[Len(v)] /\ Total(w) = h[Len(w)]
  BY <1>1, <1>3, TotalIsRunning
<1>5. Len(v) \in 0..Len(v) /\ ~(Len(v) < i)
  BY <1>2
<1> QED BY <1>4, <1>5

\* A total of zeros is 0.
LEMMA TotalZero ==
  ASSUME NEW v \in Seq(Int), \A k \in 1..Len(v) : v[k] = 0
  PROVE  Total(v) = 0
<1> DEFINE g == [k \in 0..Len(v) |-> 0]
<1>1. IsRunning(g, v, Len(v))
  BY DEF IsRunning
<1>2. g[Len(v)] = 0
  OBVIOUS
<1> HIDE DEF g
<1> QED BY <1>1, <1>2, TotalIsRunning

\* The totals of two columns add up to the total of their sums.
LEMMA TotalPlus ==
  ASSUME NEW u \in Seq(Int), NEW v \in Seq(Int), NEW w \in Seq(Int),
         Len(u) = Len(w), Len(v) = Len(w), \A k \in 1..Len(w) : w[k] = u[k] + v[k]
  PROVE  /\ Total(w) = Total(u) + Total(v)
         /\ Total(w) \in Int /\ Total(u) \in Int /\ Total(v) \in Int
<1>1. PICK f : IsRunning(f, u, Len(u))
  BY RunningExists
<1>2. PICK g : IsRunning(g, v, Len(v))
  BY RunningExists
<1>3. PICK h : h = [k \in 0..Len(w) |-> f[k] + g[k]]
  OBVIOUS
<1>4. Len(w) \in Nat
  OBVIOUS
<1>5. /\ f \in [0..Len(w) -> Int] /\ g \in [0..Len(w) -> Int] /\ f[0] = 0 /\ g[0] = 0
      /\ \A k \in 1..Len(w) : f[k] = f[k-1] + u[k] /\ g[k] = g[k-1] + v[k]
  BY <1>1, <1>2 DEF IsRunning
<1>6. IsRunning(h, w, Len(w))
  <2>1. h \in [0..Len(w) -> Int] /\ h[0] = 0
    BY <1>3, <1>4, <1>5
  <2>2. ASSUME NEW k \in 1..Len(w) PROVE h[k] = h[k-1] + w[k]
    <3>1. k \in 0..Len(w) /\ k-1 \in 0..Len(w)
      BY <1>4
    <3>2. h[k] = f[k] + g[k] /\ h[k-1] = f[k-1] + g[k-1]
      BY <1>3, <3>1
    <3>3. /\ f[k-1] \in Int /\ g[k-1] \in Int
          /\ f[k] = f[k-1] + u[k] /\ g[k] = g[k-1] + v[k] /\ w[k] = u[k] + v[k]
      BY <1>5, <3>1
    <3>4. k \in 1..Len(u) /\ k \in 1..Len(v)
      OBVIOUS
    <3>5. u[k] \in Int /\ v[k] \in Int
      BY <3>4
    <3> QED BY <3>2, <3>3, <3>5, SMTT(20)
  <2> QED BY <2>1, <2>2 DEF IsRunning
<1>7. Total(u) = f[Len(u)] /\ Total(v) = g[Len(v)] /\ Total(w) = h[Len(w)]
  BY <1>1, <1>2, <1>6, TotalIsRunning
<1>8. h[Len(w)] = f[Len(w)] + g[Len(w)]
  BY <1>3, <1>4
<1>9. Total(w) \in Int /\ Total(u) \in Int /\ Total(v) \in Int
  BY TotalType
<1> QED BY <1>7, <1>8, <1>9

-----------------------------------------------------------------------------
\* A column of a table: value says what a row contributes.
Amounts(table, value) == [i \in 1..Len(table) |-> value[table[i]]]

\* A column of integers has a total.
LEMMA AmountsTyped ==
  ASSUME NEW R, NEW value \in [R -> Int], NEW table \in Seq(R)
  PROVE  /\ Amounts(table, value) \in Seq(Int)
         /\ Len(Amounts(table, value)) = Len(table)
         /\ Total(Amounts(table, value)) \in Int
<1>1. /\ Amounts(table, value) \in Seq(Int)
      /\ Len(Amounts(table, value)) = Len(table)
  BY DEF Amounts
<1> QED BY <1>1, TotalType

\* An empty table has none.
LEMMA AmountsEmpty ==
  ASSUME NEW R, NEW value \in [R -> Int], NEW table \in Seq(R), Len(table) = 0
  PROVE  Total(Amounts(table, value)) = 0
BY AmountsTyped, TotalEmpty

\* A new row adds what it contributes.
LEMMA AmountsAppend ==
  ASSUME NEW R, NEW value \in [R -> Int], NEW table \in Seq(R), NEW other \in Seq(R),
         Len(other) = Len(table) + 1, \A k \in 1..Len(table) : other[k] = table[k]
  PROVE  Total(Amounts(other, value)) = Total(Amounts(table, value)) + value[other[Len(table) + 1]]
<1> DEFINE v == Amounts(table, value)
           w == Amounts(other, value)
<1>1. v \in Seq(Int) /\ w \in Seq(Int) /\ Len(v) = Len(table) /\ Len(w) = Len(other)
  BY AmountsTyped
<1>2. Len(table) \in Nat /\ Len(other) \in 1..Len(other)
  OBVIOUS
<1>3. w[Len(w)] = value[other[Len(table) + 1]]
  BY <1>1, <1>2 DEF Amounts
<1>4. \A k \in 1..Len(v) : w[k] = v[k]
  BY <1>1, <1>2 DEF Amounts
<1> HIDE DEF v, w
<1>5. Total(w) = Total(v) + w[Len(w)]
  BY <1>1, <1>4, TotalAppend
<1> QED BY <1>3, <1>5 DEF v, w

\* A row that changes takes away what it contributed and adds what it does now.
LEMMA AmountsChange ==
  ASSUME NEW R, NEW value \in [R -> Int], NEW table \in Seq(R), NEW other \in Seq(R),
         NEW i \in 1..Len(table), Len(other) = Len(table),
         \A k \in 1..Len(table) : k # i => other[k] = table[k]
  PROVE  Total(Amounts(other, value))
           = Total(Amounts(table, value)) - value[table[i]] + value[other[i]]
<1> DEFINE v == Amounts(table, value)
           w == Amounts(other, value)
<1>1. v \in Seq(Int) /\ w \in Seq(Int) /\ Len(v) = Len(table) /\ Len(w) = Len(other)
  BY AmountsTyped
<1>2. v[i] = value[table[i]] /\ w[i] = value[other[i]]
  BY DEF Amounts
<1>3. \A k \in 1..Len(v) : k # i => w[k] = v[k]
  BY <1>1 DEF Amounts
<1> HIDE DEF v, w
<1>4. Total(w) = Total(v) - v[i] + w[i]
  BY <1>1, <1>3, TotalChange
<1> QED BY <1>2, <1>4 DEF v, w

\* The same of a row that is appended, and of one that is written over.
LEMMA AmountsAppended ==
  ASSUME NEW R, NEW value \in [R -> Int], NEW table \in Seq(R), NEW row \in R
  PROVE  /\ Total(Amounts(Append(table, row), value)) = Total(Amounts(table, value)) + value[row]
         /\ Total(Amounts(table, value)) \in Int /\ value[row] \in Int
<1> DEFINE other == Append(table, row)
<1>1. /\ other \in Seq(R) /\ Len(other) = Len(table) + 1
      /\ \A k \in 1..Len(table) : other[k] = table[k]
      /\ other[Len(table) + 1] = row
  OBVIOUS
<1> HIDE DEF other
<1>2. Total(Amounts(other, value)) = Total(Amounts(table, value)) + value[other[Len(table) + 1]]
  BY <1>1, AmountsAppend, ZenonT(40)
<1>3. Total(Amounts(table, value)) \in Int
  BY AmountsTyped
<1> QED BY <1>1, <1>2, <1>3 DEF other

LEMMA AmountsRewritten ==
  ASSUME NEW R, NEW value \in [R -> Int], NEW table \in Seq(R), NEW i \in 1..Len(table),
         NEW row \in R
  PROVE  /\ Total(Amounts([table EXCEPT ![i] = row], value))
              = Total(Amounts(table, value)) - value[table[i]] + value[row]
         /\ Total(Amounts(table, value)) \in Int
         /\ value[table[i]] \in Int /\ value[row] \in Int
<1> DEFINE other == [table EXCEPT ![i] = row]
<1>1. /\ other \in Seq(R) /\ Len(other) = Len(table) /\ other[i] = row
      /\ \A k \in 1..Len(table) : k # i => other[k] = table[k]
  OBVIOUS
<1> HIDE DEF other
<1> DEFINE v == Amounts(table, value)
           w == Amounts(other, value)
<1>2. Total(w) = Total(v) - value[table[i]] + value[row]
  <2>1. v \in Seq(Int) /\ w \in Seq(Int) /\ Len(v) = Len(table) /\ Len(w) = Len(table)
    BY <1>1, AmountsTyped
  <2>2. v[i] = value[table[i]] /\ w[i] = value[row]
    BY <1>1 DEF Amounts
  <2>3. \A k \in 1..Len(v) : k # i => w[k] = v[k]
    BY <1>1, <2>1 DEF Amounts
  <2> HIDE DEF v, w
  <2> QED BY <2>1, <2>2, <2>3, TotalChange
<1>3. Total(Amounts(table, value)) \in Int /\ value[table[i]] \in Int /\ value[row] \in Int
  BY AmountsTyped
<1> QED BY <1>1, <1>2, <1>3 DEF other

=============================================================================
