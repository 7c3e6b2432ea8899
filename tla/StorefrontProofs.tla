--------------------------- MODULE StorefrontProofs ---------------------------
(***************************************************************************)
(* Theorems about Storefront, for any number of things for sale, orders,   *)
(* requests under way and things the buyer and the sellers do.             *)
(***************************************************************************)
EXTENDS Storefront, FiniteSetTheorems, WellFoundedInduction, TLAPS

-----------------------------------------------------------------------------
(* Sums: of how many there are in the first so many orders.                *)

LEMMA LeastIsIn ==
    ASSUME NEW S, S \subseteq Nat, S # {}
    PROVE  \E x \in S : \A y \in S : x <= y
<1>1. \E x \in S : \A y \in S : ~(<<y, x>> \in OpToRel(<, Nat))
  BY WFMin, NatLessThanWellFounded, Zenon
<1>2. \A x, y \in Nat : y < x => <<y, x>> \in OpToRel(<, Nat)
  BY Zenon DEF OpToRel
<1>3. \E x \in S : \A y \in S : ~(y < x)
  BY <1>1, <1>2, Zenon
<1> QED
  BY <1>3

\* What holds of 0, and of n + 1 when it holds of n, holds up to any number.
LEMMA UpTo ==
    ASSUME NEW L \in Nat, NEW S, 0 \in S, \A n \in 0..L : n \in S /\ n < L => n + 1 \in S
    PROVE  \A n \in 0..L : n \in S
<1> DEFINE Not == {n \in 0..L : n \notin S}
<1> SUFFICES ASSUME Not # {}
             PROVE  FALSE
  OBVIOUS
<1>0. Not \subseteq Nat
  OBVIOUS
<1>1. PICK m \in Not : \A n \in Not : m <= n
  <2> HIDE DEF Not
  <2> QED
    BY <1>0, LeastIsIn
<1>2. m # 0 /\ m - 1 \in 0..L /\ m - 1 \notin Not
  BY <1>1
<1> QED
  BY <1>1, <1>2

IsSum(f, them, L) == f = [n \in 0..L |-> IF n = 0 THEN 0 ELSE f[n - 1] + them[n]]
SumOf(them, L) == (CHOOSE f : IsSum(f, them, L))[L]

LEMMA SumExists ==
    ASSUME NEW L \in Nat, NEW them \in [1..L -> Nat]
    PROVE  \E f \in [0..L -> Nat] : IsSum(f, them, L)
<1> DEFINE Has == {m \in 0..L : \E f \in [0..m -> Nat] : IsSum(f, them, m)}
<1>1. 0 \in Has
  <2>1. [n \in 0..0 |-> 0] \in [0..0 -> Nat] /\ IsSum([n \in 0..0 |-> 0], them, 0)
    BY DEF IsSum
  <2> QED
    BY <2>1
<1>2. ASSUME NEW m \in 0..L, m \in Has, m < L
      PROVE  m + 1 \in Has
  <2>1. PICK f \in [0..m -> Nat] : IsSum(f, them, m)
    BY <1>2
  <2>2. f[0] = 0 /\ \A n \in 1..m : f[n] = f[n - 1] + them[n]
    <3>1. \A n \in 0..m : f[n] = IF n = 0 THEN 0 ELSE f[n - 1] + them[n]
      BY <2>1 DEF IsSum
    <3> QED
      BY <3>1
  <2> DEFINE g == [n \in 0..(m + 1) |-> IF n = m + 1 THEN f[m] + them[m + 1] ELSE f[n]]
  <2>3. g \in [0..(m + 1) -> Nat]
    BY <1>2
  <2>4. \A n \in 0..(m + 1) : g[n] = IF n = 0 THEN 0 ELSE g[n - 1] + them[n]
    <3> SUFFICES ASSUME NEW n \in 0..(m + 1)
                 PROVE  g[n] = IF n = 0 THEN 0 ELSE g[n - 1] + them[n]
      OBVIOUS
    <3>1. CASE n = m + 1
      <4>1. n # 0 /\ n - 1 = m /\ m \in 0..(m + 1) /\ m # m + 1
        BY <3>1
      <4> QED
        BY <3>1, <4>1
    <3>2. CASE n \in 1..m
      <4>1. n # m + 1 /\ n # 0 /\ n - 1 # m + 1 /\ n - 1 \in 0..(m + 1)
        BY <3>2
      <4> QED
        BY <2>2, <3>2, <4>1
    <3>3. CASE n = 0
      <4>1. n # m + 1
        BY <3>3
      <4> QED
        BY <2>2, <3>3, <4>1
    <3> QED
      BY <3>1, <3>2, <3>3
  <2>5. IsSum(g, them, m + 1)
    BY <2>4, Zenon DEF IsSum
  <2>6. m + 1 \in 0..L
    BY <1>2
  <2> HIDE DEF g
  <2> QED
    BY <2>3, <2>5, <2>6
<1>3. \A m \in 0..L : m \in Has
  <2> HIDE DEF Has
  <2> QED
    BY <1>1, <1>2, UpTo
<1>4. L \in Has
  <2> HIDE DEF Has
  <2> QED
    BY <1>3
<1> QED
  BY <1>4

\* A sum is the last of a row of sums, each the one before it and one more number.
LEMMA SumGrows ==
    ASSUME NEW L \in Nat, NEW them \in [1..L -> Nat]
    PROVE  \E f \in [0..L -> Nat] :
               /\ SumOf(them, L) = f[L] /\ f[0] = 0
               /\ \A n \in 1..L : f[n] = f[n - 1] + them[n]
<1> DEFINE f == CHOOSE g : IsSum(g, them, L)
<1>1. IsSum(f, them, L)
  BY SumExists, Zenon
<1>2. \A g : IsSum(g, them, L) => /\ g[0] = 0
                                  /\ \A n \in 1..L : g[n] = g[n - 1] + them[n]
                                  /\ g = [n \in 0..L |-> g[n]]
  <2> SUFFICES ASSUME NEW g, IsSum(g, them, L)
               PROVE  /\ g[0] = 0
                      /\ \A n \in 1..L : g[n] = g[n - 1] + them[n]
                      /\ g = [n \in 0..L |-> g[n]]
    OBVIOUS
  <2>1. g = [n \in 0..L |-> IF n = 0 THEN 0 ELSE g[n - 1] + them[n]]
    BY DEF IsSum
  <2>2. \A n \in 0..L : g[n] = IF n = 0 THEN 0 ELSE g[n - 1] + them[n]
    BY <2>1
  <2>3. g = [n \in 0..L |-> g[n]]
    BY <2>1
  <2>4. \A n \in 1..L : n \in 0..L /\ n # 0
    OBVIOUS
  <2>5. 0 \in 0..L
    OBVIOUS
  <2> QED
    BY <2>2, <2>3, <2>4, <2>5, Zenon
<1> HIDE DEF f
<1>3. f[0] = 0 /\ (\A n \in 1..L : f[n] = f[n - 1] + them[n]) /\ f = [n \in 0..L |-> f[n]]
  BY <1>1, <1>2
<1> DEFINE Natural == {n \in 0..L : f[n] \in Nat}
<1>4. \A n \in 0..L : n \in Natural
  <2>1. 0 \in Natural
    BY <1>3
  <2>2. \A n \in 0..L : n \in Natural /\ n < L => n + 1 \in Natural
    <3> SUFFICES ASSUME NEW n \in 0..L, f[n] \in Nat, n < L
                 PROVE  f[n + 1] \in Nat
      OBVIOUS
    <3>1. n + 1 \in 1..L /\ (n + 1) - 1 = n /\ them[n + 1] \in Nat
      OBVIOUS
    <3>2. f[n + 1] = f[(n + 1) - 1] + them[n + 1]
      BY <1>3, <3>1, Zenon
    <3>3. f[n + 1] = f[n] + them[n + 1]
      BY <3>1, <3>2, Zenon
    <3> QED
      BY <3>1, <3>3
  <2> HIDE DEF Natural
  <2> QED
    BY <2>1, <2>2, UpTo
<1>5. f \in [0..L -> Nat]
  BY <1>3, <1>4
<1>6. SumOf(them, L) = f[L]
  BY Zenon DEF SumOf, f
<1> QED
  BY <1>3, <1>5, <1>6

LEMMA SumIsNatural ==
    ASSUME NEW L \in Nat, NEW them \in [1..L -> Nat]
    PROVE  SumOf(them, L) \in Nat
BY SumGrows

\* Numbers that differ in one place add up to sums that differ by as much.
LEMMA SumChangesOne ==
    ASSUME NEW L \in Nat, NEW a \in [1..L -> Nat], NEW b \in [1..L -> Nat], NEW i \in 1..L,
           \A n \in 1..L : n # i => a[n] = b[n]
    PROVE  SumOf(a, L) + b[i] = SumOf(b, L) + a[i]
<1>1. PICK f \in [0..L -> Nat] :
          /\ SumOf(a, L) = f[L] /\ f[0] = 0 /\ \A n \in 1..L : f[n] = f[n - 1] + a[n]
  BY SumGrows
<1>2. PICK g \in [0..L -> Nat] :
          /\ SumOf(b, L) = g[L] /\ g[0] = 0 /\ \A n \in 1..L : g[n] = g[n - 1] + b[n]
  BY SumGrows
<1> DEFINE Agree == {m \in 0..L : (m < i => f[m] = g[m]) /\ (m >= i => f[m] + b[i] = g[m] + a[i])}
<1>3. 0 \in Agree
  BY <1>1, <1>2
<1>4. ASSUME NEW m \in 0..L, m \in Agree, m < L
      PROVE  m + 1 \in Agree
  <2>1. m + 1 \in 1..L /\ (m + 1) - 1 = m
    BY <1>4
  <2>2. f[m + 1] = f[m] + a[m + 1] /\ g[m + 1] = g[m] + b[m + 1]
    BY <1>1, <1>2, <2>1
  <2>3. /\ f[m] \in Nat /\ g[m] \in Nat /\ a[m + 1] \in Nat /\ b[m + 1] \in Nat
        /\ a[i] \in Nat /\ b[i] \in Nat
    BY <2>1
  <2>4. m + 1 # i => a[m + 1] = b[m + 1]
    BY <2>1
  <2>5. (m < i => f[m] = g[m]) /\ (m >= i => f[m] + b[i] = g[m] + a[i])
    BY <1>4
  <2>6. CASE m + 1 < i
    BY <2>1, <2>2, <2>3, <2>4, <2>5, <2>6
  <2>7. CASE m + 1 = i
    <3>1. a[m + 1] = a[i] /\ b[m + 1] = b[i] /\ m < i /\ m + 1 >= i /\ ~(m + 1 < i)
      BY <2>7
    <3> QED
      BY <2>1, <2>2, <2>3, <2>5, <3>1
  <2>8. CASE m + 1 > i
    <3>1. m >= i /\ m + 1 # i /\ m + 1 >= i /\ ~(m + 1 < i)
      BY <2>8
    <3>2. f[m] + b[i] = g[m] + a[i] /\ a[m + 1] = b[m + 1]
      BY <2>4, <2>5, <3>1
    <3> DEFINE u == f[m]  v == b[i]  w == g[m]  x == a[i]  y == a[m + 1]
    <3>3. u \in Nat /\ v \in Nat /\ w \in Nat /\ x \in Nat /\ y \in Nat /\ u + v = w + x
      BY <2>3, <3>2
    <3>4. f[m + 1] = u + y /\ g[m + 1] = w + y
      BY <2>2, <3>2
    <3> HIDE DEF u, v, w, x, y
    <3>5. (u + y) + v = (w + y) + x
      BY <3>3
    <3>6. f[m + 1] + b[i] = g[m + 1] + a[i]
      BY <3>4, <3>5, Zenon DEF v, x
    <3> QED
      BY <2>1, <3>1, <3>6
  <2> QED
    BY <2>6, <2>7, <2>8
<1>5. \A m \in 0..L : m \in Agree
  <2> HIDE DEF Agree
  <2> QED
    BY <1>3, <1>4, UpTo
<1>6. L \in Agree
  BY <1>5
<1> QED
  BY <1>1, <1>2, <1>6

\* One number more.
LEMMA SumOfOneMore ==
    ASSUME NEW L \in Nat, NEW a \in [1..L -> Nat], NEW b \in [1..(L + 1) -> Nat],
           \A n \in 1..L : a[n] = b[n]
    PROVE  SumOf(b, L + 1) = SumOf(a, L) + b[L + 1]
<1>1. PICK f \in [0..L -> Nat] :
          /\ SumOf(a, L) = f[L] /\ f[0] = 0 /\ \A n \in 1..L : f[n] = f[n - 1] + a[n]
  BY SumGrows
<1>2. PICK g \in [0..(L + 1) -> Nat] :
          /\ SumOf(b, L + 1) = g[L + 1] /\ g[0] = 0
          /\ \A n \in 1..(L + 1) : g[n] = g[n - 1] + b[n]
  <2>1. L + 1 \in Nat
    OBVIOUS
  <2> QED
    BY <2>1, SumGrows, Zenon
<1> DEFINE Agree == {m \in 0..L : f[m] = g[m]}
<1>3. 0 \in Agree
  BY <1>1, <1>2
<1>4. ASSUME NEW m \in 0..L, m \in Agree, m < L
      PROVE  m + 1 \in Agree
  <2>1. m + 1 \in 1..L /\ m + 1 \in 1..(L + 1) /\ (m + 1) - 1 = m
    BY <1>4
  <2>2. f[m + 1] = f[m] + a[m + 1] /\ g[m + 1] = g[m] + b[m + 1]
    BY <1>1, <1>2, <2>1
  <2> QED
    BY <1>4, <2>1, <2>2
<1>5. \A m \in 0..L : m \in Agree
  <2> HIDE DEF Agree
  <2> QED
    BY <1>3, <1>4, UpTo
<1>6. L \in Agree
  BY <1>5
<1>7. L + 1 \in 1..(L + 1) /\ (L + 1) - 1 = L
  OBVIOUS
<1>8. g[L + 1] = g[L] + b[L + 1]
  BY <1>2, <1>7
<1> QED
  BY <1>1, <1>2, <1>6, <1>8

\* Smaller numbers have the smaller sum.
LEMMA SumOfSmaller ==
    ASSUME NEW L \in Nat, NEW a \in [1..L -> Nat], NEW b \in [1..L -> Nat],
           \A n \in 1..L : a[n] <= b[n]
    PROVE  SumOf(a, L) <= SumOf(b, L)
<1>1. PICK f \in [0..L -> Nat] :
          /\ SumOf(a, L) = f[L] /\ f[0] = 0 /\ \A n \in 1..L : f[n] = f[n - 1] + a[n]
  BY SumGrows
<1>2. PICK g \in [0..L -> Nat] :
          /\ SumOf(b, L) = g[L] /\ g[0] = 0 /\ \A n \in 1..L : g[n] = g[n - 1] + b[n]
  BY SumGrows
<1> DEFINE Less == {m \in 0..L : f[m] <= g[m]}
<1>3. 0 \in Less
  BY <1>1, <1>2
<1>4. ASSUME NEW m \in 0..L, m \in Less, m < L
      PROVE  m + 1 \in Less
  <2>1. m + 1 \in 1..L /\ (m + 1) - 1 = m
    BY <1>4
  <2>2. f[m + 1] = f[m] + a[m + 1] /\ g[m + 1] = g[m] + b[m + 1]
    BY <1>1, <1>2, <2>1
  <2>3. f[m] \in Nat /\ g[m] \in Nat /\ a[m + 1] \in Nat /\ b[m + 1] \in Nat
        /\ a[m + 1] <= b[m + 1] /\ f[m] <= g[m]
    BY <1>4, <2>1
  <2> QED
    BY <2>1, <2>2, <2>3
<1>5. \A m \in 0..L : m \in Less
  <2> HIDE DEF Less
  <2> QED
    BY <1>3, <1>4, UpTo
<1>6. L \in Less
  BY <1>5
<1> QED
  BY <1>1, <1>2, <1>6

-----------------------------------------------------------------------------
(* The inductive invariant *)

Charges == {"none", "open", "success", "failed", "refused"}
Request == [op : {"join", "push", "code", "text", "verify", "send", "confirm"},
            by : {"page", "left", "nobody", "app", "app gone"}, want : Wants, lines : Bag, rest : Bag,
            order : 0..MaxOrders, stage : {"asked", "answered"} \cup Charges, ok : BOOLEAN]

\* What is charged for, or about to be, of the bag on the website.
HeldBy(order, p) ==
    IF order.charge \in {"open", "success"} /\ order.from = "bag" THEN order.lines[p] ELSE 0
Held(p) == UnitsUpTo([n \in 1..Len(orders) |-> HeldBy(orders[n], p)])

\* What a request of the website may still come to, and what an answer brings: an
\* order nobody has opened the payment of.
OfTheBag == {"bag", "all", "next"}
Asks(c) == c.by \in {"page", "left"} /\ c.op \in {"code", "text", "verify", "send"}
Made(c) == c.op = "send" /\ c.stage = "answered" /\ c.ok /\ c.want \notin Forms

\* Whatever is left to pay for is still the buyer's to pay for.
Payable == {lines \in Bag : joined \/ \A p \in Products : Held(p) + lines[p] <= put[p]}

\* One thing at a time, and what is left for later is without it.
OneThing(c) ==
    \A p \in Products : c.lines[p] > 0 => c.rest[p] = 0 /\ \A q \in Products \ {p} : c.lines[q] = 0

NamesAnOrder(c, made) ==
    /\ c.order \in 0..Len(made)
    /\ c.op = "confirm" => c.order # 0
    /\ Made(c) =>
           /\ c.order # 0 /\ made[c.order].charge = "none"
           /\ made[c.order].lines = c.lines /\ made[c.order].from = PaidFrom(c)
AsksForItsOwn(c, payable) ==
    /\ c.op = "send" /\ c.by \in {"app", "app gone"} => c.want = "bag"
    /\ Asks(c) =>
           /\ c.want # "none" /\ c.rest \in payable
           /\ c.want \in OfTheBag => OneThing(c) /\ c.lines \in payable
Fits(c, made, payable) == NamesAnOrder(c, made) /\ AsksForItsOwn(c, payable)

CallsTyped == DOMAIN calls \subseteq 1..MaxCalls /\ \A id \in DOMAIN calls : calls[id] \in Request
CallsFit == \A id \in DOMAIN calls : Fits(calls[id], orders, Payable)
CallsApart ==
    \A i, j \in DOMAIN calls : i # j /\ Made(calls[i]) /\ Made(calls[j]) => calls[i].order # calls[j].order

\* A page whose form has been begun knows what it asks for.
Asked(c) == c.by = "page" /\ c.op \in {"code", "text"}
PageKnows ==
    /\ page.step = "code" => page.want # "none"
    /\ \A id \in DOMAIN calls : Asked(calls[id]) => page.want # "none"
    /\ page.on = "paystack" => page.want = "none"

\* The type invariant, in the parts that steps disturb together.
ShopsTyped == shelf \in [Products -> Shelf] /\ supplied \in [Products -> Nat]
OrdersTyped == orders \in Seq(Order) /\ Len(orders) <= MaxOrders
BagsTyped ==
    /\ account \in Bag /\ bag \in Bag /\ queue \in Bag /\ put \in [Products -> Nat]
    /\ signedIn \in BOOLEAN /\ pushing \in BOOLEAN /\ joined \in BOOLEAN
ScreensTyped ==
    /\ page \in Page /\ app \in App /\ presses \in 0..MaxPresses
    /\ page.order \in 0..Len(orders) /\ app.order \in 0..Len(orders)
    /\ page.on = "paystack" => page.order # 0

BagsCovered == bag \in Payable /\ queue \in Payable /\ page.queue \in Payable

IInv ==
    /\ ShopsTyped /\ OrdersTyped /\ BagsTyped /\ ScreensTyped
    /\ CallsTyped /\ CallsFit /\ CallsApart /\ PageKnows
    /\ BagsCovered /\ StockIsWhatIsLeft

-----------------------------------------------------------------------------
(* What is paid for, and what is held for the website's bag, as such sums. *)

PaidBy(order, p) == IF order.status = "paid" THEN order.lines[p] ELSE 0
ChargedBy(order, p, from) ==
    IF order.charge = "success" /\ order.from \in from THEN order.lines[p] ELSE 0
HeldRow(p) == [n \in 1..Len(orders) |-> HeldBy(orders[n], p)]
PaidRow(p) == [n \in 1..Len(orders) |-> PaidBy(orders[n], p)]
ChargedRow(p, from) == [n \in 1..Len(orders) |-> ChargedBy(orders[n], p, from)]

LEMMA UnitsAreSums ==
    ASSUME NEW p, NEW from
    PROVE  /\ Held(p) = SumOf(HeldRow(p), Len(orders))
           /\ PaidUnits(p) = SumOf(PaidRow(p), Len(orders))
           /\ ChargedUnits(p, from) = SumOf(ChargedRow(p, from), Len(orders))
<1>1. Held(p) = SumOf(HeldRow(p), Len(orders))
  BY Zenon DEF Held, HeldRow, UnitsUpTo, SumOf, IsSum
<1>2. PaidUnits(p) = SumOf(PaidRow(p), Len(orders))
  BY Zenon DEF PaidUnits, PaidRow, PaidBy, UnitsUpTo, SumOf, IsSum
<1>3. ChargedUnits(p, from) = SumOf(ChargedRow(p, from), Len(orders))
  BY Zenon DEF ChargedUnits, ChargedRow, ChargedBy, UnitsUpTo, SumOf, IsSum
<1> QED
  BY <1>1, <1>2, <1>3

LEMMA UnitsAreSumsAfter ==
    ASSUME NEW p
    PROVE  /\ Held(p)' = SumOf(HeldRow(p)', Len(orders'))
           /\ PaidUnits(p)' = SumOf(PaidRow(p)', Len(orders'))
<1>1. Held(p)' = SumOf(HeldRow(p)', Len(orders'))
  BY Zenon DEF Held, HeldRow, UnitsUpTo, SumOf, IsSum
<1>2. PaidUnits(p)' = SumOf(PaidRow(p)', Len(orders'))
  BY Zenon DEF PaidUnits, PaidRow, PaidBy, UnitsUpTo, SumOf, IsSum
<1> QED
  BY <1>1, <1>2

LEMMA OrderCounts ==
    ASSUME NEW o \in Order, NEW p \in Products, NEW from
    PROVE  /\ o.lines[p] \in Nat
           /\ HeldBy(o, p) \in Nat /\ PaidBy(o, p) \in Nat /\ ChargedBy(o, p, from) \in Nat
           /\ ChargedBy(o, p, {"bag"}) <= HeldBy(o, p)
<1>1. o.lines[p] \in Nat
  BY StorefrontAssumption DEF Order, Bag
<1> QED
  BY <1>1 DEF HeldBy, PaidBy, ChargedBy

LEMMA RowsAreNumbers ==
    ASSUME OrdersTyped, NEW p \in Products, NEW from
    PROVE  /\ Len(orders) \in Nat
           /\ HeldRow(p) \in [1..Len(orders) -> Nat] /\ PaidRow(p) \in [1..Len(orders) -> Nat]
           /\ ChargedRow(p, from) \in [1..Len(orders) -> Nat]
<1>1. Len(orders) \in Nat /\ \A n \in 1..Len(orders) : orders[n] \in Order
  BY DEF OrdersTyped
<1> QED
  BY <1>1, OrderCounts DEF HeldRow, PaidRow, ChargedRow

LEMMA UnitsAreNumbers ==
    ASSUME OrdersTyped, NEW p \in Products
    PROVE  Held(p) \in Nat /\ PaidUnits(p) \in Nat
BY UnitsAreSums, RowsAreNumbers, SumIsNatural

LEMMA UnitsAreNumbersAfter ==
    ASSUME OrdersTyped', NEW p \in Products
    PROVE  Held(p)' \in Nat /\ PaidUnits(p)' \in Nat
<1>1. Len(orders') \in Nat /\ \A n \in 1..Len(orders') : orders'[n] \in Order
  BY DEF OrdersTyped
<1>2. HeldRow(p)' \in [1..Len(orders') -> Nat] /\ PaidRow(p)' \in [1..Len(orders') -> Nat]
  BY <1>1, OrderCounts DEF HeldRow, PaidRow
<1> QED
  BY <1>1, <1>2, UnitsAreSumsAfter, SumIsNatural

\* The same orders count the same.
LEMMA SameOrdersCountTheSame ==
    ASSUME UNCHANGED orders, NEW p
    PROVE  Held(p)' = Held(p) /\ PaidUnits(p)' = PaidUnits(p)
<1>1. HeldRow(p)' = HeldRow(p) /\ PaidRow(p)' = PaidRow(p)
  BY DEF HeldRow, PaidRow
<1> QED
  BY <1>1, UnitsAreSums, UnitsAreSumsAfter

\* One order changes, and the sums change by as much.
OrderBecomes(n, o) == orders' = [orders EXCEPT ![n] = o]

LEMMA OneOrderCounts ==
    ASSUME OrdersTyped, NEW n \in 1..Len(orders), NEW o \in Order, OrderBecomes(n, o)
    PROVE  /\ OrdersTyped' /\ Len(orders)' = Len(orders) /\ orders'[n] = o
           /\ \A k \in 1..Len(orders) : k # n => orders'[k] = orders[k]
           /\ \A p \in Products :
                  /\ Held(p)' + HeldBy(orders[n], p) = Held(p) + HeldBy(o, p)
                  /\ PaidUnits(p)' + PaidBy(orders[n], p) = PaidUnits(p) + PaidBy(o, p)
<1>1. /\ OrdersTyped' /\ Len(orders)' = Len(orders) /\ orders'[n] = o
      /\ \A k \in 1..Len(orders) : k # n => orders'[k] = orders[k]
  BY DEF OrdersTyped, OrderBecomes
<1>2. ASSUME NEW p \in Products
      PROVE  /\ Held(p)' + HeldBy(orders[n], p) = Held(p) + HeldBy(o, p)
             /\ PaidUnits(p)' + PaidBy(orders[n], p) = PaidUnits(p) + PaidBy(o, p)
  <2>1. /\ HeldRow(p)' \in [1..Len(orders) -> Nat] /\ PaidRow(p)' \in [1..Len(orders) -> Nat]
        /\ HeldRow(p)'[n] = HeldBy(o, p) /\ PaidRow(p)'[n] = PaidBy(o, p)
        /\ \A k \in 1..Len(orders) : k # n => /\ HeldRow(p)'[k] = HeldRow(p)[k]
                                            /\ PaidRow(p)'[k] = PaidRow(p)[k]
    <3>1. \A k \in 1..Len(orders) : orders'[k] \in Order
      BY <1>1 DEF OrdersTyped
    <3> QED
      BY <1>1, <3>1, OrderCounts DEF HeldRow, PaidRow
  <2>2. /\ HeldRow(p) \in [1..Len(orders) -> Nat] /\ PaidRow(p) \in [1..Len(orders) -> Nat]
        /\ Len(orders) \in Nat
        /\ HeldRow(p)[n] = HeldBy(orders[n], p) /\ PaidRow(p)[n] = PaidBy(orders[n], p)
    BY RowsAreNumbers DEF HeldRow, PaidRow
  <2>3. SumOf(HeldRow(p)', Len(orders)) + HeldRow(p)[n] = SumOf(HeldRow(p), Len(orders)) + HeldRow(p)'[n]
    BY <2>1, <2>2, SumChangesOne
  <2>4. SumOf(PaidRow(p)', Len(orders)) + PaidRow(p)[n] = SumOf(PaidRow(p), Len(orders)) + PaidRow(p)'[n]
    BY <2>1, <2>2, SumChangesOne
  <2> QED
    BY <1>1, <2>1, <2>2, <2>3, <2>4, UnitsAreSums, UnitsAreSumsAfter
<1> QED
  BY <1>1, <1>2

\* One order more, and the sums grow by it.
LEMMA NewOrderCounts ==
    ASSUME OrdersTyped, NEW o \in Order, orders' = Append(orders, o), Len(orders) < MaxOrders
    PROVE  /\ OrdersTyped' /\ Len(orders)' = Len(orders) + 1 /\ orders'[Len(orders) + 1] = o
           /\ \A k \in 1..Len(orders) : orders'[k] = orders[k]
           /\ \A p \in Products :
                  /\ Held(p)' = Held(p) + HeldBy(o, p)
                  /\ PaidUnits(p)' = PaidUnits(p) + PaidBy(o, p)
<1>1. /\ OrdersTyped' /\ Len(orders)' = Len(orders) + 1 /\ orders'[Len(orders) + 1] = o
      /\ \A k \in 1..Len(orders) : orders'[k] = orders[k]
  BY StorefrontAssumption DEF OrdersTyped
<1>2. ASSUME NEW p \in Products
      PROVE  /\ Held(p)' = Held(p) + HeldBy(o, p)
             /\ PaidUnits(p)' = PaidUnits(p) + PaidBy(o, p)
  <2> DEFINE L == Len(orders)
  <2>1. L \in Nat /\ Len(orders') = L + 1
    BY <1>1 DEF OrdersTyped
  <2>2. /\ HeldRow(p)' \in [1..(L + 1) -> Nat] /\ PaidRow(p)' \in [1..(L + 1) -> Nat]
        /\ HeldRow(p)'[L + 1] = HeldBy(o, p) /\ PaidRow(p)'[L + 1] = PaidBy(o, p)
        /\ \A k \in 1..L : /\ HeldRow(p)[k] = HeldRow(p)'[k]
                           /\ PaidRow(p)[k] = PaidRow(p)'[k]
    <3>1. \A k \in 1..(L + 1) : orders'[k] \in Order
      BY <1>1, <2>1 DEF OrdersTyped
    <3> QED
      BY <1>1, <2>1, <3>1, OrderCounts DEF HeldRow, PaidRow
  <2>3. HeldRow(p) \in [1..L -> Nat] /\ PaidRow(p) \in [1..L -> Nat]
    BY RowsAreNumbers
  <2> HIDE DEF L
  <2>4. SumOf(HeldRow(p)', L + 1) = SumOf(HeldRow(p), L) + HeldRow(p)'[L + 1]
    BY <2>1, <2>2, <2>3, SumOfOneMore
  <2>5. SumOf(PaidRow(p)', L + 1) = SumOf(PaidRow(p), L) + PaidRow(p)'[L + 1]
    BY <2>1, <2>2, <2>3, SumOfOneMore
  <2> QED
    BY <2>1, <2>2, <2>4, <2>5, UnitsAreSums, UnitsAreSumsAfter DEF L
<1> QED
  BY <1>1, <1>2

-----------------------------------------------------------------------------
(* Shapes *)

LEMMA BagShapes ==
    /\ Empty \in Bag /\ \A p \in Products : Empty[p] = 0
    /\ \A lines \in Bag : \A p \in Products : lines[p] \in Nat /\ lines[p] <= Cap
    /\ \A s : One(s) \in Bag
    /\ \A lines \in Bag : \A s : Part(lines, s) \in Bag /\ Emptied(lines, s) \in Bag
    /\ \A lines \in Bag : \A s : \A p \in Products :
           /\ Part(lines, s)[p] <= lines[p] /\ Emptied(lines, s)[p] <= lines[p]
           /\ Part(lines, s)[p] > 0 => p = s
           /\ p = s => Emptied(lines, s)[p] = 0
<1>1. Cap \in Nat /\ 1 \in 0..Cap /\ 0 \in 0..Cap
  BY StorefrontAssumption
<1>2. Empty \in Bag /\ \A p \in Products : Empty[p] = 0
  BY <1>1 DEF Empty, Bag
<1>3. \A lines \in Bag : \A p \in Products : lines[p] \in Nat /\ lines[p] <= Cap /\ lines[p] \in 0..Cap
  BY <1>1 DEF Bag
<1>4. \A s : One(s) \in Bag
  BY <1>1, <1>2 DEF One, Bag
<1>5. ASSUME NEW lines \in Bag, NEW s
      PROVE  Part(lines, s) \in Bag /\ Emptied(lines, s) \in Bag
  BY <1>1, <1>2, <1>5 DEF Part, Emptied, Bag
<1>6. ASSUME NEW lines \in Bag, NEW s, NEW p \in Products
      PROVE  /\ Part(lines, s)[p] <= lines[p] /\ Emptied(lines, s)[p] <= lines[p]
             /\ Part(lines, s)[p] > 0 => p = s
             /\ p = s => Emptied(lines, s)[p] = 0
  <2>1. lines[p] \in Nat /\ DOMAIN lines = Products
    BY <1>3 DEF Bag
  <2>2. Part(lines, s)[p] = IF p = s THEN lines[p] ELSE 0
    BY <1>2 DEF Part, Empty
  <2>3. Emptied(lines, s)[p] = IF p = s THEN 0 ELSE lines[p]
    BY <2>1 DEF Emptied
  <2> QED
    BY <2>1, <2>2, <2>3
<1> QED
  BY <1>2, <1>3, <1>4, <1>5, <1>6

LEMMA AddShape ==
    ASSUME NEW lines \in Bag, NEW s
    PROVE  /\ AddTo(lines, s, 1) \in Bag
           /\ \A p \in Products : AddTo(lines, s, 1)[p] <= IF p = s THEN lines[p] + 1 ELSE lines[p]
<1>1. Cap \in Nat /\ DOMAIN lines = Products /\ \A p \in Products : lines[p] \in 0..Cap
  BY StorefrontAssumption DEF Bag
<1>2. \A p \in Products :
          AddTo(lines, s, 1)[p] = IF p = s THEN LeastOf(lines[p] + 1, Cap) ELSE lines[p]
  BY <1>1 DEF AddTo
<1>3. \A p \in Products : /\ LeastOf(lines[p] + 1, Cap) \in 0..Cap
                          /\ LeastOf(lines[p] + 1, Cap) <= lines[p] + 1
  BY <1>1 DEF LeastOf
<1>4. AddTo(lines, s, 1) \in Bag
  <2>1. AddTo(lines, s, 1) = [p \in Products |-> AddTo(lines, s, 1)[p]]
    BY <1>1 DEF AddTo
  <2>2. \A p \in Products : AddTo(lines, s, 1)[p] \in 0..Cap
    BY <1>1, <1>2, <1>3
  <2> QED
    BY <2>1, <2>2 DEF Bag
<1> QED
  BY <1>1, <1>2, <1>3, <1>4

LEMMA CallShape ==
    ASSUME NEW op \in {"join", "push", "code", "text", "verify", "send", "confirm"},
           NEW by \in {"page", "app"}, NEW want \in Wants, NEW lines \in Bag
    PROVE  /\ Call(op, by, want, lines) \in Request
           /\ \A rest \in Bag : [Call(op, by, want, lines) EXCEPT !.rest = rest] \in Request
           /\ \A n \in 0..MaxOrders : [Call(op, by, want, lines) EXCEPT !.order = n] \in Request
<1>1. Empty \in Bag /\ 0 \in 0..MaxOrders
  BY BagShapes, StorefrontAssumption
<1>2. Call(op, by, want, lines) \in Request
  BY <1>1 DEF Call, Request
<1>3. ASSUME NEW rest \in Bag
      PROVE  [Call(op, by, want, lines) EXCEPT !.rest = rest] \in Request
  BY <1>2 DEF Request
<1>4. ASSUME NEW n \in 0..MaxOrders
      PROVE  [Call(op, by, want, lines) EXCEPT !.order = n] \in Request
  BY <1>2 DEF Request
<1> QED
  BY <1>2, <1>3, <1>4

\* Nothing to pay for: what takes the place of a request that is gone.
Idle == Call("push", "page", "none", Empty)

-----------------------------------------------------------------------------
(* What a step must leave as it is, for requests to fit after it           *)

\* Orders stay for what they are and whose, and unopened, but the n-th.
Steady(n) ==
    /\ Len(orders) \in Nat /\ Len(orders)' \in Nat /\ Len(orders) <= Len(orders)'
    /\ \A k \in 1..Len(orders) :
           /\ orders'[k].lines = orders[k].lines /\ orders'[k].from = orders[k].from
           /\ k # n /\ orders[k].charge = "none" => orders'[k].charge = "none"

LEMMA PayablePart ==
    ASSUME NEW lines \in Payable, NEW part \in Bag, OrdersTyped, BagsTyped,
           \A p \in Products : part[p] <= lines[p]
    PROVE  part \in Payable
<1>1. \A p \in Products : /\ Held(p) \in Nat /\ put[p] \in Nat
                          /\ part[p] \in Nat /\ lines[p] \in Nat
  BY BagShapes, UnitsAreNumbers DEF BagsTyped, Payable
<1> QED
  BY <1>1 DEF Payable

\* What is held of the bag does not grow, and what was put in it does not shrink.
LEMMA PayableStays ==
    ASSUME OrdersTyped, BagsTyped, OrdersTyped', BagsTyped',
           joined => joined',
           \A p \in Products : Held(p)' <= Held(p) /\ put[p] <= put'[p]
    PROVE  Payable \subseteq Payable'
<1>1. ASSUME NEW lines \in Bag, NEW p \in Products, Held(p) + lines[p] <= put[p]
      PROVE  Held(p)' + lines[p] <= put'[p]
  <2>1. Held(p) \in Nat /\ put[p] \in Nat /\ lines[p] \in Nat
    BY BagShapes, UnitsAreNumbers DEF BagsTyped
  <2>2. Held(p)' \in Nat
    BY UnitsAreNumbersAfter
  <2>3. put'[p] \in Nat
    BY DEF BagsTyped
  <2> QED
    BY <1>1, <2>1, <2>2, <2>3
<1> QED
  BY <1>1 DEF Payable

LEMMA StillNamesAnOrder ==
    ASSUME NEW n, Steady(n), NEW c, NamesAnOrder(c, orders), Made(c) => c.order # n
    PROVE  NamesAnOrder(c, orders')
<1>1. c.order \in 0..Len(orders)' /\ (c.op = "confirm" => c.order # 0)
  BY DEF NamesAnOrder, Steady
<1>2. ASSUME Made(c)
      PROVE  /\ c.order # 0 /\ orders'[c.order].charge = "none"
             /\ orders'[c.order].lines = c.lines /\ orders'[c.order].from = PaidFrom(c)
  <2>1. c.order \in 1..Len(orders) /\ c.order # n
    BY <1>2 DEF NamesAnOrder, Steady
  <2> QED
    BY <1>2, <2>1 DEF NamesAnOrder, Steady
<1> QED
  BY <1>1, <1>2 DEF NamesAnOrder

LEMMA FitsStays ==
    ASSUME NEW n, Steady(n), Payable \subseteq Payable', NEW c, Fits(c, orders, Payable),
           Made(c) => c.order # n
    PROVE  Fits(c, orders', Payable')
<1>1. NamesAnOrder(c, orders')
  BY StillNamesAnOrder DEF Fits
<1>2. AsksForItsOwn(c, Payable')
  BY DEF Fits, AsksForItsOwn
<1> QED
  BY <1>1, <1>2 DEF Fits

LEMMA NothingOrdered ==
    ASSUME OrdersTyped, UNCHANGED orders
    PROVE  /\ OrdersTyped' /\ Steady(0)
           /\ \A p \in Products : Held(p)' = Held(p) /\ PaidUnits(p)' = PaidUnits(p)
<1>1. OrdersTyped' /\ Steady(0)
  BY DEF OrdersTyped, Steady
<1> QED
  BY <1>1, SameOrdersCountTheSame

LEMMA StillPayable ==
    ASSUME UNCHANGED <<orders, put, joined>>
    PROVE  Payable' = Payable
BY SameOrdersCountTheSame DEF Payable

-----------------------------------------------------------------------------
(* Requests *)

Pool == CallsTyped /\ CallsFit /\ CallsApart

\* A request stays, whoever is left to read its answer.
Stays(c, d) ==
    \/ d = c
    \/ c.by \in {"page", "left"} /\ d \in {[c EXCEPT !.by = "left"], [c EXCEPT !.by = "nobody"]}
    \/ c.by = "app" /\ d = [c EXCEPT !.by = "app gone"]

\* All requests stay but one, which is new, changed or gone.
OneChanges(id, d) ==
    \A n \in DOMAIN calls' :
        \/ n \in DOMAIN calls /\ n # id /\ Stays(calls[n], calls'[n])
        \/ n = id /\ id \in 1..MaxCalls /\ calls'[n] = d

LEMMA StaysTheSame ==
    ASSUME NEW c \in Request, NEW d, Stays(c, d)
    PROVE  /\ d \in Request
           /\ Made(d) => Made(c) /\ d.order = c.order
           /\ Asked(d) => Asked(c)
           /\ \A made, payable : Fits(c, made, payable) => Fits(d, made, payable)
<1>1. /\ d \in Request
      /\ d.op = c.op /\ d.want = c.want /\ d.lines = c.lines /\ d.rest = c.rest
      /\ d.order = c.order /\ d.stage = c.stage /\ d.ok = c.ok
      /\ d.by = "page" => c.by = "page"
      /\ d.by \in {"page", "left"} => c.by \in {"page", "left"}
      /\ d.by \in {"app", "app gone"} <=> c.by \in {"app", "app gone"}
  BY DEF Stays, Request
<1>2. (Made(d) <=> Made(c)) /\ (Asked(d) => Asked(c)) /\ (Asks(d) => Asks(c))
  BY <1>1 DEF Made, Asked, Asks
<1>3. PaidFrom(d) = PaidFrom(c) /\ (OneThing(d) <=> OneThing(c))
  BY <1>1 DEF PaidFrom, OneThing
<1>4. \A made : NamesAnOrder(c, made) => NamesAnOrder(d, made)
  BY <1>1, <1>2, <1>3 DEF NamesAnOrder
<1>5. \A payable : AsksForItsOwn(c, payable) => AsksForItsOwn(d, payable)
  BY <1>1, <1>2, <1>3 DEF AsksForItsOwn
<1> QED
  BY <1>1, <1>2, <1>4, <1>5 DEF Fits

LEMMA PoolStays ==
    ASSUME Pool, NEW n, Steady(n), Payable \subseteq Payable', NEW id, NEW d, OneChanges(id, d),
           d \in Request, Fits(d, orders', Payable'),
           \A k \in (DOMAIN calls) \ {id} :
               Made(calls[k]) => calls[k].order # n /\ (Made(d) => calls[k].order # d.order)
    PROVE  Pool'
<1>1. ASSUME NEW k \in DOMAIN calls'
      PROVE  /\ k \in 1..MaxCalls /\ calls'[k] \in Request /\ Fits(calls'[k], orders', Payable')
             /\ \/ k = id /\ calls'[k] = d
                \/ /\ k \in (DOMAIN calls) \ {id}
                   /\ Made(calls'[k]) => Made(calls[k]) /\ calls'[k].order = calls[k].order
  <2>1. CASE k = id /\ id \in 1..MaxCalls /\ calls'[k] = d
    BY <2>1
  <2>2. CASE k \in DOMAIN calls /\ k # id /\ Stays(calls[k], calls'[k])
    <3>1. calls[k] \in Request /\ Fits(calls[k], orders, Payable) /\ k \in 1..MaxCalls
      BY <2>2 DEF Pool, CallsTyped, CallsFit
    <3>2. Fits(calls[k], orders', Payable')
      BY <2>2, <3>1, FitsStays
    <3> QED
      BY <2>2, <3>1, <3>2, StaysTheSame
  <2> QED
    BY <2>1, <2>2 DEF OneChanges
<1>2. CallsTyped' /\ CallsFit'
  BY <1>1 DEF CallsTyped, CallsFit
<1>3. ASSUME NEW i \in DOMAIN calls', NEW j \in DOMAIN calls', i # j, Made(calls'[i]), Made(calls'[j])
      PROVE  calls'[i].order # calls'[j].order
  BY <1>1, <1>3 DEF Pool, CallsApart
<1> QED
  BY <1>2, <1>3 DEF Pool, CallsApart

LEMMA FreeIsNew ==
    ASSUME CallsTyped, Room
    PROVE  Free \in (1..MaxCalls) \ DOMAIN calls
<1>1. \E id \in 1..MaxCalls : id \notin DOMAIN calls
  <2> SUFFICES ASSUME 1..MaxCalls \subseteq DOMAIN calls
               PROVE  FALSE
    OBVIOUS
  <2>1. DOMAIN calls = 1..MaxCalls
    BY DEF CallsTyped
  <2>2. Cardinality(1..MaxCalls) = MaxCalls
    BY FS_Interval, StorefrontAssumption
  <2> QED
    BY <2>1, <2>2, StorefrontAssumption DEF Room
<1> QED
  BY <1>1 DEF Free

LEMMA IdleFits ==
    ASSUME Len(orders') \in Nat
    PROVE  Idle \in Request /\ Fits(Idle, orders', Payable') /\ ~Made(Idle) /\ ~Asked(Idle)
<1>1. Idle \in Request
  BY CallShape, BagShapes DEF Idle, Wants
<1>2. Idle.op = "push" /\ Idle.order = 0
  BY DEF Idle, Call
<1>3. ~Made(Idle) /\ ~Asked(Idle) /\ ~Asks(Idle)
  BY <1>2 DEF Made, Asked, Asks
<1> QED
  BY <1>1, <1>2, <1>3 DEF Fits, NamesAnOrder, AsksForItsOwn

LEMMA SendChanges ==
    ASSUME CallsTyped, Room, NEW d, Send(d)
    PROVE  OneChanges(Free, d)
BY FreeIsNew DEF Send, With, OneChanges, Stays

LEMMA ReadChanges ==
    ASSUME NEW id, Read(id)
    PROVE  OneChanges(id, Idle)
BY DEF Read, Restrict, OneChanges, Stays

LEMMA MoveChanges ==
    ASSUME CallsTyped, NEW id \in DOMAIN calls, NEW d, calls' = [calls EXCEPT ![id] = d]
    PROVE  OneChanges(id, d)
BY DEF CallsTyped, OneChanges, Stays

LEMMA SameChanges ==
    ASSUME CallsTyped, UNCHANGED calls
    PROVE  OneChanges(0, Idle)
BY DEF CallsTyped, OneChanges, Stays

AnswerOf(call, ok) == [call EXCEPT !.stage = "answered", !.ok = ok]

LEMMA AnswerChanges ==
    ASSUME CallsTyped, NEW id \in DOMAIN calls, NEW ok, NEW call, Answer(id, ok, call)
    PROVE  OneChanges(id, AnswerOf(call, ok))
<1>1. CASE calls[id].by \in {"nobody", "app gone"}
  BY <1>1 DEF Answer, Read, Restrict, OneChanges, Stays
<1>2. CASE calls[id].by \notin {"nobody", "app gone"}
  <2>1. calls' = [calls EXCEPT ![id] = AnswerOf(call, ok)]
    BY <1>2 DEF Answer, AnswerOf
  <2> QED
    BY <2>1, MoveChanges
<1> QED
  BY <1>1, <1>2

\* Of a request that moves on, only an order's answer is more than it was.
LEMMA MovedFits ==
    ASSUME NEW c, NEW made, NEW payable, Fits(c, made, payable), NEW d,
           d.op = c.op \/ {c.op, d.op} \subseteq {"code", "text"},
           d.by = c.by, d.want = c.want, d.rest = c.rest, d.order = c.order,
           d.lines = c.lines \/ c.op = "join", ~Made(d)
    PROVE  Fits(d, made, payable) /\ (Asked(d) => Asked(c))
<1>1. NamesAnOrder(d, made)
  BY DEF Fits, NamesAnOrder
<1>2. (Asks(d) <=> Asks(c)) /\ (Asked(d) => Asked(c))
  BY DEF Asks, Asked
<1>3. Asks(d) => d.lines = c.lines
  BY <1>2 DEF Asks
<1>4. Asks(d) => (OneThing(d) <=> OneThing(c))
  BY <1>3 DEF OneThing
<1>5. AsksForItsOwn(d, payable)
  BY <1>2, <1>3, <1>4 DEF Fits, AsksForItsOwn
<1> QED
  BY <1>1, <1>2, <1>5 DEF Fits

LEMMA PoolKept ==
    ASSUME Pool, Steady(0), Payable \subseteq Payable', NEW id, NEW d, OneChanges(id, d),
           d \in Request, Fits(d, orders', Payable'), ~Made(d)
    PROVE  Pool'
<1>1. \A k \in DOMAIN calls : Made(calls[k]) => calls[k].order # 0
  BY DEF Pool, CallsFit, Fits, NamesAnOrder
<1> QED
  BY <1>1, PoolStays

\* The page knows what it asks for after a step that keeps what it asked for.
LEMMA PageStillKnows ==
    ASSUME PageKnows, CallsTyped, NEW id, NEW d, OneChanges(id, d),
           Asked(d) => page'.want # "none",
           page.want # "none" => page'.want # "none",
           page'.step = "code" => page'.want # "none",
           page'.on = "paystack" => page'.want = "none"
    PROVE  PageKnows'
<1>1. ASSUME NEW k \in DOMAIN calls', Asked(calls'[k])
      PROVE  page'.want # "none"
  <2>1. CASE k = id /\ calls'[k] = d
    BY <1>1, <2>1
  <2>2. CASE k \in DOMAIN calls /\ Stays(calls[k], calls'[k])
    <3>1. Asked(calls[k])
      BY <1>1, <2>2, StaysTheSame DEF CallsTyped
    <3> QED
      BY <2>2, <3>1 DEF PageKnows
  <2> QED
    BY <2>1, <2>2 DEF OneChanges
<1> QED
  BY <1>1 DEF PageKnows

-----------------------------------------------------------------------------
(* The server *)

\* A step that leaves orders, the shelf and what may be paid for as they are.
LEMMA QuietStep ==
    ASSUME IInv, UNCHANGED <<shops, orders, put, joined>>, BagsTyped', Pool', PageKnows',
           page' \in Page, app' \in App, presses' \in 0..MaxPresses,
           page'.order \in 0..Len(orders), app'.order \in 0..Len(orders),
           page'.on = "paystack" => page'.order # 0,
           bag' \in Payable, queue' \in Payable, page'.queue \in Payable
    PROVE  IInv'
<1>1. OrdersTyped' /\ (\A p \in Products : PaidUnits(p)' = PaidUnits(p)) /\ Payable' = Payable
  BY NothingOrdered, StillPayable DEF IInv
<1>2. ShopsTyped' /\ StockIsWhatIsLeft'
  BY <1>1, StorefrontAssumption DEF IInv, ShopsTyped, StockIsWhatIsLeft, shops
<1>3. ScreensTyped'
  BY DEF ScreensTyped
<1>4. BagsCovered'
  BY <1>1 DEF BagsCovered
<1> QED
  BY <1>1, <1>2, <1>3, <1>4 DEF IInv, Pool

\* One request moves on, and nothing the buyer sees changes.
LEMMA QuietPool ==
    ASSUME IInv, UNCHANGED <<orders, put, joined>>, NEW id, NEW d, OneChanges(id, d),
           d \in Request, Fits(d, orders, Payable), ~Made(d)
    PROVE  Pool'
<1>1. Steady(0) /\ Payable' = Payable
  BY NothingOrdered, StillPayable DEF IInv
<1> QED
  BY <1>1, PoolKept DEF IInv, Pool

LEMMA ServerStep ==
    ASSUME IInv, UNCHANGED <<shops, orders, browser, page, app, buyer, presses>>,
           account' \in Bag, signedIn' \in BOOLEAN, NEW id, NEW d, OneChanges(id, d),
           d \in Request, Fits(d, orders, Payable), ~Made(d), Asked(d) => page.want # "none"
    PROVE  IInv'
<1>1. Pool'
  BY QuietPool DEF buyer
<1>2. PageKnows'
  BY PageStillKnows DEF IInv, PageKnows
<1>3. BagsTyped'
  BY DEF IInv, BagsTyped, browser, buyer
<1> QED
  BY <1>1, <1>2, <1>3, QuietStep DEF IInv, ScreensTyped, BagsCovered, browser, buyer

LEMMA IdleFitsNow ==
    ASSUME OrdersTyped
    PROVE  Idle \in Request /\ Fits(Idle, orders, Payable) /\ ~Made(Idle) /\ ~Asked(Idle)
<1>1. Idle \in Request
  BY CallShape, BagShapes DEF Idle, Wants
<1>2. Idle.op = "push" /\ Idle.order = 0
  BY DEF Idle, Call
<1>3. ~Made(Idle) /\ ~Asked(Idle) /\ ~Asks(Idle)
  BY <1>2 DEF Made, Asked, Asks
<1>4. 0 \in 0..Len(orders)
  BY DEF OrdersTyped
<1> QED
  BY <1>1, <1>2, <1>3, <1>4 DEF Fits, NamesAnOrder, AsksForItsOwn

LEMMA CallFacts ==
    ASSUME IInv, NEW id \in DOMAIN calls
    PROVE  /\ id \in 1..MaxCalls /\ calls[id] \in Request /\ Fits(calls[id], orders, Payable)
           /\ Asked(calls[id]) => page.want # "none"
BY DEF IInv, CallsTyped, CallsFit, PageKnows

\* An answer that is no order's.
LEMMA AnswerFacts ==
    ASSUME IInv, NEW id \in DOMAIN calls, NEW ok \in BOOLEAN, NEW call \in Request,
           Answer(id, ok, call), ~Made(AnswerOf(call, ok)),
           call.op = calls[id].op \/ {calls[id].op, call.op} \subseteq {"code", "text"},
           call.by = calls[id].by, call.want = calls[id].want, call.rest = calls[id].rest,
           call.order = calls[id].order, call.lines = calls[id].lines \/ calls[id].op = "join"
    PROVE  /\ OneChanges(id, AnswerOf(call, ok)) /\ AnswerOf(call, ok) \in Request
           /\ Fits(AnswerOf(call, ok), orders, Payable)
           /\ Asked(AnswerOf(call, ok)) => page.want # "none"
<1> DEFINE d == AnswerOf(call, ok)
<1>1. d \in Request /\ d.op = call.op /\ d.by = call.by /\ d.want = call.want
      /\ d.rest = call.rest /\ d.order = call.order /\ d.lines = call.lines
  BY DEF AnswerOf, Request
<1>2. OneChanges(id, d)
  BY AnswerChanges DEF IInv
<1>3. calls[id] \in Request /\ Fits(calls[id], orders, Payable) /\ (Asked(calls[id]) => page.want # "none")
  BY CallFacts
<1> HIDE DEF d
<1>4. ~Made(d)
  BY DEF d
<1>5. Fits(d, orders, Payable) /\ (Asked(d) => Asked(calls[id]))
  BY <1>1, <1>3, <1>4, MovedFits
<1> QED
  BY <1>1, <1>2, <1>3, <1>5 DEF d

LEMMA RefuseFacts ==
    ASSUME IInv, NEW id \in DOMAIN calls, Refuse(id)
    PROVE  /\ OneChanges(id, AnswerOf(calls[id], FALSE)) /\ AnswerOf(calls[id], FALSE) \in Request
           /\ Fits(AnswerOf(calls[id], FALSE), orders, Payable)
           /\ ~Made(AnswerOf(calls[id], FALSE))
           /\ Asked(AnswerOf(calls[id], FALSE)) => page.want # "none"
<1>1. calls[id] \in Request
  BY CallFacts
<1>2. ~Made(AnswerOf(calls[id], FALSE))
  BY <1>1 DEF AnswerOf, Made, Request
<1> QED
  BY <1>1, <1>2, AnswerFacts DEF Refuse

LEMMA ServeJoinStep ==
    ASSUME IInv, NEW id, ServeJoin(id)
    PROVE  IInv'
<1>1. id \in DOMAIN calls /\ calls[id].op = "join"
  BY DEF ServeJoin, At
<1>2. UNCHANGED <<shops, orders, browser, page, app, buyer, presses>> /\ signedIn' \in BOOLEAN
  BY DEF ServeJoin, IInv, BagsTyped
<1>3. account \in Bag /\ calls[id] \in Request /\ calls[id].lines \in Bag
  BY <1>1, CallFacts DEF IInv, BagsTyped, Request
<1>4. account' \in Bag
  <2>1. \A p \in Products : LeastOf(account[p] + calls[id].lines[p], Cap) \in 0..Cap
    BY <1>3, BagShapes, StorefrontAssumption DEF LeastOf
  <2> QED
    BY <1>3, <2>1 DEF ServeJoin, Bag
<1>5. CASE Refuse(id)
  BY <1>1, <1>2, <1>4, <1>5, RefuseFacts, ServerStep
<1>6. CASE Answer(id, TRUE, [calls[id] EXCEPT !.lines = account'])
  <2> DEFINE c == [calls[id] EXCEPT !.lines = account']
  <2>1. /\ c \in Request /\ c.op = "join" /\ c.by = calls[id].by /\ c.want = calls[id].want
        /\ c.rest = calls[id].rest /\ c.order = calls[id].order
    BY <1>1, <1>3, <1>4 DEF Request
  <2> HIDE DEF c
  <2>2. ~Made(AnswerOf(c, TRUE))
    BY <2>1 DEF AnswerOf, Made, Request
  <2>3. Answer(id, TRUE, c)
    BY <1>6 DEF c
  <2> QED
    BY <1>1, <1>2, <1>4, <2>1, <2>2, <2>3, AnswerFacts, ServerStep
<1> QED
  BY <1>5, <1>6 DEF ServeJoin

LEMMA ServePushStep ==
    ASSUME IInv, NEW id, ServePush(id)
    PROVE  IInv'
<1>1. id \in DOMAIN calls /\ Read(id)
  BY DEF ServePush, At
<1>2. UNCHANGED <<shops, orders, browser, page, app, buyer, presses>> /\ signedIn' \in BOOLEAN
  BY DEF ServePush, IInv, BagsTyped
<1>3. account' \in Bag
  BY <1>1, CallFacts DEF ServePush, IInv, BagsTyped, Request
<1>4. Idle \in Request /\ Fits(Idle, orders, Payable) /\ ~Made(Idle) /\ ~Asked(Idle)
  BY IdleFitsNow DEF IInv
<1> QED
  BY <1>1, <1>2, <1>3, <1>4, ReadChanges, ServerStep

LEMMA ServeCodeStep ==
    ASSUME IInv, NEW id, ServeCode(id)
    PROVE  IInv'
<1>1. id \in DOMAIN calls /\ calls[id].op = "code"
  BY DEF ServeCode, At
<1>2. /\ UNCHANGED <<shops, orders, browser, page, app, buyer, presses>> /\ signedIn' \in BOOLEAN
      /\ account' \in Bag
  BY DEF ServeCode, IInv, BagsTyped
<1>3. PICK c \in {calls[id], [calls[id] EXCEPT !.op = "text"]} : Answer(id, TRUE, c)
  BY DEF ServeCode
<1>4. calls[id] \in Request
  BY <1>1, CallFacts
<1>5. /\ c \in Request /\ c.op \in {"code", "text"} /\ c.by = calls[id].by /\ c.want = calls[id].want
      /\ c.rest = calls[id].rest /\ c.order = calls[id].order /\ c.lines = calls[id].lines
  BY <1>1, <1>3, <1>4 DEF Request
<1>6. ~Made(AnswerOf(c, TRUE))
  BY <1>5 DEF AnswerOf, Made, Request
<1> QED
  BY <1>1, <1>2, <1>3, <1>5, <1>6, AnswerFacts, ServerStep

LEMMA ServeVerifyStep ==
    ASSUME IInv, NEW id, ServeVerify(id)
    PROVE  IInv'
<1>1. id \in DOMAIN calls /\ calls[id].op = "verify" /\ calls[id] \in Request
  BY CallFacts DEF ServeVerify, At
<1>2. /\ UNCHANGED <<shops, orders, browser, page, app, buyer, presses>> /\ signedIn' \in BOOLEAN
      /\ account' \in Bag
  BY DEF ServeVerify, IInv, BagsTyped
<1>3. ~Made(AnswerOf(calls[id], TRUE))
  BY <1>1 DEF AnswerOf, Made, Request
<1>4. CASE Refuse(id)
  BY <1>1, <1>2, <1>4, RefuseFacts, ServerStep
<1>5. CASE Answer(id, TRUE, calls[id])
  BY <1>1, <1>2, <1>3, <1>5, AnswerFacts, ServerStep
<1> QED
  BY <1>4, <1>5 DEF ServeVerify

LEMMA ServeFormStep ==
    ASSUME IInv, NEW id, ServeForm(id)
    PROVE  IInv'
<1>1. id \in DOMAIN calls /\ calls[id].want \in Forms /\ calls[id] \in Request
  BY CallFacts DEF ServeForm, At
<1>2. /\ UNCHANGED <<shops, orders, browser, page, app, buyer, presses>> /\ signedIn' \in BOOLEAN
      /\ account' \in Bag
  BY DEF ServeForm, IInv, BagsTyped
<1>3. ~Made(AnswerOf(calls[id], TRUE))
  BY <1>1 DEF AnswerOf, Made, Request
<1>4. CASE Refuse(id)
  BY <1>1, <1>2, <1>4, RefuseFacts, ServerStep
<1>5. CASE Answer(id, TRUE, calls[id])
  BY <1>1, <1>2, <1>3, <1>5, AnswerFacts, ServerStep
<1> QED
  BY <1>4, <1>5 DEF ServeForm

LEMMA ServeConfirmStep ==
    ASSUME IInv, NEW id, ServeConfirm(id)
    PROVE  IInv'
<1>1. id \in DOMAIN calls /\ calls[id].op = "confirm" /\ calls[id] \in Request
  BY CallFacts DEF ServeConfirm, At
<1>2. /\ UNCHANGED <<shops, orders, browser, page, app, buyer, presses>> /\ signedIn' \in BOOLEAN
      /\ account' \in Bag
  BY DEF ServeConfirm, IInv, BagsTyped
<1> DEFINE n == calls[id].order
           ok == orders[n].status = "paid"
           d == [calls[id] EXCEPT !.stage = orders[n].charge]
<1>3. n \in 1..Len(orders) /\ orders[n] \in Order
  BY <1>1, CallFacts DEF Fits, NamesAnOrder, IInv, OrdersTyped
<1>4. CASE Refuse(id)
  BY <1>1, <1>2, <1>4, RefuseFacts, ServerStep
<1>5. CASE Answer(id, ok, calls[id])
  <2>1. ok \in BOOLEAN
    OBVIOUS
  <2> HIDE DEF ok
  <2>2. ~Made(AnswerOf(calls[id], ok))
    BY <1>1 DEF AnswerOf, Made, Request
  <2> QED
    BY <1>1, <1>2, <1>5, <2>1, <2>2, AnswerFacts, ServerStep
<1>6. CASE calls' = [calls EXCEPT ![id].stage = orders[n].charge]
  <2>1. /\ d \in Request /\ d.op = "confirm" /\ d.by = calls[id].by /\ d.want = calls[id].want
        /\ d.rest = calls[id].rest /\ d.order = calls[id].order /\ d.lines = calls[id].lines
    BY <1>1, <1>3 DEF Request, Order, Charges
  <2>2. calls' = [calls EXCEPT ![id] = d]
    BY <1>6
  <2> HIDE DEF d
  <2>3. ~Made(d)
    BY <2>1 DEF Made
  <2>4. Fits(calls[id], orders, Payable) /\ (Asked(calls[id]) => page.want # "none")
    BY <1>1, CallFacts
  <2>5. Fits(d, orders, Payable) /\ (Asked(d) => Asked(calls[id]))
    BY <1>1, <2>1, <2>3, <2>4, MovedFits
  <2>6. OneChanges(id, d)
    BY <1>1, <2>2, MoveChanges DEF IInv
  <2> QED
    BY <1>2, <2>1, <2>3, <2>4, <2>5, <2>6, ServerStep
<1> QED
  BY <1>4, <1>5, <1>6 DEF ServeConfirm

\* A payment is looked into: the order is paid, once, and what it is of is taken from
\* the shelf; or it is not, and nothing is taken.
Marked(n, o) ==
    /\ OrderBecomes(n, o) /\ o \in Order
    /\ o.lines = orders[n].lines /\ o.from = orders[n].from /\ o.charge = orders[n].charge
    /\ \/ shelf' = shelf /\ (o.status = "paid" <=> orders[n].status = "paid")
       \/ o.status = "paid" /\ orders[n].status # "paid" /\ Enough(n) /\ shelf' = Taken(n)

LEMMA TakenOnce ==
    ASSUME IInv, NEW n \in 1..Len(orders), NEW o, Marked(n, o), supplied' = supplied
    PROVE  ShopsTyped' /\ StockIsWhatIsLeft'
<1>1. o \in Order /\ orders[n] \in Order /\ OrderBecomes(n, o)
  BY DEF Marked, IInv, OrdersTyped
<1>2. \A p \in Products : PaidUnits(p)' + PaidBy(orders[n], p) = PaidUnits(p) + PaidBy(o, p)
  BY <1>1, OneOrderCounts DEF IInv
<1>3. Counted \subseteq Products /\ StockAtFirst \in Nat
  BY StorefrontAssumption
<1>4. ASSUME NEW p \in Products
      PROVE  /\ PaidUnits(p) \in Nat /\ orders[n].lines[p] \in Nat
             /\ shelf[p].left \in 0..StockAtFirst /\ shelf[p].open \in BOOLEAN /\ shelf[p] \in Shelf
             /\ supplied[p] \in Nat /\ PaidUnits(p)' \in Nat
  <2>1. OrdersTyped'
    BY <1>1, OneOrderCounts DEF IInv
  <2>2. PaidUnits(p)' \in Nat
    BY <2>1, UnitsAreNumbersAfter
  <2> QED
    BY <1>1, <2>2, OrderCounts, UnitsAreNumbers DEF IInv, ShopsTyped, Shelf
<1>5. CASE shelf' = shelf /\ (o.status = "paid" <=> orders[n].status = "paid")
  <2>1. \A p \in Products : PaidBy(o, p) = PaidBy(orders[n], p) /\ PaidBy(o, p) \in Nat
    BY <1>1, <1>4, <1>5, OrderCounts DEF PaidBy, Marked
  <2>2. \A p \in Products : PaidUnits(p)' = PaidUnits(p)
    BY <1>2, <1>4, <2>1
  <2> QED
    BY <1>3, <1>5, <2>2 DEF IInv, ShopsTyped, StockIsWhatIsLeft
<1>6. CASE o.status = "paid" /\ orders[n].status # "paid" /\ Enough(n) /\ shelf' = Taken(n)
  <2>1. \A p \in Products : PaidUnits(p)' = PaidUnits(p) + orders[n].lines[p]
    BY <1>2, <1>4, <1>6 DEF PaidBy, Marked
  <2>2. ASSUME NEW p \in Products
        PROVE  /\ shelf'[p] \in Shelf
               /\ p \in Counted => shelf'[p].left + orders[n].lines[p] = shelf[p].left
    <3>1. shelf'[p] = IF p \in Counted /\ orders[n].lines[p] > 0
                      THEN [left |-> shelf[p].left - orders[n].lines[p],
                            open |-> shelf[p].open /\ shelf[p].left # orders[n].lines[p]]
                      ELSE shelf[p]
      BY <1>6 DEF Taken
    <3>2. CASE p \in Counted /\ orders[n].lines[p] > 0
      <4>1. orders[n].lines[p] <= shelf[p].left
        BY <1>6, <3>2 DEF Enough, InBag
      <4>2. shelf[p].left - orders[n].lines[p] \in 0..StockAtFirst
        BY <1>3, <1>4, <4>1
      <4> QED
        BY <1>4, <3>1, <3>2, <4>2 DEF Shelf
    <3>3. CASE ~(p \in Counted /\ orders[n].lines[p] > 0)
      BY <1>4, <3>1, <3>3
    <3> QED
      BY <3>2, <3>3
  <2>3. ShopsTyped'
    BY <1>6, <2>2 DEF Taken, IInv, ShopsTyped
  <2>4. ASSUME NEW p \in Counted
        PROVE  shelf'[p].left + PaidUnits(p)' = supplied'[p]
    <3>1. shelf[p].left + PaidUnits(p) = supplied[p]
      BY DEF IInv, StockIsWhatIsLeft
    <3>2. shelf'[p].left \in Nat
      BY <1>3, <2>2 DEF Shelf
    <3> DEFINE l == orders[n].lines[p]  after == shelf'[p].left  before == shelf[p].left
               u == PaidUnits(p)  v == PaidUnits(p)'
    <3>3. l \in Nat /\ after \in Nat /\ before \in Nat /\ u \in Nat /\ v \in Nat
      BY <1>3, <1>4, <3>2
    <3>4. after + l = before /\ v = u + l /\ before + u = supplied[p]
      BY <1>3, <2>1, <2>2, <3>1
    <3> HIDE DEF l, after, before, u, v
    <3>5. after + v = supplied[p]
      BY <3>3, <3>4
    <3> QED
      BY <3>5 DEF after, v
  <2> QED
    BY <2>3, <2>4 DEF StockIsWhatIsLeft
<1> QED
  BY <1>5, <1>6 DEF Marked

\* A payment looked into changes nothing else that anything relies on.
LEMMA PaymentStep ==
    ASSUME IInv, NEW n \in 1..Len(orders), NEW o, Marked(n, o),
           UNCHANGED <<supplied, account, signedIn, browser, page, app, buyer, presses>>,
           NEW id, NEW d, OneChanges(id, d), d \in Request, Fits(d, orders, Payable), ~Made(d),
           Asked(d) => page.want # "none"
    PROVE  IInv'
<1>1. ShopsTyped' /\ StockIsWhatIsLeft'
  BY TakenOnce
<1>2. orders[n] \in Order /\ o \in Order /\ OrderBecomes(n, o)
  BY DEF Marked, IInv, OrdersTyped
<1>3. /\ OrdersTyped' /\ Len(orders)' = Len(orders) /\ orders'[n] = o
      /\ \A k \in 1..Len(orders) : k # n => orders'[k] = orders[k]
      /\ \A p \in Products : Held(p)' + HeldBy(orders[n], p) = Held(p) + HeldBy(o, p)
  BY <1>2, OneOrderCounts DEF IInv
<1>4. BagsTyped' /\ ScreensTyped'
  BY <1>3 DEF IInv, BagsTyped, ScreensTyped, browser, buyer
<1>5. Payable \subseteq Payable'
  <2>1. \A p \in Products : /\ HeldBy(o, p) = HeldBy(orders[n], p) /\ HeldBy(o, p) \in Nat
                            /\ Held(p) \in Nat /\ Held(p)' \in Nat
    <3>1. \A p \in Products : Held(p)' \in Nat
      BY <1>3, UnitsAreNumbersAfter
    <3>2. \A p \in Products : HeldBy(o, p) = HeldBy(orders[n], p)
      BY DEF Marked, HeldBy
    <3> QED
      BY <1>2, <3>1, <3>2, OrderCounts, UnitsAreNumbers DEF IInv
  <2>2. \A p \in Products : Held(p)' = Held(p)
    BY <1>3, <2>1
  <2> QED
    BY <2>2 DEF Payable, buyer
<1>6. Steady(0)
  BY <1>3 DEF Steady, Marked, IInv, OrdersTyped
<1>7. Fits(d, orders', Payable')
  BY <1>5, <1>6, FitsStays
<1>8. Pool'
  BY <1>5, <1>6, <1>7, PoolKept DEF IInv, Pool
<1>9. PageKnows'
  BY PageStillKnows DEF IInv, PageKnows
<1>10. BagsCovered'
  BY <1>5 DEF IInv, BagsCovered, browser
<1> QED
  BY <1>1, <1>3, <1>4, <1>8, <1>9, <1>10 DEF IInv, Pool

LEMMA ConfirmVerifiedStep ==
    ASSUME IInv, NEW id, ConfirmVerified(id)
    PROVE  IInv'
<1>1. id \in DOMAIN calls /\ calls[id].op = "confirm" /\ calls[id] \in Request
  BY CallFacts DEF ConfirmVerified
<1> DEFINE n == calls[id].order
<1>2. n \in 1..Len(orders) /\ orders[n] \in Order
  BY <1>1, CallFacts DEF Fits, NamesAnOrder, IInv, OrdersTyped
<1>3. UNCHANGED <<supplied, account, signedIn, browser, page, app, buyer, presses>>
  BY DEF ConfirmVerified
<1>4. signedIn' \in BOOLEAN /\ account' \in Bag
  BY <1>3 DEF IInv, BagsTyped
<1>5. CASE Refuse(id) /\ UNCHANGED <<orders, shelf>>
  BY <1>1, <1>3, <1>4, <1>5, RefuseFacts, ServerStep DEF shops
<1>6. CASE Confirm(n, calls[id].stage) /\ Answer(id, orders'[n].status = "paid", calls[id])
  <2> DEFINE ok == orders'[n].status = "paid"
             d == AnswerOf(calls[id], ok)
  <2>1. ok \in BOOLEAN /\ Answer(id, ok, calls[id])
    BY <1>6
  <2> HIDE DEF ok
  <2>2. ~Made(d)
    BY <1>1 DEF AnswerOf, Made, Request
  <2>3. /\ OneChanges(id, d) /\ d \in Request /\ Fits(d, orders, Payable)
        /\ Asked(d) => page.want # "none"
    BY <1>1, <2>1, <2>2, AnswerFacts
  <2> HIDE DEF d, n
  <2>4. CASE orders[n].status = "paid" /\ UNCHANGED <<orders, shelf>>
    BY <1>3, <1>4, <2>2, <2>3, <2>4, ServerStep DEF shops
  <2>5. CASE orders[n].status # "paid" /\ Enough(n) /\ shelf' = Taken(n)
             /\ orders' = [orders EXCEPT ![n].status = "paid"]
    <3> DEFINE o == [orders[n] EXCEPT !.status = "paid"]
    <3>1. OrderBecomes(n, o) /\ o \in Order /\ o.status = "paid" /\ o.lines = orders[n].lines
          /\ o.from = orders[n].from /\ o.charge = orders[n].charge
      BY <1>2, <2>5 DEF OrderBecomes, Order
    <3> HIDE DEF o
    <3>2. Marked(n, o)
      BY <2>5, <3>1 DEF Marked
    <3> QED
      BY <1>2, <1>3, <2>2, <2>3, <3>2, PaymentStep
  <2>6. CASE orders[n].status # "paid" /\ shelf' = shelf
             /\ \E status \in {orders[n].status, "failed"} : orders' = [orders EXCEPT ![n].status = status]
    <3>1. PICK status \in {orders[n].status, "failed"} : orders' = [orders EXCEPT ![n].status = status]
      BY <2>6
    <3> DEFINE o == [orders[n] EXCEPT !.status = status]
    <3>2. OrderBecomes(n, o) /\ o \in Order /\ o.status # "paid" /\ o.lines = orders[n].lines
          /\ o.from = orders[n].from /\ o.charge = orders[n].charge
      BY <1>2, <2>6, <3>1 DEF OrderBecomes, Order
    <3> HIDE DEF o
    <3>3. Marked(n, o)
      BY <2>6, <3>2 DEF Marked
    <3> QED
      BY <1>2, <1>3, <2>2, <2>3, <3>3, PaymentStep
  <2> QED
    BY <1>6, <2>4, <2>5, <2>6 DEF Confirm, n
<1> QED
  BY <1>5, <1>6 DEF ConfirmVerified

LEMMA WebhookStep ==
    ASSUME IInv, NEW n, Webhook(n)
    PROVE  IInv'
<1>1. n \in 1..Len(orders) /\ orders[n] \in Order
  BY DEF Webhook, IInv, OrdersTyped
<1>2. /\ UNCHANGED <<supplied, account, signedIn, browser, page, app, buyer, presses>>
      /\ UNCHANGED calls
  BY DEF Webhook
<1>3. /\ OneChanges(0, Idle) /\ Idle \in Request /\ Fits(Idle, orders, Payable)
      /\ ~Made(Idle) /\ ~Asked(Idle)
  BY <1>2, SameChanges, IdleFitsNow DEF IInv
<1>4. CASE orders[n].status # "paid" /\ Enough(n) /\ shelf' = Taken(n)
           /\ orders' = [orders EXCEPT ![n].status = "paid", ![n].told = TRUE]
  <2> DEFINE o == [orders[n] EXCEPT !.status = "paid", !.told = TRUE]
  <2>1. OrderBecomes(n, o) /\ o \in Order /\ o.status = "paid" /\ o.lines = orders[n].lines
        /\ o.from = orders[n].from /\ o.charge = orders[n].charge
    BY <1>1, <1>4 DEF OrderBecomes, Order
  <2> HIDE DEF o
  <2>2. Marked(n, o)
    BY <1>4, <2>1 DEF Marked
  <2> QED
    BY <1>1, <1>2, <1>3, <2>2, PaymentStep
<1>5. CASE orders' = [orders EXCEPT ![n].told = TRUE] /\ shelf' = shelf
  <2> DEFINE o == [orders[n] EXCEPT !.told = TRUE]
  <2>1. OrderBecomes(n, o) /\ o \in Order /\ o.status = orders[n].status /\ o.lines = orders[n].lines
        /\ o.from = orders[n].from /\ o.charge = orders[n].charge
    BY <1>1, <1>5 DEF OrderBecomes, Order
  <2> HIDE DEF o
  <2>2. Marked(n, o)
    BY <1>5, <2>1 DEF Marked
  <2> QED
    BY <1>1, <1>2, <1>3, <2>2, PaymentStep
<1> QED
  BY <1>4, <1>5 DEF Webhook

LEMMA PayStep ==
    ASSUME IInv, NEW n, Pay(n)
    PROVE  IInv'
<1>1. n \in 1..Len(orders) /\ orders[n] \in Order /\ orders[n].charge = "open"
  BY DEF Pay, IInv, OrdersTyped
<1>2. UNCHANGED <<shops, account, signedIn, browser, page, app, calls, buyer, presses>>
  BY DEF Pay
<1>3. PICK charge \in {"success", "failed"} : orders' = [orders EXCEPT ![n].charge = charge]
  BY DEF Pay
<1> DEFINE o == [orders[n] EXCEPT !.charge = charge]
<1>4. /\ OrderBecomes(n, o) /\ o \in Order /\ o.lines = orders[n].lines /\ o.from = orders[n].from
      /\ o.status = orders[n].status
      /\ \A p : HeldBy(o, p) = IF charge = "success" THEN HeldBy(orders[n], p) ELSE 0
  BY <1>1, <1>3 DEF OrderBecomes, Order, HeldBy
<1> HIDE DEF o
<1>5. /\ OrdersTyped' /\ Len(orders)' = Len(orders) /\ orders'[n] = o
      /\ \A k \in 1..Len(orders) : k # n => orders'[k] = orders[k]
      /\ \A p \in Products :
             /\ Held(p)' + HeldBy(orders[n], p) = Held(p) + HeldBy(o, p)
             /\ PaidUnits(p)' + PaidBy(orders[n], p) = PaidUnits(p) + PaidBy(o, p)
  BY <1>1, <1>4, OneOrderCounts DEF IInv
<1>6. BagsTyped' /\ ScreensTyped'
  BY <1>2, <1>5 DEF IInv, BagsTyped, ScreensTyped, browser, buyer
<1>7. ASSUME NEW p \in Products
      PROVE  Held(p)' <= Held(p) /\ PaidUnits(p)' = PaidUnits(p)
  <2>1. /\ Held(p) \in Nat /\ Held(p)' \in Nat /\ HeldBy(orders[n], p) \in Nat /\ HeldBy(o, p) \in Nat
        /\ PaidUnits(p) \in Nat /\ PaidUnits(p)' \in Nat /\ PaidBy(o, p) \in Nat
    BY <1>1, <1>4, <1>5, OrderCounts, UnitsAreNumbers, UnitsAreNumbersAfter DEF IInv
  <2>2. HeldBy(o, p) <= HeldBy(orders[n], p)
    BY <1>4, <2>1
  <2>3. PaidBy(o, p) = PaidBy(orders[n], p)
    BY <1>4 DEF PaidBy
  <2> QED
    BY <1>5, <2>1, <2>2, <2>3
<1>8. Payable \subseteq Payable'
  <2>1. \A p \in Products : put[p] <= put'[p]
    BY <1>2 DEF IInv, BagsTyped, buyer
  <2> QED
    BY <1>2, <1>5, <1>6, <1>7, <2>1, PayableStays DEF IInv, buyer
<1>9. Steady(0)
  <2>1. Len(orders) \in Nat
    BY DEF IInv, OrdersTyped
  <2> QED
    BY <1>1, <1>4, <1>5, <2>1 DEF Steady
<1>10. Idle \in Request /\ Fits(Idle, orders', Payable') /\ ~Made(Idle) /\ ~Asked(Idle) /\ OneChanges(0, Idle)
  BY <1>2, <1>9, IdleFits, SameChanges DEF Steady, IInv
<1>11. Pool' /\ PageKnows'
  BY <1>2, <1>8, <1>9, <1>10, PoolKept, PageStillKnows DEF IInv, Pool, PageKnows
<1>12. BagsCovered'
  BY <1>2, <1>8 DEF IInv, BagsCovered, browser
<1>13. ShopsTyped' /\ StockIsWhatIsLeft'
  BY <1>2, <1>7, StorefrontAssumption DEF IInv, ShopsTyped, StockIsWhatIsLeft, shops
<1> QED
  BY <1>5, <1>6, <1>11, <1>12, <1>13 DEF IInv, Pool

LEMMA SellerCountsStep ==
    ASSUME IInv, SellerCounts
    PROVE  IInv'
<1>1. UNCHANGED <<orders, account, signedIn, browser, page, app, calls, buyer>>
  BY DEF SellerCounts
<1>2. presses' \in 0..MaxPresses
  BY StorefrontAssumption DEF SellerCounts, IInv, ScreensTyped
<1>3. /\ OrdersTyped' /\ Payable' = Payable
      /\ \A p \in Products : PaidUnits(p)' = PaidUnits(p) /\ PaidUnits(p) \in Nat
  BY <1>1, NothingOrdered, StillPayable, UnitsAreNumbers DEF IInv, buyer
<1>4. Idle \in Request /\ Fits(Idle, orders, Payable) /\ ~Made(Idle) /\ ~Asked(Idle) /\ OneChanges(0, Idle)
  BY <1>1, IdleFitsNow, SameChanges DEF IInv
<1>5. Pool' /\ PageKnows'
  BY <1>1, <1>4, QuietPool, PageStillKnows DEF IInv, PageKnows, buyer
<1>6. BagsTyped' /\ ScreensTyped' /\ BagsCovered'
  BY <1>1, <1>2, <1>3 DEF IInv, BagsTyped, ScreensTyped, BagsCovered, browser, buyer
<1>7. PICK p \in Counted : /\ shelf' = [shelf EXCEPT ![p] = [left |-> StockAtFirst, open |-> TRUE]]
                           /\ supplied' = [supplied EXCEPT ![p] = StockAtFirst + PaidUnits(p)]
  BY DEF SellerCounts
<1>8. p \in Products /\ StockAtFirst \in Nat /\ Counted \subseteq Products
  BY StorefrontAssumption
<1>9. ShopsTyped'
  BY <1>3, <1>7, <1>8 DEF IInv, ShopsTyped, Shelf
<1>10. StockIsWhatIsLeft'
  BY <1>3, <1>7, <1>8 DEF IInv, ShopsTyped, StockIsWhatIsLeft
<1> QED
  BY <1>3, <1>5, <1>6, <1>9, <1>10 DEF IInv, Pool

\* A new order is not paid and not opened: nothing is held for it yet.
LEMMA ServeOrderStep ==
    ASSUME IInv, NEW id, ServeOrder(id)
    PROVE  IInv'
<1>1. /\ id \in DOMAIN calls /\ calls[id].op = "send" /\ calls[id].want \notin Forms
      /\ calls[id] \in Request /\ Fits(calls[id], orders, Payable)
  BY CallFacts DEF ServeOrder, At
<1>2. /\ UNCHANGED <<shops, browser, page, app, buyer, presses>> /\ signedIn' \in BOOLEAN
      /\ account' \in Bag
  BY DEF ServeOrder, IInv, BagsTyped
<1>3. CASE Refuse(id) /\ UNCHANGED orders
  BY <1>1, <1>2, <1>3, RefuseFacts, ServerStep
<1>4. ASSUME NEW opened \in BOOLEAN, Len(orders) < MaxOrders,
             orders' = Append(orders, [lines |-> calls[id].lines, from |-> PaidFrom(calls[id]),
                          status |-> IF opened THEN "pending" ELSE "failed",
                          charge |-> IF opened THEN "none" ELSE "refused", told |-> FALSE]),
             IF opened THEN Answer(id, TRUE, [calls[id] EXCEPT !.order = Len(orders) + 1]) ELSE Refuse(id)
      PROVE  IInv'
  <2> DEFINE o == [lines |-> calls[id].lines, from |-> PaidFrom(calls[id]),
                   status |-> IF opened THEN "pending" ELSE "failed",
                   charge |-> IF opened THEN "none" ELSE "refused", told |-> FALSE]
             c == IF opened THEN [calls[id] EXCEPT !.order = Len(orders) + 1] ELSE calls[id]
             d == AnswerOf(c, opened)
  <2>1. PaidFrom(calls[id]) \in {"bag", "once", "app"}
    BY DEF PaidFrom
  <2>2. /\ o \in Order /\ o.lines = calls[id].lines /\ o.from = PaidFrom(calls[id])
        /\ opened => o.charge = "none"
        /\ \A p : HeldBy(o, p) = 0 /\ PaidBy(o, p) = 0
    BY <1>1, <2>1 DEF Order, Request, HeldBy, PaidBy
  <2>3. orders' = Append(orders, o)
    BY <1>4
  <2> HIDE DEF o
  <2>4. Len(orders) \in Nat /\ Len(orders) + 1 \in 0..MaxOrders
    BY <1>4, StorefrontAssumption DEF IInv, OrdersTyped
  <2>5. /\ OrdersTyped' /\ Len(orders)' = Len(orders) + 1 /\ orders'[Len(orders) + 1] = o
        /\ \A k \in 1..Len(orders) : orders'[k] = orders[k]
        /\ \A p \in Products :
               /\ Held(p)' = Held(p) + HeldBy(o, p)
               /\ PaidUnits(p)' = PaidUnits(p) + PaidBy(o, p)
    BY <1>4, <2>2, <2>3, NewOrderCounts DEF IInv
  <2>6. \A p \in Products : Held(p)' = Held(p) /\ PaidUnits(p)' = PaidUnits(p)
    BY <2>2, <2>5, UnitsAreNumbers DEF IInv
  <2>7. Payable' = Payable
    BY <1>2, <2>6 DEF Payable, buyer
  <2>8. Steady(0)
    BY <2>4, <2>5 DEF Steady
  <2>9. /\ c \in Request /\ c.op = "send" /\ c.by = calls[id].by /\ c.want = calls[id].want
        /\ c.lines = calls[id].lines /\ c.rest = calls[id].rest
        /\ c.order = IF opened THEN Len(orders) + 1 ELSE calls[id].order
    BY <1>1, <2>4 DEF Request
  <2>10. Answer(id, opened, c)
    BY <1>4 DEF Refuse
  <2> HIDE DEF c
  <2>11. /\ d \in Request /\ d.op = "send" /\ d.by = calls[id].by /\ d.want = calls[id].want
         /\ d.lines = calls[id].lines /\ d.rest = calls[id].rest /\ d.order = c.order /\ d.ok = opened
    BY <2>9 DEF AnswerOf, Request
  <2>12. OneChanges(id, d)
    BY <1>1, <2>10, AnswerChanges DEF IInv
  <2> HIDE DEF d
  <2>13. Fits(d, orders', Payable')
    <3>1. calls[id].order \in 0..Len(orders)
      BY <1>1 DEF Fits, NamesAnOrder
    <3>2. PaidFrom(d) = PaidFrom(calls[id])
      BY <2>11 DEF PaidFrom
    <3>3. NamesAnOrder(d, orders')
      BY <2>2, <2>4, <2>5, <2>9, <2>11, <3>1, <3>2 DEF NamesAnOrder, Made
    <3>4. (Asks(d) <=> Asks(calls[id])) /\ (OneThing(d) <=> OneThing(calls[id]))
      BY <1>1, <2>11 DEF Asks, OneThing
    <3>5. AsksForItsOwn(d, Payable')
      BY <1>1, <2>7, <2>11, <3>4 DEF Fits, AsksForItsOwn
    <3> QED
      BY <3>3, <3>5 DEF Fits
  <2>14. ASSUME NEW k \in (DOMAIN calls) \ {id}, Made(calls[k])
         PROVE  calls[k].order # 0 /\ (Made(d) => calls[k].order # d.order)
    <3>1. calls[k].order \in 1..Len(orders)
      BY <2>4, <2>14 DEF IInv, CallsFit, Fits, NamesAnOrder
    <3>2. Made(d) => d.order = Len(orders) + 1
      BY <2>9, <2>11 DEF Made
    <3> QED
      BY <2>4, <3>1, <3>2
  <2>15. Pool'
    BY <2>7, <2>8, <2>11, <2>12, <2>13, <2>14, PoolStays DEF IInv, Pool
  <2>16. PageKnows'
    BY <1>2, <2>11, <2>12, PageStillKnows DEF IInv, PageKnows, Asked
  <2>17. BagsTyped' /\ ScreensTyped' /\ BagsCovered'
    BY <1>2, <2>4, <2>5, <2>7 DEF IInv, BagsTyped, ScreensTyped, BagsCovered, browser, buyer
  <2>18. ShopsTyped' /\ StockIsWhatIsLeft'
    BY <1>2, <2>6, StorefrontAssumption DEF IInv, ShopsTyped, StockIsWhatIsLeft, shops
  <2> QED
    BY <2>5, <2>15, <2>16, <2>17, <2>18 DEF IInv, Pool
<1> QED
  BY <1>3, <1>4 DEF ServeOrder

-----------------------------------------------------------------------------
(* The website *)

LEMMA Pressed ==
    ASSUME IInv, Press
    PROVE  Room /\ presses' \in 0..MaxPresses
BY StorefrontAssumption DEF Press, IInv, ScreensTyped

LEMMA OpenedShape ==
    ASSUME NEW place \in Places, NEW seller \in Products \cup {0}
    PROVE  /\ Opened(place, seller) \in Page
           /\ Opened(place, seller).want = "none" /\ Opened(place, seller).step = "details"
           /\ Opened(place, seller).on = place /\ Opened(place, seller).queue = Empty
           /\ Opened(place, seller).order = 0
           /\ \A n \in 0..MaxOrders : [Opened(place, seller) EXCEPT !.order = n] \in Page
<1>1. "none" \in Wants /\ Empty \in Bag /\ 0 \in 0..MaxOrders
  BY BagShapes, StorefrontAssumption DEF Wants
<1>2. Opened(place, seller) \in Page
  BY <1>1 DEF Opened, Page
<1>3. \A n \in 0..MaxOrders : [Opened(place, seller) EXCEPT !.order = n] \in Page
  BY <1>2 DEF Page
<1> QED
  BY <1>2, <1>3 DEF Opened

LEMMA EmptyIsPayable ==
    ASSUME IInv
    PROVE  Empty \in Payable
<1>1. bag \in Payable /\ OrdersTyped /\ BagsTyped /\ bag \in Bag
  BY DEF IInv, BagsCovered, BagsTyped
<1>2. Empty \in Bag /\ \A p \in Products : Empty[p] <= bag[p]
  BY <1>1, BagShapes
<1> QED
  BY <1>1, <1>2, PayablePart

\* What is asked for is the buyer's to pay for, one thing of it at a time.
LEMMA AskShape ==
    ASSUME IInv, NEW op \in {"code", "verify", "send"}, NEW want \in Wants \ {"none"}
    PROVE  LET d == [Call(op, "page", want, LinesOf(want)) EXCEPT !.rest = RestOf(want)]
           IN  d \in Request /\ Fits(d, orders, Payable) /\ ~Made(d)
<1> DEFINE d == [Call(op, "page", want, LinesOf(want)) EXCEPT !.rest = RestOf(want)]
<1>1. /\ bag \in Payable /\ page.queue \in Payable /\ bag \in Bag /\ page.queue \in Bag
      /\ OrdersTyped /\ BagsTyped /\ Empty \in Payable
  BY EmptyIsPayable DEF IInv, BagsCovered, BagsTyped, Payable
<1>2. LinesOf(want) \in Bag /\ RestOf(want) \in Bag
  BY <1>1, BagShapes DEF LinesOf, RestOf
<1>3. ASSUME NEW lines \in Payable, NEW s
      PROVE  /\ Part(lines, s) \in Payable /\ Emptied(lines, s) \in Payable
             /\ \A p \in Products :
                    Part(lines, s)[p] > 0 => /\ Emptied(lines, s)[p] = 0
                                             /\ \A q \in Products \ {p} : Part(lines, s)[q] = 0
  <2>1. lines \in Bag
    BY DEF Payable
  <2>2. \A p \in Products : Part(lines, s)[p] \in Nat
    BY <2>1, BagShapes
  <2>3. Part(lines, s) \in Payable /\ Emptied(lines, s) \in Payable
    BY <1>1, <2>1, BagShapes, PayablePart
  <2> QED
    BY <2>1, <2>2, <2>3, BagShapes
<1>4. RestOf(want) \in Payable
  BY <1>1, <1>3 DEF RestOf
<1>5. ASSUME want \in OfTheBag
      PROVE  /\ LinesOf(want) \in Payable
             /\ \A p \in Products :
                    LinesOf(want)[p] > 0 => /\ RestOf(want)[p] = 0
                                            /\ \A q \in Products \ {p} : LinesOf(want)[q] = 0
  <2>1. CASE want = "bag"
    <3>1. LinesOf(want) = Part(bag, page.seller) /\ RestOf(want) = Empty
      BY <2>1 DEF LinesOf, RestOf
    <3> QED
      BY <1>1, <1>3, <3>1, BagShapes
  <2>2. CASE want = "all"
    <3>1. LinesOf(want) = Part(bag, First(bag)) /\ RestOf(want) = Emptied(bag, First(bag))
      BY <2>2 DEF LinesOf, RestOf
    <3> QED
      BY <1>1, <1>3, <3>1
  <2>3. CASE want = "next"
    <3>1. /\ LinesOf(want) = Part(page.queue, First(page.queue))
          /\ RestOf(want) = Emptied(page.queue, First(page.queue))
      BY <2>3 DEF LinesOf, RestOf
    <3> QED
      BY <1>1, <1>3, <3>1
  <2> QED
    BY <1>5, <2>1, <2>2, <2>3 DEF OfTheBag
<1>6. /\ d \in Request
      /\ d.op = op /\ d.by = "page" /\ d.want = want /\ d.lines = LinesOf(want) /\ d.rest = RestOf(want)
      /\ d.order = 0 /\ d.stage = "asked"
  BY <1>2, CallShape DEF Call
<1> HIDE DEF d
<1>7. ~Made(d)
  BY <1>6 DEF Made
<1>8. NamesAnOrder(d, orders)
  BY <1>1, <1>6, <1>7 DEF NamesAnOrder, OrdersTyped
<1>9. want \in OfTheBag => OneThing(d)
  BY <1>5, <1>6 DEF OneThing
<1>10. AsksForItsOwn(d, Payable)
  BY <1>4, <1>5, <1>6, <1>9 DEF AsksForItsOwn
<1>11. d \in Request /\ Fits(d, orders, Payable) /\ ~Made(d)
  BY <1>6, <1>7, <1>8, <1>10 DEF Fits
<1> QED
  BY <1>11 DEF d

\* A request that asks for nothing of the bag.
LEMMA PlainShape ==
    ASSUME OrdersTyped, NEW op \in {"join", "push", "confirm"}, NEW by \in {"page", "app"},
           NEW lines \in Bag, NEW n \in 0..Len(orders), op = "confirm" => n # 0
    PROVE  LET d == [Call(op, by, "none", lines) EXCEPT !.order = n]
           IN  d \in Request /\ Fits(d, orders, Payable) /\ ~Made(d) /\ ~Asked(d)
<1> DEFINE d == [Call(op, by, "none", lines) EXCEPT !.order = n]
<1>1. n \in 0..MaxOrders
  BY StorefrontAssumption DEF OrdersTyped
<1>2. d \in Request /\ d.op = op /\ d.order = n
  BY <1>1, CallShape DEF Call, Wants
<1> HIDE DEF d
<1>3. ~Made(d) /\ ~Asked(d) /\ ~Asks(d)
  BY <1>2 DEF Made, Asked, Asks
<1>4. Fits(d, orders, Payable)
  BY <1>2, <1>3 DEF Fits, NamesAnOrder, AsksForItsOwn
<1> QED
  BY <1>2, <1>3, <1>4 DEF d

LEMMA PlainCall ==
    ASSUME OrdersTyped, NEW op \in {"join", "push"}, NEW by \in {"page", "app"}, NEW lines \in Bag
    PROVE  /\ Call(op, by, "none", lines) \in Request
           /\ Fits(Call(op, by, "none", lines), orders, Payable)
           /\ ~Made(Call(op, by, "none", lines)) /\ ~Asked(Call(op, by, "none", lines))
<1> DEFINE d == Call(op, by, "none", lines)
<1>0. "none" \in Wants /\ 0 \in 0..Len(orders)
  BY DEF Wants, OrdersTyped
<1>1. d \in Request /\ d.op = op /\ d.order = 0 /\ 0 \in 0..Len(orders)
  <2>1. d \in Request
    BY <1>0, CallShape
  <2> QED
    BY <1>0, <2>1 DEF Call
<1> HIDE DEF d
<1>2. ~Made(d) /\ ~Asked(d) /\ ~Asks(d)
  BY <1>1 DEF Made, Asked, Asks
<1>3. Fits(d, orders, Payable)
  BY <1>1, <1>2 DEF Fits, NamesAnOrder, AsksForItsOwn
<1> QED
  BY <1>1, <1>2, <1>3 DEF d

\* A step of the website that orders nothing: the page keeps what it asked for.
LEMMA PageStep ==
    ASSUME IInv,
           UNCHANGED <<shops, orders, account, signedIn, browser, app, buyer>>,
           presses' \in 0..MaxPresses, NEW id, NEW d, OneChanges(id, d),
           d \in Request, Fits(d, orders, Payable), ~Made(d),
           page' \in Page, page'.order \in 0..Len(orders), page'.queue \in Payable,
           page'.on = "paystack" => page'.order # 0 /\ page'.want = "none",
           Asked(d) => page'.want # "none", page.want # "none" => page'.want # "none",
           page'.step = "code" => page'.want # "none"
    PROVE  IInv'
<1>1. Pool'
  BY QuietPool DEF buyer
<1>2. PageKnows'
  BY PageStillKnows DEF IInv
<1>3. BagsTyped'
  BY DEF IInv, BagsTyped, browser, buyer
<1> QED
  BY <1>1, <1>2, <1>3, QuietStep DEF IInv, ScreensTyped, BagsCovered, browser, buyer

LEMMA PageFacts ==
    ASSUME IInv
    PROVE  /\ page \in Page /\ page.order \in 0..Len(orders) /\ page.queue \in Payable
           /\ page.on = "paystack" => page.order # 0 /\ page.want = "none"
           /\ page.step = "code" => page.want # "none"
           /\ presses \in 0..MaxPresses
BY DEF IInv, ScreensTyped, BagsCovered, PageKnows

LEMMA BeginStep ==
    ASSUME IInv, NEW want \in Wants \ {"none"}, Begin(want), page.on # "paystack"
    PROVE  IInv'
<1> DEFINE d == [Call("code", "page", want, LinesOf(want)) EXCEPT !.rest = RestOf(want)]
<1>1. d \in Request /\ Fits(d, orders, Payable) /\ ~Made(d)
  BY AskShape
<1>2. Room /\ presses' \in 0..MaxPresses
  BY Pressed DEF Begin
<1>3. OneChanges(Free, d)
  BY <1>2, SendChanges DEF Begin, IInv
<1> HIDE DEF d
<1>4. /\ page' \in Page /\ page'.want = want /\ page'.on = page.on /\ page'.step = page.step
      /\ page'.queue = page.queue /\ page'.order = page.order
  BY PageFacts DEF Begin, Page
<1>5. UNCHANGED <<shops, orders, account, signedIn, browser, app, buyer>>
  BY DEF Begin
<1> QED
  BY <1>1, <1>2, <1>3, <1>4, <1>5, PageFacts, PageStep

LEMMA AskingStep ==
    ASSUME IInv,
           BuyNow \/ BagCheckout \/ CheckoutAll \/ BundleCheckout \/ AskSeller \/ QuoteForm \/ StockAlert
    PROVE  IInv'
<1>1. page.on # "paystack"
  BY DEF BuyNow, BagCheckout, CheckoutAll, BundleCheckout, AskSeller, QuoteForm, StockAlert
<1>2. \E want \in {"now", "bag", "all", "bundle", "ask", "quote", "alert"} : Begin(want)
  BY DEF BuyNow, BagCheckout, CheckoutAll, BundleCheckout, AskSeller, QuoteForm, StockAlert
<1>3. {"now", "bag", "all", "bundle", "ask", "quote", "alert"} \subseteq Wants \ {"none"}
  BY DEF Wants, Checkouts, Forms
<1> QED
  BY <1>1, <1>2, <1>3, BeginStep

LEMMA PricedStep ==
    ASSUME IInv, Priced
    PROVE  IInv'
<1>1. UNCHANGED <<shops, orders, account, signedIn, browser, app, buyer>> /\ UNCHANGED <<calls, presses>>
  BY DEF Priced
<1>2. /\ page' \in Page /\ page'.want = page.want /\ page'.on = page.on /\ page'.step = page.step
      /\ page'.queue = page.queue /\ page'.order = page.order
  BY PageFacts DEF Priced, Page
<1>3. Idle \in Request /\ Fits(Idle, orders, Payable) /\ ~Made(Idle) /\ ~Asked(Idle) /\ OneChanges(0, Idle)
  BY <1>1, IdleFitsNow, SameChanges DEF IInv
<1> QED
  BY <1>1, <1>2, <1>3, PageFacts, PageStep

LEMMA ConfirmCodeStep ==
    ASSUME IInv, ConfirmCode
    PROVE  IInv'
<1> DEFINE d == [Call("verify", "page", page.want, LinesOf(page.want)) EXCEPT !.rest = RestOf(page.want)]
<1>1. page.want \in Wants \ {"none"} /\ page.on # "paystack"
  BY PageFacts DEF ConfirmCode, CodeForm, Page
<1>2. d \in Request /\ Fits(d, orders, Payable) /\ ~Made(d)
  BY <1>1, AskShape
<1>3. Room /\ presses' \in 0..MaxPresses
  BY Pressed DEF ConfirmCode
<1>4. OneChanges(Free, d)
  BY <1>3, SendChanges DEF ConfirmCode, IInv
<1> HIDE DEF d
<1>5. /\ page' \in Page /\ page'.want = page.want /\ page'.on = page.on /\ page'.step = page.step
      /\ page'.queue = page.queue /\ page'.order = page.order
  BY PageFacts DEF ConfirmCode, Page
<1>6. UNCHANGED <<shops, orders, account, signedIn, browser, app, buyer>>
  BY DEF ConfirmCode
<1> QED
  BY <1>1, <1>2, <1>3, <1>4, <1>5, <1>6, PageFacts, PageStep

LEMMA NextPaymentStep ==
    ASSUME IInv, NextPayment
    PROVE  IInv'
<1> DEFINE d == [Call("send", "page", "next", LinesOf("next")) EXCEPT !.rest = RestOf("next")]
<1>1. "next" \in Wants \ {"none"}
  BY DEF Wants
<1>2. d \in Request /\ Fits(d, orders, Payable) /\ ~Made(d)
  BY <1>1, AskShape
<1>3. d.op = "send"
  BY DEF Call
<1>4. Room /\ presses' \in 0..MaxPresses
  BY Pressed DEF NextPayment
<1>5. OneChanges(Free, d)
  BY <1>4, SendChanges DEF NextPayment, IInv
<1> HIDE DEF d
<1>6. /\ page' \in Page /\ page'.want = page.want /\ page'.on = page.on /\ page'.step = page.step
      /\ page'.queue = page.queue /\ page'.order = page.order
  BY PageFacts DEF NextPayment, Page
<1>7. UNCHANGED <<shops, orders, account, signedIn, browser, app, buyer>>
  BY DEF NextPayment
<1>8. ~Asked(d)
  BY <1>3 DEF Asked
<1> QED
  BY <1>2, <1>4, <1>5, <1>6, <1>7, <1>8, PageFacts, PageStep

LEMMA PushBagStep ==
    ASSUME IInv, PushBag
    PROVE  IInv'
<1> DEFINE d == Call("push", "page", "none", bag)
<1>1. d \in Request /\ Fits(d, orders, Payable) /\ ~Made(d) /\ ~Asked(d)
  BY PlainCall DEF IInv, BagsTyped
<1>2. OneChanges(Free, d)
  BY SendChanges DEF PushBag, IInv
<1> HIDE DEF d
<1>3. UNCHANGED <<shops, orders, account, signedIn, bag, queue, page, app, buyer, presses>> /\ pushing' = FALSE
  BY DEF PushBag
<1>4. Pool' /\ PageKnows'
  BY <1>1, <1>2, <1>3, QuietPool, PageStillKnows DEF IInv, PageKnows, buyer
<1>5. BagsTyped'
  BY <1>3 DEF IInv, BagsTyped, buyer
<1> QED
  BY <1>3, <1>4, <1>5, QuietStep DEF IInv, ScreensTyped, BagsCovered, buyer

LEMMA SignOutStep ==
    ASSUME IInv, SignOut
    PROVE  IInv'
<1>1. UNCHANGED <<shops, orders, account, browser, page, app, calls, buyer>> /\ signedIn' = FALSE
  BY DEF SignOut
<1>2. presses' \in 0..MaxPresses
  BY Pressed DEF SignOut
<1>3. Idle \in Request /\ Fits(Idle, orders, Payable) /\ ~Made(Idle) /\ ~Asked(Idle) /\ OneChanges(0, Idle)
  BY <1>1, IdleFitsNow, SameChanges DEF IInv
<1>4. Pool' /\ PageKnows'
  BY <1>1, <1>3, QuietPool, PageStillKnows DEF IInv, PageKnows, buyer
<1>5. BagsTyped'
  BY <1>1 DEF IInv, BagsTyped, browser, buyer
<1> QED
  BY <1>1, <1>2, <1>4, <1>5, QuietStep DEF IInv, ScreensTyped, BagsCovered, browser, buyer

\* A page is left: what it had begun goes on without it.
LEMMA LeftStays ==
    ASSUME CallsTyped
    PROVE  /\ DOMAIN Left = DOMAIN calls
           /\ \A n \in DOMAIN calls : Stays(calls[n], Left[n]) /\ Left[n].by # "page"
BY DEF Left, Stays, CallsTyped, Request

LEMMA UnloadedStays ==
    ASSUME CallsTyped
    PROVE  /\ DOMAIN Unloaded \subseteq DOMAIN calls
           /\ \A n \in DOMAIN Unloaded :
                  /\ Stays(calls[n], Unloaded[n]) /\ Unloaded[n].by \notin {"page", "left"}
BY DEF Unloaded, Stays, CallsTyped, Request

LEMMA OpenStep ==
    ASSUME IInv, Open
    PROVE  IInv'
<1>1. UNCHANGED <<shops, orders, account, signedIn, browser, app, buyer>>
  BY DEF Open
<1>2. Room /\ presses' \in 0..MaxPresses
  BY Pressed DEF Open
<1>3. PICK place \in Places \ {"paystack"}, p \in Products \cup {0} : page' = Opened(place, p)
  BY DEF Open, Places
<1>4. /\ page' \in Page /\ page'.want = "none" /\ page'.step = "details" /\ page'.on # "paystack"
      /\ page'.order = 0 /\ 0 \in 0..Len(orders) /\ page'.queue \in Payable
  BY <1>3, OpenedShape, EmptyIsPayable DEF IInv, OrdersTyped
<1> DEFINE d == Call("join", "page", "none", bag)
<1>5. d \in Request /\ Fits(d, orders, Payable) /\ ~Made(d) /\ ~Asked(d)
  BY PlainCall DEF IInv, BagsTyped
<1> HIDE DEF d
<1>6. Free \in (1..MaxCalls) \ DOMAIN calls
  BY <1>2, FreeIsNew DEF IInv
<1>7. ASSUME calls' = Left
      PROVE  Pool' /\ PageKnows'
  <2>1. OneChanges(0, Idle) /\ \A n \in DOMAIN calls' : ~Asked(calls'[n])
    BY <1>7, LeftStays DEF OneChanges, Asked, IInv, CallsTyped
  <2>2. Pool'
    BY <1>1, <2>1, IdleFitsNow, QuietPool DEF IInv, buyer
  <2> QED
    BY <1>4, <2>1, <2>2 DEF PageKnows
<1>8. ASSUME calls' = With(Left, Free, d)
      PROVE  Pool' /\ PageKnows'
  <2>1. /\ DOMAIN calls' = DOMAIN calls \cup {Free} /\ calls'[Free] = d
        /\ \A n \in DOMAIN calls : calls'[n] = Left[n]
    BY <1>6, <1>8, LeftStays DEF With, IInv
  <2>2. OneChanges(Free, d)
    BY <1>6, <2>1, LeftStays DEF OneChanges, IInv
  <2>3. \A n \in DOMAIN calls' : ~Asked(calls'[n])
    BY <1>5, <2>1, LeftStays DEF Asked, IInv
  <2>4. Pool'
    BY <1>1, <1>5, <2>2, QuietPool DEF buyer
  <2> QED
    BY <1>4, <2>3, <2>4 DEF PageKnows
<1>9. Pool' /\ PageKnows'
  BY <1>7, <1>8 DEF Open, d
<1>10. BagsTyped'
  BY <1>1 DEF IInv, BagsTyped, browser, buyer
<1> QED
  BY <1>1, <1>2, <1>4, <1>9, <1>10, QuietStep DEF IInv, ScreensTyped, BagsCovered, browser, buyer

LEMMA CloseTabStep ==
    ASSUME IInv, CloseTab
    PROVE  IInv'
<1>1. /\ UNCHANGED <<shops, orders, account, signedIn, bag, app, buyer>>
      /\ page' = Gone /\ queue' = Empty /\ pushing' = FALSE /\ calls' = Unloaded
  BY DEF CloseTab
<1>2. presses' \in 0..MaxPresses
  BY Pressed DEF CloseTab
<1>3. /\ page' \in Page /\ page'.want = "none" /\ page'.step = "details" /\ page'.on # "paystack"
      /\ page'.order = 0 /\ 0 \in 0..Len(orders) /\ page'.queue \in Payable
  BY <1>1, OpenedShape, EmptyIsPayable DEF Gone, Places, IInv, OrdersTyped
<1>4. OneChanges(0, Idle) /\ \A n \in DOMAIN calls' : ~Asked(calls'[n])
  BY <1>1, UnloadedStays DEF OneChanges, Asked, IInv, CallsTyped
<1>5. Pool'
  BY <1>1, <1>4, IdleFitsNow, QuietPool DEF IInv, buyer
<1>6. PageKnows'
  BY <1>3, <1>4 DEF PageKnows
<1>7. BagsTyped'
  BY <1>1, BagShapes DEF IInv, BagsTyped, buyer
<1> QED
  BY <1>1, <1>2, <1>3, <1>5, <1>6, <1>7, EmptyIsPayable, QuietStep
     DEF IInv, ScreensTyped, BagsCovered, buyer

\* A step after which more may be paid for, and nothing is ordered.
LEMMA BroadStep ==
    ASSUME IInv, UNCHANGED <<shops, orders, page>>, BagsTyped', Payable \subseteq Payable',
           bag' \in Payable', queue' \in Payable',
           app' \in App, presses' \in 0..MaxPresses, app'.order \in 0..Len(orders),
           NEW id, NEW d, OneChanges(id, d), d \in Request, Fits(d, orders', Payable'), ~Made(d), ~Asked(d)
    PROVE  IInv'
<1>1. OrdersTyped' /\ Steady(0) /\ (\A p \in Products : PaidUnits(p)' = PaidUnits(p))
  BY NothingOrdered DEF IInv
<1>2. Pool'
  BY <1>1, PoolKept DEF IInv, Pool
<1>3. PageKnows'
  BY PageStillKnows DEF IInv, PageKnows
<1>4. ShopsTyped' /\ StockIsWhatIsLeft'
  BY <1>1, StorefrontAssumption DEF IInv, ShopsTyped, StockIsWhatIsLeft, shops
<1>5. ScreensTyped' /\ BagsCovered'
  BY DEF IInv, ScreensTyped, BagsCovered
<1> QED
  BY <1>1, <1>2, <1>3, <1>4, <1>5 DEF IInv, Pool

LEMMA IdleFitsAfter ==
    ASSUME IInv, UNCHANGED orders
    PROVE  Idle \in Request /\ Fits(Idle, orders', Payable') /\ ~Made(Idle) /\ ~Asked(Idle)
<1>1. Len(orders') \in Nat
  BY DEF IInv, OrdersTyped
<1> QED
  BY <1>1, IdleFits

LEMMA JoinedStep ==
    ASSUME IInv, NEW id, Joined(id)
    PROVE  IInv'
<1>1. id \in DOMAIN calls /\ calls[id].lines \in Bag
  BY CallFacts DEF Joined, At, Request
<1>2. /\ UNCHANGED <<shops, orders, account, signedIn, queue, pushing, page, app, put, presses>>
      /\ Read(id)
  BY DEF Joined
<1>3. \/ bag' = calls[id].lines /\ joined' = TRUE
      \/ UNCHANGED <<bag, joined>>
  BY DEF Joined
<1>4. BagsTyped'
  BY <1>1, <1>2, <1>3 DEF IInv, BagsTyped
<1>5. Payable \subseteq Payable' /\ bag' \in Payable'
  <2>1. CASE bag' = calls[id].lines /\ joined' = TRUE
    BY <1>1, <2>1 DEF Payable
  <2>2. CASE UNCHANGED <<bag, joined>>
    BY <1>2, <2>2, StillPayable DEF IInv, BagsCovered
  <2> QED
    BY <1>3, <2>1, <2>2
<1>6. queue' \in Payable'
  BY <1>2, <1>5 DEF IInv, BagsCovered
<1> QED
  BY <1>2, <1>4, <1>5, <1>6, IdleFitsAfter, ReadChanges, BroadStep DEF IInv, ScreensTyped

\* One more of a thing is put in a bag.
LEMMA PutMore ==
    ASSUME IInv, UNCHANGED <<orders, joined>>, NEW s, put' = [put EXCEPT ![s] = @ + 1]
    PROVE  /\ put' \in [Products -> Nat] /\ Payable \subseteq Payable'
           /\ AddTo(bag, s, 1) \in Payable'
<1>1. put \in [Products -> Nat] /\ bag \in Payable /\ bag \in Bag
  BY DEF IInv, BagsTyped, BagsCovered
<1>2. /\ put' \in [Products -> Nat]
      /\ \A p \in Products : put'[p] = IF p = s THEN put[p] + 1 ELSE put[p]
  <2>1. DOMAIN put = Products /\ DOMAIN put' = Products /\ \A p \in Products : put[p] \in Nat
    BY <1>1
  <2>2. \A p \in Products : put'[p] = IF p = s THEN put[p] + 1 ELSE put[p]
    BY <2>1
  <2>3. \A p \in Products : put'[p] \in Nat
    BY <2>1, <2>2
  <2>4. put' = [p \in Products |-> put'[p]]
    BY <1>1
  <2> QED
    BY <2>2, <2>3, <2>4
<1>3. \A p \in Products : Held(p)' = Held(p) /\ Held(p) \in Nat
  BY NothingOrdered, UnitsAreNumbers DEF IInv
<1>4. \A lines \in Bag : \A p \in Products : lines[p] \in Nat
  BY BagShapes
<1>5. ASSUME NEW p \in Products, NEW lines \in Bag, NEW more \in Bag, Held(p) + lines[p] <= put[p],
             more[p] <= IF p = s THEN lines[p] + 1 ELSE lines[p]
      PROVE  Held(p)' + more[p] <= put'[p]
  <2>1. /\ Held(p) \in Nat /\ lines[p] \in Nat /\ more[p] \in Nat /\ put[p] \in Nat
        /\ put'[p] = IF p = s THEN put[p] + 1 ELSE put[p]
    BY <1>1, <1>2, <1>3, <1>4
  <2> QED
    BY <1>3, <1>5, <2>1
<1>6. Payable \subseteq Payable'
  <2>1. \A lines \in Bag : \A p \in Products : lines[p] <= IF p = s THEN lines[p] + 1 ELSE lines[p]
    BY <1>4
  <2> QED
    BY <1>5, <2>1 DEF Payable
<1>7. AddTo(bag, s, 1) \in Payable'
  BY <1>1, <1>5, AddShape DEF Payable
<1> QED
  BY <1>2, <1>6, <1>7

LEMMA AddToBagStep ==
    ASSUME IInv, AddToBag
    PROVE  IInv'
<1>1. /\ UNCHANGED <<shops, orders, account, signedIn, queue, page, app, calls, joined>>
      /\ bag' = AddTo(bag, page.seller, 1) /\ pushing' = TRUE
      /\ put' = [put EXCEPT ![page.seller] = @ + 1]
  BY DEF AddToBag, Write
<1>2. presses' \in 0..MaxPresses
  BY Pressed DEF AddToBag
<1>3. put' \in [Products -> Nat] /\ Payable \subseteq Payable' /\ bag' \in Payable'
  BY <1>1, PutMore
<1>4. BagsTyped' /\ queue' \in Payable'
  BY <1>1, <1>3, AddShape DEF IInv, BagsTyped, BagsCovered
<1>5. OneChanges(0, Idle)
  BY <1>1, SameChanges DEF IInv
<1> QED
  BY <1>1, <1>2, <1>3, <1>4, <1>5, IdleFitsAfter, BroadStep DEF IInv, ScreensTyped

LEMMA ChangeBagStep ==
    ASSUME IInv, ChangeBag
    PROVE  IInv'
<1>1. /\ UNCHANGED <<shops, orders, account, signedIn, queue, page, app, calls, joined>> /\ pushing' = TRUE
  BY DEF ChangeBag, Write
<1>2. presses' \in 0..MaxPresses
  BY Pressed DEF ChangeBag
<1>3. bag \in Bag /\ bag \in Payable /\ bag[page.seller] > 0 /\ put \in [Products -> Nat]
  BY DEF IInv, BagsTyped, BagsCovered, ChangeBag
<1>4. put' \in [Products -> Nat] /\ Payable \subseteq Payable' /\ bag' \in Payable'
  <2>1. CASE bag' = AddTo(bag, page.seller, 1) /\ put' = [put EXCEPT ![page.seller] = @ + 1]
    BY <1>1, <2>1, PutMore
  <2>2. CASE bag' = [bag EXCEPT ![page.seller] = @ - 1] /\ UNCHANGED put
    <3>1. \A p \in Products : bag[p] \in 0..Cap /\ Cap \in Nat
      BY <1>3, StorefrontAssumption DEF Bag
    <3>2. \A p \in Products : bag'[p] \in 0..Cap /\ bag'[p] <= bag[p]
      BY <1>3, <2>2, <3>1 DEF Bag
    <3>3. bag' \in Bag
      BY <1>3, <2>2, <3>2 DEF Bag
    <3>4. bag' \in Payable
      BY <1>3, <3>2, <3>3, PayablePart DEF IInv
    <3> QED
      BY <1>1, <1>3, <2>2, <3>4, StillPayable
  <2> QED
    BY <2>1, <2>2 DEF ChangeBag, Write
<1>5. BagsTyped' /\ queue' \in Payable'
  BY <1>1, <1>4 DEF IInv, BagsTyped, BagsCovered, Payable
<1>6. OneChanges(0, Idle)
  BY <1>1, SameChanges DEF IInv
<1> QED
  BY <1>1, <1>2, <1>4, <1>5, <1>6, IdleFitsAfter, BroadStep DEF IInv, ScreensTyped

\* A request goes on as the order it was for.
LEMMA SendingFits ==
    ASSUME IInv, NEW id \in DOMAIN calls, calls[id].op \in {"code", "verify"}, ByBrowser(id)
    PROVE  Sending(id) \in Request /\ Fits(Sending(id), orders, Payable) /\ ~Made(Sending(id))
           /\ ~Asked(Sending(id))
<1> DEFINE c == calls[id]
           d == Sending(id)
<1>1. c \in Request /\ Fits(c, orders, Payable)
  BY CallFacts
<1>2. /\ d \in Request /\ d.op = "send" /\ d.stage = "asked" /\ d.by = c.by /\ d.want = c.want
      /\ d.lines = c.lines /\ d.rest = c.rest /\ d.order = c.order
  BY <1>1 DEF Sending, Request
<1>3. c.by \in {"page", "left"} /\ c.op \in {"code", "verify"}
  BY DEF ByBrowser
<1> HIDE DEF c, d
<1>4. ~Made(d) /\ ~Asked(d) /\ Asks(c)
  BY <1>2, <1>3 DEF Made, Asked, Asks
<1>5. OneThing(d) <=> OneThing(c)
  BY <1>2 DEF OneThing
<1>6. Fits(d, orders, Payable)
  BY <1>1, <1>2, <1>3, <1>4, <1>5 DEF Fits, NamesAnOrder, AsksForItsOwn
<1> QED
  BY <1>2, <1>4, <1>6 DEF d

LEMMA CodeAskedStep ==
    ASSUME IInv, NEW id, CodeAsked(id)
    PROVE  IInv'
<1>1. id \in DOMAIN calls /\ calls[id].op = "code" /\ ByBrowser(id)
  BY DEF CodeAsked, At
<1>2. UNCHANGED <<shops, orders, account, signedIn, browser, page, app, buyer, presses>>
  BY DEF CodeAsked
<1>3. OneChanges(id, Sending(id))
  BY <1>1, MoveChanges DEF CodeAsked, ReadThenSend, IInv
<1>4. Sending(id) \in Request /\ Fits(Sending(id), orders, Payable) /\ ~Made(Sending(id)) /\ ~Asked(Sending(id))
  BY <1>1, SendingFits
<1> QED
  BY <1>2, <1>3, <1>4, PageFacts, PageStep

LEMMA StoppedShape ==
    ASSUME IInv, NEW step \in {"details", "code", "done"}
    PROVE  /\ Stopped \in Page /\ [Stopped EXCEPT !.step = step] \in Page
           /\ Stopped.step = page.step /\ [Stopped EXCEPT !.step = step].step = step
           /\ \A shown \in {Stopped, [Stopped EXCEPT !.step = step]} :
                  /\ shown.want = page.want /\ shown.on = page.on /\ shown.order = page.order
                  /\ shown.queue = page.queue
BY PageFacts DEF Stopped, Page

LEMMA CodeTextedStep ==
    ASSUME IInv, NEW id, CodeTexted(id)
    PROVE  IInv'
<1>1. id \in DOMAIN calls /\ calls[id].op = "text" /\ Read(id)
  BY DEF CodeTexted, At
<1>2. UNCHANGED <<shops, orders, account, signedIn, browser, app, buyer, presses>>
  BY DEF CodeTexted
<1>3. /\ page' \in Page /\ page'.want = page.want /\ page'.on = page.on
      /\ page'.queue = page.queue /\ page'.order = page.order
      /\ page'.step = "code" => page'.want # "none"
  <2>1. CASE calls[id].by = "page" /\ page' = [Stopped EXCEPT !.step = "code"]
    <3>1. page.want # "none"
      BY <1>1, <2>1, CallFacts DEF Asked
    <3> QED
      BY <2>1, <3>1, StoppedShape
  <2>2. CASE page' = page
    BY <2>2, PageFacts
  <2> QED
    BY <2>1, <2>2 DEF CodeTexted
<1>4. Idle \in Request /\ Fits(Idle, orders, Payable) /\ ~Made(Idle) /\ ~Asked(Idle) /\ OneChanges(id, Idle)
  BY <1>1, IdleFitsNow, ReadChanges DEF IInv
<1> QED
  BY <1>2, <1>3, <1>4, PageFacts, PageStep

LEMMA CodeCheckedStep ==
    ASSUME IInv, NEW id, CodeChecked(id)
    PROVE  IInv'
<1>1. id \in DOMAIN calls /\ calls[id].op = "verify" /\ ByBrowser(id)
  BY DEF CodeChecked, At
<1>2. UNCHANGED <<shops, orders, account, signedIn, browser, app, buyer, presses>>
  BY DEF CodeChecked
<1>3. CASE ReadThenSend(id, Sending(id)) /\ UNCHANGED page
  <2>1. OneChanges(id, Sending(id))
    BY <1>1, <1>3, MoveChanges DEF ReadThenSend, IInv
  <2>2. /\ Sending(id) \in Request /\ Fits(Sending(id), orders, Payable)
        /\ ~Made(Sending(id)) /\ ~Asked(Sending(id))
    BY <1>1, SendingFits
  <2> QED
    BY <1>2, <1>3, <2>1, <2>2, PageFacts, PageStep
<1>4. CASE Read(id) /\ page' \in {Stopped, page}
  <2>1. /\ page' \in Page /\ page'.want = page.want /\ page'.on = page.on
        /\ page'.queue = page.queue /\ page'.order = page.order /\ page'.step = page.step
    BY <1>4, StoppedShape, PageFacts
  <2>2. Idle \in Request /\ Fits(Idle, orders, Payable) /\ ~Made(Idle) /\ ~Asked(Idle) /\ OneChanges(id, Idle)
    BY <1>4, IdleFitsNow, ReadChanges DEF IInv
  <2> QED
    BY <1>2, <2>1, <2>2, PageFacts, PageStep
<1> QED
  BY <1>3, <1>4 DEF CodeChecked

\* The payment of an order is opened: it is held from now on.
LEMMA OpenedCounts ==
    ASSUME IInv, NEW n \in 1..Len(orders), PageOpened(n), orders[n].charge = "none"
    PROVE  /\ OrdersTyped' /\ Len(orders)' = Len(orders) /\ Steady(n)
           /\ \A p \in Products :
                  /\ PaidUnits(p)' = PaidUnits(p)
                  /\ Held(p)' = IF orders[n].from = "bag" THEN Held(p) + orders[n].lines[p] ELSE Held(p)
<1> DEFINE o == [orders[n] EXCEPT !.charge = "open"]
<1>1. orders[n] \in Order
  BY DEF IInv, OrdersTyped
<1>2. /\ OrderBecomes(n, o) /\ o \in Order /\ o.lines = orders[n].lines /\ o.from = orders[n].from
      /\ o.status = orders[n].status /\ o.charge = "open"
  BY <1>1 DEF PageOpened, OrderBecomes, Order
<1> HIDE DEF o
<1>3. /\ OrdersTyped' /\ Len(orders)' = Len(orders) /\ orders'[n] = o
      /\ \A k \in 1..Len(orders) : k # n => orders'[k] = orders[k]
      /\ \A p \in Products :
             /\ Held(p)' + HeldBy(orders[n], p) = Held(p) + HeldBy(o, p)
             /\ PaidUnits(p)' + PaidBy(orders[n], p) = PaidUnits(p) + PaidBy(o, p)
  BY <1>2, OneOrderCounts DEF IInv
<1>4. Steady(n)
  BY <1>2, <1>3 DEF Steady, IInv, OrdersTyped
<1>5. ASSUME NEW p \in Products
      PROVE  /\ PaidUnits(p)' = PaidUnits(p)
             /\ Held(p)' = IF orders[n].from = "bag" THEN Held(p) + orders[n].lines[p] ELSE Held(p)
  <2>1. /\ Held(p) \in Nat /\ Held(p)' \in Nat /\ PaidUnits(p) \in Nat /\ PaidUnits(p)' \in Nat
        /\ PaidBy(o, p) \in Nat /\ orders[n].lines[p] \in Nat
    BY <1>1, <1>2, <1>3, OrderCounts, UnitsAreNumbers, UnitsAreNumbersAfter DEF IInv
  <2>2. /\ HeldBy(orders[n], p) = 0
        /\ HeldBy(o, p) = IF orders[n].from = "bag" THEN orders[n].lines[p] ELSE 0
        /\ PaidBy(o, p) = PaidBy(orders[n], p)
    BY <1>2 DEF HeldBy, PaidBy
  <2> QED
    BY <1>3, <2>1, <2>2
<1> QED
  BY <1>3, <1>4, <1>5

LEMMA FirstOfOne ==
    ASSUME NEW c \in Request, OneThing(c), NEW p \in Products, c.lines[p] > 0
    PROVE  First(c.lines) = p
<1>1. InBag(c.lines) = {p}
  <2>1. \A q \in Products \ {p} : c.lines[q] = 0
    BY DEF OneThing
  <2> QED
    BY <2>1 DEF InBag
<1>2. p \in Nat
  BY StorefrontAssumption
<1> QED
  BY <1>1, <1>2 DEF First, Min

\* What is ordered goes from the bag and from what is left to pay for, so both are
\* still the buyer's to pay for.
LEMMA SentCovered ==
    ASSUME IInv, NEW id \in DOMAIN calls, ByBrowser(id), Made(calls[id]), PageOpened(calls[id].order),
           UNCHANGED buyer, queue' = QueueAfter(calls[id]), bag' = BagAfter(calls[id])
    PROVE  bag' \in Payable' /\ queue' \in Payable' /\ Empty \in Payable'
<1> DEFINE c == calls[id]
           n == c.order
<1>1. c \in Request /\ Fits(c, orders, Payable) /\ Asks(c) /\ c.want \notin Forms
  BY CallFacts DEF ByBrowser, Asks, Made
<1>2. /\ n \in 1..Len(orders) /\ orders[n].charge = "none"
      /\ orders[n].lines = c.lines /\ orders[n].from = PaidFrom(c)
  BY <1>1 DEF Fits, NamesAnOrder, IInv, OrdersTyped
<1>3. /\ c.want \in {"now", "bundle"} \cup OfTheBag /\ c.rest \in Payable
      /\ PaidFrom(c) = IF c.want \in {"now", "bundle"} THEN "once" ELSE "bag"
  <2>1. c.want \in Wants /\ c.want # "none" /\ c.rest \in Payable /\ c.by \in {"page", "left"}
    BY <1>1 DEF Fits, AsksForItsOwn, Request, Asks
  <2> QED
    BY <1>1, <2>1 DEF Wants, Checkouts, Forms, OfTheBag, PaidFrom
<1>4. \A p \in Products : Held(p)' = IF orders[n].from = "bag" THEN Held(p) + c.lines[p] ELSE Held(p)
  BY <1>2, OpenedCounts
<1>5. bag \in Payable /\ queue \in Payable /\ bag \in Bag
  BY DEF IInv, BagsCovered, BagsTyped
<1> HIDE DEF c, n
<1>6. CASE c.want \in {"now", "bundle"}
  <2>1. Payable' = Payable
    BY <1>2, <1>3, <1>4, <1>6 DEF Payable, buyer
  <2>2. bag' = bag /\ queue' \in {queue, c.rest}
    BY <1>6 DEF BagAfter, QueueAfter, c
  <2> QED
    BY <1>3, <1>5, <2>1, <2>2, EmptyIsPayable
<1>7. CASE c.want \in OfTheBag
  <2>1. OneThing(c) /\ c.lines \in Payable /\ c.lines \in Bag /\ c.rest \in Bag
    BY <1>1, <1>7 DEF Fits, AsksForItsOwn, Request
  <2>2. bag' = Emptied(bag, First(c.lines)) /\ queue' = c.rest
    BY <1>7 DEF BagAfter, QueueAfter, OfTheBag, c
  <2>3. ASSUME NEW p \in Products
        PROVE  Held(p)' = Held(p) + c.lines[p]
    BY <1>2, <1>3, <1>4, <1>7 DEF OfTheBag
  <2>4. ASSUME NEW lines \in Bag, NEW later \in Bag, lines \in Payable,
               \A p \in Products : later[p] <= lines[p] /\ (c.lines[p] > 0 => later[p] = 0)
        PROVE  later \in Payable'
    <3>1. ASSUME NEW p \in Products, ~joined
          PROVE  Held(p)' + later[p] <= put[p]
      <4>1. /\ Held(p) \in Nat /\ put[p] \in Nat /\ later[p] \in Nat /\ lines[p] \in Nat /\ c.lines[p] \in Nat
            /\ Held(p) + c.lines[p] <= put[p] /\ Held(p) + lines[p] <= put[p]
        BY <2>1, <2>4, <3>1, BagShapes, UnitsAreNumbers DEF IInv, BagsTyped, Payable
      <4>2. CASE c.lines[p] > 0
        BY <2>3, <2>4, <4>1, <4>2
      <4>3. CASE c.lines[p] = 0
        BY <2>3, <2>4, <4>1, <4>3
      <4> QED
        BY <4>1, <4>2, <4>3
    <3> QED
      BY <2>4, <3>1 DEF Payable, buyer
  <2>5. bag' \in Payable'
    <3>1. /\ bag' \in Bag
          /\ \A p \in Products : bag'[p] <= bag[p] /\ (p = First(c.lines) => bag'[p] = 0)
      BY <1>5, <2>2, BagShapes
    <3>2. \A p \in Products : c.lines[p] > 0 => p = First(c.lines)
      BY <1>1, <2>1, FirstOfOne
    <3> QED
      BY <1>5, <2>4, <3>1, <3>2
  <2>6. queue' \in Payable'
    <3>1. \A p \in Products : c.rest[p] <= c.rest[p] /\ (c.lines[p] > 0 => c.rest[p] = 0)
      BY <2>1, BagShapes DEF OneThing
    <3> QED
      BY <1>3, <2>1, <2>2, <2>4, <3>1
  <2>7. Empty \in Payable'
    <3>1. Empty \in Bag /\ \A p \in Products : Empty[p] <= bag[p] /\ Empty[p] = 0
      BY <1>5, BagShapes
    <3> QED
      BY <1>5, <2>4, <3>1
  <2> QED
    BY <2>5, <2>6, <2>7
<1> QED
  BY <1>3, <1>6, <1>7

LEMMA OrderedStep ==
    ASSUME IInv, NEW id, Sent(id), calls[id].ok, calls[id].want \notin Forms
    PROVE  IInv'
<1> DEFINE c == calls[id]
           n == c.order
<1>1. id \in DOMAIN calls /\ c \in Request /\ Fits(c, orders, Payable) /\ Made(c) /\ ByBrowser(id)
  BY CallFacts DEF Sent, At, Made
<1>2. /\ page' = [Opened("paystack", 0) EXCEPT !.order = n]
      /\ queue' = QueueAfter(c) /\ bag' = BagAfter(c) /\ pushing' = FALSE
      /\ calls' = Restrict(Unloaded, DOMAIN Unloaded \ {id})
      /\ PageOpened(n)
      /\ UNCHANGED <<shops, account, signedIn, app, buyer, presses>>
  BY DEF Sent
<1>3. n \in 1..Len(orders) /\ n # 0 /\ orders[n].charge = "none"
  BY <1>1 DEF Fits, NamesAnOrder, IInv, OrdersTyped
<1>4. bag' \in Payable' /\ queue' \in Payable' /\ Empty \in Payable'
  BY <1>1, <1>2, SentCovered
<1>5. /\ OrdersTyped' /\ Len(orders)' = Len(orders) /\ Steady(n)
      /\ \A p \in Products : PaidUnits(p)' = PaidUnits(p)
  BY <1>2, <1>3, OpenedCounts
<1>6. /\ page' \in Page /\ page'.order = n /\ page'.on = "paystack" /\ page'.want = "none"
      /\ page'.step = "details" /\ page'.queue = Empty
  <2>1. "paystack" \in Places /\ n \in 0..MaxOrders
    BY <1>1 DEF Places, Request
  <2> DEFINE there == Opened("paystack", 0)
  <2>2. /\ there \in Page /\ there.want = "none" /\ there.step = "details" /\ there.on = "paystack"
        /\ there.queue = Empty /\ [there EXCEPT !.order = n] \in Page
    BY <2>1, OpenedShape
  <2> HIDE DEF there
  <2> QED
    BY <1>2, <2>2 DEF Page, there
<1> HIDE DEF c, n
<1>7. ASSUME NEW k \in DOMAIN calls'
      PROVE  /\ k \in (DOMAIN calls) \ {id} /\ Stays(calls[k], calls'[k])
             /\ calls'[k].by \notin {"page", "left"}
  <2>1. k \in DOMAIN Unloaded /\ k # id /\ calls'[k] = Unloaded[k]
    BY <1>2 DEF Restrict
  <2> QED
    BY <2>1, UnloadedStays DEF IInv
<1>8. ASSUME NEW k \in DOMAIN calls'
      PROVE  /\ k \in 1..MaxCalls /\ calls'[k] \in Request /\ Fits(calls'[k], orders', Payable')
             /\ Made(calls'[k]) => Made(calls[k]) /\ calls'[k].order = calls[k].order
             /\ ~Asked(calls'[k])
  <2>1. /\ k \in DOMAIN calls /\ k # id /\ k \in 1..MaxCalls
        /\ calls[k] \in Request /\ Fits(calls[k], orders, Payable)
    BY <1>7, CallFacts
  <2>2. /\ calls'[k] \in Request /\ Fits(calls'[k], orders, Payable)
        /\ Made(calls'[k]) => Made(calls[k]) /\ calls'[k].order = calls[k].order
    BY <1>7, <2>1, StaysTheSame
  <2>3. ~Asks(calls'[k]) /\ ~Asked(calls'[k])
    BY <1>7 DEF Asks, Asked
  <2>4. Made(calls'[k]) => calls'[k].order # n
    BY <1>1, <2>1, <2>2 DEF IInv, CallsApart, c, n
  <2>5. NamesAnOrder(calls'[k], orders')
    BY <1>5, <2>2, <2>4, StillNamesAnOrder DEF Fits
  <2>6. AsksForItsOwn(calls'[k], Payable')
    BY <2>2, <2>3 DEF Fits, AsksForItsOwn
  <2> QED
    BY <2>1, <2>2, <2>3, <2>5, <2>6 DEF Fits
<1>9. CallsTyped' /\ CallsFit'
  BY <1>8 DEF CallsTyped, CallsFit
<1>10. CallsApart'
  BY <1>7, <1>8 DEF IInv, CallsApart
<1>11. PageKnows'
  BY <1>6, <1>8 DEF PageKnows
<1>12. BagsTyped' /\ ScreensTyped' /\ BagsCovered'
  <2>1. BagsTyped'
    BY <1>2, <1>4 DEF IInv, BagsTyped, buyer, Payable
  <2>2. ScreensTyped'
    BY <1>2, <1>3, <1>5, <1>6 DEF IInv, ScreensTyped
  <2>3. BagsCovered'
    BY <1>4, <1>6 DEF BagsCovered
  <2> QED
    BY <2>1, <2>2, <2>3
<1>13. ShopsTyped' /\ StockIsWhatIsLeft'
  BY <1>2, <1>5, StorefrontAssumption DEF IInv, ShopsTyped, StockIsWhatIsLeft, shops
<1> QED
  BY <1>5, <1>9, <1>10, <1>11, <1>12, <1>13 DEF IInv

LEMMA SentStep ==
    ASSUME IInv, NEW id, Sent(id)
    PROVE  IInv'
<1>1. CASE calls[id].ok /\ calls[id].want \notin Forms
  BY <1>1, OrderedStep
<1>2. CASE ~(calls[id].ok /\ calls[id].want \notin Forms)
  <2>1. UNCHANGED <<shops, orders, account, signedIn, browser, app, buyer, presses>> /\ Read(id)
    BY <1>2 DEF Sent
  <2>2. PICK step \in {"details", "code", "done"} : page' \in {page, [Stopped EXCEPT !.step = step]}
    <3>1. Stopped.step \in {"details", "code", "done"}
      BY StoppedShape DEF Page
    <3> DEFINE step == IF calls[id].ok THEN "done" ELSE Stopped.step
    <3>2. page' \in {page, [Stopped EXCEPT !.step = step]}
      BY <1>2 DEF Sent
    <3>3. step \in {"details", "code", "done"}
      BY <3>1
    <3> HIDE DEF step
    <3> QED
      BY <3>2, <3>3
  <2>3. /\ page' \in Page /\ page'.want = page.want /\ page'.on = page.on
        /\ page'.queue = page.queue /\ page'.order = page.order
    BY <2>2, StoppedShape, PageFacts
  <2>4. page'.step = "code" => page'.want # "none"
    <3>1. page'.step \in {page.step, "done"}
      <4>1. Stopped.step = page.step
        BY StoppedShape
      <4>2. page' \in {page, [Stopped EXCEPT !.step = IF calls[id].ok THEN "done" ELSE Stopped.step]}
        BY <1>2 DEF Sent
      <4> QED
        BY <4>1, <4>2, StoppedShape, PageFacts DEF Page
    <3> QED
      BY <2>3, <3>1, PageFacts
  <2>5. Idle \in Request /\ Fits(Idle, orders, Payable) /\ ~Made(Idle) /\ ~Asked(Idle) /\ OneChanges(id, Idle)
    BY <2>1, IdleFitsNow, ReadChanges DEF IInv
  <2> QED
    BY <2>1, <2>3, <2>4, <2>5, PageFacts, PageStep
<1> QED
  BY <1>1, <1>2

LEMMA ReturnStep ==
    ASSUME IInv, Return
    PROVE  IInv'
<1> DEFINE d == [Call("confirm", "page", "none", Empty) EXCEPT !.order = page.order]
<1>1. page.on = "paystack" /\ page.order \in 0..Len(orders) /\ page.order # 0 /\ page.want = "none"
      /\ page.order \in 0..MaxOrders
  BY PageFacts DEF Return, Page
<1>2. d \in Request /\ Fits(d, orders, Payable) /\ ~Made(d) /\ ~Asked(d)
  BY <1>1, PlainShape, BagShapes DEF IInv
<1>3. OneChanges(Free, d)
  BY SendChanges DEF Return, IInv
<1> HIDE DEF d
<1>4. /\ page' \in Page /\ page'.order = page.order /\ page'.on = "order" /\ page'.want = "none"
      /\ page'.step = "details" /\ page'.queue = Empty
  <2>1. "order" \in Places
    BY DEF Places
  <2> DEFINE there == Opened("order", 0)
  <2>2. /\ there \in Page /\ there.want = "none" /\ there.step = "details" /\ there.on = "order"
        /\ there.queue = Empty /\ [there EXCEPT !.order = page.order] \in Page
    BY <1>1, <2>1, OpenedShape
  <2>3. page' = [there EXCEPT !.order = page.order]
    BY DEF Return
  <2> HIDE DEF there
  <2> QED
    BY <2>2, <2>3 DEF Page
<1>5. UNCHANGED <<shops, orders, account, signedIn, browser, app, buyer, presses>>
  BY DEF Return
<1> QED
  BY <1>1, <1>2, <1>3, <1>4, <1>5, EmptyIsPayable, PageFacts, PageStep

LEMMA OrderStatusStep ==
    ASSUME IInv, NEW id, OrderStatus(id)
    PROVE  IInv'
<1>1. UNCHANGED <<shops, orders, account, signedIn, browser, app, buyer, presses>> /\ Read(id)
  BY DEF OrderStatus
<1>2. queue \in Payable /\ queue \in Bag
  BY DEF IInv, BagsCovered, Payable
<1>3. /\ page' \in Page /\ page'.want = page.want /\ page'.on = page.on /\ page'.order = page.order
      /\ page'.step = page.step /\ page'.queue \in {page.queue, queue}
  BY <1>2, PageFacts DEF OrderStatus, Page
<1>4. Idle \in Request /\ Fits(Idle, orders, Payable) /\ ~Made(Idle) /\ ~Asked(Idle) /\ OneChanges(id, Idle)
  BY <1>1, IdleFitsNow, ReadChanges DEF IInv
<1>5. page'.queue \in Payable
  BY <1>2, <1>3, PageFacts
<1> QED
  BY <1>1, <1>3, <1>4, <1>5, PageFacts, PageStep

-----------------------------------------------------------------------------
(* The app *)

LEMMA AppFacts ==
    ASSUME IInv
    PROVE  app \in App /\ app.bag \in Bag /\ app.order \in 0..Len(orders) /\ presses \in 0..MaxPresses
BY DEF IInv, ScreensTyped, App

\* A step of the app that opens no payment and puts nothing in the bag.
LEMMA AppStep ==
    ASSUME IInv,
           UNCHANGED <<shops, orders, account, signedIn, browser, page, buyer>>,
           presses' \in 0..MaxPresses, app' \in App, app'.order \in 0..Len(orders),
           NEW id, NEW d, OneChanges(id, d), d \in Request, Fits(d, orders, Payable), ~Made(d), ~Asked(d)
    PROVE  IInv'
<1>1. Pool' /\ PageKnows'
  BY QuietPool, PageStillKnows DEF IInv, PageKnows, buyer
<1>2. BagsTyped'
  BY DEF IInv, BagsTyped, browser, buyer
<1> QED
  BY <1>1, <1>2, QuietStep DEF IInv, ScreensTyped, BagsCovered, browser, buyer

LEMMA AppWritesShape ==
    ASSUME IInv, NEW lines \in Bag
    PROVE  /\ AppWrites(lines) \in App /\ AppWrites(lines).order = app.order
           /\ [AppWrites(lines) EXCEPT !.busy = FALSE] \in App
           /\ [AppWrites(lines) EXCEPT !.busy = FALSE].order = app.order
BY AppFacts DEF AppWrites, App

LEMMA AppAddsStep ==
    ASSUME IInv, AppAdds
    PROVE  IInv'
<1>1. UNCHANGED <<shops, orders, account, signedIn, browser, page, calls, joined>>
  BY DEF AppAdds
<1>2. presses' \in 0..MaxPresses
  BY Pressed DEF AppAdds
<1>3. PICK p \in Products : app' = AppWrites(AddTo(app.bag, p, 1)) /\ put' = [put EXCEPT ![p] = @ + 1]
  BY DEF AppAdds
<1>4. app' \in App /\ app'.order \in 0..Len(orders)
  BY <1>3, AppFacts, AddShape, AppWritesShape
<1>5. put' \in [Products -> Nat] /\ Payable \subseteq Payable'
  BY <1>1, <1>3, PutMore
<1>6. BagsTyped' /\ bag' \in Payable' /\ queue' \in Payable'
  BY <1>1, <1>5 DEF IInv, BagsTyped, BagsCovered, browser
<1>7. OneChanges(0, Idle)
  BY <1>1, SameChanges DEF IInv
<1> QED
  BY <1>1, <1>2, <1>4, <1>5, <1>6, <1>7, IdleFitsAfter, BroadStep

LEMMA AppRemovesStep ==
    ASSUME IInv, AppRemoves
    PROVE  IInv'
<1>1. UNCHANGED <<shops, orders, account, signedIn, browser, page, calls, buyer>>
  BY DEF AppRemoves
<1>2. presses' \in 0..MaxPresses
  BY Pressed DEF AppRemoves
<1>3. PICK p : app' = AppWrites(Emptied(app.bag, p))
  BY DEF AppRemoves
<1>4. app' \in App /\ app'.order \in 0..Len(orders)
  <2>1. Emptied(app.bag, p) \in Bag
    BY AppFacts, BagShapes
  <2> QED
    BY <1>3, <2>1, AppFacts, AppWritesShape
<1>5. Idle \in Request /\ Fits(Idle, orders, Payable) /\ ~Made(Idle) /\ ~Asked(Idle) /\ OneChanges(0, Idle)
  BY <1>1, IdleFitsNow, SameChanges DEF IInv
<1> QED
  BY <1>1, <1>2, <1>4, <1>5, AppStep

LEMMA AppJoinsStep ==
    ASSUME IInv, AppJoins
    PROVE  IInv'
<1>1. UNCHANGED <<shops, orders, account, signedIn, browser, page, buyer, presses>> /\ Room
  BY DEF AppJoins
<1>2. app' \in App /\ app'.order \in 0..Len(orders)
  BY AppFacts DEF AppJoins, App
<1> DEFINE d == Call("join", "app", "none", app.bag)
<1>3. d \in Request /\ Fits(d, orders, Payable) /\ ~Made(d) /\ ~Asked(d)
  BY AppFacts, PlainCall DEF IInv
<1>4. OneChanges(Free, d)
  BY <1>1, SendChanges DEF AppJoins, IInv
<1> HIDE DEF d
<1> QED
  BY <1>1, <1>2, <1>3, <1>4, AppFacts, AppStep

LEMMA AppJoinedStep ==
    ASSUME IInv, NEW id, AppJoined(id)
    PROVE  IInv'
<1>1. UNCHANGED <<shops, orders, account, signedIn, browser, page, buyer, presses>> /\ Read(id)
  BY DEF AppJoined
<1>2. id \in DOMAIN calls /\ calls[id].lines \in Bag
  BY CallFacts DEF AppJoined, At, Request
<1>3. app' \in App /\ app'.order \in 0..Len(orders)
  BY <1>2, AppFacts DEF AppJoined, App
<1>4. Idle \in Request /\ Fits(Idle, orders, Payable) /\ ~Made(Idle) /\ ~Asked(Idle) /\ OneChanges(id, Idle)
  BY <1>1, IdleFitsNow, ReadChanges DEF IInv
<1> QED
  BY <1>1, <1>3, <1>4, AppFacts, AppStep

LEMMA AppPushesStep ==
    ASSUME IInv, AppPushes
    PROVE  IInv'
<1>1. UNCHANGED <<shops, orders, account, signedIn, browser, page, buyer, presses>> /\ Room
  BY DEF AppPushes
<1>2. app' \in App /\ app'.order \in 0..Len(orders)
  BY AppFacts DEF AppPushes, App
<1> DEFINE d == Call("push", "app", "none", app.bag)
<1>3. d \in Request /\ Fits(d, orders, Payable) /\ ~Made(d) /\ ~Asked(d)
  BY AppFacts, PlainCall DEF IInv
<1>4. Send(d) \/ UNCHANGED calls
  BY DEF AppPushes
<1> HIDE DEF d
<1>5. CASE Send(d)
  <2>1. OneChanges(Free, d)
    BY <1>1, <1>5, SendChanges DEF IInv
  <2> QED
    BY <1>1, <1>2, <1>3, <2>1, AppFacts, AppStep
<1>6. CASE UNCHANGED calls
  <2>1. Idle \in Request /\ Fits(Idle, orders, Payable) /\ ~Made(Idle) /\ ~Asked(Idle) /\ OneChanges(0, Idle)
    BY <1>6, IdleFitsNow, SameChanges DEF IInv
  <2> QED
    BY <1>1, <1>2, <2>1, AppFacts, AppStep
<1> QED
  BY <1>4, <1>5, <1>6

LEMMA AppPaysStep ==
    ASSUME IInv, AppPays
    PROVE  IInv'
<1>1. UNCHANGED <<shops, orders, account, signedIn, browser, page, buyer>>
  BY DEF AppPays
<1>2. Room /\ presses' \in 0..MaxPresses
  BY Pressed DEF AppPays
<1>3. app' \in App /\ app'.order \in 0..Len(orders)
  BY AppFacts DEF AppPays, App
<1>4. PICK p : Send(Call("send", "app", "bag", Part(app.bag, p)))
  BY DEF AppPays
<1> DEFINE d == Call("send", "app", "bag", Part(app.bag, p))
<1>5. d \in Request
  <2>1. "bag" \in Wants
    BY DEF Wants, Checkouts
  <2> QED
    BY <2>1, AppFacts, BagShapes, CallShape
<1>6. /\ d.op = "send" /\ d.by = "app" /\ d.want = "bag" /\ d.stage = "asked" /\ d.order = 0
  BY DEF Call
<1>7. OneChanges(Free, d)
  BY <1>2, <1>4, SendChanges DEF IInv
<1> HIDE DEF d
<1>8. ~Made(d) /\ ~Asked(d) /\ ~Asks(d)
  BY <1>6 DEF Made, Asked, Asks
<1>9. Fits(d, orders, Payable)
  BY <1>6, <1>8 DEF Fits, NamesAnOrder, AsksForItsOwn, IInv, OrdersTyped
<1> QED
  BY <1>1, <1>2, <1>3, <1>5, <1>7, <1>8, <1>9, AppStep

\* The app's orders are not the website's: opening one holds nothing of its bag.
LEMMA AppSentStep ==
    ASSUME IInv, NEW id, AppSent(id)
    PROVE  IInv'
<1> DEFINE c == calls[id]
<1>1. /\ id \in DOMAIN calls /\ c \in Request /\ Fits(c, orders, Payable)
      /\ c.op = "send" /\ c.stage = "answered" /\ c.by = "app"
  BY CallFacts DEF AppSent, At
<1>2. c.order \in 0..Len(orders)
  BY <1>1 DEF Fits, NamesAnOrder
<1>3. UNCHANGED <<shops, account, signedIn, browser, page, buyer, presses>> /\ Read(id)
  BY DEF AppSent
<1>4. app' \in App /\ app'.order \in 0..Len(orders)
  BY <1>1, <1>2, AppFacts DEF AppSent, App, Request
<1>5. CASE UNCHANGED orders
  <2>1. Idle \in Request /\ Fits(Idle, orders, Payable) /\ ~Made(Idle) /\ ~Asked(Idle) /\ OneChanges(id, Idle)
    BY <1>3, IdleFitsNow, ReadChanges DEF IInv
  <2> QED
    BY <1>3, <1>4, <1>5, <2>1, AppFacts, AppStep
<1>6. CASE c.ok /\ PageOpened(c.order)
  <2>1. Made(c) /\ PaidFrom(c) = "app"
    BY <1>1, <1>6 DEF Made, Fits, AsksForItsOwn, Forms, PaidFrom
  <2> DEFINE n == c.order
  <2>2. n \in 1..Len(orders) /\ orders[n].charge = "none" /\ orders[n].from = "app"
    BY <1>1, <1>2, <2>1 DEF Fits, NamesAnOrder, IInv, OrdersTyped
  <2>3. PageOpened(n)
    BY <1>6
  <2>4. \A k \in (DOMAIN calls) \ {id} : Made(calls[k]) => calls[k].order # n
    BY <1>1, <2>1 DEF IInv, CallsApart
  <2> HIDE DEF n
  <2>5. /\ OrdersTyped' /\ Len(orders)' = Len(orders) /\ Steady(n)
        /\ \A p \in Products : PaidUnits(p)' = PaidUnits(p) /\ Held(p)' = Held(p)
    BY <2>2, <2>3, OpenedCounts
  <2>6. Payable' = Payable
    BY <1>3, <2>5 DEF Payable, buyer
  <2>7. Idle \in Request /\ Fits(Idle, orders', Payable') /\ ~Made(Idle) /\ ~Asked(Idle) /\ OneChanges(id, Idle)
    BY <1>3, <2>5, IdleFits, ReadChanges DEF Steady
  <2>8. Pool'
    BY <2>4, <2>5, <2>6, <2>7, PoolStays DEF IInv, Pool
  <2>9. PageKnows'
    BY <1>3, <2>7, PageStillKnows DEF IInv, PageKnows
  <2>10. BagsTyped' /\ ScreensTyped' /\ BagsCovered'
    BY <1>3, <1>4, <2>5, <2>6 DEF IInv, BagsTyped, ScreensTyped, BagsCovered, browser, buyer
  <2>11. ShopsTyped' /\ StockIsWhatIsLeft'
    BY <1>3, <2>5, StorefrontAssumption DEF IInv, ShopsTyped, StockIsWhatIsLeft, shops
  <2> QED
    BY <2>5, <2>8, <2>9, <2>10, <2>11 DEF IInv, Pool
<1> QED
  BY <1>5, <1>6 DEF AppSent

LEMMA AppReturnsStep ==
    ASSUME IInv, AppReturns
    PROVE  IInv'
<1>1. UNCHANGED <<shops, orders, account, signedIn, browser, page, buyer, presses>> /\ Room
  BY DEF AppReturns
<1>2. app' \in App /\ app'.order \in 0..Len(orders)
  BY AppFacts, StorefrontAssumption DEF AppReturns, App, IInv, OrdersTyped
<1> DEFINE d == [Call("confirm", "app", "none", Empty) EXCEPT !.order = app.order]
<1>3. d \in Request /\ Fits(d, orders, Payable) /\ ~Made(d) /\ ~Asked(d)
  BY AppFacts, BagShapes, PlainShape DEF IInv, AppReturns
<1>4. OneChanges(Free, d)
  BY <1>1, SendChanges DEF AppReturns, IInv
<1> HIDE DEF d
<1> QED
  BY <1>1, <1>2, <1>3, <1>4, AppFacts, AppStep

LEMMA AppConfirmedStep ==
    ASSUME IInv, NEW id, AppConfirmed(id)
    PROVE  IInv'
<1>1. UNCHANGED <<shops, orders, account, signedIn, browser, page, buyer, presses>> /\ Read(id)
  BY DEF AppConfirmed
<1>2. app' \in App /\ app'.order \in 0..Len(orders)
  <2>1. CASE app' = [app EXCEPT !.busy = FALSE]
    BY <2>1, AppFacts DEF App
  <2>2. CASE \E s : app' = [AppWrites(Emptied(app.bag, s)) EXCEPT !.busy = FALSE]
    BY <2>2, AppFacts, BagShapes, AppWritesShape
  <2> QED
    BY <2>1, <2>2 DEF AppConfirmed
<1>3. Idle \in Request /\ Fits(Idle, orders, Payable) /\ ~Made(Idle) /\ ~Asked(Idle) /\ OneChanges(id, Idle)
  BY <1>1, IdleFitsNow, ReadChanges DEF IInv
<1> QED
  BY <1>1, <1>2, <1>3, AppFacts, AppStep

LEMMA AppRestartsStep ==
    ASSUME IInv, AppRestarts
    PROVE  IInv'
<1>1. UNCHANGED <<shops, orders, account, signedIn, browser, page, buyer>>
  BY DEF AppRestarts
<1>2. presses' \in 0..MaxPresses
  BY Pressed DEF AppRestarts
<1>3. app' \in App /\ app'.order \in 0..Len(orders)
  <2>1. 0 \in 0..MaxOrders /\ 0 \in 0..Len(orders)
    BY StorefrontAssumption DEF IInv, OrdersTyped
  <2>2. app' = [app EXCEPT !.synced = "no", !.timer = FALSE, !.busy = FALSE, !.order = 0]
    BY DEF AppRestarts
  <2> QED
    BY <2>1, <2>2, AppFacts DEF App
<1>4. OneChanges(0, Idle)
  <2>1. ASSUME NEW n \in DOMAIN calls'
        PROVE  n \in DOMAIN calls /\ Stays(calls[n], calls'[n])
    BY DEF AppRestarts, Stays
  <2>2. 0 \notin DOMAIN calls
    BY DEF IInv, CallsTyped
  <2> QED
    BY <2>1, <2>2 DEF OneChanges
<1> QED
  BY <1>1, <1>2, <1>3, <1>4, IdleFitsNow, AppStep DEF IInv

-----------------------------------------------------------------------------
(* The beginning *)

LEMMA AtFirst ==
    /\ All \in Bag /\ First(All) \in Products
    /\ Part(All, First(All)) \in Bag /\ Emptied(All, First(All)) \in Bag
    /\ \A p \in Products : All[p] = 1
    /\ \A p \in Products : Part(All, First(All))[p] + Emptied(All, First(All))[p] = 1
    /\ FirstPaid \in Order
<1>1. 1 \in 0..Cap /\ Products \subseteq Nat /\ Products # {}
  BY StorefrontAssumption
<1>2. All \in Bag /\ \A p \in Products : All[p] = 1
  BY <1>1 DEF All, Bag
<1>3. First(All) \in Products
  <2>1. InBag(All) = Products
    BY <1>2 DEF InBag
  <2>2. \E x \in Products : \A y \in Products : x <= y
    BY <1>1, LeastIsIn
  <2> QED
    BY <2>1, <2>2 DEF First, Min
<1>4. Part(All, First(All)) \in Bag /\ Emptied(All, First(All)) \in Bag
  BY <1>2, BagShapes
<1>5. \A p \in Products : Part(All, First(All))[p] + Emptied(All, First(All))[p] = 1
  <2>1. \A p \in Products : Part(All, First(All))[p] = IF p = First(All) THEN 1 ELSE 0
    BY <1>2, <1>3 DEF Part, Empty
  <2>2. \A p \in Products : Emptied(All, First(All))[p] = IF p = First(All) THEN 0 ELSE 1
    BY <1>2, <1>3 DEF Emptied, All
  <2> QED
    BY <2>1, <2>2
<1>6. FirstPaid \in Order
  BY <1>4 DEF FirstPaid, Order
<1> QED
  BY <1>2, <1>3, <1>4, <1>5, <1>6

LEMMA NoneOrOneCounts ==
    ASSUME OrdersTyped, NEW p \in Products
    PROVE  /\ Len(orders) = 0 => Held(p) = 0
           /\ Len(orders) = 1 => Held(p) = HeldBy(orders[1], p)
<1> DEFINE L == Len(orders)
<1>1. L \in Nat /\ HeldRow(p) \in [1..L -> Nat] /\ Held(p) = SumOf(HeldRow(p), L)
  BY RowsAreNumbers, UnitsAreSums
<1>2. L = 1 => HeldRow(p)[1] = HeldBy(orders[1], p)
  BY DEF HeldRow
<1> HIDE DEF L
<1>3. PICK f \in [0..L -> Nat] :
          /\ SumOf(HeldRow(p), L) = f[L] /\ f[0] = 0
          /\ \A n \in 1..L : f[n] = f[n - 1] + HeldRow(p)[n]
  BY <1>1, SumGrows
<1>4. L = 0 => Held(p) = 0
  BY <1>1, <1>3
<1>5. L = 1 => Held(p) = HeldBy(orders[1], p)
  <2> SUFFICES ASSUME L = 1
               PROVE  Held(p) = HeldBy(orders[1], p)
    OBVIOUS
  <2>1. 1 \in 1..L /\ 1 - 1 = 0
    OBVIOUS
  <2>2. f[1] = f[1 - 1] + HeldRow(p)[1]
    BY <1>3, <2>1
  <2>3. HeldRow(p)[1] \in Nat
    BY <1>1, <2>1
  <2> QED
    BY <1>1, <1>2, <1>3, <2>1, <2>2, <2>3
<1> QED
  BY <1>4, <1>5 DEF L

LEMMA IInvInit ==
    ASSUME Init
    PROVE  IInv
<1>1. /\ StockAtFirst \in Nat /\ StockAtFirst \in 0..StockAtFirst /\ MaxOrders >= 1 /\ MaxOrders \in Nat
      /\ Counted \subseteq Products /\ 0 \in 0..MaxPresses /\ 0 \in 0..MaxOrders
  BY StorefrontAssumption
<1>2. /\ orders \in Seq(Order) /\ Len(orders) \in 0..1
      /\ Len(orders) = 0 => /\ bag = All /\ queue = Empty
                            /\ page \in {Gone, Opened("all", 0), Opened("product", First(All))}
      /\ Len(orders) = 1 => /\ orders[1] = FirstPaid /\ bag = Emptied(All, First(All)) /\ queue = bag
                            /\ page = [Opened("order", 0) EXCEPT !.order = 1, !.queue = queue]
  <2>1. CASE orders = <<>> /\ bag = All /\ queue = Empty
             /\ page \in {Gone, Opened("all", 0), Opened("product", First(All))}
    <3>1. orders \in Seq(Order) /\ Len(orders) = 0
      BY <2>1
    <3> QED
      BY <2>1, <3>1
  <2>2. CASE orders = <<FirstPaid>> /\ bag = Emptied(All, First(All)) /\ queue = bag
             /\ page = [Opened("order", 0) EXCEPT !.order = 1, !.queue = queue]
    <3>1. orders \in Seq(Order) /\ Len(orders) = 1 /\ orders[1] = FirstPaid
      BY <2>2, AtFirst
    <3> QED
      BY <2>2, <3>1
  <2> QED
    BY <2>1, <2>2 DEF Init
<1>3. OrdersTyped
  <2>1. Len(orders) <= MaxOrders
    <3>1. Len(orders) = 0 \/ Len(orders) = 1
      BY <1>2
    <3>2. MaxOrders >= 1 /\ MaxOrders >= 0
      BY StorefrontAssumption
    <3> QED
      BY <3>1, <3>2
  <2> QED
    BY <1>2, <2>1 DEF OrdersTyped
<1>4. bag \in Bag /\ queue \in Bag
  BY <1>2, AtFirst, BagShapes
<1>5. BagsTyped
  <2>1. account \in Bag /\ put \in [Products -> Nat]
    BY <1>4, BagShapes DEF Init, All
  <2> QED
    BY <1>4, <2>1 DEF Init, BagsTyped
<1>6. ShopsTyped /\ StockIsWhatIsLeft
  <2>1. \A p \in Products : PaidUnits(p) \in Nat
    BY <1>3, UnitsAreNumbers
  <2> QED
    BY <1>1, <2>1 DEF Init, ShopsTyped, Shelf, StockIsWhatIsLeft
<1>7. /\ page \in Page /\ page.want = "none" /\ page.step = "details" /\ page.on # "paystack"
      /\ page.order \in 0..Len(orders) /\ page.queue \in {Empty, queue}
  <2>1. CASE Len(orders) = 0
    <3>1. {"away", "all", "product"} \subseteq Places
      BY DEF Places
    <3>2. PICK place \in {"away", "all", "product"}, s \in Products \cup {0} : page = Opened(place, s)
      BY <1>2, <2>1, AtFirst DEF Gone
    <3> QED
      BY <2>1, <3>1, <3>2, OpenedShape
  <2>2. CASE Len(orders) = 1
    <3>1. "order" \in Places
      BY DEF Places
    <3> DEFINE there == Opened("order", 0)
    <3>2. /\ there \in Page /\ there.want = "none" /\ there.step = "details" /\ there.on = "order"
      BY <3>1, OpenedShape
    <3>3. page = [there EXCEPT !.order = 1, !.queue = queue]
      BY <1>2, <2>2
    <3>4. 1 \in 0..MaxOrders
      BY <1>1
    <3> HIDE DEF there
    <3>5. /\ page.on = "order" /\ page.want = "none" /\ page.step = "details" /\ page.order = 1
          /\ page.queue = queue
      BY <3>2, <3>3 DEF Page
    <3>6. page \in Page
      BY <1>4, <3>2, <3>3, <3>4 DEF Page
    <3>7. page.order \in 0..Len(orders)
      BY <2>2, <3>5
    <3> QED
      BY <3>5, <3>6, <3>7
  <2> QED
    BY <1>2, <2>1, <2>2
<1>8. app \in App /\ app.order = 0
  <2>1. account \in Bag /\ Empty \in Bag
    BY <1>5, BagShapes DEF BagsTyped
  <2>2. PICK lines \in Bag, synced \in {"no", "yes"} :
            app = [bag |-> lines, synced |-> synced, timer |-> FALSE, busy |-> FALSE, order |-> 0]
    BY <2>1 DEF Init
  <2> QED
    BY <1>1, <2>2 DEF App
<1>9. ScreensTyped
  BY <1>1, <1>2, <1>7, <1>8 DEF ScreensTyped, Init
<1>10. BagsCovered
  <2>1. ASSUME NEW p \in Products
        PROVE  /\ Held(p) + bag[p] <= put[p] /\ Held(p) + queue[p] <= put[p] /\ Held(p) + Empty[p] <= put[p]
    <3>1. /\ put[p] = 1 /\ bag[p] \in Nat /\ queue[p] \in Nat /\ Empty[p] = 0 /\ Held(p) \in Nat
      BY <1>3, <1>4, AtFirst, BagShapes, UnitsAreNumbers DEF Init
    <3>2. CASE Len(orders) = 0
      BY <1>2, <1>3, <3>1, <3>2, AtFirst, NoneOrOneCounts, BagShapes
    <3>3. CASE Len(orders) = 1
      <4>1. Held(p) = Part(All, First(All))[p]
        BY <1>2, <1>3, <3>3, NoneOrOneCounts DEF FirstPaid, HeldBy
      <4>2. Held(p) + bag[p] = 1 /\ queue = bag
        BY <1>2, <3>3, <4>1, AtFirst
      <4> QED
        BY <3>1, <4>2
    <3> QED
      BY <1>2, <3>2, <3>3
  <2>2. bag \in Payable /\ queue \in Payable /\ Empty \in Payable
    BY <1>4, <2>1, BagShapes DEF Payable
  <2> QED
    BY <1>7, <2>2 DEF BagsCovered
<1>11. DOMAIN calls = {}
  BY DEF Init
<1>12. CallsTyped /\ CallsFit /\ CallsApart /\ PageKnows
  BY <1>7, <1>11 DEF CallsTyped, CallsFit, CallsApart, PageKnows
<1> QED
  BY <1>3, <1>5, <1>6, <1>9, <1>10, <1>12 DEF IInv

-----------------------------------------------------------------------------
(* The theorems *)

LEMMA StutterKeeps ==
    ASSUME IInv, UNCHANGED vars
    PROVE  IInv'
<1>1. /\ UNCHANGED <<shops, orders, account, signedIn, browser, page, app, buyer>>
      /\ UNCHANGED <<calls, presses>>
  BY DEF vars
<1>2. Idle \in Request /\ Fits(Idle, orders, Payable) /\ ~Made(Idle) /\ ~Asked(Idle) /\ OneChanges(0, Idle)
  BY <1>1, IdleFitsNow, SameChanges DEF IInv
<1> QED
  BY <1>1, <1>2, AppFacts, AppStep

LEMMA ServeKeeps ==
    ASSUME IInv, NEW id, Serve(id)
    PROVE  IInv'
BY ServeJoinStep, ServePushStep, ServeCodeStep, ServeVerifyStep, ServeFormStep, ServeOrderStep,
   ServeConfirmStep, ConfirmVerifiedStep DEF Serve

LEMMA AnsweredKeeps ==
    ASSUME IInv, NEW id, Answered(id)
    PROVE  IInv'
BY JoinedStep, CodeAskedStep, CodeTextedStep, CodeCheckedStep, SentStep, OrderStatusStep,
   AppJoinedStep, AppSentStep, AppConfirmedStep DEF Answered

LEMMA ShoppingKeeps ==
    ASSUME IInv, Shopping
    PROVE  IInv'
BY OpenStep, SignOutStep, CloseTabStep, AddToBagStep, ChangeBagStep, PushBagStep, PricedStep,
   AskingStep, ConfirmCodeStep, ReturnStep, NextPaymentStep DEF Shopping

LEMMA OnThePhoneKeeps ==
    ASSUME IInv, OnThePhone
    PROVE  IInv'
BY AppAddsStep, AppRemovesStep, AppJoinsStep, AppPushesStep, AppPaysStep, AppReturnsStep,
   AppRestartsStep DEF OnThePhone

LEMMA IInvStep ==
    ASSUME IInv, [Next]_vars
    PROVE  IInv'
BY ServeKeeps, AnsweredKeeps, WebhookStep, PayStep, SellerCountsStep, ShoppingKeeps,
   OnThePhoneKeeps, StutterKeeps DEF Next

THEOREM Invariance == Spec => []IInv
BY IInvInit, IInvStep, PTL DEF Spec

\* Every part of the state has its type: no shelf is below nothing or above what the
\* seller put up, and no bag has more of a thing than the bag's limit (addToBag,
\* setBagLines, take_stock).
THEOREM TypeCorrect == Spec => []TypeOK
<1>1. IInv => TypeOK
  BY DEF IInv, TypeOK, ShopsTyped, OrdersTyped, BagsTyped, ScreensTyped, CallsTyped
<1> QED
  BY <1>1, Invariance, PTL

\* Whatever the number of things, orders, tabs' requests and messages of Paystack's,
\* each payment takes its things from the shelf once (confirm_order, take_stock).
THEOREM StockIsKept == Spec => []StockIsWhatIsLeft
<1>1. IInv => StockIsWhatIsLeft
  BY DEF IInv
<1> QED
  BY <1>1, Invariance, PTL

\* Until the account's bag comes into the browser's, nothing is paid for from the bag
\* more often than it was put there, whatever checkouts were begun, left and come back
\* to (Checkout.pay, CheckoutAll, NextPayment.payNext).
THEOREM PaidForOnce == Spec => []NothingPaidTwice
<1>1. ASSUME IInv
      PROVE  NothingPaidTwice
  <2> SUFFICES ASSUME ~joined, NEW p \in Products
               PROVE  ChargedUnits(p, {"bag"}) <= put[p]
    BY DEF NothingPaidTwice
  <2>1. /\ Held(p) \in Nat /\ bag[p] \in Nat /\ put[p] \in Nat /\ Held(p) + bag[p] <= put[p]
    BY <1>1, BagShapes, UnitsAreNumbers DEF IInv, BagsCovered, BagsTyped, Payable
  <2> DEFINE L == Len(orders)
             charged == ChargedRow(p, {"bag"})
             held == HeldRow(p)
  <2>2. L \in Nat /\ charged \in [1..L -> Nat] /\ held \in [1..L -> Nat]
    BY <1>1, RowsAreNumbers DEF IInv
  <2>3. \A n \in 1..L : charged[n] <= held[n]
    <3>1. \A n \in 1..L : orders[n] \in Order
      BY <1>1 DEF IInv, OrdersTyped
    <3> QED
      BY <3>1, OrderCounts DEF ChargedRow, HeldRow
  <2>4. ChargedUnits(p, {"bag"}) = SumOf(charged, L) /\ Held(p) = SumOf(held, L)
    BY UnitsAreSums
  <2> HIDE DEF L, charged, held
  <2>5. SumOf(charged, L) <= SumOf(held, L) /\ SumOf(charged, L) \in Nat
    BY <2>2, <2>3, SumOfSmaller, SumIsNatural
  <2> QED
    BY <2>1, <2>4, <2>5
<1> QED
  BY <1>1, Invariance, PTL
===============================================================================
