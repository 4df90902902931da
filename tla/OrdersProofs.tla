---------------------------- MODULE OrdersProofs ----------------------------
(***************************************************************************)
(* Theorems about Orders, for every value of its constants.                *)
(***************************************************************************)
EXTENDS Orders, AmountsProofs

\* The steps that change a period and leave everything else alone.
ChangePeriod(p) ==
    \/ \E cost \in TransportCosts :
          \/ CreatePeriod(p, cost)
          \/ \E state \in {"open", "ended"} : UpdatePeriod(p, state, cost)
    \/ EndPeriod(p)

-----------------------------------------------------------------------------
(* What the operators return *)

\* A row an edit makes keeps the user of the order and has the new total; its
\* payment is capped by it unless the edit left the payment alone; and it is paid
\* only when the payment covers the total.
LEMMA EditedRow ==
    ASSUME NEW row \in OrderRow, NEW newTotal \in Nat, NEW err \in -1..1
    PROVE  /\ Edited(row, newTotal, err) \in OrderRow
           /\ Edited(row, newTotal, err).user = row.user
           /\ Edited(row, newTotal, err).total = newTotal
           /\ \/ Edited(row, newTotal, err).paid <= newTotal
              \/ /\ Edited(row, newTotal, err).paid = row.paid
                 /\ row.total \in {0, newTotal}
           /\ Edited(row, newTotal, err).status = "paid"
                 => Edited(row, newTotal, err).paid >= newTotal
<1>1. row.total \in Nat /\ row.paid \in Nat /\ row.user \in Users
  BY DEF OrderRow
<1>2. PICK newPaid \in Nat, newStatus \in {"unpaid", "paid"} :
        /\ Edited(row, newTotal, err) =
              [row EXCEPT !.total = newTotal, !.paid = newPaid, !.status = newStatus]
        /\ newPaid <= newTotal \/ (newPaid = row.paid /\ row.total \in {0, newTotal})
        /\ newStatus = "paid" => newPaid >= newTotal
  BY <1>1, EditedAmounts
<1> QED
  BY <1>1, <1>2 DEF OrderRow

\* The price of some items is an amount.
LEMMA PriceIsNat ==
    ASSUME TypeOK, NEW S \in SUBSET DOMAIN item
    PROVE  PriceOf(S) \in Nat
<1>1. IsFiniteSet(S)
  BY OrdersAssumption, FS_Subset DEF TypeOK
<1>2. \A i \in S : item[i].price \in Nat
  BY DEF TypeOK, ItemRow
<1> QED
  BY <1>1, <1>2, SumIsNat DEF PriceOf, PricesOf

\* Some of the items cost at most what they all cost.
LEMMA PriceMonotone ==
    ASSUME TypeOK, NEW S \in SUBSET DOMAIN item, NEW T \in SUBSET S
    PROVE  PriceOf(T) <= PriceOf(S)
<1>1. IsFiniteSet(S)
  BY OrdersAssumption, FS_Subset DEF TypeOK
<1>2. \A i \in S : item[i].price \in Nat
  BY DEF TypeOK, ItemRow
<1> QED
  BY <1>1, <1>2, SumMonotone DEF PriceOf, PricesOf

\* Sharing the transport of a period never asks a user for more than its cost.
LEMMA TransportShareBound ==
    ASSUME TypeOK, NEW p \in Periods
    PROVE  TransportShare(p) \in Nat /\ TransportShare(p) <= transportCost[p]
<1>1. UsersIn(p) \subseteq Users
  BY DEF UsersIn, OrdersIn, TypeOK, OrderRow
<1>2. IsFiniteSet(UsersIn(p))
  BY <1>1, OrdersAssumption, FS_Subset
<1>3. UsersIn(p) # {} => Cardinality(UsersIn(p)) \in Nat \ {0}
  BY <1>2, FS_CardinalityType, FS_EmptySet
<1>4. transportCost[p] \in Nat
  BY OrdersAssumption DEF TypeOK
<1> QED
  BY <1>3, <1>4, RoundedIsNat, RoundedAtMost DEF TransportShare

\* What the transport of the periods of an order costs them all.
WholeTransport(o) == Sum([p \in PeriodsOf(o) |-> transportCost[p]])

\* An order never pays for more than the whole transport of its periods.
LEMMA TransportBound ==
    ASSUME TypeOK, NEW o
    PROVE  /\ WholeTransport(o) \in Nat
           /\ TransportOf(o) \in Nat /\ TransportOf(o) <= WholeTransport(o)
<1>1. PeriodsOf(o) \subseteq Periods
  BY DEF PeriodsOf, ItemsOf, TypeOK, ItemRow
<1>2. IsFiniteSet(PeriodsOf(o))
  BY <1>1, OrdersAssumption, FS_Subset
<1>3. \A p \in PeriodsOf(o) :
         /\ TransportShare(p) \in Nat /\ TransportShare(p) <= transportCost[p]
         /\ transportCost[p] \in Nat
  BY <1>1, TransportShareBound, OrdersAssumption DEF TypeOK
<1> DEFINE share == [p \in PeriodsOf(o) |-> TransportShare(p)]
           cost  == [p \in PeriodsOf(o) |-> transportCost[p]]
<1>4. DOMAIN share = PeriodsOf(o) /\ \A p \in PeriodsOf(o) : share[p] = TransportShare(p)
  OBVIOUS
<1>5. DOMAIN cost = PeriodsOf(o) /\ \A p \in PeriodsOf(o) : cost[p] = transportCost[p]
  OBVIOUS
<1> HIDE DEF share, cost
<1>6. Sum(share) \in Nat /\ Sum(cost) \in Nat
  BY <1>2, <1>3, <1>4, <1>5, SumIsNat
<1>7. Sum(share) <= Sum(cost)
  BY <1>2, <1>3, <1>4, <1>5, SumMonotone
<1> QED
  BY <1>6, <1>7 DEF TransportOf, WholeTransport, share, cost

-----------------------------------------------------------------------------
(* Types *)

\* Recalculating an order keeps the types.
LEMMA RecalculatedType ==
    ASSUME TypeOK, NEW o \in DOMAIN order, NEW price,
           Sum(price) \in Nat, Recalculate(o, price)
    PROVE  DOMAIN order' = DOMAIN order /\ order' \in [DOMAIN order -> OrderRow]
<1>1. PICK err \in -1..1 :
         order' = [order EXCEPT ![o] = Edited(order[o], Sum(price), err)]
  BY DEF Recalculate, Errors
<1>2. order[o] \in OrderRow
  BY DEF TypeOK
<1>3. Edited(order[o], Sum(price), err) \in OrderRow
  BY <1>2, EditedRow
<1> QED
  BY <1>1, <1>3 DEF TypeOK

LEMMA TypeStep == TypeOK /\ [Next]_vars => TypeOK'
<1> SUFFICES ASSUME TypeOK, [Next]_vars PROVE TypeOK'
  OBVIOUS
<1>1. ASSUME NEW o \in Orders, NEW u \in Users, NEW S \in SUBSET Items,
             NEW line \in [S -> OrderLine], Create(o, u, line)
      PROVE  TypeOK'
  <2>1. IsFiniteSet(S)
    BY OrdersAssumption, FS_Subset
  <2> DEFINE price == [i \in DOMAIN line |-> line[i].price]
  <2>2. DOMAIN price = S /\ \A i \in S : price[i] \in Nat
    BY OrdersAssumption DEF OrderLine
  <2> HIDE DEF price
  <2>3. Sum(price) \in Nat
    BY <2>1, <2>2, SumIsNat
  <2>4. DOMAIN order' \subseteq Orders /\ order' \in [DOMAIN order' -> OrderRow]
    BY <1>1, <2>3 DEF Create, price, TypeOK, OrderRow
  <2>5. DOMAIN item' \subseteq Items /\ item' \in [DOMAIN item' -> ItemRow]
    BY <1>1, OrdersAssumption DEF Create, TypeOK, OrderLine, ItemRow
  <2> QED
    BY <1>1, <2>4, <2>5 DEF Create, TypeOK
<1>2. ASSUME NEW o \in Orders, Delete(o)
      PROVE  TypeOK'
  BY <1>2 DEF Delete, TypeOK
<1>3. ASSUME NEW o \in Orders, NEW i \in Items, NEW newPrice \in Prices,
             UpdateOrderItem(o, i, newPrice)
      PROVE  TypeOK'
  <2> DEFINE price == [j \in ItemsOf(o) |-> IF j = i THEN newPrice ELSE item[j].price]
  <2>1. IsFiniteSet(ItemsOf(o))
    BY OrdersAssumption, FS_Subset DEF ItemsOf, TypeOK
  <2>2. DOMAIN price = ItemsOf(o) /\ \A j \in ItemsOf(o) : price[j] \in Nat
    BY OrdersAssumption DEF ItemsOf, TypeOK, ItemRow
  <2>3. Recalculate(o, price) /\ o \in DOMAIN order
    BY <1>3 DEF UpdateOrderItem
  <2> HIDE DEF price
  <2>4. Sum(price) \in Nat
    BY <2>1, <2>2, SumIsNat
  <2>5. DOMAIN order' = DOMAIN order /\ order' \in [DOMAIN order -> OrderRow]
    BY <2>3, <2>4, RecalculatedType
  <2>6. DOMAIN item' \subseteq Items /\ item' \in [DOMAIN item' -> ItemRow]
    BY <1>3, OrdersAssumption DEF UpdateOrderItem, LiveItemsOf, ItemsOf, TypeOK, ItemRow
  <2> QED
    BY <1>3, <2>5, <2>6 DEF UpdateOrderItem, TypeOK
<1>4. ASSUME NEW o \in Orders, NEW i \in Items, DeleteOrderItemById(o, i)
      PROVE  TypeOK'
  <2>1. DOMAIN item' \subseteq Items /\ item' \in [DOMAIN item' -> ItemRow]
    BY <1>4 DEF DeleteOrderItemById, TypeOK
  <2>2. CASE ItemsOf(o) = {i}
    BY <1>4, <2>1, <2>2 DEF DeleteOrderItemById, TypeOK
  <2>3. CASE ItemsOf(o) # {i}
    <3>1. Sum(PricesOf(ItemsOf(o) \ {i})) \in Nat
      BY PriceIsNat DEF PriceOf, ItemsOf
    <3>2. DOMAIN order' = DOMAIN order /\ order' \in [DOMAIN order -> OrderRow]
      BY <1>4, <2>3, <3>1, RecalculatedType DEF DeleteOrderItemById
    <3> QED
      BY <1>4, <2>1, <3>2 DEF DeleteOrderItemById, TypeOK
  <2> QED
    BY <2>2, <2>3
<1>5. ASSUME NEW o \in Orders, MarkAsPaid(o)
      PROVE  TypeOK'
  <2>1. PriceOf(LiveItemsOf(o)) \in Nat
    BY PriceIsNat DEF LiveItemsOf, ItemsOf
  <2>2. PriceOf(LiveItemsOf(o)) + TransportOf(o) \in Nat
    BY <2>1, TransportBound
  <2>3. order[o] \in OrderRow
    BY <1>5 DEF MarkAsPaid, TypeOK
  <2> DEFINE paid == PriceOf(LiveItemsOf(o)) + TransportOf(o)
             row == [order[o] EXCEPT !.paid = paid, !.status = "paid"]
  <2>4. row \in OrderRow
    BY <2>2, <2>3 DEF OrderRow
  <2>5. order' = [order EXCEPT ![o] = row]
    BY <1>5 DEF MarkAsPaid, TypeOK
  <2> HIDE DEF row
  <2> QED
    BY <1>5, <2>4, <2>5 DEF MarkAsPaid, TypeOK
<1>6. ASSUME NEW p \in Periods, NEW u \in Users, MarkPeriodOrdersAsPaid(p, u)
      PROVE  TypeOK'
  <2>1. \A o : PriceOf(LiveItemsOf(o)) \in Nat
    BY PriceIsNat DEF LiveItemsOf, ItemsOf
  <2> QED
    <3> DEFINE paidRow(o) ==
                 [order[o] EXCEPT !.status = "paid", !.paid = PriceOf(LiveItemsOf(o))]
    <3>1. \A o \in DOMAIN order : paidRow(o) \in OrderRow
      BY <2>1 DEF TypeOK, OrderRow
    <3>2. order' = [o \in DOMAIN order |->
                      IF o \in SettledBy(p, u) THEN paidRow(o) ELSE order[o]]
      BY <1>6 DEF MarkPeriodOrdersAsPaid
    <3> HIDE DEF paidRow
    <3>3. DOMAIN order' = DOMAIN order /\ order' \in [DOMAIN order -> OrderRow]
      BY <3>1, <3>2 DEF TypeOK
    <3>4. payment' \subseteq Periods \X Users
      <4>1. <<p, u>> \in Periods \X Users
        OBVIOUS
      <4>2. payment' = payment \cup {<<p, u>>}
        BY <1>6 DEF MarkPeriodOrdersAsPaid
      <4>3. payment \subseteq Periods \X Users
        BY DEF TypeOK
      <4> QED
        BY <4>1, <4>2, <4>3
    <3>5. UNCHANGED <<item, article, period, transportCost>>
      BY <1>6 DEF MarkPeriodOrdersAsPaid
    <3> QED
      BY <3>3, <3>4, <3>5 DEF TypeOK
<1>7. ASSUME NEW p \in Periods, NEW u \in Users, MarkPeriodOrdersAsUnpaid(p, u)
      PROVE  TypeOK'
  BY <1>7 DEF MarkPeriodOrdersAsUnpaid, TypeOK, OrderRow
<1>8. ASSUME NEW p \in Periods, ChangePeriod(p)
      PROVE  TypeOK'
  BY <1>8 DEF ChangePeriod, CreatePeriod, EndPeriod, UpdatePeriod, TypeOK
<1>9. ASSUME NEW p \in Periods, RemovePeriod(p)
      PROVE  TypeOK'
  BY <1>9, OrdersAssumption DEF RemovePeriod, TypeOK, ItemRow
<1>10. ASSUME NEW a \in Articles, CreateArticle(a) \/ ToggleShowcase(a)
       PROVE  TypeOK'
  BY <1>10 DEF CreateArticle, ToggleShowcase, TypeOK
<1>11. ASSUME NEW a \in Articles, DeleteArticle(a)
       PROVE  TypeOK'
  BY <1>11 DEF DeleteArticle, TypeOK, ItemRow
<1>12. CASE UNCHANGED vars
  BY <1>12 DEF vars, TypeOK
<1> QED
  BY <1>1, <1>2, <1>3, <1>4, <1>5, <1>6, <1>7, <1>8, <1>9, <1>10, <1>11, <1>12
     DEF Next, EditOrder, ChangePeriod

\* Every row of every table always has the columns of its entity, with amounts that
\* are numbers of cents: no operation of OrdersService stores anything else.
THEOREM TypeCorrect == Spec => []TypeOK
<1>1. Init => TypeOK
  BY DEF Init, TypeOK
<1> QED
  BY <1>1, TypeStep, PTL DEF Spec

-----------------------------------------------------------------------------
(* References *)

\* Recalculating an order adds and removes no order.
LEMMA RecalculatedDomain ==
    ASSUME NEW o, NEW price, Recalculate(o, price)
    PROVE  DOMAIN order' = DOMAIN order
BY DEF Recalculate

LEMMA ReferentialStep ==
    TypeOK /\ ReferentialIntegrity /\ [Next]_vars => ReferentialIntegrity'
<1> SUFFICES ASSUME TypeOK, ReferentialIntegrity, [Next]_vars
             PROVE  ReferentialIntegrity'
  OBVIOUS
<1>1. ASSUME NEW o \in Orders, NEW u \in Users, NEW S \in SUBSET Items,
             NEW line \in [S -> OrderLine], Create(o, u, line)
      PROVE  ReferentialIntegrity'
  <2>1. \A i \in DOMAIN item' : item'[i].order \in DOMAIN order'
    BY <1>1 DEF Create, ReferentialIntegrity
  <2>2. \A i \in DOMAIN item' :
          /\ item'[i].article # NULL => article[item'[i].article] # "absent"
          /\ item'[i].period # NULL => period[item'[i].period] # "absent"
    BY <1>1 DEF Create, ReferentialIntegrity
  <2> QED
    BY <1>1, <2>1, <2>2 DEF Create, ReferentialIntegrity
<1>2. ASSUME NEW o \in Orders, Delete(o)
      PROVE  ReferentialIntegrity'
  BY <1>2 DEF Delete, ItemsOf, ReferentialIntegrity
<1>3. ASSUME NEW o \in Orders, NEW i \in Items, NEW newPrice \in Prices,
             UpdateOrderItem(o, i, newPrice)
      PROVE  ReferentialIntegrity'
  <2>1. DOMAIN order' = DOMAIN order
    BY <1>3, RecalculatedDomain DEF UpdateOrderItem
  <2>2. /\ DOMAIN item' = DOMAIN item
        /\ \A j \in DOMAIN item : /\ item'[j].order = item[j].order
                                  /\ item'[j].article = item[j].article
                                  /\ item'[j].period = item[j].period
    BY <1>3 DEF UpdateOrderItem, TypeOK, ItemRow
  <2> QED
    BY <1>3, <2>1, <2>2 DEF UpdateOrderItem, ReferentialIntegrity
<1>4. ASSUME NEW o \in Orders, NEW i \in Items, DeleteOrderItemById(o, i)
      PROVE  ReferentialIntegrity'
  <2>1. CASE ItemsOf(o) = {i}
    <3>1. \A j \in DOMAIN item \ {i} : item[j].order # o
      BY <2>1 DEF ItemsOf
    <3> QED
      BY <1>4, <2>1, <3>1 DEF DeleteOrderItemById, ReferentialIntegrity
  <2>2. CASE ItemsOf(o) # {i}
    <3>1. DOMAIN order' = DOMAIN order
      BY <1>4, <2>2, RecalculatedDomain DEF DeleteOrderItemById
    <3> QED
      BY <1>4, <3>1 DEF DeleteOrderItemById, ReferentialIntegrity
  <2> QED
    BY <2>1, <2>2
<1>5. ASSUME NEW o \in Orders, MarkAsPaid(o)
      PROVE  ReferentialIntegrity'
  BY <1>5 DEF MarkAsPaid, ReferentialIntegrity
<1>6. ASSUME NEW p \in Periods, NEW u \in Users,
             MarkPeriodOrdersAsPaid(p, u) \/ MarkPeriodOrdersAsUnpaid(p, u)
      PROVE  ReferentialIntegrity'
  <2>1. DOMAIN order' = DOMAIN order /\ UNCHANGED <<item, article, period, transportCost>>
    BY <1>6 DEF MarkPeriodOrdersAsPaid, MarkPeriodOrdersAsUnpaid
  <2>2. \A pu \in payment' : pu \in payment \/ pu = <<p, u>>
    BY <1>6 DEF MarkPeriodOrdersAsPaid, MarkPeriodOrdersAsUnpaid
  <2>3. period[p] # "absent"
    BY <1>6 DEF MarkPeriodOrdersAsPaid, MarkPeriodOrdersAsUnpaid
  <2>4. \A pu \in payment' : period[pu[1]] # "absent"
    BY <2>2, <2>3 DEF ReferentialIntegrity
  <2> QED
    BY <2>1, <2>4 DEF ReferentialIntegrity
<1>7. ASSUME NEW p \in Periods, ChangePeriod(p)
      PROVE  ReferentialIntegrity'
  <2>1. \A q \in Periods : period[q] # "absent" => period'[q] # "absent"
    BY <1>7 DEF ChangePeriod, CreatePeriod, EndPeriod, UpdatePeriod, TypeOK
  <2>2. /\ \A i \in DOMAIN item : item[i].period \in Periods \cup {NULL}
        /\ \A pu \in payment : pu[1] \in Periods
    BY DEF TypeOK, ItemRow
  <2> QED
    BY <1>7, <2>1, <2>2 DEF ChangePeriod, CreatePeriod, EndPeriod, UpdatePeriod,
       ReferentialIntegrity
<1>8. ASSUME NEW p \in Periods, RemovePeriod(p)
      PROVE  ReferentialIntegrity'
  <2>1. \A q \in Periods \ {p} : period'[q] = period[q]
    BY <1>8 DEF RemovePeriod, TypeOK
  <2>2. \A pu \in payment' : pu \in payment /\ pu[1] \in Periods \ {p}
    BY <1>8 DEF RemovePeriod, TypeOK
  <2>3. /\ DOMAIN item' = DOMAIN item
        /\ \A i \in DOMAIN item :
              /\ item'[i].order = item[i].order
              /\ item'[i].article = item[i].article
              /\ item'[i].period \in {item[i].period, NULL} \ {p}
              /\ item[i].period \in Periods \cup {NULL}
    BY <1>8, OrdersAssumption DEF RemovePeriod, TypeOK, ItemRow
  <2> QED
    BY <1>8, <2>1, <2>2, <2>3 DEF RemovePeriod, ReferentialIntegrity
<1>9. ASSUME NEW a \in Articles, CreateArticle(a) \/ ToggleShowcase(a)
      PROVE  ReferentialIntegrity'
  <2>1. \A b \in Articles : article[b] # "absent" => article'[b] # "absent"
    BY <1>9 DEF CreateArticle, ToggleShowcase, TypeOK
  <2>2. \A i \in DOMAIN item : item[i].article \in Articles \cup {NULL}
    BY DEF TypeOK, ItemRow
  <2> QED
    BY <1>9, <2>1, <2>2 DEF CreateArticle, ToggleShowcase, ReferentialIntegrity
<1>10. ASSUME NEW a \in Articles, DeleteArticle(a)
       PROVE  ReferentialIntegrity'
  <2>1. \A b \in Articles \ {a} : article'[b] = article[b]
    BY <1>10 DEF DeleteArticle, TypeOK
  <2>2. /\ DOMAIN item' = DOMAIN item
        /\ \A i \in DOMAIN item :
              /\ item'[i].order = item[i].order
              /\ item'[i].period = item[i].period
              /\ item'[i].article \in {item[i].article, NULL} \ {a}
              /\ item[i].article \in Articles \cup {NULL}
    BY <1>10, OrdersAssumption DEF DeleteArticle, TypeOK, ItemRow
  <2> QED
    BY <1>10, <2>1, <2>2 DEF DeleteArticle, ReferentialIntegrity
<1>11. CASE UNCHANGED vars
  BY <1>11 DEF vars, ReferentialIntegrity
<1> QED
  BY <1>1, <1>2, <1>3, <1>4, <1>5, <1>6, <1>7, <1>8, <1>9, <1>10, <1>11
     DEF Next, EditOrder, ChangePeriod

\* No request of any service leaves an item without its order, or an item or a
\* payment that refers to a deleted article or period.
THEOREM ReferencesKept == Spec => []ReferentialIntegrity
<1>1. Init => ReferentialIntegrity
  BY DEF Init, ReferentialIntegrity
<1> QED
  BY <1>1, ReferentialStep, TypeCorrect, PTL DEF Spec

-----------------------------------------------------------------------------
(* Items *)

LEMMA NonEmptyStep ==
    TypeOK /\ ReferentialIntegrity /\ NoEmptyOrder /\ [Next]_vars => NoEmptyOrder'
<1> SUFFICES ASSUME TypeOK, ReferentialIntegrity, NoEmptyOrder, [Next]_vars
             PROVE  NoEmptyOrder'
  OBVIOUS
<1>1. ASSUME NEW o \in Orders, NEW u \in Users, NEW S \in SUBSET Items,
             NEW line \in [S -> OrderLine], Create(o, u, line)
      PROVE  NoEmptyOrder'
  BY <1>1 DEF Create, ItemsOf, NoEmptyOrder
<1>2. ASSUME NEW o \in Orders, Delete(o)
      PROVE  NoEmptyOrder'
  BY <1>2 DEF Delete, ItemsOf, NoEmptyOrder
<1>3. ASSUME NEW o \in Orders, NEW i \in Items, NEW newPrice \in Prices,
             UpdateOrderItem(o, i, newPrice)
      PROVE  NoEmptyOrder'
  <2>1. DOMAIN order' = DOMAIN order
    BY <1>3, RecalculatedDomain DEF UpdateOrderItem
  <2>2. DOMAIN item' = DOMAIN item /\ \A j \in DOMAIN item : item'[j].order = item[j].order
    BY <1>3 DEF UpdateOrderItem, TypeOK, ItemRow
  <2> QED
    BY <2>1, <2>2 DEF ItemsOf, NoEmptyOrder
<1>4. ASSUME NEW o \in Orders, NEW i \in Items, DeleteOrderItemById(o, i)
      PROVE  NoEmptyOrder'
  <2>1. CASE ItemsOf(o) = {i}
    BY <1>4, <2>1 DEF DeleteOrderItemById, ItemsOf, NoEmptyOrder
  <2>2. CASE ItemsOf(o) # {i}
    <3>1. DOMAIN order' = DOMAIN order
      BY <1>4, <2>2, RecalculatedDomain DEF DeleteOrderItemById
    <3> QED
      BY <1>4, <2>2, <3>1 DEF DeleteOrderItemById, ItemsOf, NoEmptyOrder
  <2> QED
    BY <2>1, <2>2
<1>5. ASSUME NEW o \in Orders, MarkAsPaid(o)
      PROVE  NoEmptyOrder'
  BY <1>5 DEF MarkAsPaid, ItemsOf, NoEmptyOrder
<1>6. ASSUME NEW p \in Periods, NEW u \in Users,
             MarkPeriodOrdersAsPaid(p, u) \/ MarkPeriodOrdersAsUnpaid(p, u)
      PROVE  NoEmptyOrder'
  <2>1. DOMAIN order' = DOMAIN order /\ UNCHANGED item
    BY <1>6 DEF MarkPeriodOrdersAsPaid, MarkPeriodOrdersAsUnpaid
  <2> QED
    BY <2>1 DEF ItemsOf, NoEmptyOrder
<1>7. ASSUME NEW p \in Periods, ChangePeriod(p)
      PROVE  NoEmptyOrder'
  BY <1>7 DEF ChangePeriod, CreatePeriod, EndPeriod, UpdatePeriod, ItemsOf, NoEmptyOrder
<1>8. ASSUME NEW p \in Periods, RemovePeriod(p)
      PROVE  NoEmptyOrder'
  BY <1>8 DEF RemovePeriod, TypeOK, ItemRow, ItemsOf, NoEmptyOrder
<1>9. ASSUME NEW a \in Articles, CreateArticle(a) \/ ToggleShowcase(a)
      PROVE  NoEmptyOrder'
  BY <1>9 DEF CreateArticle, ToggleShowcase, ItemsOf, NoEmptyOrder
<1>10. ASSUME NEW a \in Articles, DeleteArticle(a)
       PROVE  NoEmptyOrder'
  BY <1>10 DEF DeleteArticle, TypeOK, ItemRow, ItemsOf, NoEmptyOrder
<1>11. CASE UNCHANGED vars
  BY <1>11 DEF vars, ItemsOf, NoEmptyOrder
<1> QED
  BY <1>1, <1>2, <1>3, <1>4, <1>5, <1>6, <1>7, <1>8, <1>9, <1>10, <1>11
     DEF Next, EditOrder, ChangePeriod

\* An order never outlives its items: deleteOrderItemById removes it with the last one.
THEOREM OrdersNeverEmpty == Spec => []NoEmptyOrder
<1>1. Init => NoEmptyOrder
  BY DEF Init, NoEmptyOrder
<1> QED
  BY <1>1, NonEmptyStep, TypeCorrect, ReferencesKept, PTL DEF Spec

-----------------------------------------------------------------------------
(* Totals *)

\* What a recalculation makes of the orders.
LEMMA RecalculatedRow ==
    ASSUME TypeOK, NEW o \in DOMAIN order, NEW price,
           Sum(price) \in Nat, Recalculate(o, price)
    PROVE  /\ DOMAIN order' = DOMAIN order
           /\ \A x \in DOMAIN order \ {o} : order'[x] = order[x]
           /\ order'[o].total = Sum(price)
           /\ \/ order'[o].paid <= Sum(price)
              \/ order'[o].paid = order[o].paid /\ order[o].total \in {0, Sum(price)}
           /\ order'[o].status = "paid" => order'[o].paid >= Sum(price)
<1>1. PICK err \in -1..1 :
         order' = [order EXCEPT ![o] = Edited(order[o], Sum(price), err)]
  BY DEF Recalculate, Errors
<1>2. order[o] \in OrderRow
  BY DEF TypeOK
<1>3. order'[o] = Edited(order[o], Sum(price), err)
  BY <1>1 DEF TypeOK
<1> QED
  BY <1>1, <1>2, <1>3, EditedRow DEF TypeOK

\* Items that keep their prices keep their sum.
LEMMA SamePrices ==
    ASSUME NEW S, NEW f, NEW g, \A i \in S : f[i].price = g[i].price
    PROVE  Sum([i \in S |-> f[i].price]) = Sum([i \in S |-> g[i].price])
<1>1. [i \in S |-> f[i].price] = [i \in S |-> g[i].price]
  OBVIOUS
<1> QED
  BY <1>1

\* So the bill of an order that keeps its items at their prices does not change.
LEMMA BillKept ==
    ASSUME NEW o, ItemsOf(o)' = ItemsOf(o),
           \A i \in ItemsOf(o) : item'[i].price = item[i].price
    PROVE  PriceOf(ItemsOf(o))' = PriceOf(ItemsOf(o))
BY SamePrices DEF PriceOf, PricesOf

\* What the two marks of a period make of the orders.
LEMMA PeriodPaymentRow ==
    ASSUME TypeOK, NEW p, NEW u, MarkPeriodOrdersAsPaid(p, u)
    PROVE  /\ DOMAIN order' = DOMAIN order
           /\ \A x \in DOMAIN order :
                 /\ order'[x].total = order[x].total
                 /\ \/ order'[x] = order[x]
                    \/ order'[x].paid = PriceOf(LiveItemsOf(x))
<1> DEFINE bill(x) == PriceOf(LiveItemsOf(x))
<1>1. order' = [o \in DOMAIN order |->
                   IF o \in SettledBy(p, u)
                   THEN [order[o] EXCEPT !.status = "paid", !.paid = bill(o)]
                   ELSE order[o]]
  BY DEF MarkPeriodOrdersAsPaid
<1>2. \A x \in DOMAIN order : order[x] \in OrderRow
  BY DEF TypeOK
<1> HIDE DEF bill
<1>3. \A x \in DOMAIN order :
         /\ order'[x].total = order[x].total
         /\ order'[x] = order[x] \/ order'[x].paid = bill(x)
  BY <1>1, <1>2 DEF OrderRow
<1> QED
  BY <1>1, <1>3 DEF bill

LEMMA PeriodUnpaymentRow ==
    ASSUME TypeOK, NEW p, NEW u, MarkPeriodOrdersAsUnpaid(p, u)
    PROVE  /\ DOMAIN order' = DOMAIN order
           /\ \A x \in DOMAIN order :
                 /\ order'[x].total = order[x].total
                 /\ \/ order'[x] = order[x]
                    \/ order'[x].paid = 0 /\ order'[x].status = "unpaid"
<1>1. \A x \in DOMAIN order : order[x] \in OrderRow
  BY DEF TypeOK
<1> QED
  BY <1>1 DEF MarkPeriodOrdersAsUnpaid, OrderRow

LEMMA TotalStep ==
    TypeOK /\ ReferentialIntegrity /\ TotalIsItemSum /\ [Next]_vars
       => TotalIsItemSum'
<1> SUFFICES ASSUME TypeOK, ReferentialIntegrity, TotalIsItemSum, [Next]_vars
             PROVE  TotalIsItemSum'
  OBVIOUS
<1>1. ASSUME NEW o \in Orders, NEW u \in Users, NEW S \in SUBSET Items,
             NEW line \in [S -> OrderLine], Create(o, u, line)
      PROVE  TotalIsItemSum'
  <2>1. ItemsOf(o)' = DOMAIN line
    BY <1>1 DEF Create, ItemsOf, ReferentialIntegrity
  <2>2. [i \in DOMAIN line |-> item'[i].price] = [i \in DOMAIN line |-> line[i].price]
    BY <1>1 DEF Create
  <2>3. order'[o].total = PriceOf(ItemsOf(o))'
    BY <1>1, <2>1, <2>2 DEF Create, PriceOf, PricesOf
  <2>4. ASSUME NEW x \in DOMAIN order
        PROVE  order'[x].total = PriceOf(ItemsOf(x))'
    <3>1. x # o /\ order'[x] = order[x]
      BY <1>1 DEF Create
    <3>2. ItemsOf(x)' = ItemsOf(x) /\ \A i \in ItemsOf(x) : item'[i] = item[i]
      BY <1>1, <3>1 DEF Create, ItemsOf
    <3>3. PriceOf(ItemsOf(x))' = PriceOf(ItemsOf(x))
      BY <3>2, BillKept
    <3> QED
      BY <3>1, <3>3 DEF TotalIsItemSum
  <2> QED
    BY <1>1, <2>3, <2>4 DEF Create, TotalIsItemSum
<1>2. ASSUME NEW o \in Orders, Delete(o)
      PROVE  TotalIsItemSum'
  <2>1. ASSUME NEW x \in DOMAIN order'
        PROVE  order'[x].total = PriceOf(ItemsOf(x))'
    <3>1. x \in DOMAIN order \ {o} /\ order'[x] = order[x]
      BY <1>2, <2>1 DEF Delete
    <3>2. ItemsOf(x)' = ItemsOf(x) /\ \A i \in ItemsOf(x) : item'[i] = item[i]
      BY <1>2, <3>1 DEF Delete, ItemsOf
    <3>3. PriceOf(ItemsOf(x))' = PriceOf(ItemsOf(x))
      BY <3>2, BillKept
    <3> QED
      BY <3>1, <3>3 DEF TotalIsItemSum
  <2> QED
    BY <2>1 DEF TotalIsItemSum
<1>3. ASSUME NEW o \in Orders, NEW i \in Items, NEW newPrice \in Prices,
             UpdateOrderItem(o, i, newPrice)
      PROVE  TotalIsItemSum'
  <2> DEFINE price == [j \in ItemsOf(o) |-> IF j = i THEN newPrice ELSE item[j].price]
  <2>1. IsFiniteSet(ItemsOf(o))
    BY OrdersAssumption, FS_Subset DEF ItemsOf, TypeOK
  <2>2. DOMAIN price = ItemsOf(o) /\ \A j \in ItemsOf(o) : price[j] \in Nat
    BY OrdersAssumption DEF ItemsOf, TypeOK, ItemRow
  <2>3. o \in DOMAIN order /\ i \in ItemsOf(o) /\ Recalculate(o, price)
    BY <1>3 DEF UpdateOrderItem, LiveItemsOf
  <2>4. /\ DOMAIN item' = DOMAIN item
        /\ \A j \in DOMAIN item : item'[j].order = item[j].order
        /\ \A j \in DOMAIN item :
              item'[j].price = IF j = i THEN newPrice ELSE item[j].price
    BY <1>3 DEF UpdateOrderItem, TypeOK, ItemRow
  <2>5. \A x : ItemsOf(x)' = ItemsOf(x)
    BY <2>4 DEF ItemsOf
  <2>6. price = PricesOf(ItemsOf(o))'
    BY <2>4, <2>5 DEF PricesOf, ItemsOf
  <2> HIDE DEF price
  <2>7. Sum(price) \in Nat
    BY <2>1, <2>2, SumIsNat
  <2>8. order'[o].total = PriceOf(ItemsOf(o))'
    BY <2>3, <2>6, <2>7, RecalculatedRow DEF PriceOf
  <2>9. ASSUME NEW x \in DOMAIN order \ {o}
        PROVE  order'[x].total = PriceOf(ItemsOf(x))'
    <3>1. order'[x] = order[x]
      BY <2>3, <2>7, RecalculatedRow
    <3>2. \A j \in ItemsOf(x) : item'[j].price = item[j].price
      BY <2>3, <2>4 DEF ItemsOf
    <3>3. PriceOf(ItemsOf(x))' = PriceOf(ItemsOf(x))
      BY <2>5, <3>2, BillKept
    <3> QED
      BY <3>1, <3>3 DEF TotalIsItemSum
  <2>10. DOMAIN order' = DOMAIN order
    BY <2>3, RecalculatedDomain
  <2> QED
    BY <2>8, <2>9, <2>10 DEF TotalIsItemSum
<1>4. ASSUME NEW o \in Orders, NEW i \in Items, DeleteOrderItemById(o, i)
      PROVE  TotalIsItemSum'
  <2>1. /\ o \in DOMAIN order /\ i \in ItemsOf(o)
        /\ item' = [j \in DOMAIN item \ {i} |-> item[j]]
    BY <1>4 DEF DeleteOrderItemById
  <2>2. /\ ItemsOf(o)' = ItemsOf(o) \ {i}
        /\ \A x : x # o => ItemsOf(x)' = ItemsOf(x)
    BY <2>1 DEF ItemsOf
  <2>3. DOMAIN order' \subseteq DOMAIN order
    BY <1>4, RecalculatedDomain DEF DeleteOrderItemById
  <2>4. Sum(PricesOf(ItemsOf(o) \ {i})) \in Nat
    BY PriceIsNat DEF PriceOf, ItemsOf
  <2>5. ASSUME NEW x \in DOMAIN order', x # o
        PROVE  order'[x].total = PriceOf(ItemsOf(x))'
    <3>1. order'[x] = order[x]
      <4>1. CASE ItemsOf(o) = {i}
        BY <1>4, <4>1, <2>5 DEF DeleteOrderItemById
      <4>2. CASE ItemsOf(o) # {i}
        BY <1>4, <4>2, <2>1, <2>3, <2>4, <2>5, RecalculatedRow DEF DeleteOrderItemById
      <4> QED
        BY <4>1, <4>2
    <3>2. \A j \in ItemsOf(x) : item'[j] = item[j]
      BY <2>1, <2>5 DEF ItemsOf
    <3>3. PriceOf(ItemsOf(x))' = PriceOf(ItemsOf(x))
      BY <2>2, <2>5, <3>2, BillKept
    <3> QED
      BY <2>3, <3>1, <3>3 DEF TotalIsItemSum
  <2>6. ASSUME o \in DOMAIN order'
        PROVE  order'[o].total = PriceOf(ItemsOf(o))'
    <3>1. ItemsOf(o) # {i} /\ Recalculate(o, PricesOf(ItemsOf(o) \ {i}))
      BY <1>4, <2>6 DEF DeleteOrderItemById
    <3>2. order'[o].total = Sum(PricesOf(ItemsOf(o) \ {i}))
      BY <2>1, <2>4, <3>1, RecalculatedRow
    <3>3. PricesOf(ItemsOf(o))' = PricesOf(ItemsOf(o) \ {i})
      BY <2>1, <2>2 DEF PricesOf, ItemsOf
    <3> QED
      BY <3>2, <3>3 DEF PriceOf
  <2> QED
    BY <2>5, <2>6 DEF TotalIsItemSum
<1>5. ASSUME NEW o \in Orders, MarkAsPaid(o)
      PROVE  TotalIsItemSum'
  <2>1. \A x : PriceOf(ItemsOf(x))' = PriceOf(ItemsOf(x))
    BY <1>5 DEF MarkAsPaid, PriceOf, PricesOf, ItemsOf
  <2>2. DOMAIN order' = DOMAIN order
        /\ \A x \in DOMAIN order : order'[x].total = order[x].total
    BY <1>5 DEF MarkAsPaid, TypeOK, OrderRow
  <2> QED
    BY <2>1, <2>2 DEF TotalIsItemSum
<1>6. ASSUME NEW p \in Periods, NEW u \in Users,
             MarkPeriodOrdersAsPaid(p, u) \/ MarkPeriodOrdersAsUnpaid(p, u)
      PROVE  TotalIsItemSum'
  <2>1. UNCHANGED item
    BY <1>6 DEF MarkPeriodOrdersAsPaid, MarkPeriodOrdersAsUnpaid
  <2>2. \A x : PriceOf(ItemsOf(x))' = PriceOf(ItemsOf(x))
    BY <2>1 DEF PriceOf, PricesOf, ItemsOf
  <2>3. DOMAIN order' = DOMAIN order
        /\ \A x \in DOMAIN order : order'[x].total = order[x].total
    BY <1>6, PeriodPaymentRow, PeriodUnpaymentRow
  <2> QED
    BY <2>2, <2>3 DEF TotalIsItemSum
<1>7. ASSUME NEW p \in Periods,
             ChangePeriod(p) \/ RemovePeriod(p)
      PROVE  TotalIsItemSum'
  <2>1. UNCHANGED order /\ DOMAIN item' = DOMAIN item
        /\ \A i \in DOMAIN item : item'[i].order = item[i].order
                                 /\ item'[i].price = item[i].price
    BY <1>7 DEF ChangePeriod, CreatePeriod, EndPeriod, UpdatePeriod, RemovePeriod, TypeOK, ItemRow
  <2>2. \A x : ItemsOf(x)' = ItemsOf(x)
    BY <2>1 DEF ItemsOf
  <2>3. ASSUME NEW x PROVE PriceOf(ItemsOf(x))' = PriceOf(ItemsOf(x))
    <3>1. \A i \in ItemsOf(x) : item'[i].price = item[i].price
      BY <2>1 DEF ItemsOf
    <3> QED
      BY <2>2, <3>1, BillKept
  <2> QED
    BY <2>1, <2>3 DEF TotalIsItemSum
<1>8. ASSUME NEW a \in Articles,
             CreateArticle(a) \/ ToggleShowcase(a) \/ DeleteArticle(a)
      PROVE  TotalIsItemSum'
  <2>1. UNCHANGED order /\ DOMAIN item' = DOMAIN item
        /\ \A i \in DOMAIN item : item'[i].order = item[i].order
                                 /\ item'[i].price = item[i].price
    BY <1>8 DEF CreateArticle, ToggleShowcase, DeleteArticle, TypeOK, ItemRow
  <2>2. \A x : ItemsOf(x)' = ItemsOf(x)
    BY <2>1 DEF ItemsOf
  <2>3. ASSUME NEW x PROVE PriceOf(ItemsOf(x))' = PriceOf(ItemsOf(x))
    <3>1. \A i \in ItemsOf(x) : item'[i].price = item[i].price
      BY <2>1 DEF ItemsOf
    <3> QED
      BY <2>2, <3>1, BillKept
  <2> QED
    BY <2>1, <2>3 DEF TotalIsItemSum
<1>9. CASE UNCHANGED vars
  BY <1>9 DEF vars, TotalIsItemSum, PriceOf, PricesOf, ItemsOf
<1> QED
  BY <1>1, <1>2, <1>3, <1>4, <1>5, <1>6, <1>7, <1>8, <1>9 DEF Next, EditOrder, ChangePeriod

\* The total of an order is the sum of its lines after any sequence of requests: no
\* edit, deletion or removal forgets a line or counts one that is gone.
THEOREM TotalsAreSums == Spec => []TotalIsItemSum
<1>1. Init => TotalIsItemSum
  BY DEF Init, TotalIsItemSum
<1> QED
  BY <1>1, TotalStep, TypeCorrect, ReferencesKept, PTL DEF Spec

-----------------------------------------------------------------------------
(* Payments *)

\* The bill of the living lines of an order does not grow with fewer living lines.
LEMMA LiveBillShrinks ==
    ASSUME TypeOK, NEW x, LiveItemsOf(x)' \subseteq LiveItemsOf(x),
           \A i \in LiveItemsOf(x)' : item'[i].price = item[i].price
    PROVE  PriceOf(LiveItemsOf(x))' <= PriceOf(LiveItemsOf(x))
<1>1. LiveItemsOf(x) \in SUBSET DOMAIN item
  BY DEF LiveItemsOf, ItemsOf
<1>2. PriceOf(LiveItemsOf(x)') <= PriceOf(LiveItemsOf(x))
  BY <1>1, PriceMonotone
<1>3. PriceOf(LiveItemsOf(x))' = PriceOf(LiveItemsOf(x)')
  BY SamePrices DEF PriceOf, PricesOf
<1> QED
  BY <1>2, <1>3

\* The total of an order covers its living lines.
LEMMA LiveAtMostTotal ==
    ASSUME TypeOK, TotalIsItemSum, NEW x \in DOMAIN order
    PROVE  PriceOf(LiveItemsOf(x)) \in Nat /\ PriceOf(LiveItemsOf(x)) <= order[x].total
<1>1. ItemsOf(x) \in SUBSET DOMAIN item /\ LiveItemsOf(x) \in SUBSET ItemsOf(x)
  BY DEF LiveItemsOf, ItemsOf
<1> QED
  BY <1>1, PriceIsNat, PriceMonotone DEF TotalIsItemSum

\* The ways a step can leave the money of an order x of the new state: a new order;
\* an order left alone; an edit; a payment, with transport t; and a payment undone.
NewOrder(x) == x \notin DOMAIN order /\ order'[x].paid = 0 /\ order'[x].status = "unpaid"

Untouched(x) ==
    /\ x \in DOMAIN order
    /\ order'[x] = order[x]
    /\ PriceOf(LiveItemsOf(x))' <= PriceOf(LiveItemsOf(x))

EditedOrder(x) ==
    /\ x \in DOMAIN order
    /\ \/ order'[x].paid <= order'[x].total
       \/ order'[x].paid = order[x].paid /\ order[x].total \in {0, order'[x].total}
    /\ order'[x].status = "paid" => order'[x].paid >= order'[x].total

Paid(x, t) ==
    /\ x \in DOMAIN order
    /\ order'[x].total = order[x].total
    /\ order'[x].paid = PriceOf(LiveItemsOf(x)) + t
    /\ PriceOf(LiveItemsOf(x))' = PriceOf(LiveItemsOf(x))

Unpaid(x) ==
    /\ x \in DOMAIN order
    /\ order'[x].total = order[x].total
    /\ order'[x].paid = 0
    /\ order'[x].status = "unpaid"

MoneyMoves(x) ==
    \/ NewOrder(x)
    \/ Untouched(x)
    \/ EditedOrder(x)
    \/ \E t \in 0..WholeTransport(x) : Paid(x, t)
    \/ Unpaid(x)

\* An order that keeps its row and whose lines are left alone is untouched.
LEMMA UntouchedByOthers ==
    ASSUME TypeOK, NEW x \in DOMAIN order, order'[x] = order[x],
           ItemsOf(x)' \subseteq ItemsOf(x),
           \A i \in ItemsOf(x)' : /\ item'[i].price = item[i].price
                                  /\ item'[i].article \in {item[i].article, NULL}
    PROVE  Untouched(x)
<1>1. LiveItemsOf(x)' \subseteq LiveItemsOf(x)
  BY DEF LiveItemsOf
<1>2. \A i \in LiveItemsOf(x)' : item'[i].price = item[i].price
  BY DEF LiveItemsOf
<1> QED
  BY <1>1, <1>2, LiveBillShrinks DEF Untouched

\* A recalculated order is edited.
LEMMA RecalculatedIsEdited ==
    ASSUME TypeOK, NEW o \in DOMAIN order, NEW price,
           Sum(price) \in Nat, Recalculate(o, price)
    PROVE  EditedOrder(o)
BY RecalculatedRow DEF EditedOrder

\* Every step is one of those ways for every order it leaves.
LEMMA MoneyStep ==
    TypeOK /\ ReferentialIntegrity /\ [Next]_vars
       => \A x \in DOMAIN order' : MoneyMoves(x)
<1> SUFFICES ASSUME TypeOK, ReferentialIntegrity, [Next]_vars, NEW x \in DOMAIN order'
             PROVE  MoneyMoves(x)
  OBVIOUS
<1>1. ASSUME NEW o \in Orders, NEW u \in Users, NEW S \in SUBSET Items,
             NEW line \in [S -> OrderLine], Create(o, u, line)
      PROVE  MoneyMoves(x)
  <2>1. CASE x = o
    BY <1>1, <2>1 DEF Create, MoneyMoves, NewOrder
  <2>2. CASE x # o
    <3>1. x \in DOMAIN order /\ order'[x] = order[x]
      BY <1>1, <2>2 DEF Create
    <3>2. ItemsOf(x)' = ItemsOf(x) /\ \A i \in ItemsOf(x) : item'[i] = item[i]
      BY <1>1, <2>2 DEF Create, ItemsOf
    <3> QED
      BY <3>1, <3>2, UntouchedByOthers DEF MoneyMoves
  <2> QED
    BY <2>1, <2>2
<1>2. ASSUME NEW o \in Orders, Delete(o)
      PROVE  MoneyMoves(x)
  <2>1. x \in DOMAIN order \ {o} /\ order'[x] = order[x]
    BY <1>2 DEF Delete
  <2>2. ItemsOf(x)' = ItemsOf(x) /\ \A i \in ItemsOf(x) : item'[i] = item[i]
    BY <1>2, <2>1 DEF Delete, ItemsOf
  <2> QED
    BY <2>1, <2>2, UntouchedByOthers DEF MoneyMoves
<1>3. ASSUME NEW o \in Orders, NEW i \in Items, NEW newPrice \in Prices,
             UpdateOrderItem(o, i, newPrice)
      PROVE  MoneyMoves(x)
  <2> DEFINE price == [j \in ItemsOf(o) |-> IF j = i THEN newPrice ELSE item[j].price]
  <2>1. o \in DOMAIN order /\ Recalculate(o, price)
    BY <1>3 DEF UpdateOrderItem
  <2>2. IsFiniteSet(ItemsOf(o))
    BY OrdersAssumption, FS_Subset DEF ItemsOf, TypeOK
  <2>3. DOMAIN price = ItemsOf(o) /\ \A j \in ItemsOf(o) : price[j] \in Nat
    BY OrdersAssumption DEF ItemsOf, TypeOK, ItemRow
  <2> HIDE DEF price
  <2>4. Sum(price) \in Nat
    BY <2>2, <2>3, SumIsNat
  <2>5. CASE x = o
    BY <2>1, <2>4, <2>5, RecalculatedIsEdited DEF MoneyMoves
  <2>6. CASE x # o
    <3>1. x \in DOMAIN order /\ order'[x] = order[x]
      BY <2>1, <2>4, <2>6, RecalculatedRow
    <3>2. ItemsOf(x)' = ItemsOf(x) /\ \A j \in ItemsOf(x) : item'[j] = item[j]
      BY <1>3, <2>6 DEF UpdateOrderItem, LiveItemsOf, ItemsOf, TypeOK, ItemRow
    <3> QED
      BY <3>1, <3>2, UntouchedByOthers DEF MoneyMoves
  <2> QED
    BY <2>5, <2>6
<1>4. ASSUME NEW o \in Orders, NEW i \in Items, DeleteOrderItemById(o, i)
      PROVE  MoneyMoves(x)
  <2>1. /\ o \in DOMAIN order /\ i \in ItemsOf(o)
        /\ item' = [j \in DOMAIN item \ {i} |-> item[j]]
    BY <1>4 DEF DeleteOrderItemById
  <2>2. Sum(PricesOf(ItemsOf(o) \ {i})) \in Nat
    BY PriceIsNat DEF PriceOf, ItemsOf
  <2>3. CASE x = o
    <3>1. Recalculate(o, PricesOf(ItemsOf(o) \ {i}))
      BY <1>4, <2>3 DEF DeleteOrderItemById
    <3> QED
      BY <2>1, <2>2, <2>3, <3>1, RecalculatedIsEdited DEF MoneyMoves
  <2>4. CASE x # o
    <3>1. x \in DOMAIN order /\ order'[x] = order[x]
      <4>1. CASE ItemsOf(o) = {i}
        BY <1>4, <4>1, <2>4 DEF DeleteOrderItemById
      <4>2. CASE ItemsOf(o) # {i}
        <5>1. Recalculate(o, PricesOf(ItemsOf(o) \ {i}))
          BY <1>4, <4>2 DEF DeleteOrderItemById
        <5> QED
          BY <2>1, <2>2, <2>4, <5>1, RecalculatedRow
      <4> QED
        BY <4>1, <4>2
    <3>2. ItemsOf(x)' = ItemsOf(x) /\ \A j \in ItemsOf(x) : item'[j] = item[j]
      BY <2>1, <2>4 DEF ItemsOf
    <3> QED
      BY <3>1, <3>2, UntouchedByOthers DEF MoneyMoves
  <2> QED
    BY <2>3, <2>4
<1>5. ASSUME NEW o \in Orders, MarkAsPaid(o)
      PROVE  MoneyMoves(x)
  <2> DEFINE bill == PriceOf(LiveItemsOf(o))
             transport == TransportOf(o)
  <2>1. /\ o \in DOMAIN order /\ UNCHANGED <<item, payment, article, period, transportCost>>
        /\ order' = [order EXCEPT ![o].paid = bill + transport, ![o].status = "paid"]
    BY <1>5 DEF MarkAsPaid
  <2>2. \A y : PriceOf(LiveItemsOf(y))' = PriceOf(LiveItemsOf(y))
    BY <2>1 DEF PriceOf, PricesOf, LiveItemsOf, ItemsOf
  <2>3. transport \in 0..WholeTransport(o)
    BY TransportBound
  <2>4. bill = PriceOf(LiveItemsOf(o))
    OBVIOUS
  <2> HIDE DEF bill, transport
  <2>5. order[o] \in OrderRow
    BY <2>1 DEF TypeOK
  <2>6. CASE x = o
    <3>1. order'[o].total = order[o].total /\ order'[o].paid = bill + transport
      BY <2>1, <2>5 DEF TypeOK, OrderRow
    <3> QED
      BY <2>1, <2>2, <2>3, <2>4, <2>6, <3>1 DEF MoneyMoves, Paid
  <2>7. CASE x # o
    <3>1. x \in DOMAIN order /\ order'[x] = order[x]
      BY <2>1, <2>7 DEF TypeOK
    <3>2. ItemsOf(x)' = ItemsOf(x) /\ \A i \in ItemsOf(x) : item'[i] = item[i]
      BY <2>1 DEF ItemsOf
    <3> QED
      BY <3>1, <3>2, UntouchedByOthers DEF MoneyMoves
  <2> QED
    BY <2>6, <2>7
<1>6. ASSUME NEW p \in Periods, NEW u \in Users,
             MarkPeriodOrdersAsPaid(p, u) \/ MarkPeriodOrdersAsUnpaid(p, u)
      PROVE  MoneyMoves(x)
  <2>1. UNCHANGED item
    BY <1>6 DEF MarkPeriodOrdersAsPaid, MarkPeriodOrdersAsUnpaid
  <2>2. ItemsOf(x)' = ItemsOf(x) /\ \A i \in ItemsOf(x) : item'[i] = item[i]
    BY <2>1 DEF ItemsOf
  <2>3. PriceOf(LiveItemsOf(x))' = PriceOf(LiveItemsOf(x))
    BY <2>1 DEF PriceOf, PricesOf, LiveItemsOf, ItemsOf
  <2>4. x \in DOMAIN order
    BY <1>6, PeriodPaymentRow, PeriodUnpaymentRow
  <2>5. CASE order'[x] = order[x]
    BY <2>2, <2>4, <2>5, UntouchedByOthers DEF MoneyMoves
  <2>6. CASE order'[x] # order[x] /\ MarkPeriodOrdersAsPaid(p, u)
    <3>1. /\ order'[x].total = order[x].total
          /\ order'[x].paid = PriceOf(LiveItemsOf(x))
      BY <2>4, <2>6, PeriodPaymentRow
    <3>2. PriceOf(LiveItemsOf(x)) \in Nat
      BY PriceIsNat DEF LiveItemsOf, ItemsOf
    <3>3. Paid(x, 0)
      BY <2>3, <2>4, <3>1, <3>2 DEF Paid
    <3>4. 0 \in 0..WholeTransport(x)
      BY TransportBound
    <3> QED
      BY <3>3, <3>4 DEF MoneyMoves
  <2>7. CASE order'[x] # order[x] /\ MarkPeriodOrdersAsUnpaid(p, u)
    BY <2>4, <2>7, PeriodUnpaymentRow DEF MoneyMoves, Unpaid
  <2> QED
    BY <1>6, <2>5, <2>6, <2>7
<1>7. ASSUME NEW p \in Periods,
             ChangePeriod(p) \/ RemovePeriod(p)
      PROVE  MoneyMoves(x)
  <2>1. UNCHANGED order /\ DOMAIN item' = DOMAIN item
        /\ \A i \in DOMAIN item : /\ item'[i].order = item[i].order
                                  /\ item'[i].price = item[i].price
                                  /\ item'[i].article = item[i].article
    BY <1>7 DEF ChangePeriod, CreatePeriod, EndPeriod, UpdatePeriod, RemovePeriod, TypeOK, ItemRow
  <2>2. ItemsOf(x)' = ItemsOf(x)
    BY <2>1 DEF ItemsOf
  <2>3. \A i \in ItemsOf(x) : i \in DOMAIN item
    BY DEF ItemsOf
  <2> QED
    BY <2>1, <2>2, <2>3, UntouchedByOthers DEF MoneyMoves
<1>8. ASSUME NEW a \in Articles,
             CreateArticle(a) \/ ToggleShowcase(a) \/ DeleteArticle(a)
      PROVE  MoneyMoves(x)
  <2>1. UNCHANGED order /\ DOMAIN item' = DOMAIN item
        /\ \A i \in DOMAIN item : /\ item'[i].order = item[i].order
                                  /\ item'[i].price = item[i].price
                                  /\ item'[i].article \in {item[i].article, NULL}
    BY <1>8 DEF CreateArticle, ToggleShowcase, DeleteArticle, TypeOK, ItemRow
  <2>2. ItemsOf(x)' = ItemsOf(x)
    BY <2>1 DEF ItemsOf
  <2>3. \A i \in ItemsOf(x) : i \in DOMAIN item
    BY DEF ItemsOf
  <2> QED
    BY <2>1, <2>2, <2>3, UntouchedByOthers DEF MoneyMoves
<1>9. CASE UNCHANGED vars
  <2>1. ItemsOf(x)' = ItemsOf(x)
    BY <1>9 DEF vars, ItemsOf
  <2> QED
    BY <1>9, <2>1, UntouchedByOthers DEF vars, MoneyMoves
<1> QED
  BY <1>1, <1>2, <1>3, <1>4, <1>5, <1>6, <1>7, <1>8, <1>9 DEF Next, EditOrder, ChangePeriod

TotalCoversLiveItems ==
    \A x \in DOMAIN order :
       PriceOf(LiveItemsOf(x)) \in Nat /\ PriceOf(LiveItemsOf(x)) <= order[x].total

LEMMA LiveAtMostTotalNext ==
    TypeOK' /\ TotalIsItemSum' => TotalCoversLiveItems'
<1>1. TypeOK /\ TotalIsItemSum => TotalCoversLiveItems
  BY LiveAtMostTotal DEF TotalCoversLiveItems
<1> QED
  BY <1>1, PTL

LEMMA AmountsAreNat ==
    ASSUME TypeOK, NEW x \in DOMAIN order
    PROVE  order[x].total \in Nat /\ order[x].paid \in Nat
BY DEF TypeOK, OrderRow

LEMMA CoverStep ==
    /\ TypeOK /\ TotalIsItemSum /\ PaidCoversLiveItems
    /\ \A x \in DOMAIN order' : MoneyMoves(x)
    /\ TypeOK' /\ TotalIsItemSum'
    => PaidCoversLiveItems'
<1> SUFFICES ASSUME TypeOK, TotalIsItemSum, PaidCoversLiveItems, TypeOK', TotalIsItemSum',
                    NEW x \in DOMAIN order', MoneyMoves(x), order'[x].status = "paid"
             PROVE  order'[x].paid >= PriceOf(LiveItemsOf(x))'
  BY DEF PaidCoversLiveItems
<1> DEFINE bill == PriceOf(LiveItemsOf(x))
           newBill == PriceOf(LiveItemsOf(x))'
<1>1. newBill \in Nat /\ newBill <= order'[x].total
  BY LiveAtMostTotalNext DEF TotalCoversLiveItems
<1>2. x \in DOMAIN order => bill \in Nat
  BY LiveAtMostTotal
<1>3. order'[x].total \in Nat /\ order'[x].paid \in Nat
  BY DEF TypeOK, OrderRow
<1>4. ASSUME Untouched(x)
      PROVE  order'[x].paid >= newBill
  <2>1. x \in DOMAIN order /\ order'[x] = order[x] /\ newBill <= bill
    BY <1>4 DEF Untouched
  <2>2. order'[x].paid >= bill
    BY <2>1 DEF PaidCoversLiveItems
  <2> HIDE DEF bill, newBill
  <2> QED
    BY <1>1, <1>2, <1>3, <2>1, <2>2
<1>5. ASSUME EditedOrder(x)
      PROVE  order'[x].paid >= newBill
  <2>1. order'[x].paid >= order'[x].total
    BY <1>5 DEF EditedOrder
  <2> HIDE DEF newBill
  <2> QED
    BY <1>1, <1>3, <2>1
<1>6. ASSUME NEW t \in 0..WholeTransport(x), Paid(x, t)
      PROVE  order'[x].paid >= newBill
  <2>1. x \in DOMAIN order /\ order'[x].paid = bill + t /\ newBill = bill
    BY <1>6 DEF Paid
  <2>2. t \in Nat
    BY TransportBound
  <2> HIDE DEF bill, newBill
  <2> QED
    BY <1>2, <2>1, <2>2
<1> QED
  BY <1>4, <1>5, <1>6 DEF MoneyMoves, NewOrder, Unpaid

\* A paid order has been paid at least what its living lines cost: no sequence of
\* edits, deletions, payments and removals raises the bill of an order that stays paid.
THEOREM PaidOrdersAreCovered == Spec => []PaidCoversLiveItems
<1>1. Init => PaidCoversLiveItems
  BY DEF Init, PaidCoversLiveItems
<1> QED
  BY <1>1, MoneyStep, CoverStep, TypeCorrect, ReferencesKept, TotalsAreSums, PTL DEF Spec

LEMMA OverpaymentStep ==
    ASSUME TypeOK, TotalIsItemSum, TypeOK', NEW x \in DOMAIN order', MoneyMoves(x)
    PROVE  LET excess == IF x \in DOMAIN order THEN order[x].paid - order[x].total ELSE 0
           IN  \/ order'[x].paid - order'[x].total <= excess
               \/ order'[x].paid <= order'[x].total + WholeTransport(x)
<1> DEFINE bill == PriceOf(LiveItemsOf(x))
           all  == WholeTransport(x)
           excess == IF x \in DOMAIN order THEN order[x].paid - order[x].total ELSE 0
           Goal == \/ order'[x].paid - order'[x].total <= excess
                   \/ order'[x].paid <= order'[x].total + all
<1> SUFFICES Goal
  OBVIOUS
<1>1. all \in Nat
  BY TransportBound
<1>2. order'[x].total \in Nat /\ order'[x].paid \in Nat
  BY DEF TypeOK, OrderRow
<1>3. x \in DOMAIN order =>
         /\ order[x].total \in Nat /\ order[x].paid \in Nat
         /\ bill \in Nat /\ bill <= order[x].total
  BY AmountsAreNat, LiveAtMostTotal
<1> HIDE DEF all, bill
<1>4. CASE NewOrder(x) \/ Unpaid(x)
  <2>1. order'[x].paid <= order'[x].total + all
    BY <1>1, <1>2, <1>4 DEF NewOrder, Unpaid
  <2> QED
    BY <2>1
<1>5. CASE Untouched(x)
  BY <1>2, <1>3, <1>5 DEF Untouched
<1>6. CASE EditedOrder(x)
  <2>1. CASE order'[x].paid <= order'[x].total
    BY <1>1, <1>2, <2>1
  <2>2. CASE order'[x].paid = order[x].paid /\ order[x].total \in {0, order'[x].total}
    BY <1>2, <1>3, <1>6, <2>2 DEF EditedOrder
  <2> QED
    BY <1>6, <2>1, <2>2 DEF EditedOrder
<1>7. ASSUME NEW t \in 0..all, Paid(x, t)
      PROVE  Goal
  <2>1. /\ x \in DOMAIN order /\ order'[x].total = order[x].total
        /\ order'[x].paid = bill + t
    BY <1>7 DEF Paid, bill
  <2> QED
    BY <1>1, <1>3, <1>7, <2>1
<1> QED
  <2> HIDE DEF Goal, excess
  <2> QED
    BY <1>4, <1>5, <1>6, <1>7 DEF MoneyMoves, all

\* No step makes an order hold more than its lines and the transport of its periods
\* cost at that time, or adds to what it holds beyond that: rounding shares up, editing
\* a free order and changing the cost of a period included.
THEOREM OrdersNotOverpaid == Spec => NoOverpayment
<1> DEFINE excess(o) == IF o \in DOMAIN order THEN order[o].paid - order[o].total ELSE 0
           Bounded == \A o \in DOMAIN order' :
                         \/ order'[o].paid - order'[o].total <= excess(o)
                         \/ order'[o].paid <= order'[o].total + WholeTransport(o)
<1>1. TypeOK /\ TotalIsItemSum /\ (\A x \in DOMAIN order' : MoneyMoves(x)) /\ TypeOK'
         => Bounded
  BY OverpaymentStep
<1>2. NoOverpayment <=> [][Bounded]_vars
  BY DEF NoOverpayment, WholeTransport
<1> QED
  BY <1>1, <1>2, MoneyStep, TypeCorrect, ReferencesKept, TotalsAreSums, PTL DEF Spec

\* A step that changes the total of an order that was not free leaves at most the new
\* total paid: the share kept by updateOrderItem and deleteOrderItemById is capped.
THEOREM EditsCapPayments == Spec => EditCapsPaid
<1> DEFINE Capped == \A o \in DOMAIN order \cap DOMAIN order' :
                        order[o].total > 0 /\ order'[o].total # order[o].total
                           => order'[o].paid <= order'[o].total
<1>1. TypeOK /\ (\A x \in DOMAIN order' : MoneyMoves(x)) => Capped
  <2> SUFFICES ASSUME TypeOK, NEW x \in DOMAIN order \cap DOMAIN order', MoneyMoves(x),
                      order[x].total > 0, order'[x].total # order[x].total
               PROVE  order'[x].paid <= order'[x].total
    OBVIOUS
  <2>1. EditedOrder(x)
    BY DEF MoneyMoves, NewOrder, Untouched, Paid, Unpaid
  <2> QED
    BY <2>1, AmountsAreNat DEF EditedOrder
<1> QED
  BY <1>1, MoneyStep, TypeCorrect, ReferencesKept, PTL DEF Spec, EditCapsPaid
=============================================================================
