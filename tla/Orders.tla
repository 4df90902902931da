------------------------------- MODULE Orders -------------------------------
(***************************************************************************)
(* The money of the orders of one consumer group, as OrdersService keeps   *)
(* it in the tables orders, order_items and period_user_payments: every    *)
(* request is one step.  A table is a function from the ids of its rows to *)
(* the rows; an amount is a number of cents.  What other services do to    *)
(* these tables through foreign keys (ON DELETE SET NULL, ON DELETE        *)
(* CASCADE) is here too, as the actions DeleteArticle and RemovePeriod.    *)
(* The columns about preparation and delivery, which no request about      *)
(* money reads or writes, are in module OrderPreparation; the total_amount *)
(* of a payment is written and never read, and a payment that is not paid  *)
(* counts like one that is missing, so only the paid ones are kept.        *)
(*                                                                         *)
(* The price of a line (unit price, options and tax at that moment,        *)
(* rounded to cents) is any member of Prices.                              *)
(***************************************************************************)
EXTENDS Amounts

CONSTANTS
    Orders, Items, Users, Articles, Periods,  \* the ids of rows
    Prices,          \* the totalPrice a line can have, in cents
    TransportCosts,  \* what the transport of a period can cost, tax included
    NULL             \* an SQL NULL in item.article or item.period

ASSUME OrdersAssumption ==
    /\ IsFiniteSet(Items) /\ IsFiniteSet(Users) /\ IsFiniteSet(Periods)
    /\ Prices \subseteq Nat
    /\ TransportCosts \subseteq Nat /\ 0 \in TransportCosts
    /\ NULL \notin Articles /\ NULL \notin Periods

VARIABLES
    order,         \* the rows of orders
    item,          \* the rows of order_items
    payment,       \* the rows <<period, user>> of period_user_payments that are paid
    article,       \* the catalogue: is the article shown, hidden or absent
    period,        \* the calendar: is the period open, ended or absent
    transportCost  \* what the transport of each period costs, 0 without a cost

vars == <<order, item, payment, article, period, transportCost>>

-----------------------------------------------------------------------------
(* Rows *)

OrderRow == [user: Users, total: Nat, paid: Nat, status: {"unpaid", "paid"}]

ItemRow == [order: Orders, article: Articles \cup {NULL},
            period: Periods \cup {NULL}, price: Nat]

OrderLine == [article: Articles, period: Periods \cup {NULL}, price: Prices]

TypeOK ==
    /\ DOMAIN order \subseteq Orders /\ order \in [DOMAIN order -> OrderRow]
    /\ DOMAIN item \subseteq Items /\ item \in [DOMAIN item -> ItemRow]
    /\ payment \subseteq Periods \X Users
    /\ article \in [Articles -> {"shown", "hidden", "absent"}]
    /\ period \in [Periods -> {"open", "ended", "absent"}]
    /\ transportCost \in [Periods -> TransportCosts]

-----------------------------------------------------------------------------
(* Queries *)

ItemsOf(o) == {i \in DOMAIN item : item[i].order = o}

LiveItemsOf(o) == {i \in ItemsOf(o) : item[i].article # NULL}

PeriodsOf(o) == {item[i].period : i \in ItemsOf(o)} \ {NULL}

OrdersIn(p) == {o \in DOMAIN order : p \in PeriodsOf(o)}

UsersIn(p) == {order[o].user : o \in OrdersIn(p)}

PricesOf(S) == [i \in S |-> item[i].price]

PriceOf(S) == Sum(PricesOf(S))

TransportShare(p) ==
    IF UsersIn(p) = {} THEN 0
    ELSE Rounded(transportCost[p], Cardinality(UsersIn(p)))

TransportOf(o) == Sum([p \in PeriodsOf(o) |-> TransportShare(p)])

-----------------------------------------------------------------------------

Init ==
    /\ order = [o \in {} |-> {}]
    /\ item = [i \in {} |-> {}]
    /\ payment = {}
    /\ article = [a \in Articles |-> "shown"]
    /\ period = [p \in Periods |-> "open"]
    /\ transportCost \in [Periods -> TransportCosts]

(***************************************************************************)
(* create: one item per line; every period still takes orders and every    *)
(* article is shown.  (A request answered from the idempotency cache       *)
(* changes nothing.)                                                       *)
(***************************************************************************)
Create(o, u, line) ==
    /\ o \in Orders \ DOMAIN order
    /\ DOMAIN line # {}
    /\ DOMAIN line \cap DOMAIN item = {}
    /\ \A i \in DOMAIN line :
          /\ line[i].period # NULL => period[line[i].period] = "open"
          /\ article[line[i].article] = "shown"
    /\ order' = [x \in DOMAIN order \cup {o} |->
                    IF x = o
                    THEN [user |-> u,
                          total |-> Sum([i \in DOMAIN line |-> line[i].price]),
                          paid |-> 0, status |-> "unpaid"]
                    ELSE order[x]]
    /\ item' = [i \in DOMAIN item \cup DOMAIN line |->
                   IF i \in DOMAIN line
                   THEN [order |-> o, article |-> line[i].article,
                         period |-> line[i].period, price |-> line[i].price]
                   ELSE item[i]]
    /\ UNCHANGED <<payment, article, period, transportCost>>

\* delete: the items go by ON DELETE CASCADE.
Delete(o) ==
    /\ o \in DOMAIN order
    /\ order' = [x \in DOMAIN order \ {o} |-> order[x]]
    /\ item' = [i \in DOMAIN item \ ItemsOf(o) |-> item[i]]
    /\ UNCHANGED <<payment, article, period, transportCost>>

\* The sum of the prices of the lines of o, and what it makes of the order.
Recalculate(o, price) ==
    \E err \in Errors(price) :
        order' = [order EXCEPT ![o] = Edited(order[o], Sum(price), err)]

\* updateOrderItem: the line gets a new price.
UpdateOrderItem(o, i, newPrice) ==
    /\ o \in DOMAIN order
    /\ i \in LiveItemsOf(o)
    /\ item' = [item EXCEPT ![i].price = newPrice]
    /\ Recalculate(o, [j \in ItemsOf(o) |->
                         IF j = i THEN newPrice ELSE item[j].price])
    /\ UNCHANGED <<payment, article, period, transportCost>>

\* Mutants of DeleteOrderItemById: the new total leaves out the lines of deleted
\* articles; the order stays when its last item goes.
DeleteOrderItemLiveTotal(o, i) ==
    /\ o \in DOMAIN order
    /\ i \in ItemsOf(o)
    /\ ItemsOf(o) # {i}
    /\ item' = [j \in DOMAIN item \ {i} |-> item[j]]
    /\ Recalculate(o, PricesOf(LiveItemsOf(o) \ {i}))
    /\ UNCHANGED <<payment, article, period, transportCost>>

DeleteOrderItemKeepOrder(o, i) ==
    /\ o \in DOMAIN order
    /\ i \in ItemsOf(o)
    /\ item' = [j \in DOMAIN item \ {i} |-> item[j]]
    /\ Recalculate(o, PricesOf(ItemsOf(o) \ {i}))
    /\ UNCHANGED <<payment, article, period, transportCost>>

\* deleteOrderItemById: the order goes with its last item.
DeleteOrderItemById(o, i) ==
    /\ o \in DOMAIN order
    /\ i \in ItemsOf(o)
    /\ item' = [j \in DOMAIN item \ {i} |-> item[j]]
    /\ \/ /\ ItemsOf(o) = {i}
          /\ order' = [x \in DOMAIN order \ {o} |-> order[x]]
       \/ /\ ItemsOf(o) # {i}
          /\ Recalculate(o, PricesOf(ItemsOf(o) \ {i}))
    /\ UNCHANGED <<payment, article, period, transportCost>>

-----------------------------------------------------------------------------
(* Payments *)

\* markAsPaid: what is left of the order and its share of the transport.
MarkAsPaid(o) ==
    /\ o \in DOMAIN order
    /\ order' = [order EXCEPT
                    ![o].paid = PriceOf(LiveItemsOf(o)) + TransportOf(o),
                    ![o].status = "paid"]
    /\ UNCHANGED <<item, payment, article, period, transportCost>>

\* The orders a payment of period p by user u completes.
SettledBy(p, u) ==
    {o \in OrdersIn(p) :
        /\ order[o].user = u
        /\ \A q \in PeriodsOf(o) \ {p} : <<q, u>> \in payment}

(***************************************************************************)
(* markPeriodOrdersAsPaid.  The orders are read again with their items but *)
(* without the periods of the items, for which                             *)
(* calculateTransportCostForOrder answers 0.                               *)
(***************************************************************************)
MarkPeriodOrdersAsPaid(p, u) ==
    /\ period[p] # "absent"
    /\ payment' = payment \cup {<<p, u>>}
    /\ order' = [o \in DOMAIN order |->
                    IF o \in SettledBy(p, u)
                    THEN [order[o] EXCEPT !.status = "paid",
                                          !.paid = PriceOf(LiveItemsOf(o))]
                    ELSE order[o]]
    /\ UNCHANGED <<item, article, period, transportCost>>

MarkPeriodOrdersAsUnpaid(p, u) ==
    /\ period[p] # "absent"
    /\ payment' = payment \ {<<p, u>>}
    /\ order' = [o \in DOMAIN order |->
                    IF o \in OrdersIn(p) /\ order[o].user = u
                    THEN [order[o] EXCEPT !.status = "unpaid", !.paid = 0]
                    ELSE order[o]]
    /\ UNCHANGED <<item, article, period, transportCost>>

-----------------------------------------------------------------------------
(* Catalogue and calendar, as far as orders can tell *)

CreateArticle(a) ==
    /\ article[a] = "absent"
    /\ article' = [article EXCEPT ![a] = "shown"]
    /\ UNCHANGED <<order, item, payment, period, transportCost>>

ToggleShowcase(a) ==
    /\ article[a] # "absent"
    /\ article' = [article EXCEPT ![a] = IF @ = "shown" THEN "hidden" ELSE "shown"]
    /\ UNCHANGED <<order, item, payment, period, transportCost>>

DeleteArticle(a) ==
    /\ article[a] # "absent"
    /\ article' = [article EXCEPT ![a] = "absent"]
    /\ item' = [i \in DOMAIN item |->
                   IF item[i].article = a THEN [item[i] EXCEPT !.article = NULL]
                                          ELSE item[i]]
    /\ UNCHANGED <<order, payment, period, transportCost>>

CreatePeriod(p, cost) ==
    /\ period[p] = "absent"
    /\ period' = [period EXCEPT ![p] = "open"]
    /\ transportCost' = [transportCost EXCEPT ![p] = cost]
    /\ UNCHANGED <<order, item, payment, article>>

\* The last day of the period passes.
EndPeriod(p) ==
    /\ period[p] = "open"
    /\ period' = [period EXCEPT ![p] = "ended"]
    /\ UNCHANGED <<order, item, payment, article, transportCost>>

\* update: endDate may move either way, transportCost and transportTaxRate may change
\* at any time, after payments too.
UpdatePeriod(p, state, cost) ==
    /\ period[p] # "absent"
    /\ period' = [period EXCEPT ![p] = state]
    /\ transportCost' = [transportCost EXCEPT ![p] = cost]
    /\ UNCHANGED <<order, item, payment, article>>

\* A mutant of RemovePeriod: the payments of the period stay.
RemovePeriodKeepPayments(p) ==
    /\ period[p] # "absent"
    /\ period' = [period EXCEPT ![p] = "absent"]
    /\ transportCost' = [transportCost EXCEPT ![p] = 0]
    /\ item' = [i \in DOMAIN item |->
                   IF item[i].period = p THEN [item[i] EXCEPT !.period = NULL]
                                         ELSE item[i]]
    /\ UNCHANGED <<order, payment, article>>

RemovePeriod(p) ==
    /\ period[p] # "absent"
    /\ period' = [period EXCEPT ![p] = "absent"]
    /\ transportCost' = [transportCost EXCEPT ![p] = 0]
    /\ payment' = payment \ ({p} \X Users)
    /\ item' = [i \in DOMAIN item |->
                   IF item[i].period = p THEN [item[i] EXCEPT !.period = NULL]
                                         ELSE item[i]]
    /\ UNCHANGED <<order, article>>

-----------------------------------------------------------------------------

EditOrder(o) ==
    \/ \E i \in Items, newPrice \in Prices : UpdateOrderItem(o, i, newPrice)
    \/ \E i \in Items : DeleteOrderItemById(o, i)

Next ==
    \/ \E o \in Orders, u \in Users, S \in SUBSET Items :
          \E line \in [S -> OrderLine] : Create(o, u, line)
    \/ \E o \in Orders :
          \/ Delete(o)
          \/ EditOrder(o)
          \/ MarkAsPaid(o)
    \/ \E p \in Periods :
          \/ \E u \in Users :
                \/ MarkPeriodOrdersAsPaid(p, u)
                \/ MarkPeriodOrdersAsUnpaid(p, u)
          \/ \E cost \in TransportCosts :
                \/ CreatePeriod(p, cost)
                \/ \E state \in {"open", "ended"} : UpdatePeriod(p, state, cost)
          \/ EndPeriod(p)
          \/ RemovePeriod(p)
    \/ \E a \in Articles :
          \/ CreateArticle(a)
          \/ ToggleShowcase(a)
          \/ DeleteArticle(a)

Spec == Init /\ [][Next]_vars

-----------------------------------------------------------------------------
(* Properties *)

\* The total stored with an order is the sum of its lines, lines of deleted
\* articles included, whatever edits, deletions and removals it went through.
TotalIsItemSum == \A o \in DOMAIN order : order[o].total = PriceOf(ItemsOf(o))

\* An order with status paid has received at least the price of the lines whose
\* article still exists: no edit raises the bill of a paid order unnoticed.
PaidCoversLiveItems ==
    \A o \in DOMAIN order :
        order[o].status = "paid" => order[o].paid >= PriceOf(LiveItemsOf(o))

\* An order has at least one item: it is created with one and goes with its last.
NoEmptyOrder == \A o \in DOMAIN order : ItemsOf(o) # {}

\* No row refers to a deleted row: items belong to orders, to articles of the
\* catalogue and to periods of the calendar, payments to periods.
ReferentialIntegrity ==
    /\ \A i \in DOMAIN item :
          /\ item[i].order \in DOMAIN order
          /\ item[i].article # NULL => article[item[i].article] # "absent"
          /\ item[i].period # NULL => period[item[i].period] # "absent"
    /\ \A pu \in payment : period[pu[1]] # "absent"

\* "No permetre que paidAmount superi totalAmount": a step that changes the total
\* of an order that was not free leaves no more paid than the new total.
EditCapsPaid ==
    [][\A o \in DOMAIN order \cap DOMAIN order' :
          order[o].total > 0 /\ order'[o].total # order[o].total
             => order'[o].paid <= order'[o].total]_vars

\* Neither a payment nor an edit makes an order hold more than its lines and what the
\* transport of its periods costs at that time; and what an order holds beyond that,
\* after a cost fell or a period went, no rounding and no second payment adds to.
NoOverpayment ==
    [][\A o \in DOMAIN order' :
          LET excess == IF o \in DOMAIN order THEN order[o].paid - order[o].total ELSE 0
              transport == Sum([p \in PeriodsOf(o) |-> transportCost[p]])
          IN  \/ order'[o].paid - order'[o].total <= excess
              \/ order'[o].paid <= order'[o].total + transport]_vars

(***************************************************************************)
(* The next two formulas state comments of the code, which the code        *)
(* contradicts: see the runs that expect their violation.                  *)
(***************************************************************************)

\* "Calcular el paidAmount total (items + transport)": an order that the payment of
\* a period completes is paid with its share of the transport.
PeriodPaymentIncludesTransport ==
    [][\A p \in Periods, u \in Users :
          MarkPeriodOrdersAsPaid(p, u) =>
             \A o \in SettledBy(p, u) :
                order'[o].paid = PriceOf(LiveItemsOf(o)) + TransportOf(o)]_vars

\* "Mantenir el mateix percentatge de pagament": an order whose total is exactly
\* paid is still paid after an edit that leaves something to pay for.
EditKeepsFullPayment ==
    [][\A o \in DOMAIN order \cap DOMAIN order' :
          EditOrder(o) /\ order[o].status = "paid" /\ order[o].paid = order[o].total
             => 0 \in {order[o].total, order'[o].total} \/ order'[o].status = "paid"]_vars
=============================================================================
