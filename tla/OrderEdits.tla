----------------------------- MODULE OrderEdits -----------------------------
(***************************************************************************)
(* Several edits of one order at once.  updateOrderItem and                *)
(* deleteOrderItemById read the order with its items, then open a          *)
(* transaction and save what they made of it: first the item, then the     *)
(* order with all its items (its items cascade).  A step is a statement.   *)
(*                                                                         *)
(* save() of TypeORM loads the rows again and writes the difference: it    *)
(* inserts what is missing, updates the columns that differ, and gives an  *)
(* item it was not told of the order NULL, which order_id forbids.         *)
(*                                                                         *)
(* PostgreSQL runs at READ COMMITTED: a statement sees what had been       *)
(* committed when it began and what its own transaction wrote, and waits   *)
(* for the rows other transactions have written.  The statements that one  *)
(* save() writes with are one step: they set rows to given values, so that *)
(* nobody can tell when each of them ran.                                  *)
(*                                                                         *)
(* The ids of a deleted order and of its items, once no request knows      *)
(* them, stand for those of a new one.  The order has no transport.        *)
(***************************************************************************)
EXTENDS Amounts

CONSTANTS
    Order, User, Article,  \* the order, whose it is and what is in it
    Items,                 \* the ids of its items
    Handlers,              \* one per request that is being answered
    Prices,                \* the totalPrice a line can have, in cents
    NULL                   \* a row that is deleted, a price that is not given

Rows == {Order} \cup Items

OrderRow == [total: Nat, paid: Nat, status: {"unpaid", "paid"}]

ASSUME OrderEditsAssumption ==
    /\ IsFiniteSet(Items) /\ Order \notin Items
    /\ Prices \subseteq Nat
    /\ NULL \notin Nat \cup {Article} \cup Rows \cup OrderRow \cup Handlers

VARIABLES
    row,      \* what is committed: the row of the order and those of its items
    handler,  \* what each request has read and has left to do
    written,  \* what the transaction of each request has written, and locks
    stale     \* has the order changed since the request read it? (no part of the code)

vars == <<row, handler, written, stale>>

-----------------------------------------------------------------------------
(* Rows *)

None == [r \in {} |-> NULL]

Only(f, S) == [x \in DOMAIN f \cap S |-> f[x]]

\* The table d with the rows of w written over it, the deleted ones as NULL.
Patched(d, w) ==
    [r \in DOMAIN d \cup DOMAIN w |-> IF r \in DOMAIN w THEN w[r] ELSE d[r]]

Live(d) == Only(d, {r \in DOMAIN d : d[r] # NULL})

PricesIn(d) == Only(d, Items)

OrderTable ==
    [o \in DOMAIN row \cap {Order} |->
        [user |-> User, total |-> row[o].total, paid |-> row[o].paid,
         status |-> row[o].status]]

ItemTable ==
    [i \in DOMAIN row \cap Items |->
        [order |-> Order, article |-> Article, period |-> NULL, price |-> row[i]]]

\* The same order in module Orders, where a request is one step.
Money == INSTANCE Orders WITH
    Orders <- {Order}, Users <- {User}, Articles <- {Article}, Periods <- {},
    TransportCosts <- {0}, transportCost <- [p \in {} |-> 0],
    order <- OrderTable, item <- ItemTable, payment <- {},
    article <- [a \in {Article} |-> "shown"], period <- [p \in {} |-> "open"]

IsTable(d) ==
    /\ DOMAIN d \subseteq Rows
    /\ d = [r \in DOMAIN d |-> d[r]]
    /\ Order \in DOMAIN d => d[Order] \in OrderRow
    /\ \A i \in DOMAIN d \cap Items : d[i] \in Nat

\* What order_id asks for: no item without its order.
HasOrder(d) == DOMAIN d \cap Items # {} => Order \in DOMAIN d

\* What the transaction of h sees, and the rows that it waits for.
Sees(h) == Live(Patched(row, written[h]))

LockedFor(h) == UNION {DOMAIN written[g] : g \in Handlers \ {h}}

Deletes(g, r) == r \in DOMAIN written[g] /\ written[g][r] = NULL

-----------------------------------------------------------------------------
(* Requests *)

Idle == [at |-> "idle"]

\* Requests whose order changes while they run are stale from then on.
Changes(new, ended) ==
    /\ row' = new
    /\ stale' = [g \in Handlers |->
                    g # ended /\ handler[g] # Idle /\ (stale[g] \/ new # row)]

Goes(h, s) == handler' = [handler EXCEPT ![h] = s]

Ends(h) ==
    /\ Goes(h, Idle)
    /\ written' = [written EXCEPT ![h] = None]

Init ==
    /\ row = None
    /\ handler = [h \in Handlers |-> Idle]
    /\ written = [h \in Handlers |-> None]
    /\ stale = [h \in Handlers |-> FALSE]

Create(line) ==
    /\ \A h \in Handlers : handler[h] = Idle
    /\ row = None
    /\ DOMAIN line # {}
    /\ row' = Patched(line, [o \in {Order} |->
                   [total |-> Sum(line), paid |-> 0, status |-> "unpaid"]])
    /\ UNCHANGED <<handler, written, stale>>

\* delete: one statement, with what it cascades to.
Delete ==
    /\ Order \in DOMAIN row
    /\ \A h \in Handlers : written[h] = None
    /\ Changes(None, NULL)
    /\ UNCHANGED <<handler, written>>

\* The order and its lines d, as an edit recalculates them.
Recalculated(d, err) ==
    [d EXCEPT ![Order] = Edited(@, Sum(PricesIn(d)), err)]

\* A request has read the order: it will do op to item i, and save want.
Starts(h, op, i, to, at, want) ==
    Goes(h, [op |-> op, item |-> i, to |-> to, at |-> at, want |-> want,
             save |-> {i} \cap Items, seen |-> None])

\* A mutant of ReadForUpdate: the total counts the line at its old price.
ReadForUpdateOldTotal(h, i, newPrice) ==
    /\ handler[h] = Idle
    /\ i \in DOMAIN row \cap Items
    /\ \E err \in Errors(PricesIn(row)) :
          Starts(h, "update", i, newPrice, "load",
                 [Recalculated(row, err) EXCEPT ![i] = newPrice])
    /\ UNCHANGED <<row, written, stale>>

\* updateOrderItem, up to its transaction.
ReadForUpdate(h, i, newPrice) ==
    /\ handler[h] = Idle
    /\ i \in DOMAIN row \cap Items
    /\ LET lines == [row EXCEPT ![i] = newPrice]
       IN  \E err \in Errors(PricesIn(lines)) :
              Starts(h, "update", i, newPrice, "load", Recalculated(lines, err))
    /\ UNCHANGED <<row, written, stale>>

\* deleteOrderItemById, up to its transaction.
ReadForDelete(h, i) ==
    /\ handler[h] = Idle
    /\ i \in DOMAIN row \cap Items
    /\ LET lines == Only(row, DOMAIN row \ {i})
       IN  \E err \in Errors(PricesIn(lines)) :
              Starts(h, "delete", i, NULL, "remove", Recalculated(lines, err))
    /\ UNCHANGED <<row, written, stale>>

\* markAsPaid, up to its UPDATE.
ReadForPayment(h) ==
    /\ handler[h] = Idle
    /\ Order \in DOMAIN row
    /\ Starts(h, "pay", NULL, NULL, "pay",
              [row EXCEPT ![Order].paid = Sum(PricesIn(row)),
                          ![Order].status = "paid"])
    /\ UNCHANGED <<row, written, stale>>

-----------------------------------------------------------------------------
(* Statements *)

Executes(h, w, next) ==
    /\ written' = [written EXCEPT ![h] = Patched(@, w)]
    /\ Goes(h, next)
    /\ UNCHANGED <<row, stale>>

\* The request s before its next statement, when it saves the rows save, of which it
\* has loaded seen.
At(s, at, save, seen) ==
    [op |-> s.op, item |-> s.item, to |-> s.to, at |-> at, want |-> s.want,
     save |-> save, seen |-> seen]

Saving(h, S) == At(handler[h], "load", S, None)

Committing(h) == At(handler[h], "commit", {}, None)

\* save loads the rows it was given again.
Load(h) ==
    /\ handler[h].at = "load"
    /\ Goes(h, At(handler[h], "write", handler[h].save, Only(Sees(h), handler[h].save)))
    /\ UNCHANGED <<row, written, stale>>

\* The columns of the row old that save sets: those that differ from what it loaded.
Merged(old, seen, want) ==
    [c \in DOMAIN old |-> IF want[c] = seen[c] THEN old[c] ELSE want[c]]

\* What save inserts, updates and would part from its order.
Missing(h) == (handler[h].save \cap DOMAIN handler[h].want) \ DOMAIN handler[h].seen

Changed(h) ==
    {r \in DOMAIN handler[h].want \cap DOMAIN handler[h].seen :
        handler[h].want[r] # handler[h].seen[r]}

Orphans(h) == DOMAIN handler[h].seen \ DOMAIN handler[h].want

\* An id exists, an order does not, or an item would have none.
Refused(h) ==
    \/ Missing(h) \cap DOMAIN Sees(h) # {}
    \/ Missing(h) \cap Items # {} /\ Order \notin Missing(h) \cup DOMAIN Sees(h)
    \/ Orphans(h) \cap DOMAIN Sees(h) # {}

\* The rows that save writes.  An UPDATE of a row that has gone does nothing.
Difference(h) ==
    LET want == handler[h].want
    IN  [r \in Missing(h) \cup (Changed(h) \cap DOMAIN Sees(h)) |->
            IF r = Order /\ r \in Changed(h)
            THEN Merged(Sees(h)[r], handler[h].seen[r], want[r]) ELSE want[r]]

Write(h) ==
    /\ handler[h].at = "write"
    /\ (Missing(h) \cup Changed(h) \cup Orphans(h)) \cap LockedFor(h) = {}
    /\ Missing(h) \cap Items # {} => \A g \in Handlers \ {h} : ~Deletes(g, Order)
    /\ ~Refused(h)
    /\ Executes(h, Difference(h),
                IF handler[h].save = Rows THEN Committing(h) ELSE Saving(h, Rows))

\* A mutant of Remove: the item only leaves the array of the object.
RemoveFromArray(h) ==
    /\ handler[h].at = "remove"
    /\ Executes(h, None,
          IF DOMAIN handler[h].want = {Order}
          THEN At(handler[h], "removeOrder", {}, None)
          ELSE Saving(h, Rows))

\* deleteOrderItemById deletes the item, and the order when that was the last one it read.
Remove(h) ==
    LET s == handler[h]
    IN  /\ s.at = "remove"
        /\ s.item \notin LockedFor(h)
        /\ Executes(h, [i \in {s.item} \cap DOMAIN Sees(h) |-> NULL],
              IF DOMAIN s.want = {Order} THEN At(s, "removeOrder", {}, None)
                                         ELSE Saving(h, Rows))

\* A mutant of RemoveOrder: nothing cascades.
RemoveOrderAlone(h) ==
    /\ handler[h].at = "removeOrder"
    /\ \A g \in Handlers \ {h} : Order \in DOMAIN Sees(h) => written[g] = None
    /\ Executes(h, [r \in {Order} \cap DOMAIN Sees(h) |-> NULL], Committing(h))

\* The items of the order go by ON DELETE CASCADE.
RemoveOrder(h) ==
    /\ handler[h].at = "removeOrder"
    /\ \A g \in Handlers \ {h} : Order \in DOMAIN Sees(h) => written[g] = None
    /\ Executes(h, [r \in IF Order \in DOMAIN Sees(h) THEN DOMAIN Sees(h) ELSE {} |-> NULL],
                Committing(h))

\* markAsPaid updates its two columns by the id.
Pay(h) ==
    LET want == handler[h].want[Order]
    IN  /\ handler[h].at = "pay"
        /\ Order \notin LockedFor(h)
        /\ Executes(h,
              [o \in {Order} \cap DOMAIN Sees(h) |->
                  [Sees(h)[o] EXCEPT !.paid = want.paid, !.status = want.status]],
              Committing(h))

Commit(h) ==
    /\ handler[h].at = "commit"
    /\ Changes(Sees(h), h)
    /\ Ends(h)

\* A statement is refused, a deadlock is broken, or the process stops.
Fail(h) ==
    /\ handler[h] # Idle
    /\ Ends(h)
    /\ stale' = [stale EXCEPT ![h] = FALSE]
    /\ UNCHANGED row

Next ==
    \/ \E S \in SUBSET Items : \E line \in [S -> Prices] : Create(line)
    \/ Delete
    \/ \E h \in Handlers :
          \/ \E i \in Items :
                \/ \E newPrice \in Prices : ReadForUpdate(h, i, newPrice)
                \/ ReadForDelete(h, i)
          \/ ReadForPayment(h)
          \/ Load(h)
          \/ Write(h)
          \/ Remove(h)
          \/ RemoveOrder(h)
          \/ Pay(h)
          \/ Commit(h)
          \/ Fail(h)

Spec == Init /\ [][Next]_vars

-----------------------------------------------------------------------------
(* Properties *)

IsRequest(s) ==
    /\ s = At(s, s.at, s.save, s.seen)
    /\ s.op \in {"update", "delete", "pay"}
    /\ s.item \in Items \cup {NULL} /\ s.to \in Prices \cup {NULL}
    /\ s.at \in {"load", "write", "remove", "removeOrder", "pay", "commit"}
    /\ s.save \subseteq Rows
    /\ IsTable(s.seen)
    /\ IsTable(s.want) /\ Order \in DOMAIN s.want

\* No item is without its order, in what is committed and in what any transaction
\* would commit; a request that has ended holds no lock.
TypeOK ==
    /\ IsTable(row) /\ HasOrder(row)
    /\ DOMAIN handler = Handlers /\ written = [h \in Handlers |-> written[h]]
    /\ \A h \in Handlers :
          /\ handler[h] = Idle => written[h] = None /\ ~stale[h]
          /\ handler[h] # Idle => IsRequest(handler[h])
          /\ IsTable(Sees(h)) /\ HasOrder(Sees(h))
    /\ stale \in [Handlers -> BOOLEAN]

\* What the request h asks for, done in one step, as module Orders says it.
AtOnce(h) ==
    CASE handler[h].op = "update" ->
            Money!UpdateOrderItem(Order, handler[h].item, handler[h].to)
      [] handler[h].op = "delete" -> Money!DeleteOrderItemById(Order, handler[h].item)
      [] handler[h].op = "pay" -> Money!MarkAsPaid(Order)

\* Statements of several requests interleave, but a request that commits, and
\* whose order did not change after it read it, did its work as if at once:
\* these transactions compute the amounts that module Orders proves things about.
FreshEditsAreAtomic ==
    [][\A h \in Handlers : Commit(h) /\ ~stale[h] => AtOnce(h)]_vars

\* save never stumbles over an order that did not change since the request read it:
\* every row it inserts is missing, and it leaves no item without an order.
FreshSavesAreAccepted ==
    \A h \in Handlers :
        handler[h] # Idle /\ handler[h].at = "write" /\ ~stale[h] => ~Refused(h)

(***************************************************************************)
(* "Si no queden items, eliminar la comanda completament": an order has at *)
(* least one item.  The code contradicts it, because it counts the items   *)
(* it read before its transaction and without a lock: see the run that     *)
(* expects its violation.                                                  *)
(***************************************************************************)
NoEmptyOrder == Money!NoEmptyOrder
=============================================================================
