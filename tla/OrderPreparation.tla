-------------------------- MODULE OrderPreparation --------------------------
(***************************************************************************)
(* The preparation of orders: the columns order_items.is_prepared and      *)
(* orders.is_delivered, which the preparers of a group keep ticking, often *)
(* several at once, while others edit the orders.  A step is one statement *)
(* of one request: requests interleave at every await, and a restart of    *)
(* the server drops the rest of those it was answering.                    *)
(*                                                                         *)
(* save(order) of TypeORM, which cascades to the items, is two steps: it   *)
(* loads the rows again, and then writes the columns in which the object   *)
(* in memory differs from them.  updateOrderItem saves first the item and  *)
(* then the order, in one transaction; what the first of these writes is   *)
(* locked, so that the second decides, and it is the one that is here.     *)
(*                                                                         *)
(* A workload is the set of kinds of requests that arrive, with the kind   *)
(* "untick" for those with isPrepared = false and "restart" for restarts:  *)
(* some of what follows holds only for some of them.                       *)
(***************************************************************************)
EXTENDS Naturals

CONSTANTS
    Orders, Items, Periods,  \* the ids of rows
    Handlers,                \* one per request that is being answered
    Workloads                \* sets of kinds

AllKinds == {"item", "order", "period", "delivery", "editItem", "deleteItem",
             "untick", "restart"}

ASSUME PreparationAssumption == Workloads \subseteq SUBSET AllKinds

VARIABLES
    order,    \* the rows of orders: is the order delivered?
    item,     \* the rows of order_items
    gone,     \* the ids of rows that were deleted, which no new row gets
    handler,  \* what each request has read and has left to do
    kinds,    \* the workload (no part of the code)
    stale     \* the orders that others changed since the request began (nor this)

vars == <<order, item, gone, handler, kinds, stale>>

-----------------------------------------------------------------------------
(* Rows and requests *)

ItemRow == [order: Orders, period: Periods, prepared: BOOLEAN]

Idle == [at |-> "idle"]

\* Every function whose domain is a subset of S.
Partial(S, T) == UNION {[D -> T] : D \in SUBSET S}

\* want and to are the rows of the object that is saved, seen and was those of the
\* database that save has loaded, and removed the item that was deleted before.
Busy ==
    [at: {"item"}, order: Orders, item: Items, to: BOOLEAN,
     prepared: Partial(Items, BOOLEAN), delivered: BOOLEAN]
    \cup [at: {"items"}, order: Orders, items: SUBSET Items, to: BOOLEAN]
    \cup [at: {"reread", "removeOrder"}, order: Orders]
    \cup [at: {"sweep"}]
    \cup [at: {"deliver"}, todo: Partial(Orders, BOOLEAN)]
    \cup [at: {"load"}, order: Orders, to: BOOLEAN, want: Partial(Items, ItemRow),
          removed: SUBSET Items]
    \cup [at: {"save"}, order: Orders, to: BOOLEAN, want: Partial(Items, ItemRow),
          removed: SUBSET Items, was: Partial(Orders, BOOLEAN),
          seen: Partial(Items, ItemRow)]

\* Rows and requests have their types, and an item belongs to an order that exists.
TypeOK ==
    /\ order \in Partial(Orders, BOOLEAN)
    /\ item \in Partial(Items, ItemRow)
    /\ \A i \in DOMAIN item : item[i].order \in DOMAIN order
    /\ gone \subseteq Orders \cup Items
    /\ handler \in [Handlers -> {Idle} \cup Busy]
    /\ kinds \in Workloads
    /\ stale \in [Handlers -> SUBSET Orders]

Only(f, S) == [x \in DOMAIN f \cap S |-> f[x]]

ItemsOf(o) == {i \in DOMAIN item : item[i].order = o}

ItemsIn(o, p) == {i \in ItemsOf(o) : item[i].period = p}

PreparedIn(o) == [i \in ItemsOf(o) |-> item[i].prepared]

\* order.items.every(item => item.isPrepared)
Every(prepared) == \A i \in DOMAIN prepared : prepared[i]

\* The values that isPrepared has in requests.
Mark(b) == b \in BOOLEAN /\ (b \/ "untick" \in kinds)

-----------------------------------------------------------------------------

Init ==
    /\ order = [o \in {} |-> FALSE]
    /\ item = [i \in {} |-> {}]
    /\ gone = {}
    /\ handler = [h \in Handlers |-> Idle]
    /\ kinds \in Workloads
    /\ stale = [h \in Handlers |-> {}]

\* The request of h goes on with the steps s, or ends.
Goes(h, s) == handler' = [handler EXCEPT ![h] = s]

Ends(h) == Goes(h, Idle)

\* The last statements of a request: the orders in todo whose isDelivered changes.
Delivers(h, todo) ==
    IF DOMAIN todo = {} THEN Ends(h) ELSE Goes(h, [at |-> "deliver", todo |-> todo])

\* What is to be written to each of the orders in S, where every[o] says whether all
\* items of o were prepared and delivered[o] whether o was delivered.
Changes(S, every, delivered) ==
    [o \in {x \in S : every[x] # delivered[x]} |-> every[o]]

\* An order and its items.
RowsOf(o) == <<Only(order, {o}), Only(item, ItemsOf(o))>>

\* What the step of h changes is stale for the other requests.
Noted(h) ==
    /\ UNCHANGED kinds
    /\ stale' = [g \in Handlers |->
                    IF handler[g] = Idle \/ handler'[g] = Idle THEN {}
                    ELSE IF g = h THEN stale[g]
                    ELSE stale[g] \cup {o \in Orders : RowsOf(o)' # RowsOf(o)}]

-----------------------------------------------------------------------------
(* Orders come and go *)

Create(h, o, line) ==
    /\ handler[h] = Idle
    /\ o \in Orders \ (DOMAIN order \cup gone)
    /\ DOMAIN line # {}
    /\ DOMAIN line \cap (DOMAIN item \cup gone) = {}
    /\ order' = [x \in DOMAIN order \cup {o} |-> IF x = o THEN FALSE ELSE order[x]]
    /\ item' = [i \in DOMAIN item \cup DOMAIN line |->
                   IF i \in DOMAIN line
                   THEN [order |-> o, period |-> line[i], prepared |-> FALSE]
                   ELSE item[i]]
    /\ UNCHANGED <<gone, handler>>

\* A mutant of Delete: ON DELETE CASCADE is missing.
DeleteOrderOnly(h, o) ==
    /\ handler[h] = Idle
    /\ o \in DOMAIN order
    /\ order' = [x \in DOMAIN order \ {o} |-> order[x]]
    /\ gone' = gone \cup {o}
    /\ UNCHANGED <<item, handler>>

\* delete: the items go by ON DELETE CASCADE.
Delete(h, o) ==
    /\ handler[h] = Idle
    /\ o \in DOMAIN order
    /\ order' = [x \in DOMAIN order \ {o} |-> order[x]]
    /\ item' = [i \in DOMAIN item \ ItemsOf(o) |-> item[i]]
    /\ gone' = gone \cup {o} \cup ItemsOf(o)
    /\ UNCHANGED handler

-----------------------------------------------------------------------------
(* updateItemPrepared *)

ReadForItem(h, o, i, b) ==
    /\ "item" \in kinds /\ Mark(b)
    /\ handler[h] = Idle
    /\ o \in DOMAIN order
    /\ i \in ItemsOf(o)
    /\ Goes(h, [at |-> "item", order |-> o, item |-> i, to |-> b,
                prepared |-> PreparedIn(o), delivered |-> order[o]])
    /\ UNCHANGED <<order, item, gone>>

\* A mutant of WriteItem: the item itself is compared as it was read.
WriteItemOldValue(h) ==
    /\ handler[h].at = "item"
    /\ LET r == handler[h]
       IN  /\ item' = [j \in DOMAIN item |->
                          IF j = r.item THEN [item[j] EXCEPT !.prepared = r.to] ELSE item[j]]
           /\ Delivers(h, Changes({r.order}, [o \in {r.order} |-> Every(r.prepared)],
                                             [o \in {r.order} |-> r.delivered]))
    /\ UNCHANGED <<order, gone>>

\* The item is written, and the others are compared as they were read before.
WriteItem(h) ==
    /\ handler[h].at = "item"
    /\ LET r == handler[h]
           prepared == [r.prepared EXCEPT ![r.item] = r.to]
       IN  /\ item' = [j \in DOMAIN item |->
                          IF j = r.item THEN [item[j] EXCEPT !.prepared = r.to] ELSE item[j]]
           /\ Delivers(h, Changes({r.order}, [o \in {r.order} |-> Every(prepared)],
                                             [o \in {r.order} |-> r.delivered]))
    /\ UNCHANGED <<order, gone>>

-----------------------------------------------------------------------------
(* updateOrderPeriodItemsPrepared *)

ReadForOrder(h, o, p, b) ==
    /\ "order" \in kinds /\ Mark(b)
    /\ handler[h] = Idle
    /\ o \in DOMAIN order
    /\ ItemsIn(o, p) # {}
    /\ Goes(h, [at |-> "items", order |-> o, items |-> ItemsIn(o, p), to |-> b])
    /\ UNCHANGED <<order, item, gone>>

\* A mutant of WriteItems: the order is not read again.
WriteItemsOnly(h) ==
    /\ handler[h].at = "items"
    /\ LET r == handler[h]
       IN  item' = [j \in DOMAIN item |->
                       IF j \in r.items THEN [item[j] EXCEPT !.prepared = r.to] ELSE item[j]]
    /\ Ends(h)
    /\ UNCHANGED <<order, gone>>

WriteItems(h) ==
    /\ handler[h].at = "items"
    /\ LET r == handler[h]
       IN  /\ item' = [j \in DOMAIN item |->
                          IF j \in r.items THEN [item[j] EXCEPT !.prepared = r.to]
                                           ELSE item[j]]
           /\ Goes(h, [at |-> "reread", order |-> r.order])
    /\ UNCHANGED <<order, gone>>

\* A mutant of Reread: some prepared item is enough.
RereadSome(h) ==
    /\ handler[h].at = "reread"
    /\ LET o == handler[h].order
       IN  Delivers(h, Changes({o} \cap DOMAIN order,
                               [x \in {o} |-> \E i \in ItemsOf(x) : item[i].prepared], order))
    /\ UNCHANGED <<order, item, gone>>

\* The order is read again; updatedOrder!.items throws when it is gone.
Reread(h) ==
    /\ handler[h].at = "reread"
    /\ LET o == handler[h].order
       IN  Delivers(h, Changes({o} \cap DOMAIN order,
                               [x \in {o} |-> Every(PreparedIn(x))], order))
    /\ UNCHANGED <<order, item, gone>>

-----------------------------------------------------------------------------
(* updatePeriodItemsPrepared *)

WritePeriod(h, p, b) ==
    /\ "period" \in kinds /\ Mark(b)
    /\ handler[h] = Idle
    /\ item' = [j \in DOMAIN item |->
                   IF item[j].period = p THEN [item[j] EXCEPT !.prepared = b] ELSE item[j]]
    /\ IF b THEN Goes(h, [at |-> "sweep"]) ELSE Ends(h)
    /\ UNCHANGED <<order, gone>>

\* A mutant of Sweep: it only ever delivers.
SweepDeliversOnly(h) ==
    /\ handler[h].at = "sweep"
    /\ Delivers(h, [o \in {x \in DOMAIN order : ~order[x] /\ Every(PreparedIn(x))} |-> TRUE])
    /\ UNCHANGED <<order, item, gone>>

\* updateOrdersDeliveryStatus: one read of all orders of the group.
Sweep(h) ==
    /\ handler[h].at = "sweep"
    /\ Delivers(h, Changes(DOMAIN order,
                           [x \in DOMAIN order |-> /\ ItemsOf(x) # {}
                                                   /\ Every(PreparedIn(x))], order))
    /\ UNCHANGED <<order, item, gone>>

-----------------------------------------------------------------------------
(* The end of the three *)

\* UPDATE orders SET is_delivered; an order that is gone stays so.
Deliver(h, o) ==
    /\ handler[h].at = "deliver"
    /\ LET todo == handler[h].todo
       IN  /\ o \in DOMAIN todo
           /\ order' = [x \in DOMAIN order |-> IF x = o THEN todo[o] ELSE order[x]]
           /\ Delivers(h, [x \in DOMAIN todo \ {o} |-> todo[x]])
    /\ UNCHANGED <<item, gone>>

-----------------------------------------------------------------------------
(* updateDelivery, updateOrderItem and deleteOrderItemById *)

\* The request has read the order o with the items S, and will save them.
Saves(h, o, to, S, removed) ==
    /\ handler[h] = Idle
    /\ o \in DOMAIN order
    /\ Goes(h, [at |-> "load", order |-> o, to |-> to, want |-> Only(item, S),
                removed |-> removed])
    /\ UNCHANGED <<order, item, gone>>

ReadForDelivery(h, o, b) == "delivery" \in kinds /\ Saves(h, o, b, ItemsOf(o), {})

ReadForUpdate(h, o) ==
    /\ "editItem" \in kinds
    /\ o \in DOMAIN order /\ ItemsOf(o) # {}
    /\ Saves(h, o, order[o], ItemsOf(o), {})

\* A deletion of the last item that it has read deletes the order.
ReadForDelete(h, o, i) ==
    /\ "deleteItem" \in kinds
    /\ i \in ItemsOf(o)
    /\ IF ItemsOf(o) # {i}
       THEN /\ o \in DOMAIN order
            /\ Saves(h, o, order[o], ItemsOf(o) \ {i}, {i})
       ELSE /\ handler[h] = Idle
            /\ Goes(h, [at |-> "removeOrder", order |-> o])
            /\ UNCHANGED <<order, item, gone>>

\* The order that is left without items is deleted, and what it has by now with it.
RemoveOrder(h) ==
    /\ handler[h].at = "removeOrder"
    /\ LET o == handler[h].order
       IN  /\ order' = Only(order, Orders \ {o})
           /\ item' = Only(item, Items \ ItemsOf(o))
           /\ gone' = gone \cup ({o} \cap DOMAIN order) \cup ItemsOf(o)
    /\ Ends(h)

\* The item is deleted, which shows when the transaction commits, and save loads the
\* order and its items again.
Load(h) ==
    /\ handler[h].at = "load"
    /\ LET r == handler[h]
       IN  Goes(h, [at |-> "save", order |-> r.order, to |-> r.to, want |-> r.want,
                    removed |-> r.removed \cap ItemsOf(r.order),
                    was |-> Only(order, {r.order}),
                    seen |-> Only(item, ItemsOf(r.order) \ r.removed)])
    /\ UNCHANGED <<order, item, gone>>

\* An id exists, an order does not, or an item would lose its order, which order_id
\* forbids.
Refused(r) ==
    LET inserted == DOMAIN r.want \ DOMAIN r.seen
    IN  \/ inserted \cap DOMAIN item # {}
        \/ r.order \in DOMAIN order \ DOMAIN r.was
        \/ inserted # {} /\ r.order \in DOMAIN r.was \ DOMAIN order
        \/ (DOMAIN r.seen \ DOMAIN r.want) \cap DOMAIN item # {}

\* The order and its items as save writes them: what it did not find it inserts, and
\* of what it found it sets the columns that differ.
SavedOrder(r) ==
    [o \in DOMAIN order \cup ({r.order} \ DOMAIN r.was) |->
        IF o = r.order /\ (o \in DOMAIN r.was => r.to # r.was[o]) THEN r.to ELSE order[o]]

SavedItem(r) ==
    [i \in (DOMAIN item \ r.removed) \cup (DOMAIN r.want \ DOMAIN r.seen) |->
        IF i \in DOMAIN r.want \ DOMAIN r.seen THEN r.want[i]
        ELSE IF /\ i \in DOMAIN r.want
                /\ r.want[i].prepared # r.seen[i].prepared
             THEN [item[i] EXCEPT !.prepared = r.want[i].prepared]
             ELSE item[i]]

Save(h) ==
    /\ handler[h].at = "save"
    /\ LET r == handler[h]
       IN  /\ ~Refused(r)
           /\ order' = SavedOrder(r)
           /\ item' = SavedItem(r)
           /\ gone' = gone \cup (r.removed \cap DOMAIN item)
    /\ Ends(h)

\* A statement of the transaction is refused, or loses a deadlock: it is rolled back.
Fail(h) ==
    /\ handler[h].at \in {"load", "save", "removeOrder"}
    /\ Ends(h)
    /\ UNCHANGED <<order, item, gone>>

-----------------------------------------------------------------------------

\* The server stops and starts again.
Restart ==
    /\ "restart" \in kinds
    /\ \E h \in Handlers : handler[h] # Idle
    /\ handler' = [h \in Handlers |-> Idle]
    /\ stale' = [h \in Handlers |-> {}]
    /\ UNCHANGED <<order, item, gone, kinds>>

\* The statements of a request after its first.
Goon(h) ==
    /\ \/ WriteItem(h)
       \/ WriteItems(h)
       \/ Reread(h)
       \/ Sweep(h)
       \/ \E o \in Orders : Deliver(h, o)
       \/ RemoveOrder(h)
       \/ Load(h)
       \/ Save(h)
       \/ Fail(h)
    /\ Noted(h)

Arrive(h) ==
    /\ \/ \E p \in Periods, b \in BOOLEAN : WritePeriod(h, p, b)
       \/ \E o \in Orders :
             \/ \E line \in Partial(Items, Periods) : Create(h, o, line)
             \/ Delete(h, o)
             \/ \E i \in Items, b \in BOOLEAN : ReadForItem(h, o, i, b)
             \/ \E p \in Periods, b \in BOOLEAN : ReadForOrder(h, o, p, b)
             \/ \E b \in BOOLEAN : ReadForDelivery(h, o, b)
             \/ ReadForUpdate(h, o)
             \/ \E i \in Items : ReadForDelete(h, o, i)
    /\ Noted(h)

Next == (\E h \in Handlers : Arrive(h) \/ Goon(h)) \/ Restart

\* The database answers every statement, and the event loop resumes every handler.
Fairness == \A h \in Handlers : WF_vars(Goon(h))

Spec == Init /\ [][Next]_vars

FairSpec == Spec /\ Fairness

-----------------------------------------------------------------------------
(* Properties *)

Quiet == \A h \in Handlers : handler[h] = Idle

\* Nobody unticks an item, sets isDelivered by hand or saves an order as it was read,
\* with the ticks it had then.
OnlyTicks == kinds \subseteq {"item", "order", "period", "restart"}

\* Between requests that tick items, an order is delivered exactly when all its items
\* are prepared.  ("Verificar si tots els items estan preparats per actualitzar
\* isDelivered de la comanda".)  It holds of the requests that read the order again;
\* not of updateItemPrepared, which compares what it read before.
DeliveredIffPrepared ==
    OnlyTicks /\ "restart" \notin kinds /\ Quiet =>
        \A o \in DOMAIN order : order[o] = Every(PreparedIn(o))

\* Whatever preparers tick at once, an order with an item left to prepare is not
\* delivered.
DeliveredMeansPrepared ==
    OnlyTicks => \A o \in DOMAIN order : order[o] => Every(PreparedIn(o))

\* An order whose items are all prepared is delivered in the end: some request sees
\* the last tick, or the order is deleted.
PreparedIsDelivered ==
    \A o \in Orders :
        (kinds \subseteq {"order", "period"} /\ o \in DOMAIN order /\ Every(PreparedIn(o)))
           ~> (o \in DOMAIN order => order[o])

\* The end of a request that did not end with a restart.
Finishes(h) == handler[h] # Idle /\ handler'[h] = Idle /\ ~Restart

\* Whatever requests of every kind, restarts and races left before, the order a
\* preparer ticks items of agrees with its items when the request ends, if nobody else
\* changed that order meanwhile, and so do all orders after the ticks of a period.
RequestRepairsOrder ==
    [][\A h \in Handlers : \A o \in DOMAIN order \ stale[h] :
          /\ Finishes(h) /\ ItemsOf(o) # {}
          /\ \/ handler[h].at \in {"item", "reread"} /\ handler[h].order = o
             \/ handler[h].at = "deliver" /\ o \in DOMAIN handler[h].todo
             \/ handler[h].at = "sweep"
          => order'[o] = Every(PreparedIn(o))']_vars
=============================================================================
