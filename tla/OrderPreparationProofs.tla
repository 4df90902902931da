----------------------- MODULE OrderPreparationProofs -----------------------
(***************************************************************************)
(* Why concurrent ticks of items agree with isDelivered: theorems about    *)
(* OrderPreparation for any number of orders, items, periods and requests, *)
(* for the workloads that only tick items; and, for requests of every      *)
(* kind, that no item is ever without its order, and that a request whose  *)
(* order nobody else changes leaves isDelivered as the items say.          *)
(***************************************************************************)
EXTENDS OrderPreparation, TLAPS

-----------------------------------------------------------------------------
(* The invariant *)

AllPrepared(o) == \A i \in ItemsOf(o) : item[i].prepared

RowsOK ==
    \A i \in DOMAIN item : item[i] \in ItemRow /\ item[i].order \in DOMAIN order

\* What a request has read and has left to do speaks of known rows only: a row that
\* is created later is none of its business.
KnownRows(h) ==
    /\ handler[h].at \in {"item", "items", "reread"} =>
          handler[h].order \in DOMAIN order \cup gone
    /\ handler[h].at = "items" =>
          \A i \in handler[h].items :
             /\ i \in DOMAIN item \cup gone
             /\ i \in DOMAIN item => item[i].order = handler[h].order
    /\ handler[h].at = "deliver" =>
          DOMAIN handler[h].todo \subseteq DOMAIN order \cup gone

\* What a request has read of an order is behind the order, never ahead of it.
Behind(h) ==
    /\ handler[h].at \notin {"load", "save", "removeOrder"}
    /\ handler[h].at \in {"item", "items"} => handler[h].to = TRUE
    /\ handler[h].at = "item" =>
          /\ handler[h].prepared \in [DOMAIN handler[h].prepared -> BOOLEAN]
          /\ \A i \in ItemsOf(handler[h].order) :
                /\ i \in DOMAIN handler[h].prepared
                /\ handler[h].prepared[i] => item[i].prepared
    /\ handler[h].at = "deliver" =>
          \A o \in DOMAIN handler[h].todo :
             handler[h].todo[o] \in BOOLEAN /\ (handler[h].todo[o] => AllPrepared(o))

DeliveredPrepared == \A o \in DOMAIN order : order[o] => AllPrepared(o)

TickInv ==
    /\ handler = [h \in Handlers |-> handler[h]]
    /\ order \in [DOMAIN order -> BOOLEAN]
    /\ RowsOK
    /\ \A h \in Handlers : KnownRows(h) /\ Behind(h)
    /\ DeliveredPrepared

-----------------------------------------------------------------------------
(* Rows *)

LEMMA EveryPrepared == \A o : Every(PreparedIn(o)) <=> AllPrepared(o)
BY DEF Every, PreparedIn, AllPrepared

\* What a step does to the rows when nobody unticks and nobody saves: known orders get
\* no items, no item is unticked, and rows that go are gone.
RowsGrow ==
    /\ RowsOK'
    /\ gone \subseteq gone'
    /\ DOMAIN order \subseteq DOMAIN order' \cup gone'
    /\ DOMAIN item \subseteq DOMAIN item' \cup gone'
    /\ \A i \in DOMAIN item \cap DOMAIN item' :
          /\ item'[i].order = item[i].order
          /\ item[i].prepared => item'[i].prepared
    /\ \A i \in DOMAIN item' \ DOMAIN item :
          i \notin gone /\ item'[i].order \notin DOMAIN order \cup gone

\* A known order only loses items, and only gets ticks.
LEMMA KnownOrderShrinks ==
    ASSUME RowsGrow, NEW o \in DOMAIN order \cup gone
    PROVE  /\ ItemsOf(o)' \subseteq ItemsOf(o)
           /\ \A i \in ItemsOf(o)' : item[i].prepared => item'[i].prepared
           /\ AllPrepared(o) => AllPrepared(o)'
<1>1. ItemsOf(o)' \subseteq ItemsOf(o)
  BY DEF RowsGrow, ItemsOf
<1>2. \A i \in ItemsOf(o)' : item[i].prepared => item'[i].prepared
  BY <1>1 DEF RowsGrow, ItemsOf
<1> QED
  BY <1>1, <1>2 DEF AllPrepared

\* The requests that do not move keep their part of the invariant.
LEMMA OthersKeep ==
    ASSUME RowsGrow, NEW h, KnownRows(h), Behind(h), handler'[h] = handler[h]
    PROVE  KnownRows(h)' /\ Behind(h)'
<1>1. KnownRows(h)'
  BY DEF RowsGrow, KnownRows
<1>2. ASSUME NEW o, o = handler[h].order, handler[h].at = "item", NEW i \in ItemsOf(o)'
      PROVE  /\ i \in DOMAIN handler[h].prepared
             /\ handler[h].prepared[i] => item'[i].prepared
  <2>1. o \in DOMAIN order \cup gone
    BY <1>2 DEF KnownRows
  <2>2. i \in ItemsOf(o) /\ (item[i].prepared => item'[i].prepared)
    BY <1>2, <2>1, KnownOrderShrinks
  <2> QED
    BY <1>2, <2>2 DEF Behind
<1>3. ASSUME handler[h].at = "deliver", NEW o \in DOMAIN handler[h].todo,
             handler[h].todo[o]
      PROVE  AllPrepared(o)'
  <2>1. o \in DOMAIN order \cup gone /\ AllPrepared(o)
    BY <1>3 DEF KnownRows, Behind
  <2> QED
    BY <2>1, KnownOrderShrinks
<1>4. handler'[h].at = "item" =>
         \A i \in ItemsOf(handler[h].order)' :
            /\ i \in DOMAIN handler'[h].prepared
            /\ handler'[h].prepared[i] => item'[i].prepared
  <2> SUFFICES ASSUME NEW o, o = handler'[h].order, handler'[h].at = "item",
                      NEW i \in ItemsOf(o)'
               PROVE  /\ i \in DOMAIN handler'[h].prepared
                      /\ handler'[h].prepared[i] => item'[i].prepared
    BY DEF ItemsOf
  <2> QED
    BY <1>2
<1>5. Behind(h)'
  BY <1>3, <1>4 DEF Behind
<1> QED
  BY <1>1, <1>5

LEMMA SameRowsGrow ==
    ASSUME RowsOK, UNCHANGED <<item, gone>>, DOMAIN order' = DOMAIN order
    PROVE  RowsGrow
BY DEF RowsOK, RowsGrow

\* Ticking some items.
LEMMA TicksGrow ==
    ASSUME RowsOK, UNCHANGED <<order, gone>>, NEW T,
           item' = [j \in DOMAIN item |->
                       IF j \in T THEN [item[j] EXCEPT !.prepared = TRUE] ELSE item[j]]
    PROVE  RowsGrow
<1>1. DOMAIN item' = DOMAIN item
  OBVIOUS
<1>2. \A j \in DOMAIN item :
         /\ item'[j] \in ItemRow
         /\ item'[j].order = item[j].order
         /\ item[j].prepared => item'[j].prepared
  BY DEF RowsOK, ItemRow
<1> QED
  BY <1>1, <1>2 DEF RowsGrow, RowsOK

LEMMA CreateGrows ==
    ASSUME RowsOK, NEW h, NEW o, NEW line \in Partial(Items, Periods), Create(h, o, line)
    PROVE  RowsGrow
<1>1. line \in [DOMAIN line -> Periods]
  BY DEF Partial
<1>2. /\ DOMAIN order' = DOMAIN order \cup {o} /\ gone' = gone /\ o \in Orders
      /\ o \notin DOMAIN order \cup gone
      /\ DOMAIN item' = DOMAIN item \cup DOMAIN line
      /\ DOMAIN line \cap (DOMAIN item \cup gone) = {}
  BY DEF Create
<1>3. \A i \in DOMAIN line :
         item'[i] = [order |-> o, period |-> line[i], prepared |-> FALSE]
  BY DEF Create
<1>4. \A i \in DOMAIN item : item'[i] = item[i]
  BY <1>2 DEF Create
<1>5. ASSUME NEW i \in DOMAIN item'
      PROVE  item'[i] \in ItemRow /\ item'[i].order \in DOMAIN order'
  <2>1. CASE i \in DOMAIN line
    <3>1. line[i] \in Periods
      BY <1>1, <2>1
    <3>2. [order |-> o, period |-> line[i], prepared |-> FALSE] \in ItemRow
      BY <1>2, <3>1 DEF ItemRow
    <3>3. item'[i] = [order |-> o, period |-> line[i], prepared |-> FALSE]
      BY <1>3, <2>1
    <3> QED
      BY <1>2, <3>2, <3>3
  <2>2. CASE i \in DOMAIN item
    BY <1>2, <1>4, <2>2 DEF RowsOK
  <2> QED
    BY <1>2, <1>5, <2>1, <2>2
<1> QED
  BY <1>2, <1>3, <1>4, <1>5 DEF RowsGrow, RowsOK

LEMMA DeleteGrows ==
    ASSUME RowsOK, NEW h, NEW o, Delete(h, o)
    PROVE  RowsGrow
BY DEF RowsOK, RowsGrow, Delete, ItemsOf

-----------------------------------------------------------------------------
(* Requests *)

\* A request that ends has nothing to do.
LEMMA IdleIsFine ==
    ASSUME NEW h, handler'[h] = Idle
    PROVE  KnownRows(h)' /\ Behind(h)'
BY DEF Idle, KnownRows, Behind

\* A request that is left with deliveries of prepared orders may do them.
LEMMA DeliversIsFine ==
    ASSUME NEW h \in Handlers, NEW todo, handler = [g \in Handlers |-> handler[g]],
           Delivers(h, todo),
           DOMAIN todo \subseteq DOMAIN order' \cup gone',
           \A o \in DOMAIN todo : todo[o] \in BOOLEAN /\ (todo[o] => AllPrepared(o)')
    PROVE  KnownRows(h)' /\ Behind(h)'
<1>1. CASE DOMAIN todo = {}
  BY <1>1, IdleIsFine DEF Delivers, Ends, Goes
<1>2. CASE DOMAIN todo # {}
  <2>1. handler'[h] = [at |-> "deliver", todo |-> todo]
    BY <1>2 DEF Delivers, Goes
  <2>2. handler'[h].at = "deliver" /\ handler'[h].todo = todo
    BY <2>1
  <2>3. KnownRows(h)'
    BY <2>2 DEF KnownRows
  <2>4. Behind(h)'
    BY <2>2 DEF Behind
  <2> QED
    BY <2>3, <2>4
<1> QED
  BY <1>1, <1>2

\* Whatever it is left with, only that request moves.
LEMMA DeliversMoves ==
    ASSUME NEW h \in Handlers, NEW todo, Delivers(h, todo)
    PROVE  \E r : handler' = [handler EXCEPT ![h] = r]
BY DEF Delivers, Ends, Goes

\* The changes to deliver are those of some orders of S, to what every says.
LEMMA ChangesValue ==
    ASSUME NEW S, NEW every, NEW delivered
    PROVE  /\ DOMAIN Changes(S, every, delivered) \subseteq S
           /\ \A x \in DOMAIN Changes(S, every, delivered) :
                 Changes(S, every, delivered)[x] = every[x]
           /\ \A x \in S \ DOMAIN Changes(S, every, delivered) : every[x] = delivered[x]
BY DEF Changes

\* What is left to show when one request moves.
LEMMA TickInvKept ==
    ASSUME TickInv, RowsGrow, NEW h \in Handlers, NEW r,
           handler' = [handler EXCEPT ![h] = r],
           KnownRows(h)', Behind(h)',
           order' \in [DOMAIN order' -> BOOLEAN], DeliveredPrepared'
    PROVE  TickInv'
<1>1. \A g \in Handlers : KnownRows(g)' /\ Behind(g)'
  <2> SUFFICES ASSUME NEW g \in Handlers, g # h
               PROVE  KnownRows(g)' /\ Behind(g)'
    OBVIOUS
  <2>1. handler'[g] = handler[g]
    BY DEF TickInv
  <2> QED
    BY <2>1, OthersKeep DEF TickInv
<1> QED
  BY <1>1 DEF TickInv, RowsGrow

\* An order delivered before is still prepared.
LEMMA DeliveredKept ==
    ASSUME RowsGrow, DeliveredPrepared,
           \A o \in DOMAIN order' : order'[o] => o \in DOMAIN order /\ order[o]
    PROVE  DeliveredPrepared'
BY KnownOrderShrinks DEF DeliveredPrepared

-----------------------------------------------------------------------------
(* Steps *)

\* An arriving request of any kind keeps the invariant.
LEMMA ArriveKeepsTickInv ==
    ASSUME OnlyTicks, TickInv, NEW h \in Handlers, Arrive(h)
    PROVE  TickInv'
<1>0. /\ RowsOK /\ DeliveredPrepared /\ order \in [DOMAIN order -> BOOLEAN]
      /\ handler = [g \in Handlers |-> handler[g]]
      /\ KnownRows(h) /\ Behind(h)
  BY DEF TickInv
<1>a. \A b : Mark(b) => b = TRUE
  BY DEF Mark, OnlyTicks
<1>1. ASSUME NEW p \in Periods, NEW b \in BOOLEAN, WritePeriod(h, p, b)
      PROVE  TickInv'
  <2> DEFINE T == {j \in DOMAIN item : item[j].period = p}
  <2>1. b = TRUE /\ UNCHANGED <<order, gone>> /\ handler' = [handler EXCEPT ![h] = [at |-> "sweep"]]
    BY <1>1, <1>a DEF WritePeriod, Goes
  <2>2. item' = [j \in DOMAIN item |->
                    IF j \in T THEN [item[j] EXCEPT !.prepared = TRUE] ELSE item[j]]
    BY <1>1, <2>1 DEF WritePeriod
  <2>3. RowsGrow
    BY <1>0, <2>1, <2>2, TicksGrow
  <2>4. KnownRows(h)' /\ Behind(h)'
    BY <1>0, <2>1 DEF KnownRows, Behind
  <2>5. DeliveredPrepared'
    BY <1>0, <2>1, <2>3, DeliveredKept
  <2> QED
    BY <1>0, <2>1, <2>3, <2>4, <2>5, TickInvKept
<1>2. ASSUME NEW o \in Orders, NEW line \in Partial(Items, Periods), Create(h, o, line)
      PROVE  TickInv'
  <2>1. RowsGrow
    BY <1>0, <1>2, CreateGrows
  <2>2. /\ handler[h] = Idle /\ handler' = handler
        /\ o \notin DOMAIN order
        /\ order' = [x \in DOMAIN order \cup {o} |-> IF x = o THEN FALSE ELSE order[x]]
    BY <1>2 DEF Create
  <2>3. KnownRows(h)' /\ Behind(h)'
    BY <2>2, IdleIsFine
  <2>4. DeliveredPrepared'
    BY <1>0, <2>1, <2>2, DeliveredKept
  <2>5. handler' = [handler EXCEPT ![h] = Idle]
    BY <1>0, <2>2
  <2>6. order' \in [DOMAIN order' -> BOOLEAN]
    BY <1>0, <2>2
  <2> QED
    BY <2>1, <2>3, <2>4, <2>5, <2>6, TickInvKept
<1>3. ASSUME NEW o \in Orders, Delete(h, o)
      PROVE  TickInv'
  <2>1. RowsGrow
    BY <1>0, <1>3, DeleteGrows
  <2>2. /\ handler[h] = Idle /\ handler' = handler
        /\ order' \in [DOMAIN order' -> BOOLEAN]
        /\ \A x \in DOMAIN order' : x \in DOMAIN order /\ order'[x] = order[x]
    BY <1>0, <1>3 DEF Delete
  <2>3. KnownRows(h)' /\ Behind(h)'
    BY <2>2, IdleIsFine
  <2>4. DeliveredPrepared'
    BY <1>0, <2>1, <2>2, DeliveredKept
  <2>5. handler' = [handler EXCEPT ![h] = Idle]
    BY <1>0, <2>2
  <2> QED
    BY <2>1, <2>2, <2>3, <2>4, <2>5, TickInvKept
<1>4. ASSUME NEW o \in Orders, NEW i \in Items, NEW b \in BOOLEAN, ReadForItem(h, o, i, b)
      PROVE  TickInv'
  <2> DEFINE r == [at |-> "item", order |-> o, item |-> i, to |-> b,
                   prepared |-> PreparedIn(o), delivered |-> order[o]]
  <2>1. /\ b = TRUE /\ o \in DOMAIN order /\ UNCHANGED <<order, item, gone>>
        /\ handler' = [handler EXCEPT ![h] = r]
    BY <1>4, <1>a DEF ReadForItem, Goes
  <2>2. RowsGrow
    BY <1>0, <2>1, SameRowsGrow
  <2>3. /\ handler'[h].at = "item" /\ handler'[h].order = o /\ handler'[h].to = TRUE
        /\ handler'[h].prepared = PreparedIn(o)
    BY <1>0, <2>1
  <2>4. KnownRows(h)'
    BY <2>1, <2>3 DEF KnownRows
  <2>5. PreparedIn(o) \in [ItemsOf(o) -> BOOLEAN] /\ DOMAIN PreparedIn(o) = ItemsOf(o)
    <3>1. \A j \in ItemsOf(o) : item[j].prepared \in BOOLEAN
      BY <1>0 DEF RowsOK, ItemRow, ItemsOf
    <3> QED
      BY <3>1 DEF PreparedIn
  <2>6. ItemsOf(o)' = ItemsOf(o)
    BY <2>1 DEF ItemsOf
  <2>7. ItemsOf(handler[h].order)' = ItemsOf(o)'
    BY <2>3 DEF ItemsOf
  <2>8. \A j \in ItemsOf(o) : PreparedIn(o)[j] => item'[j].prepared
    BY <2>1 DEF PreparedIn
  <2>9. Behind(h)'
    BY <2>3, <2>5, <2>6, <2>7, <2>8 DEF Behind
  <2>10. DeliveredPrepared'
    BY <1>0, <2>1, <2>2, DeliveredKept
  <2> HIDE DEF r
  <2> QED
    BY <1>0, <2>1, <2>2, <2>4, <2>9, <2>10, TickInvKept
<1>5. ASSUME NEW o \in Orders, NEW p \in Periods, NEW b \in BOOLEAN, ReadForOrder(h, o, p, b)
      PROVE  TickInv'
  <2> DEFINE r == [at |-> "items", order |-> o, items |-> ItemsIn(o, p), to |-> b]
  <2>1. /\ b = TRUE /\ o \in DOMAIN order /\ UNCHANGED <<order, item, gone>>
        /\ handler' = [handler EXCEPT ![h] = r]
    BY <1>5, <1>a DEF ReadForOrder, Goes
  <2>2. RowsGrow
    BY <1>0, <2>1, SameRowsGrow
  <2>3. /\ handler'[h].at = "items" /\ handler'[h].order = o /\ handler'[h].to = TRUE
        /\ handler'[h].items = ItemsIn(o, p)
    BY <1>0, <2>1
  <2>4. \A i \in ItemsIn(o, p) : i \in DOMAIN item /\ item[i].order = o
    BY DEF ItemsIn, ItemsOf
  <2>5. KnownRows(h)'
    BY <2>1, <2>3, <2>4 DEF KnownRows
  <2>6. Behind(h)'
    BY <2>3 DEF Behind
  <2>7. DeliveredPrepared'
    BY <1>0, <2>1, <2>2, DeliveredKept
  <2> HIDE DEF r
  <2> QED
    BY <1>0, <2>1, <2>2, <2>5, <2>6, <2>7, TickInvKept
<1>6. \A o, i, b : ~ReadForDelivery(h, o, b) /\ ~ReadForUpdate(h, o) /\ ~ReadForDelete(h, o, i)
  BY DEF OnlyTicks, ReadForDelivery, ReadForUpdate, ReadForDelete
<1> QED
  BY <1>1, <1>2, <1>3, <1>4, <1>5, <1>6 DEF Arrive

\* A request that goes on keeps the invariant.
LEMMA GoonKeepsTickInv ==
    ASSUME TickInv, NEW h \in Handlers, Goon(h)
    PROVE  TickInv'
<1>0. /\ RowsOK /\ DeliveredPrepared /\ order \in [DOMAIN order -> BOOLEAN]
      /\ handler = [g \in Handlers |-> handler[g]]
      /\ KnownRows(h) /\ Behind(h)
  BY DEF TickInv
<1>1. ASSUME NEW o, o = handler[h].order, WriteItem(h)
      PROVE  TickInv'
  <2>1. PICK i, f : i = handler[h].item /\ f = handler[h].prepared
    OBVIOUS
  <2> DEFINE prepared == [f EXCEPT ![i] = TRUE]
             every == [x \in {o} |-> Every(prepared)]
             todo == Changes({o}, every, [x \in {o} |-> handler[h].delivered])
  <2>2. /\ handler[h].at = "item" /\ handler[h].to = TRUE
        /\ f \in [DOMAIN f -> BOOLEAN] /\ o \in DOMAIN order \cup gone
        /\ \A j \in ItemsOf(o) : j \in DOMAIN f /\ (f[j] => item[j].prepared)
    BY <1>0, <1>1, <2>1 DEF WriteItem, KnownRows, Behind
  <2>3. /\ UNCHANGED <<order, gone>>
        /\ item' = [j \in DOMAIN item |->
                       IF j \in {i} THEN [item[j] EXCEPT !.prepared = TRUE] ELSE item[j]]
        /\ Delivers(h, todo)
    BY <1>1, <2>1, <2>2 DEF WriteItem
  <2>4. RowsGrow
    BY <1>0, <2>3, TicksGrow
  <2>5. Every(prepared) => AllPrepared(o)'
    <3> SUFFICES ASSUME Every(prepared), NEW j \in ItemsOf(o)'
                 PROVE  item'[j].prepared
      BY DEF AllPrepared
    <3>1. j \in ItemsOf(o) /\ (item[j].prepared => item'[j].prepared)
      BY <2>2, <2>4, KnownOrderShrinks
    <3>2. j \in DOMAIN f /\ prepared[j]
      BY <2>2, <3>1 DEF Every
    <3>3. CASE j = i
      BY <1>0, <2>3, <3>1, <3>3 DEF ItemsOf, RowsOK, ItemRow
    <3>4. CASE j # i
      BY <2>2, <3>1, <3>2, <3>4
    <3> QED
      BY <3>3, <3>4
  <2>6. \A x \in DOMAIN todo : x = o /\ todo[x] = Every(prepared)
    BY ChangesValue
  <2>7. Every(prepared) \in BOOLEAN
    BY DEF Every
  <2> HIDE DEF prepared, todo
  <2>8. KnownRows(h)' /\ Behind(h)'
    BY <1>0, <2>2, <2>3, <2>5, <2>6, <2>7, DeliversIsFine
  <2>9. DeliveredPrepared'
    BY <1>0, <2>3, <2>4, DeliveredKept
  <2>10. PICK r : handler' = [handler EXCEPT ![h] = r]
    BY <2>3, DeliversMoves
  <2> QED
    BY <1>0, <2>3, <2>4, <2>8, <2>9, <2>10, TickInvKept
<1>2. ASSUME WriteItems(h)
      PROVE  TickInv'
  <2>1. PICK S, o : S = handler[h].items /\ o = handler[h].order
    OBVIOUS
  <2>2. handler[h].to = TRUE /\ o \in DOMAIN order \cup gone
    BY <1>0, <1>2, <2>1 DEF WriteItems, KnownRows, Behind
  <2>3. /\ UNCHANGED <<order, gone>>
        /\ item' = [j \in DOMAIN item |->
                       IF j \in S THEN [item[j] EXCEPT !.prepared = TRUE] ELSE item[j]]
        /\ handler' = [handler EXCEPT ![h] = [at |-> "reread", order |-> o]]
    BY <1>2, <2>1, <2>2 DEF WriteItems, Goes
  <2>4. RowsGrow
    BY <1>0, <2>3, TicksGrow
  <2>5. handler'[h].at = "reread" /\ handler'[h].order = o
    BY <1>0, <2>3
  <2>6. KnownRows(h)' /\ Behind(h)'
    BY <2>2, <2>3, <2>5 DEF KnownRows, Behind
  <2>7. DeliveredPrepared'
    BY <1>0, <2>3, <2>4, DeliveredKept
  <2> QED
    BY <1>0, <2>3, <2>4, <2>6, <2>7, TickInvKept
<1>3. ASSUME Reread(h) \/ Sweep(h)
      PROVE  TickInv'
  <2>1. UNCHANGED <<order, item, gone>>
    BY <1>3 DEF Reread, Sweep
  <2>2. RowsGrow
    BY <1>0, <2>1, SameRowsGrow
  <2>3. PICK todo : /\ Delivers(h, todo)
                    /\ DOMAIN todo \subseteq DOMAIN order
                    /\ \A x \in DOMAIN todo :
                          todo[x] \in BOOLEAN /\ (todo[x] => Every(PreparedIn(x)))
    <3>1. CASE Reread(h)
      <4>1. PICK o : o = handler[h].order
        OBVIOUS
      <4> DEFINE every == [x \in {o} |-> Every(PreparedIn(x))]
                 todo == Changes({o} \cap DOMAIN order, every, order)
      <4>2. Delivers(h, todo)
        BY <3>1, <4>1 DEF Reread
      <4>3. /\ DOMAIN todo \subseteq {o} \cap DOMAIN order
            /\ \A x \in DOMAIN todo : todo[x] = every[x]
        BY ChangesValue
      <4> HIDE DEF todo
      <4>4. \A x \in DOMAIN todo : todo[x] = Every(PreparedIn(x))
        BY <4>3
      <4>5. \A x : Every(PreparedIn(x)) \in BOOLEAN
        BY DEF Every
      <4> QED
        BY <4>2, <4>3, <4>4, <4>5
    <3>2. CASE Sweep(h)
      <4> DEFINE every == [x \in DOMAIN order |-> ItemsOf(x) # {} /\ Every(PreparedIn(x))]
                 todo == Changes(DOMAIN order, every, order)
      <4>1. Delivers(h, todo)
        BY <3>2 DEF Sweep
      <4>2. DOMAIN todo \subseteq DOMAIN order /\ \A x \in DOMAIN todo : todo[x] = every[x]
        BY ChangesValue
      <4> HIDE DEF todo
      <4>3. \A x \in DOMAIN todo :
               todo[x] = (ItemsOf(x) # {} /\ Every(PreparedIn(x)))
        BY <4>2
      <4> QED
        BY <4>1, <4>2, <4>3
    <3> QED
      BY <1>3, <3>1, <3>2
  <2>4. \A x \in DOMAIN todo : todo[x] \in BOOLEAN /\ (todo[x] => AllPrepared(x)')
    BY <2>2, <2>3, EveryPrepared, KnownOrderShrinks
  <2>5. KnownRows(h)' /\ Behind(h)'
    BY <1>0, <2>1, <2>3, <2>4, DeliversIsFine
  <2>6. DeliveredPrepared'
    BY <1>0, <2>1, <2>2, DeliveredKept
  <2>7. PICK r : handler' = [handler EXCEPT ![h] = r]
    BY <2>3, DeliversMoves
  <2> QED
    BY <1>0, <2>1, <2>2, <2>5, <2>6, <2>7, TickInvKept
<1>4. ASSUME NEW o \in Orders, Deliver(h, o)
      PROVE  TickInv'
  <2>1. PICK todo : todo = handler[h].todo
    OBVIOUS
  <2> DEFINE rest == [x \in DOMAIN todo \ {o} |-> todo[x]]
  <2>2. /\ o \in DOMAIN todo /\ UNCHANGED <<item, gone>>
        /\ order' = [x \in DOMAIN order |-> IF x = o THEN todo[o] ELSE order[x]]
        /\ Delivers(h, rest)
    BY <1>4, <2>1 DEF Deliver
  <2>3. /\ DOMAIN todo \subseteq DOMAIN order \cup gone
        /\ \A x \in DOMAIN todo : todo[x] \in BOOLEAN /\ (todo[x] => AllPrepared(x))
    BY <1>0, <1>4, <2>1 DEF Deliver, KnownRows, Behind
  <2>4. RowsGrow
    BY <1>0, <2>2, SameRowsGrow
  <2>5. \A x \in DOMAIN todo : todo[x] => AllPrepared(x)'
    BY <2>3, <2>4, KnownOrderShrinks
  <2>6. DOMAIN rest \subseteq DOMAIN todo /\ \A x \in DOMAIN rest : rest[x] = todo[x]
    OBVIOUS
  <2> HIDE DEF rest
  <2>7. KnownRows(h)' /\ Behind(h)'
    BY <1>0, <2>2, <2>3, <2>5, <2>6, DeliversIsFine
  <2>8. order' \in [DOMAIN order' -> BOOLEAN]
    BY <1>0, <2>2, <2>3
  <2>9. DeliveredPrepared'
    <3> SUFFICES ASSUME NEW x \in DOMAIN order, order'[x]
                 PROVE  AllPrepared(x)'
      BY <2>2 DEF DeliveredPrepared
    <3>1. CASE x = o
      BY <2>2, <2>5, <3>1
    <3>2. CASE x # o
      BY <1>0, <2>2, <2>4, <3>2, KnownOrderShrinks DEF DeliveredPrepared
    <3> QED
      BY <3>1, <3>2
  <2>10. PICK r : handler' = [handler EXCEPT ![h] = r]
    BY <2>2, DeliversMoves
  <2> QED
    BY <2>4, <2>7, <2>8, <2>9, <2>10, TickInvKept
<1>5. ~RemoveOrder(h) /\ ~Load(h) /\ ~Save(h) /\ ~Fail(h)
  BY <1>0 DEF RemoveOrder, Load, Save, Fail, Behind
<1> QED
  BY <1>1, <1>2, <1>3, <1>4, <1>5 DEF Goon

LEMMA KindsStay ==
    [Next]_vars => UNCHANGED kinds
BY DEF Next, Arrive, Goon, Noted, Restart, vars

LEMMA TickStep ==
    ASSUME OnlyTicks, TickInv, [Next]_vars
    PROVE  TickInv'
<1>1. CASE Restart
  <2>1. RowsGrow
    BY <1>1, SameRowsGrow DEF Restart, TickInv
  <2>2. \A h \in Handlers : KnownRows(h)' /\ Behind(h)'
    <3> TAKE h \in Handlers
    <3>1. handler'[h] = Idle
      BY <1>1 DEF Restart
    <3> QED
      BY <3>1, IdleIsFine
  <2>3. DeliveredPrepared'
    BY <1>1, <2>1, DeliveredKept DEF Restart, TickInv
  <2> QED
    BY <1>1, <2>1, <2>2, <2>3 DEF Restart, TickInv, RowsGrow
<1>2. CASE UNCHANGED vars
  BY <1>2 DEF vars, TickInv, RowsOK, KnownRows, Behind, DeliveredPrepared, AllPrepared,
     ItemsOf
<1> QED
  BY <1>1, <1>2, ArriveKeepsTickInv, GoonKeepsTickInv DEF Next

LEMMA TickInit ==
    Init => TickInv
BY DEF Init, TickInv, RowsOK, KnownRows, Behind, DeliveredPrepared, Idle

\* Requests that only tick items never leave an order delivered with an item left to
\* prepare, at any moment, however many interleave, are cut short by a restart, or
\* create and delete orders meanwhile: the stale read of updateItemPrepared included.
THEOREM TicksNeverDeliverEarly == Spec => []DeliveredMeansPrepared
<1> DEFINE Inv == OnlyTicks => TickInv
<1>1. Init => Inv
  BY TickInit
<1>2. Inv /\ [Next]_vars => Inv'
  BY TickStep, KindsStay DEF OnlyTicks
<1>3. Inv => DeliveredMeansPrepared
  BY EveryPrepared DEF TickInv, DeliveredPrepared, DeliveredMeansPrepared
<1> QED
  BY <1>1, <1>2, <1>3, PTL DEF Spec

-----------------------------------------------------------------------------
(* No tick is forgotten *)

\* A request that will still look at the items of o, or has o to deliver.
Pending(h, o) ==
    \/ handler[h].at = "reread" /\ handler[h].order = o
    \/ handler[h].at = "sweep"
    \/ handler[h].at = "deliver" /\ o \in DOMAIN handler[h].todo

SeenInv ==
    /\ \A h \in Handlers :
          /\ handler[h].at # "item"
          /\ handler[h].at = "deliver" =>
                \A o \in DOMAIN handler[h].todo : handler[h].todo[o] = TRUE
    /\ \A o \in DOMAIN order :
          /\ ItemsOf(o) # {}
          /\ AllPrepared(o) => order[o] \/ \E h \in Handlers : Pending(h, o)

\* Orders that are neither new nor ticked, with the requests pending for them.
LEMMA PendingKept ==
    ASSUME SeenInv, NEW o \in DOMAIN order, NEW h \in Handlers,
           \A g \in Handlers \ {h} : handler'[g] = handler[g],
           ~Pending(h, o) \/ Pending(h, o)' \/ order'[o] = TRUE,
           order[o] => order'[o],
           AllPrepared(o)' => AllPrepared(o),
           AllPrepared(o)'
    PROVE  order'[o] \/ \E g \in Handlers : Pending(g, o)'
<1>1. order[o] \/ \E g \in Handlers : Pending(g, o)
  BY DEF SeenInv
<1>2. \A g \in Handlers \ {h} : Pending(g, o) => Pending(g, o)'
  BY DEF Pending
<1> QED
  BY <1>1, <1>2

LEMMA DeliversPending ==
    ASSUME NEW h \in Handlers, NEW todo, handler = [g \in Handlers |-> handler[g]],
           Delivers(h, todo)
    PROVE  /\ handler' = [g \in Handlers |-> handler'[g]]
           /\ \A g \in Handlers \ {h} : handler'[g] = handler[g]
           /\ handler'[h].at # "item"
           /\ \A x \in DOMAIN todo : Pending(h, x)'
           /\ (\A x \in DOMAIN todo : todo[x] = TRUE) =>
                 (handler'[h].at = "deliver" =>
                    \A x \in DOMAIN handler'[h].todo : handler'[h].todo[x] = TRUE)
<1>1. CASE DOMAIN todo = {}
  BY <1>1 DEF Delivers, Ends, Goes, Idle
<1>2. CASE DOMAIN todo # {}
  <2>1. handler' = [handler EXCEPT ![h] = [at |-> "deliver", todo |-> todo]]
    BY <1>2 DEF Delivers, Goes
  <2>2. handler'[h].at = "deliver" /\ handler'[h].todo = todo
    BY <2>1
  <2> QED
    BY <2>1, <2>2 DEF Pending
<1> QED
  BY <1>1, <1>2

\* The part of the invariant about the request that moved, and that about an order.
LEMMA SeenInvKept ==
    ASSUME SeenInv, NEW h \in Handlers,
           \A g \in Handlers \ {h} : handler'[g] = handler[g],
           handler'[h].at # "item",
           handler'[h].at = "deliver" =>
              \A x \in DOMAIN handler'[h].todo : handler'[h].todo[x] = TRUE,
           \A o \in DOMAIN order' :
              /\ ItemsOf(o)' # {}
              /\ AllPrepared(o)' => order'[o] \/ \E g \in Handlers : Pending(g, o)'
    PROVE  SeenInv'
BY DEF SeenInv

\* Every request reads the order again after it has ticked its items.
Rereads == kinds \subseteq {"order", "period"}

LEMMA ArriveKeepsSeenInv ==
    ASSUME Rereads, TickInv, SeenInv, NEW h \in Handlers, Arrive(h)
    PROVE  SeenInv'
<1>0. /\ RowsOK /\ order \in [DOMAIN order -> BOOLEAN]
      /\ handler = [g \in Handlers |-> handler[g]]
  BY DEF TickInv
<1>1. ASSUME NEW p \in Periods, NEW b \in BOOLEAN, WritePeriod(h, p, b)
      PROVE  SeenInv'
  <2>0. b = TRUE
    BY <1>1 DEF WritePeriod, Mark, Rereads
  <2>1. handler' = [handler EXCEPT ![h] = [at |-> "sweep"]] /\ UNCHANGED order
    BY <1>1, <2>0 DEF WritePeriod, Goes
  <2>2. /\ handler'[h].at = "sweep"
        /\ \A g \in Handlers \ {h} : handler'[g] = handler[g]
    BY <1>0, <2>1
  <2>3. DOMAIN item' = DOMAIN item /\ \A j \in DOMAIN item : item'[j].order = item[j].order
    BY <1>0, <1>1 DEF WritePeriod, RowsOK, ItemRow
  <2>4. \A o \in DOMAIN order : ItemsOf(o)' # {} /\ Pending(h, o)'
    BY <2>2, <2>3 DEF SeenInv, ItemsOf, Pending
  <2> QED
    BY <2>1, <2>2, <2>4, SeenInvKept
<1>2. ASSUME NEW o \in Orders, NEW line \in Partial(Items, Periods), Create(h, o, line)
      PROVE  SeenInv'
  <2>1. /\ handler[h] = Idle /\ handler' = handler
        /\ o \notin DOMAIN order /\ DOMAIN line # {}
        /\ order' = [x \in DOMAIN order \cup {o} |-> IF x = o THEN FALSE ELSE order[x]]
        /\ DOMAIN line \cap DOMAIN item = {}
        /\ DOMAIN item' = DOMAIN item \cup DOMAIN line
    BY <1>2 DEF Create
  <2>2. \A i \in DOMAIN line : item'[i].order = o /\ item'[i].prepared = FALSE
    BY <1>2 DEF Create
  <2>3. \A i \in DOMAIN item : item'[i] = item[i]
    BY <1>2, <2>1 DEF Create
  <2>4. ItemsOf(o)' # {} /\ ~AllPrepared(o)'
    BY <2>1, <2>2 DEF ItemsOf, AllPrepared
  <2>5. ASSUME NEW x \in DOMAIN order
        PROVE  /\ ItemsOf(x)' # {}
               /\ AllPrepared(x)' => order'[x] \/ \E g \in Handlers : Pending(g, x)'
    <3>1. x # o /\ order'[x] = order[x]
      BY <2>1
    <3>2. ItemsOf(x)' = ItemsOf(x)
      BY <2>1, <2>2, <2>3, <3>1 DEF ItemsOf
    <3>3. AllPrepared(x)' <=> AllPrepared(x)
      BY <2>3, <3>2 DEF AllPrepared, ItemsOf
    <3>4. ~Pending(h, x)
      BY <2>1 DEF Pending, Idle
    <3> QED
      BY <2>1, <3>1, <3>2, <3>3, <3>4, PendingKept DEF SeenInv
  <2> QED
    <3>1. handler'[h].at = "idle" /\ \A g \in Handlers \ {h} : handler'[g] = handler[g]
      BY <2>1 DEF Idle
    <3>2. \A x \in DOMAIN order' :
             /\ ItemsOf(x)' # {}
             /\ AllPrepared(x)' => order'[x] \/ \E g \in Handlers : Pending(g, x)'
      BY <2>1, <2>4, <2>5
    <3> QED
      BY <3>1, <3>2, SeenInvKept
<1>3. ASSUME NEW o \in Orders, Delete(h, o)
      PROVE  SeenInv'
  <2>1. handler[h] = Idle /\ handler' = handler
        /\ order' = [x \in DOMAIN order \ {o} |-> order[x]]
        /\ item' = [i \in DOMAIN item \ ItemsOf(o) |-> item[i]]
    BY <1>3 DEF Delete
  <2>2. ASSUME NEW x \in DOMAIN order'
        PROVE  /\ ItemsOf(x)' # {}
               /\ AllPrepared(x)' => order'[x] \/ \E g \in Handlers : Pending(g, x)'
    <3>1. x \in DOMAIN order /\ x # o /\ order'[x] = order[x]
      BY <2>1
    <3>2. ItemsOf(x)' = ItemsOf(x) /\ \A i \in ItemsOf(x) : item'[i] = item[i]
      BY <2>1, <3>1 DEF ItemsOf
    <3>3. AllPrepared(x)' <=> AllPrepared(x)
      BY <3>2 DEF AllPrepared
    <3>4. ~Pending(h, x)
      BY <2>1 DEF Pending, Idle
    <3> QED
      BY <2>1, <3>1, <3>2, <3>3, <3>4, PendingKept DEF SeenInv
  <2> QED
    <3>1. handler'[h].at = "idle" /\ \A g \in Handlers \ {h} : handler'[g] = handler[g]
      BY <2>1 DEF Idle
    <3> QED
      BY <2>2, <3>1, SeenInvKept
<1>4. ASSUME NEW o \in Orders, NEW p \in Periods, NEW b \in BOOLEAN, ReadForOrder(h, o, p, b)
      PROVE  SeenInv'
  <2>1. /\ handler[h] = Idle /\ UNCHANGED <<order, item>>
        /\ handler' = [handler EXCEPT
                          ![h] = [at |-> "items", order |-> o,
                                  items |-> ItemsIn(o, p), to |-> b]]
    BY <1>4 DEF ReadForOrder, Goes
  <2>2. handler'[h].at = "items" /\ \A g \in Handlers \ {h} : handler'[g] = handler[g]
    BY <1>0, <2>1
  <2>3. \A x : ItemsOf(x)' = ItemsOf(x) /\ (AllPrepared(x)' <=> AllPrepared(x))
    BY <2>1 DEF ItemsOf, AllPrepared
  <2>4. \A x : ~Pending(h, x)
    BY <2>1 DEF Pending, Idle
  <2>5. ASSUME NEW x \in DOMAIN order'
        PROVE  /\ ItemsOf(x)' # {}
               /\ AllPrepared(x)' => order'[x] \/ \E g \in Handlers : Pending(g, x)'
    BY <2>1, <2>2, <2>3, <2>4, PendingKept DEF SeenInv
  <2> QED
    BY <2>2, <2>5, SeenInvKept
<1> QED
  BY <1>1, <1>2, <1>3, <1>4
     DEF Rereads, Arrive, ReadForItem, ReadForDelivery, ReadForUpdate, ReadForDelete

LEMMA GoonKeepsSeenInv ==
    ASSUME TickInv, SeenInv, NEW h \in Handlers, Goon(h)
    PROVE  SeenInv'
<1>0. /\ RowsOK /\ DeliveredPrepared /\ order \in [DOMAIN order -> BOOLEAN]
      /\ handler = [g \in Handlers |-> handler[g]]
      /\ KnownRows(h) /\ Behind(h)
  BY DEF TickInv
<1>1. ASSUME WriteItems(h)
      PROVE  SeenInv'
  <2>1. PICK S, o : S = handler[h].items /\ o = handler[h].order
    OBVIOUS
  <2>2. /\ UNCHANGED order /\ handler[h].at = "items"
        /\ handler' = [handler EXCEPT ![h] = [at |-> "reread", order |-> o]]
        /\ DOMAIN item' = DOMAIN item
        /\ \A j \in DOMAIN item \ S : item'[j] = item[j]
        /\ \A j \in DOMAIN item : item'[j].order = item[j].order
    BY <1>0, <1>1, <2>1 DEF WriteItems, Goes, RowsOK, ItemRow
  <2>3. \A i \in S \cap DOMAIN item : item[i].order = o
    BY <1>0, <2>1, <2>2 DEF KnownRows
  <2>4. /\ handler'[h].at = "reread" /\ handler'[h].order = o
        /\ \A g \in Handlers \ {h} : handler'[g] = handler[g]
    BY <1>0, <2>2
  <2>5. ASSUME NEW x \in DOMAIN order
        PROVE  /\ ItemsOf(x)' # {}
               /\ AllPrepared(x)' => order'[x] \/ \E g \in Handlers : Pending(g, x)'
    <3>1. ItemsOf(x)' = ItemsOf(x)
      BY <2>2 DEF ItemsOf
    <3>2. CASE x = o
      BY <2>4, <3>1, <3>2 DEF SeenInv, Pending
    <3>3. CASE x # o
      <4>1. \A i \in ItemsOf(x) : item'[i] = item[i]
        BY <2>2, <2>3, <3>3 DEF ItemsOf
      <4>2. AllPrepared(x)' <=> AllPrepared(x)
        BY <3>1, <4>1 DEF AllPrepared
      <4>3. ~Pending(h, x)
        BY <2>2 DEF Pending
      <4> QED
        BY <2>2, <2>4, <3>1, <4>2, <4>3, PendingKept DEF SeenInv
    <3> QED
      BY <3>2, <3>3
  <2> QED
    BY <2>2, <2>4, <2>5, SeenInvKept
<1>2. ASSUME Reread(h) \/ Sweep(h)
      PROVE  SeenInv'
  <2>1. UNCHANGED <<order, item, gone>>
    BY <1>2 DEF Reread, Sweep
  <2>2. \A x : /\ ItemsOf(x)' = ItemsOf(x)
               /\ AllPrepared(x)' <=> AllPrepared(x)
    BY <2>1 DEF ItemsOf, AllPrepared
  <2>3. \A x \in DOMAIN order : ItemsOf(x) # {} /\ (order[x] => AllPrepared(x))
    BY <1>0 DEF SeenInv, DeliveredPrepared
  <2>4. PICK todo :
           /\ Delivers(h, todo)
           /\ \A x \in DOMAIN todo : todo[x] = TRUE
           /\ \A x \in DOMAIN order :
                 Pending(h, x) /\ AllPrepared(x) => order[x] \/ x \in DOMAIN todo
    <3>1. CASE Reread(h)
      <4>1. PICK o : o = handler[h].order
        OBVIOUS
      <4> DEFINE S == {o} \cap DOMAIN order
                 every == [x \in {o} |-> Every(PreparedIn(x))]
                 todo == Changes(S, every, order)
      <4>2. Delivers(h, todo) /\ handler[h].at = "reread"
        BY <3>1, <4>1 DEF Reread
      <4>3. DOMAIN todo = {x \in S : every[x] # order[x]}
            /\ \A x \in DOMAIN todo : todo[x] = every[x]
        BY DEF Changes
      <4> HIDE DEF todo
      <4>4. \A x \in S : every[x] = Every(PreparedIn(x))
        OBVIOUS
      <4>5. \A x \in S : every[x] \in BOOLEAN
        BY DEF Every
      <4> HIDE DEF every
      <4>6. \A x \in S : order[x] \in BOOLEAN /\ (order[x] => every[x])
        BY <1>0, <2>3, <4>4, EveryPrepared
      <4>7. \A x \in DOMAIN todo : todo[x] = TRUE
        BY <4>3, <4>5, <4>6
      <4>8. \A x \in DOMAIN order : Pending(h, x) => x \in S
        BY <4>1, <4>2 DEF Pending
      <4>9. \A x \in S : AllPrepared(x) => order[x] \/ x \in DOMAIN todo
        BY <4>3, <4>4, <4>5, <4>6, EveryPrepared
      <4> QED
        BY <4>2, <4>7, <4>8, <4>9
    <3>2. CASE Sweep(h)
      <4> DEFINE every == [x \in DOMAIN order |-> ItemsOf(x) # {} /\ Every(PreparedIn(x))]
                 todo == Changes(DOMAIN order, every, order)
      <4>1. Delivers(h, todo)
        BY <3>2 DEF Sweep
      <4>2. DOMAIN todo = {x \in DOMAIN order : every[x] # order[x]}
            /\ \A x \in DOMAIN todo : todo[x] = every[x]
        BY DEF Changes
      <4> HIDE DEF todo
      <4>3. \A x \in DOMAIN order :
               every[x] = (ItemsOf(x) # {} /\ Every(PreparedIn(x)))
        OBVIOUS
      <4> HIDE DEF every
      <4>4. \A x \in DOMAIN order :
               order[x] \in BOOLEAN /\ every[x] \in BOOLEAN /\ (order[x] => every[x])
        BY <1>0, <2>3, <4>3, EveryPrepared
      <4>5. \A x \in DOMAIN todo : todo[x] = TRUE
        BY <4>2, <4>4
      <4>6. \A x \in DOMAIN order : AllPrepared(x) => order[x] \/ x \in DOMAIN todo
        BY <2>3, <4>2, <4>3, <4>4, EveryPrepared
      <4> QED
        BY <4>1, <4>5, <4>6
    <3> QED
      BY <1>2, <3>1, <3>2
  <2>5. ASSUME NEW x \in DOMAIN order
        PROVE  /\ ItemsOf(x)' # {}
               /\ AllPrepared(x)' => order'[x] \/ \E g \in Handlers : Pending(g, x)'
    <3>1. CASE Pending(h, x)
      BY <1>0, <2>1, <2>2, <2>3, <2>4, <3>1, DeliversPending
    <3>2. CASE ~Pending(h, x)
      BY <1>0, <2>1, <2>2, <2>3, <2>4, <3>2, DeliversPending, PendingKept
    <3> QED
      BY <3>1, <3>2
  <2> QED
    BY <1>0, <2>1, <2>4, <2>5, DeliversPending, SeenInvKept
<1>3. ASSUME NEW o \in Orders, Deliver(h, o)
      PROVE  SeenInv'
  <2>1. PICK todo : todo = handler[h].todo
    OBVIOUS
  <2> DEFINE rest == [x \in DOMAIN todo \ {o} |-> todo[x]]
  <2>2. /\ o \in DOMAIN todo /\ UNCHANGED <<item, gone>> /\ handler[h].at = "deliver"
        /\ order' = [x \in DOMAIN order |-> IF x = o THEN todo[o] ELSE order[x]]
        /\ Delivers(h, rest)
    BY <1>3, <2>1 DEF Deliver
  <2>3. \A x \in DOMAIN todo : todo[x] = TRUE
    BY <2>1, <2>2 DEF SeenInv
  <2>4. DOMAIN rest = DOMAIN todo \ {o} /\ \A x \in DOMAIN rest : rest[x] = TRUE
    BY <2>3
  <2> HIDE DEF rest
  <2>5. \A x : /\ ItemsOf(x)' = ItemsOf(x)
               /\ AllPrepared(x)' <=> AllPrepared(x)
    BY <2>2 DEF ItemsOf, AllPrepared
  <2>6. ASSUME NEW x \in DOMAIN order
        PROVE  /\ ItemsOf(x)' # {}
               /\ AllPrepared(x)' => order'[x] \/ \E g \in Handlers : Pending(g, x)'
    <3>1. ItemsOf(x)' # {}
      BY <2>5 DEF SeenInv
    <3>2. x = o => order'[x] = TRUE
      BY <2>2, <2>3
    <3>3. x # o => order'[x] = order[x]
      BY <2>2
    <3>4. Pending(h, x) => x = o \/ x \in DOMAIN rest
      BY <2>1, <2>2, <2>4 DEF Pending
    <3>5. x \in DOMAIN rest => Pending(h, x)'
      BY <1>0, <2>2, DeliversPending
    <3>6. \A g \in Handlers \ {h} : handler'[g] = handler[g]
      BY <1>0, <2>2, DeliversPending
    <3> QED
      BY <2>5, <3>1, <3>2, <3>3, <3>4, <3>5, <3>6, PendingKept
  <2>7. DOMAIN order' = DOMAIN order
    BY <2>2
  <2> QED
    BY <1>0, <2>2, <2>4, <2>6, <2>7, DeliversPending, SeenInvKept
<1>4. ~WriteItem(h) /\ ~RemoveOrder(h) /\ ~Load(h) /\ ~Save(h) /\ ~Fail(h)
  BY <1>0 DEF WriteItem, RemoveOrder, Load, Save, Fail, SeenInv, Behind
<1> QED
  BY <1>1, <1>2, <1>3, <1>4 DEF Goon

LEMMA SeenStep ==
    ASSUME Rereads, TickInv, SeenInv, [Next]_vars
    PROVE  SeenInv'
<1>1. ~Restart
  BY DEF Restart, Rereads
<1>2. CASE UNCHANGED vars
  BY <1>2 DEF vars, SeenInv, Pending, AllPrepared, ItemsOf
<1> QED
  BY <1>1, <1>2, ArriveKeepsSeenInv, GoonKeepsSeenInv DEF Next

\* Between requests that tick items and read their orders again afterwards, an order is
\* delivered exactly when all its items are prepared: of the requests that ticked its
\* last items, the one that reads last has seen them all.
THEOREM RereadingAgrees ==
    ASSUME \A k \in Workloads : k \subseteq {"item", "order", "period"} => "item" \notin k
    PROVE  Spec => []DeliveredIffPrepared
<1> DEFINE Inv == Rereads => TickInv /\ SeenInv
<1>1. Init => kinds \in Workloads /\ Inv
  BY TickInit DEF Init, SeenInv, Idle
<1>2. kinds \in Workloads /\ Inv /\ [Next]_vars => (kinds \in Workloads /\ Inv)'
  <2> SUFFICES ASSUME kinds \in Workloads, Inv, [Next]_vars PROVE (kinds \in Workloads /\ Inv)'
    OBVIOUS
  <2>1. UNCHANGED kinds
    BY KindsStay
  <2>2. Rereads => OnlyTicks
    BY DEF Rereads, OnlyTicks
  <2>3. Rereads => TickInv' /\ SeenInv'
    BY <2>2, TickStep, SeenStep
  <2> QED
    BY <2>1, <2>3 DEF Rereads
<1>3. kinds \in Workloads /\ Inv => DeliveredIffPrepared
  <2> SUFFICES ASSUME kinds \in Workloads, Inv, OnlyTicks, "restart" \notin kinds, Quiet,
                      NEW o \in DOMAIN order
               PROVE  order[o] = Every(PreparedIn(o))
    BY DEF DeliveredIffPrepared
  <2>0. TickInv /\ SeenInv
    <3>1. kinds \subseteq {"item", "order", "period"}
      BY DEF OnlyTicks
    <3>2. "item" \notin kinds
      BY <3>1
    <3> QED
      BY <3>1, <3>2 DEF Rereads
  <2>1. \A h \in Handlers : ~Pending(h, o)
    BY DEF Quiet, Pending, Idle
  <2>2. order[o] <=> AllPrepared(o)
    BY <2>0, <2>1 DEF TickInv, SeenInv, DeliveredPrepared
  <2>3. order[o] \in BOOLEAN
    BY <2>0 DEF TickInv
  <2>4. Every(PreparedIn(o)) \in BOOLEAN
    BY DEF Every
  <2> QED
    BY <2>2, <2>3, <2>4, EveryPrepared
<1> QED
  BY <1>1, <1>2, <1>3, PTL DEF Spec
-----------------------------------------------------------------------------
(* Types *)

RowsTyped ==
    /\ order \in Partial(Orders, BOOLEAN)
    /\ item \in Partial(Items, ItemRow)
    /\ \A i \in DOMAIN item : item[i].order \in DOMAIN order
    /\ gone \subseteq Orders \cup Items

\* An order is saved with items that were its own.
OwnItems(r) ==
    r.at \in {"load", "save"} => \A i \in DOMAIN r.want : r.want[i].order = r.order

TypeInv == TypeOK /\ \A h \in Handlers : OwnItems(handler[h])

LEMMA PartialFunction ==
    ASSUME NEW S, NEW T, NEW f
    PROVE  f \in Partial(S, T) <=> DOMAIN f \subseteq S /\ f \in [DOMAIN f -> T]
BY DEF Partial

LEMMA NotedTypes ==
    ASSUME TypeOK, NEW h \in Handlers, Noted(h)
    PROVE  kinds' \in Workloads /\ stale' \in [Handlers -> SUBSET Orders]
<1> DEFINE changed == {o \in Orders : RowsOf(o)' # RowsOf(o)}
<1>1. changed \subseteq Orders
  OBVIOUS
<1>2. stale' = [g \in Handlers |->
                  IF handler[g] = Idle \/ handler'[g] = Idle THEN {}
                  ELSE IF g = h THEN stale[g] ELSE stale[g] \cup changed]
  BY DEF Noted
<1> HIDE DEF changed
<1>3. stale \in [Handlers -> SUBSET Orders] /\ kinds \in Workloads
  BY DEF TypeOK
<1> QED
  BY <1>1, <1>2, <1>3 DEF Noted

\* What is left to show when one request moves.
LEMMA TypesKept ==
    ASSUME TypeInv, RowsTyped', NEW h \in Handlers, NEW r \in {Idle} \cup Busy,
           OwnItems(r), Goes(h, r), Noted(h)
    PROVE  TypeInv'
<1>1. handler' \in [Handlers -> {Idle} \cup Busy]
  BY DEF TypeInv, TypeOK, Goes
<1>2. \A g \in Handlers : handler'[g] = IF g = h THEN r ELSE handler[g]
  BY DEF TypeInv, TypeOK, Goes
<1>3. \A g \in Handlers : OwnItems(handler'[g])
  BY <1>2 DEF TypeInv
<1>4. kinds' \in Workloads /\ stale' \in [Handlers -> SUBSET Orders]
  BY NotedTypes DEF TypeInv
<1> QED
  BY <1>1, <1>3, <1>4 DEF TypeInv, TypeOK, RowsTyped

LEMMA IdleKeepsTypes ==
    ASSUME TypeInv, RowsTyped', NEW h \in Handlers, Ends(h), Noted(h)
    PROVE  TypeInv'
<1>1. OwnItems(Idle)
  BY DEF OwnItems, Idle
<1> QED
  BY <1>1, TypesKept DEF Ends

LEMMA DeliversKeepsTypes ==
    ASSUME TypeInv, RowsTyped', NEW h \in Handlers, NEW todo \in Partial(Orders, BOOLEAN),
           Delivers(h, todo), Noted(h)
    PROVE  TypeInv'
<1> DEFINE r == [at |-> "deliver", todo |-> todo]
<1>1. r \in Busy /\ OwnItems(r)
  BY DEF Busy, OwnItems
<1>2. CASE Goes(h, r)
  BY <1>1, <1>2, TypesKept
<1>3. CASE Ends(h)
  BY <1>3, IdleKeepsTypes
<1> QED
  BY <1>2, <1>3 DEF Delivers

LEMMA ChangesTyped ==
    ASSUME NEW S, S \subseteq Orders, NEW every, NEW delivered,
           \A o \in S : every[o] \in BOOLEAN
    PROVE  Changes(S, every, delivered) \in Partial(Orders, BOOLEAN)
<1>1. DOMAIN Changes(S, every, delivered) \subseteq S
  BY DEF Changes
<1>2. Changes(S, every, delivered) \in [DOMAIN Changes(S, every, delivered) -> BOOLEAN]
  BY DEF Changes
<1> QED
  BY <1>1, <1>2, PartialFunction

\* The rows when their items only get other marks.
LEMMA MarksKeepRows ==
    ASSUME RowsTyped, UNCHANGED <<order, gone>>, NEW T, NEW b \in BOOLEAN,
           item' = [j \in DOMAIN item |->
                       IF j \in T THEN [item[j] EXCEPT !.prepared = b] ELSE item[j]]
    PROVE  RowsTyped'
<1>1. DOMAIN item \subseteq Items /\ item \in [DOMAIN item -> ItemRow]
  BY PartialFunction DEF RowsTyped
<1>2. \A j \in DOMAIN item : item'[j] \in ItemRow /\ item'[j].order = item[j].order
  BY <1>1 DEF ItemRow
<1>3. DOMAIN item' = DOMAIN item /\ item' \in [DOMAIN item' -> ItemRow]
  BY <1>2
<1>4. item' \in Partial(Items, ItemRow)
  BY <1>1, <1>3, PartialFunction
<1> QED
  BY <1>2, <1>3, <1>4 DEF RowsTyped

\* The rows when some are deleted, and with each order its items.
LEMMA FewerRows ==
    ASSUME RowsTyped, NEW O, NEW I,
           order' = [x \in DOMAIN order \ O |-> order[x]],
           item' = [i \in DOMAIN item \ I |-> item[i]],
           \A i \in DOMAIN item \ I : item[i].order \notin O,
           gone' \subseteq Orders \cup Items
    PROVE  RowsTyped'
<1>1. /\ DOMAIN order \subseteq Orders /\ order \in [DOMAIN order -> BOOLEAN]
      /\ DOMAIN item \subseteq Items /\ item \in [DOMAIN item -> ItemRow]
  BY PartialFunction DEF RowsTyped
<1>2. order' \in Partial(Orders, BOOLEAN)
  <2>1. DOMAIN order' \subseteq Orders /\ order' \in [DOMAIN order' -> BOOLEAN]
    BY <1>1
  <2> QED
    BY <2>1, PartialFunction
<1>3. item' \in Partial(Items, ItemRow)
  <2>1. DOMAIN item' \subseteq Items /\ item' \in [DOMAIN item' -> ItemRow]
    BY <1>1
  <2> QED
    BY <2>1, PartialFunction
<1> QED
  BY <1>2, <1>3 DEF RowsTyped

LEMMA ArriveKeepsTypes ==
    ASSUME TypeInv, NEW h \in Handlers, Arrive(h)
    PROVE  TypeInv'
<1>0. /\ RowsTyped
      /\ DOMAIN order \subseteq Orders /\ order \in [DOMAIN order -> BOOLEAN]
      /\ DOMAIN item \subseteq Items /\ item \in [DOMAIN item -> ItemRow]
      /\ Noted(h)
  BY PartialFunction DEF RowsTyped, TypeInv, TypeOK, Arrive
<1>a. ASSUME RowsTyped', UNCHANGED handler PROVE TypeInv'
  BY <1>0, <1>a, NotedTypes DEF TypeInv, TypeOK, RowsTyped, OwnItems
<1>b. ASSUME UNCHANGED <<order, item, gone>> PROVE RowsTyped'
  BY <1>0, <1>b DEF RowsTyped
<1>1. ASSUME NEW p \in Periods, NEW b \in BOOLEAN, WritePeriod(h, p, b) PROVE TypeInv'
  <2>2. RowsTyped'
    <3> DEFINE T == {j \in DOMAIN item : item[j].period = p}
    <3>1. item' = [j \in DOMAIN item |->
                      IF j \in T THEN [item[j] EXCEPT !.prepared = b] ELSE item[j]]
      BY <1>1 DEF WritePeriod
    <3> HIDE DEF T
    <3> QED
      BY <1>0, <1>1, <3>1, MarksKeepRows DEF WritePeriod
  <2>3. [at |-> "sweep"] \in Busy /\ OwnItems([at |-> "sweep"])
    BY DEF Busy, OwnItems
  <2> QED
    BY <1>0, <1>1, <2>2, <2>3, TypesKept, IdleKeepsTypes DEF WritePeriod
<1>2. ASSUME NEW o \in Orders, NEW line \in Partial(Items, Periods), Create(h, o, line)
      PROVE  TypeInv'
  <2>1. DOMAIN line \subseteq Items /\ line \in [DOMAIN line -> Periods]
    BY PartialFunction
  <2>2. DOMAIN order' = DOMAIN order \cup {o} /\ order' \in [DOMAIN order' -> BOOLEAN]
    BY <1>0, <1>2 DEF Create
  <2>3. /\ DOMAIN item' = DOMAIN item \cup DOMAIN line
        /\ \A i \in DOMAIN item' : item'[i] \in ItemRow /\ item'[i].order \in DOMAIN order'
    BY <1>0, <1>2, <2>1, <2>2 DEF Create, ItemRow, RowsTyped
  <2>4. item' \in [DOMAIN item' -> ItemRow]
    BY <1>2, <2>3 DEF Create
  <2>5. order' \in Partial(Orders, BOOLEAN)
    BY <1>0, <2>2, PartialFunction
  <2>6. item' \in Partial(Items, ItemRow)
    BY <1>0, <2>1, <2>3, <2>4, PartialFunction
  <2> QED
    BY <1>0, <1>2, <1>a, <2>3, <2>5, <2>6 DEF Create, RowsTyped
<1>3. ASSUME NEW o \in Orders, Delete(h, o) PROVE TypeInv'
  <2>1. gone' \subseteq Orders \cup Items
    BY <1>0, <1>3 DEF Delete, ItemsOf, RowsTyped
  <2>2. \A i \in DOMAIN item \ ItemsOf(o) : item[i].order \notin {o}
    BY DEF ItemsOf
  <2>3. RowsTyped'
    BY <1>0, <1>3, <2>1, <2>2, FewerRows DEF Delete
  <2> QED
    BY <1>3, <1>a, <2>3 DEF Delete
<1>5. ASSUME NEW o \in Orders, NEW i \in Items, NEW b \in BOOLEAN, ReadForItem(h, o, i, b)
      PROVE  TypeInv'
  <2>1. PreparedIn(o) \in Partial(Items, BOOLEAN)
    <3>1. /\ DOMAIN PreparedIn(o) \subseteq Items
          /\ PreparedIn(o) \in [DOMAIN PreparedIn(o) -> BOOLEAN]
      BY <1>0 DEF PreparedIn, ItemsOf, ItemRow
    <3> QED
      BY <3>1, PartialFunction
  <2> DEFINE r == [at |-> "item", order |-> o, item |-> i, to |-> b,
                   prepared |-> PreparedIn(o), delivered |-> order[o]]
  <2>2. r \in Busy /\ OwnItems(r)
    BY <1>0, <1>5, <2>1 DEF Busy, OwnItems, ReadForItem
  <2> QED
    BY <1>0, <1>5, <1>b, <2>2, TypesKept DEF ReadForItem
<1>6. ASSUME NEW o \in Orders, NEW p \in Periods, NEW b \in BOOLEAN, ReadForOrder(h, o, p, b)
      PROVE  TypeInv'
  <2> DEFINE r == [at |-> "items", order |-> o, items |-> ItemsIn(o, p), to |-> b]
  <2>1. r \in Busy /\ OwnItems(r)
    BY <1>0 DEF Busy, OwnItems, ItemsIn, ItemsOf
  <2> QED
    BY <1>0, <1>6, <1>b, <2>1, TypesKept DEF ReadForOrder
<1>7. ASSUME NEW o \in Orders, NEW to \in BOOLEAN, NEW S, S \subseteq ItemsOf(o),
             NEW D, D \subseteq ItemsOf(o), Saves(h, o, to, S, D)
      PROVE  TypeInv'
  <2> DEFINE want == Only(item, S)
             r == [at |-> "load", order |-> o, to |-> to, want |-> want, removed |-> D]
  <2>1. want \in Partial(Items, ItemRow) /\ \A i \in DOMAIN want : want[i].order = o
    <3>1. DOMAIN want \subseteq Items /\ want \in [DOMAIN want -> ItemRow]
      BY <1>0 DEF Only
    <3>2. \A i \in DOMAIN want : want[i].order = o
      BY <1>7 DEF Only, ItemsOf
    <3> HIDE DEF want
    <3> QED
      BY <3>1, <3>2, PartialFunction
  <2>2. r \in Busy /\ OwnItems(r)
    <3>1. D \subseteq Items
      BY <1>0, <1>7 DEF ItemsOf
    <3> HIDE DEF want
    <3> QED
      BY <1>7, <2>1, <3>1 DEF Busy, OwnItems
  <2> QED
    BY <1>0, <1>7, <1>b, <2>2, TypesKept DEF Saves
<1>8. ASSUME NEW o \in Orders, NEW b \in BOOLEAN, ReadForDelivery(h, o, b) PROVE TypeInv'
  BY <1>7, <1>8 DEF ReadForDelivery
<1>9. ASSUME NEW o \in Orders, ReadForUpdate(h, o) PROVE TypeInv'
  <2>1. order[o] \in BOOLEAN
    BY <1>0, <1>9 DEF ReadForUpdate
  <2> QED
    BY <1>7, <1>9, <2>1 DEF ReadForUpdate
<1>10. ASSUME NEW o \in Orders, NEW i \in Items, ReadForDelete(h, o, i) PROVE TypeInv'
  <2>1. CASE ItemsOf(o) # {i}
    <3>1. order[o] \in BOOLEAN /\ {i} \subseteq ItemsOf(o)
      BY <1>0, <1>10, <2>1 DEF ReadForDelete
    <3>2. Saves(h, o, order[o], ItemsOf(o) \ {i}, {i})
      BY <1>10, <2>1 DEF ReadForDelete
    <3> QED
      BY <1>7, <3>1, <3>2
  <2>2. CASE ItemsOf(o) = {i}
    <3>1. /\ [at |-> "removeOrder", order |-> o] \in Busy
          /\ OwnItems([at |-> "removeOrder", order |-> o])
      BY DEF Busy, OwnItems
    <3> QED
      BY <1>0, <1>10, <1>b, <2>2, <3>1, TypesKept DEF ReadForDelete
  <2> QED
    BY <2>1, <2>2
<1> QED
  BY <1>1, <1>2, <1>3, <1>5, <1>6, <1>8, <1>9, <1>10 DEF Arrive

LEMMA GoonKeepsTypes ==
    ASSUME TypeInv, NEW h \in Handlers, Goon(h)
    PROVE  TypeInv'
<1>0. /\ RowsTyped
      /\ DOMAIN order \subseteq Orders /\ order \in [DOMAIN order -> BOOLEAN]
      /\ DOMAIN item \subseteq Items /\ item \in [DOMAIN item -> ItemRow]
      /\ handler[h] \in {Idle} \cup Busy
      /\ Noted(h)
  BY PartialFunction DEF RowsTyped, TypeInv, TypeOK, Goon
<1>b. ASSUME UNCHANGED <<order, item, gone>> PROVE RowsTyped'
  BY <1>0, <1>b DEF RowsTyped
<1>c. \A o : Every(PreparedIn(o)) \in BOOLEAN
  BY DEF Every
<1>1. CASE WriteItem(h)
  <2> DEFINE r == handler[h]
             prepared == [r.prepared EXCEPT ![r.item] = r.to]
             every == [o \in {r.order} |-> Every(prepared)]
             todo == Changes({r.order}, every, [o \in {r.order} |-> r.delivered])
  <2>1. r.order \in Orders /\ r.to \in BOOLEAN
    BY <1>0, <1>1 DEF WriteItem, Busy, Idle
  <2>2. RowsTyped'
    <3>1. item' = [j \in DOMAIN item |->
                     IF j \in {r.item} THEN [item[j] EXCEPT !.prepared = r.to] ELSE item[j]]
      BY <1>1 DEF WriteItem
    <3> QED
      BY <1>0, <1>1, <2>1, <3>1, MarksKeepRows DEF WriteItem
  <2>3. todo \in Partial(Orders, BOOLEAN)
    <3>1. \A o \in {r.order} : every[o] \in BOOLEAN
      BY DEF Every
    <3> HIDE DEF every
    <3> QED
      BY <2>1, <3>1, ChangesTyped
  <2>4. Delivers(h, todo)
    BY <1>1 DEF WriteItem
  <2> HIDE DEF todo
  <2> QED
    BY <1>0, <2>3, <2>2, <2>4, DeliversKeepsTypes
<1>2. CASE WriteItems(h)
  <2> DEFINE r == handler[h]
             s == [at |-> "reread", order |-> r.order]
  <2>1. r.order \in Orders /\ r.to \in BOOLEAN
    BY <1>0, <1>2 DEF WriteItems, Busy, Idle
  <2>2. RowsTyped'
    BY <1>0, <1>2, <2>1, MarksKeepRows DEF WriteItems
  <2>3. s \in Busy /\ OwnItems(s)
    BY <2>1 DEF Busy, OwnItems
  <2> QED
    BY <1>0, <1>2, <2>2, <2>3, TypesKept DEF WriteItems
<1>3. CASE Reread(h)
  <2> DEFINE o == handler[h].order
             every == [x \in {o} |-> Every(PreparedIn(x))]
  <2>1. \A x \in {o} \cap DOMAIN order : every[x] \in BOOLEAN
    BY <1>c
  <2>2. {o} \cap DOMAIN order \subseteq Orders
    BY <1>0
  <2>3. Changes({o} \cap DOMAIN order, every, order) \in Partial(Orders, BOOLEAN)
    <3> HIDE DEF every
    <3> QED
      BY <2>1, <2>2, ChangesTyped
  <2> QED
    BY <1>0, <1>3, <1>b, <2>3, DeliversKeepsTypes DEF Reread
<1>4. CASE Sweep(h)
  <2> DEFINE every == [x \in DOMAIN order |-> ItemsOf(x) # {} /\ Every(PreparedIn(x))]
  <2>1. \A x \in DOMAIN order : every[x] \in BOOLEAN
    OBVIOUS
  <2>2. Changes(DOMAIN order, every, order) \in Partial(Orders, BOOLEAN)
    <3> HIDE DEF every
    <3> QED
      BY <1>0, <2>1, ChangesTyped
  <2> QED
    BY <1>0, <1>4, <1>b, <2>2, DeliversKeepsTypes DEF Sweep
<1>5. ASSUME NEW o \in Orders, Deliver(h, o) PROVE TypeInv'
  <2> DEFINE todo == handler[h].todo
             left == [x \in DOMAIN todo \ {o} |-> todo[x]]
  <2>0. todo \in Partial(Orders, BOOLEAN)
    BY <1>0, <1>5 DEF Deliver, Busy, Idle
  <2>1. DOMAIN todo \subseteq Orders /\ todo \in [DOMAIN todo -> BOOLEAN]
    BY <2>0, PartialFunction
  <2>2. DOMAIN order' = DOMAIN order /\ order' \in [DOMAIN order' -> BOOLEAN]
    BY <1>0, <1>5, <2>1 DEF Deliver
  <2>3. RowsTyped'
    <3>1. order' \in Partial(Orders, BOOLEAN)
      BY <1>0, <2>2, PartialFunction
    <3> QED
      BY <1>0, <1>5, <2>2, <3>1 DEF Deliver, RowsTyped
  <2>4. left \in Partial(Orders, BOOLEAN)
    <3>1. DOMAIN left \subseteq Orders /\ left \in [DOMAIN left -> BOOLEAN]
      BY <2>1
    <3> QED
      BY <3>1, PartialFunction
  <2> QED
    BY <1>0, <1>5, <2>3, <2>4, DeliversKeepsTypes DEF Deliver
<1>6. CASE RemoveOrder(h)
  <2>0. PICK o : o = handler[h].order
    OBVIOUS
  <2>1. /\ order' = [x \in DOMAIN order \ {o} |-> order[x]]
        /\ item' = [i \in DOMAIN item \ ItemsOf(o) |-> item[i]]
    <3>1. DOMAIN order \cap (Orders \ {o}) = DOMAIN order \ {o}
      BY <1>0
    <3>2. DOMAIN item \cap (Items \ ItemsOf(o)) = DOMAIN item \ ItemsOf(o)
      BY <1>0
    <3> QED
      BY <1>6, <2>0, <3>1, <3>2 DEF RemoveOrder, Only
  <2>2. gone' \subseteq Orders \cup Items
    BY <1>0, <1>6 DEF RemoveOrder, ItemsOf, RowsTyped
  <2>3. \A i \in DOMAIN item \ ItemsOf(o) : item[i].order \notin {o}
    BY DEF ItemsOf
  <2>4. RowsTyped'
    BY <1>0, <2>1, <2>2, <2>3, FewerRows
  <2> QED
    BY <1>0, <1>6, <2>4, IdleKeepsTypes DEF RemoveOrder
<1>7. CASE Load(h)
  <2>0. PICK r : r = handler[h]
    OBVIOUS
  <2>1. /\ r.order \in Orders /\ r.to \in BOOLEAN /\ r.want \in Partial(Items, ItemRow)
        /\ r.at = "load"
    BY <1>0, <1>7, <2>0 DEF Load, Busy, Idle
  <2>2. \A i \in DOMAIN r.want : r.want[i].order = r.order
    BY <2>0, <2>1 DEF TypeInv, OwnItems
  <2> DEFINE was == Only(order, {r.order})
             seen == Only(item, ItemsOf(r.order) \ r.removed)
             D == r.removed \cap ItemsOf(r.order)
             s == [at |-> "save", order |-> r.order, to |-> r.to, want |-> r.want,
                   removed |-> D, was |-> was, seen |-> seen]
  <2>3. was \in Partial(Orders, BOOLEAN)
    <3>1. DOMAIN was \subseteq Orders /\ was \in [DOMAIN was -> BOOLEAN]
      BY <1>0 DEF Only
    <3> HIDE DEF was
    <3> QED
      BY <3>1, PartialFunction
  <2>4. seen \in Partial(Items, ItemRow)
    <3>1. DOMAIN seen \subseteq Items /\ seen \in [DOMAIN seen -> ItemRow]
      BY <1>0 DEF Only
    <3> HIDE DEF seen
    <3> QED
      BY <3>1, PartialFunction
  <2>5. D \subseteq Items
    BY <1>0 DEF ItemsOf
  <2>6. Goes(h, s) /\ UNCHANGED <<order, item, gone>>
    BY <1>7, <2>0 DEF Load
  <2>7. s \in Busy /\ OwnItems(s)
    <3> HIDE DEF was, seen, D
    <3> QED
      BY <2>1, <2>2, <2>3, <2>4, <2>5 DEF Busy, OwnItems
  <2> QED
    BY <1>0, <1>b, <2>6, <2>7, TypesKept
<1>8. CASE Save(h)
  <2>0. PICK r : r = handler[h]
    OBVIOUS
  <2>1. /\ r.order \in Orders /\ r.to \in BOOLEAN /\ r.want \in Partial(Items, ItemRow)
        /\ r.at = "save" /\ r.was \in Partial(Orders, BOOLEAN)
        /\ r.seen \in Partial(Items, ItemRow)
    BY <1>0, <1>8, <2>0 DEF Save, Busy, Idle
  <2>2. \A i \in DOMAIN r.want : r.want[i].order = r.order
    BY <2>0, <2>1 DEF TypeInv, OwnItems
  <2>3. /\ DOMAIN r.want \subseteq Items /\ r.want \in [DOMAIN r.want -> ItemRow]
        /\ DOMAIN r.seen \subseteq Items /\ r.seen \in [DOMAIN r.seen -> ItemRow]
    BY <2>1, PartialFunction
  <2>4. ~Refused(r) /\ order' = SavedOrder(r) /\ item' = SavedItem(r)
    BY <1>8, <2>0 DEF Save
  <2> DEFINE new == DOMAIN r.want \ DOMAIN r.seen
  <2>5. /\ DOMAIN order' = DOMAIN order \cup ({r.order} \ DOMAIN r.was)
        /\ order' \in [DOMAIN order' -> BOOLEAN]
    BY <1>0, <2>1, <2>4 DEF SavedOrder
  <2>6. new # {} => r.order \in DOMAIN order'
    BY <2>4, <2>5 DEF Refused
  <2>7. /\ DOMAIN item' = (DOMAIN item \ r.removed) \cup new
        /\ item' = [i \in DOMAIN item' |-> item'[i]]
    BY <2>4 DEF SavedItem
  <2>8. ASSUME NEW i \in DOMAIN item'
        PROVE  item'[i] \in ItemRow /\ item'[i].order \in DOMAIN order'
    <3>1. CASE i \in new
      <4>1. item'[i] = r.want[i]
        BY <2>4, <2>7, <3>1 DEF SavedItem
      <4> QED
        BY <2>2, <2>3, <2>6, <3>1, <4>1
    <3>2. CASE i \notin new
      <4>1. i \in DOMAIN item /\ item[i] \in ItemRow /\ item[i].order \in DOMAIN order
        BY <1>0, <2>7, <2>8, <3>2 DEF RowsTyped
      <4>2. \/ item'[i] = item[i]
            \/ i \in DOMAIN r.want /\ item'[i] = [item[i] EXCEPT !.prepared = r.want[i].prepared]
        BY <2>4, <2>7, <3>2 DEF SavedItem
      <4>3. i \in DOMAIN r.want => r.want[i].prepared \in BOOLEAN
        BY <2>3 DEF ItemRow
      <4>4. item'[i] \in ItemRow /\ item'[i].order = item[i].order
        BY <4>1, <4>2, <4>3 DEF ItemRow
      <4> QED
        BY <2>5, <4>1, <4>4
    <3> QED
      BY <3>1, <3>2
  <2>9. order' \in Partial(Orders, BOOLEAN)
    <3>1. DOMAIN order' \subseteq Orders
      BY <1>0, <2>1, <2>5
    <3> QED
      BY <2>5, <3>1, PartialFunction
  <2>10. item' \in Partial(Items, ItemRow)
    <3>1. DOMAIN item' \subseteq Items
      BY <1>0, <2>3, <2>7
    <3>2. item' \in [DOMAIN item' -> ItemRow]
      BY <2>7, <2>8
    <3> QED
      BY <3>1, <3>2, PartialFunction
  <2>11. gone' \subseteq Orders \cup Items
    BY <1>0, <1>8 DEF Save, RowsTyped
  <2>12. RowsTyped'
    BY <2>8, <2>9, <2>10, <2>11 DEF RowsTyped
  <2> QED
    BY <1>0, <1>8, <2>12, IdleKeepsTypes DEF Save
<1>9. CASE Fail(h)
  BY <1>0, <1>9, <1>b, IdleKeepsTypes DEF Fail
<1> QED
  BY <1>1, <1>2, <1>3, <1>4, <1>5, <1>6, <1>7, <1>8, <1>9 DEF Goon

\* Rows and requests keep their types, and no item is ever without its order, whatever
\* requests save what they read, in whatever order, with restarts at any time.
THEOREM PreparationTypes == Spec => []TypeOK
<1>1. Init => TypeInv
  <2> SUFFICES ASSUME Init PROVE TypeInv
    OBVIOUS
  <2>1. order \in Partial(Orders, BOOLEAN)
    BY PartialFunction DEF Init
  <2>2. item \in Partial(Items, ItemRow)
    BY PartialFunction DEF Init
  <2> QED
    BY <2>1, <2>2 DEF Init, TypeInv, TypeOK, OwnItems, Idle
<1>2. TypeInv /\ [Next]_vars => TypeInv'
  <2> SUFFICES ASSUME TypeInv, [Next]_vars PROVE TypeInv'
    OBVIOUS
  <2>1. CASE Restart
    BY <2>1 DEF Restart, TypeInv, TypeOK, OwnItems, Idle
  <2>2. CASE UNCHANGED vars
    BY <2>2 DEF vars, TypeInv, TypeOK, OwnItems
  <2> QED
    BY <2>1, <2>2, ArriveKeepsTypes, GoonKeepsTypes DEF Next
<1> QED
  BY <1>1, <1>2, PTL DEF Spec, TypeInv
-----------------------------------------------------------------------------
(* Requests that nobody disturbs *)

\* What a request has read of an order that nobody else changed, and what it has left to
\* write to it, is what the rows say.
UpToDate(h) ==
    /\ handler[h].at = "item" /\ handler[h].order \notin stale[h] =>
          /\ handler[h].order \in DOMAIN order
          /\ handler[h].item \in ItemsOf(handler[h].order)
          /\ handler[h].prepared = PreparedIn(handler[h].order)
          /\ handler[h].delivered = order[handler[h].order]
    /\ handler[h].at = "deliver" =>
          \A o \in DOMAIN handler[h].todo \ stale[h] :
             ItemsOf(o) # {} => handler[h].todo[o] = Every(PreparedIn(o))

FreshInv == \A h \in Handlers : UpToDate(h)

\* Marks give no order another item and take none away.
LEMMA MarksKeepItems ==
    ASSUME RowsTyped, NEW T, NEW b,
           item' = [j \in DOMAIN item |->
                       IF j \in T THEN [item[j] EXCEPT !.prepared = b] ELSE item[j]]
    PROVE  \A o : ItemsOf(o)' = ItemsOf(o)
<1>1. item \in [DOMAIN item -> ItemRow]
  BY PartialFunction DEF RowsTyped
<1>2. DOMAIN item' = DOMAIN item /\ \A j \in DOMAIN item : item'[j].order = item[j].order
  BY <1>1 DEF ItemRow
<1> QED
  BY <1>2 DEF ItemsOf

\* The same order, with the same items, is as much prepared and delivered as before.
LEMMA SameRowsAgree ==
    ASSUME NEW o, RowsOf(o)' = RowsOf(o)
    PROVE  /\ ItemsOf(o)' = ItemsOf(o) /\ PreparedIn(o)' = PreparedIn(o)
           /\ o \in DOMAIN order => o \in DOMAIN order' /\ order'[o] = order[o]
<1>1. Only(order, {o})' = Only(order, {o}) /\ Only(item, ItemsOf(o))' = Only(item, ItemsOf(o))
  BY DEF RowsOf
<1>2. DOMAIN Only(item, ItemsOf(o)) = ItemsOf(o) /\ DOMAIN Only(item, ItemsOf(o))' = ItemsOf(o)'
  BY DEF Only, ItemsOf
<1>3. ItemsOf(o)' = ItemsOf(o)
  BY <1>1, <1>2
<1>4. ASSUME NEW i \in ItemsOf(o) PROVE item'[i] = item[i]
  <2>1. Only(item, ItemsOf(o))[i] = item[i]
    BY <1>4 DEF Only, ItemsOf
  <2>2. Only(item, ItemsOf(o))'[i] = item'[i]
    BY <1>3, <1>4 DEF Only, ItemsOf
  <2> QED
    BY <1>1, <2>1, <2>2
<1>5. PreparedIn(o)' = PreparedIn(o)
  BY <1>3, <1>4 DEF PreparedIn
<1>6. o \in DOMAIN order => o \in DOMAIN order' /\ order'[o] = order[o]
  <2> SUFFICES ASSUME o \in DOMAIN order PROVE o \in DOMAIN order' /\ order'[o] = order[o]
    OBVIOUS
  <2>1. DOMAIN Only(order, {o}) = {o} /\ Only(order, {o})[o] = order[o]
    BY DEF Only
  <2>2. DOMAIN Only(order, {o})' = DOMAIN order' \cap {o}
    BY DEF Only
  <2>3. o \in DOMAIN order'
    BY <1>1, <2>1, <2>2
  <2>4. Only(order, {o})'[o] = order'[o]
    BY <2>3 DEF Only
  <2> QED
    BY <1>1, <2>1, <2>3, <2>4
<1> QED
  BY <1>3, <1>5, <1>6

\* The requests that do not move stay up to date, but for the orders that get stale.
LEMMA OthersStayUpToDate ==
    ASSUME TypeOK, FreshInv, NEW h \in Handlers, Noted(h), NEW g \in Handlers \ {h},
           handler'[g] = handler[g]
    PROVE  UpToDate(g)'
<1>0. PICK r : r = handler[g]
  OBVIOUS
<1>1. CASE r = Idle
  BY <1>0, <1>1 DEF UpToDate, Idle
<1>2. CASE r # Idle
  <2>1. stale'[g] = stale[g] \cup {o \in Orders : RowsOf(o)' # RowsOf(o)}
    BY <1>0, <1>2 DEF Noted
  <2>2. \A o \in Orders \ stale'[g] :
           /\ ItemsOf(o)' = ItemsOf(o) /\ PreparedIn(o)' = PreparedIn(o)
           /\ o \in DOMAIN order => o \in DOMAIN order' /\ order'[o] = order[o]
    BY <2>1, SameRowsAgree
  <2>3. r \in {Idle} \cup Busy /\ UpToDate(g)
    BY <1>0 DEF TypeOK, FreshInv
  <2>4. ASSUME r.at = "item", r.order \notin stale'[g]
        PROVE  /\ r.order \in DOMAIN order'
               /\ r.item \in ItemsOf(r.order)'
               /\ r.prepared = PreparedIn(r.order)'
               /\ r.delivered = order'[r.order]
    <3>1. PICK o : o = r.order
      OBVIOUS
    <3>2. o \in Orders \ stale'[g] /\ o \notin stale[g]
      BY <2>1, <2>3, <2>4, <3>1 DEF Busy, Idle
    <3>3. /\ o \in DOMAIN order /\ r.item \in ItemsOf(o) /\ r.prepared = PreparedIn(o)
          /\ r.delivered = order[o]
      BY <1>0, <2>3, <2>4, <3>1, <3>2 DEF UpToDate
    <3>4. ItemsOf(r.order)' = ItemsOf(o)' /\ PreparedIn(r.order)' = PreparedIn(o)'
      BY <3>1 DEF ItemsOf, PreparedIn
    <3> QED
      BY <2>2, <3>1, <3>2, <3>3, <3>4
  <2>5. ASSUME r.at = "deliver", NEW o \in DOMAIN r.todo \ stale'[g], ItemsOf(o)' # {}
        PROVE  r.todo[o] = Every(PreparedIn(o))'
    <3>1. r.todo \in Partial(Orders, BOOLEAN)
      BY <2>3, <2>5 DEF Busy, Idle
    <3>2. o \in Orders
      BY <3>1, PartialFunction
    <3>3. o \notin stale[g] /\ ItemsOf(o)' = ItemsOf(o) /\ PreparedIn(o)' = PreparedIn(o)
      BY <2>1, <2>2, <2>5, <3>2
    <3>4. r.todo[o] = Every(PreparedIn(o))
      BY <1>0, <2>3, <2>5, <3>3 DEF UpToDate
    <3> QED
      BY <3>3, <3>4 DEF Every
  <2>6. handler'[g] = r
    BY <1>0
  <2>7. handler'[g].at = "item" /\ handler'[g].order \notin stale'[g] =>
           /\ handler'[g].order \in DOMAIN order'
           /\ handler'[g].item \in ItemsOf(handler[g].order)'
           /\ handler'[g].prepared = PreparedIn(handler[g].order)'
           /\ handler'[g].delivered = order'[handler'[g].order]
    <3>1. /\ ItemsOf(handler[g].order)' = ItemsOf(r.order)'
          /\ PreparedIn(handler[g].order)' = PreparedIn(r.order)'
      BY <2>6 DEF ItemsOf, PreparedIn
    <3> QED
      BY <2>4, <2>6, <3>1
  <2>8. handler'[g].at = "deliver" =>
           \A o \in DOMAIN handler'[g].todo \ stale'[g] :
              ItemsOf(o)' # {} => handler'[g].todo[o] = Every(PreparedIn(o))'
    BY <2>5, <2>6
  <2> QED
    BY <2>7, <2>8 DEF UpToDate
<1> QED
  BY <1>1, <1>2

\* What is left to show when one request moves.
LEMMA FreshInvKept ==
    ASSUME TypeOK, FreshInv, NEW h \in Handlers, NEW r, Goes(h, r), Noted(h), UpToDate(h)'
    PROVE  FreshInv'
<1>1. \A g \in Handlers \ {h} : handler'[g] = handler[g]
  BY DEF TypeOK, Goes
<1>2. \A g \in Handlers \ {h} : UpToDate(g)'
  BY <1>1, OthersStayUpToDate
<1> QED
  BY <1>2 DEF FreshInv

LEMMA Moves ==
    ASSUME TypeOK, NEW h \in Handlers, NEW r, Goes(h, r)
    PROVE  handler'[h] = r
BY DEF TypeOK, Goes

\* A request that is at no delivery, and has read no items to compare, is up to date.
LEMMA OthersAreUpToDate ==
    ASSUME TypeOK, FreshInv, NEW h \in Handlers, NEW r, Goes(h, r), Noted(h),
           r.at \notin {"item", "deliver"}
    PROVE  FreshInv'
<1>1. UpToDate(h)'
  BY Moves DEF UpToDate
<1> QED
  BY <1>1, FreshInvKept

\* A request that is left with what the items say, if with anything, is up to date.
LEMMA DeliversKeepsFresh ==
    ASSUME TypeOK, FreshInv, NEW h \in Handlers, handler[h] # Idle,
           NEW todo, Delivers(h, todo), Noted(h),
           \A o \in DOMAIN todo \ stale[h] :
              ItemsOf(o)' # {} => todo[o] = Every(PreparedIn(o))'
    PROVE  FreshInv'
<1> DEFINE r == [at |-> "deliver", todo |-> todo]
<1>1. CASE DOMAIN todo = {}
  BY <1>1, OthersAreUpToDate DEF Delivers, Ends, Idle
<1>2. CASE DOMAIN todo # {}
  <2>1. Goes(h, r)
    BY <1>2 DEF Delivers
  <2>2. handler'[h] = r
    BY <2>1, Moves
  <2>3. handler'[h].at = "deliver" /\ handler'[h].todo = todo /\ handler'[h] # Idle
    BY <2>2 DEF Idle
  <2>4. stale'[h] = stale[h]
    BY <2>3 DEF Noted
  <2>5. UpToDate(h)'
    BY <2>3, <2>4 DEF UpToDate
  <2> HIDE DEF r
  <2> QED
    BY <2>1, <2>5, FreshInvKept
<1> QED
  BY <1>1, <1>2

\* The requests that arrive read the rows, or nothing that they compare.
LEMMA ArriveKeepsFresh ==
    ASSUME TypeOK, FreshInv, NEW h \in Handlers, Arrive(h)
    PROVE  FreshInv'
<1>0. Noted(h)
  BY DEF Arrive
<1>a. ASSUME handler[h] = Idle, UNCHANGED handler PROVE FreshInv'
  <2>1. Goes(h, Idle) /\ Idle.at \notin {"item", "deliver"}
    BY <1>a DEF Goes, TypeOK, Idle
  <2> QED
    BY <1>0, <2>1, OthersAreUpToDate
<1>1. ASSUME NEW p, NEW b, WritePeriod(h, p, b) PROVE FreshInv'
  BY <1>0, <1>1, OthersAreUpToDate DEF WritePeriod, Ends, Idle
<1>2. ASSUME NEW o, NEW line, Create(h, o, line) \/ Delete(h, o) PROVE FreshInv'
  BY <1>2, <1>a DEF Create, Delete
<1>3. ASSUME NEW o \in Orders, NEW i, NEW b, ReadForItem(h, o, i, b) PROVE FreshInv'
  <2>0. PICK r : r = [at |-> "item", order |-> o, item |-> i, to |-> b,
                      prepared |-> PreparedIn(o), delivered |-> order[o]]
    OBVIOUS
  <2>1. /\ o \in DOMAIN order /\ i \in ItemsOf(o) /\ Goes(h, r)
        /\ UNCHANGED <<order, item>>
    BY <1>3, <2>0 DEF ReadForItem
  <2>2. /\ r.at = "item" /\ r.order = o /\ r.item = i /\ r.prepared = PreparedIn(o)
        /\ r.delivered = order[o]
    BY <2>0
  <2>3. ItemsOf(o)' = ItemsOf(o) /\ PreparedIn(o)' = PreparedIn(o)
    BY <2>1 DEF ItemsOf, PreparedIn
  <2>4. handler'[h] = r
    BY <2>1, Moves
  <2>5. /\ ItemsOf(handler[h].order)' = ItemsOf(o)
        /\ PreparedIn(handler[h].order)' = PreparedIn(o)
    BY <2>2, <2>3, <2>4 DEF ItemsOf, PreparedIn
  <2>6. UpToDate(h)'
    BY <2>1, <2>2, <2>4, <2>5 DEF UpToDate
  <2> QED
    BY <1>0, <2>1, <2>6, FreshInvKept
<1>4. ASSUME NEW o, NEW p, NEW b, ReadForOrder(h, o, p, b) PROVE FreshInv'
  BY <1>0, <1>4, OthersAreUpToDate DEF ReadForOrder
<1>5. ASSUME NEW o, NEW to, NEW S, NEW D, Saves(h, o, to, S, D) PROVE FreshInv'
  BY <1>0, <1>5, OthersAreUpToDate DEF Saves
<1>6. ASSUME NEW o, NEW b, ReadForDelivery(h, o, b) \/ ReadForUpdate(h, o) PROVE FreshInv'
  BY <1>5, <1>6 DEF ReadForDelivery, ReadForUpdate
<1>7. ASSUME NEW o, NEW i, ReadForDelete(h, o, i) PROVE FreshInv'
  BY <1>0, <1>5, <1>7, OthersAreUpToDate DEF ReadForDelete
<1> QED
  BY <1>1, <1>2, <1>3, <1>4, <1>6, <1>7 DEF Arrive

\* The item that is written, and what was read of the others, is what the items say
\* then, unless somebody changed the order.
LEMMA WriteItemSees ==
    ASSUME TypeOK, NEW h \in Handlers, UpToDate(h), WriteItem(h),
           NEW o, o = handler[h].order
    PROVE  \E every, was :
              /\ Delivers(h, Changes({o}, every, was))
              /\ o \notin stale[h] =>
                    /\ o \in DOMAIN order
                    /\ every = [x \in {o} |-> Every(PreparedIn(o))']
                    /\ was = [x \in {o} |-> order[o]]
<1> DEFINE r == handler[h]
           prepared == [r.prepared EXCEPT ![r.item] = r.to]
           every == [x \in {o} |-> Every(prepared)]
           was == [x \in {o} |-> r.delivered]
<1>1. Delivers(h, Changes({o}, every, was)) /\ r.at = "item"
  BY DEF WriteItem
<1>2. ASSUME o \notin stale[h]
      PROVE  /\ o \in DOMAIN order
             /\ every = [x \in {o} |-> Every(PreparedIn(o))']
             /\ was = [x \in {o} |-> order[o]]
  <2>1. /\ o \in DOMAIN order /\ r.item \in ItemsOf(o)
        /\ r.prepared = PreparedIn(o) /\ r.delivered = order[o]
    BY <1>1, <1>2 DEF UpToDate
  <2>2. item' = [j \in DOMAIN item |->
                    IF j \in {r.item} THEN [item[j] EXCEPT !.prepared = r.to] ELSE item[j]]
    BY DEF WriteItem
  <2>3. ItemsOf(o)' = ItemsOf(o)
    BY <2>2, MarksKeepItems DEF TypeOK, RowsTyped
  <2>4. item \in [DOMAIN item -> ItemRow]
    BY PartialFunction DEF TypeOK
  <2>5. \A i \in ItemsOf(o) :
           item'[i].prepared = IF i = r.item THEN r.to ELSE item[i].prepared
    BY <2>2, <2>4 DEF ItemRow, ItemsOf
  <2>6. prepared = [i \in ItemsOf(o) |-> IF i = r.item THEN r.to ELSE item[i].prepared]
    BY <2>1 DEF PreparedIn
  <2>7. prepared = PreparedIn(o)'
    BY <2>3, <2>5, <2>6 DEF PreparedIn
  <2>8. Every(prepared) = Every(PreparedIn(o))'
    BY <2>7 DEF Every
  <2> HIDE DEF prepared
  <2> QED
    BY <2>1, <2>8
<1> QED
  BY <1>1, <1>2

LEMMA GoonKeepsFresh ==
    ASSUME TypeOK, FreshInv, NEW h \in Handlers, Goon(h)
    PROVE  FreshInv'
<1>0. UpToDate(h) /\ Noted(h)
  BY DEF FreshInv, Goon
<1>a. handler[h].at # "idle" => handler[h] # Idle
  BY DEF Idle
<1>b. ASSUME UNCHANGED item
      PROVE \A x : ItemsOf(x)' = ItemsOf(x) /\ Every(PreparedIn(x))' = Every(PreparedIn(x))
  BY <1>b DEF ItemsOf, Every, PreparedIn
<1>1. CASE WriteItem(h)
  <2>1. PICK o : o = handler[h].order
    OBVIOUS
  <2>2. PICK every, was :
           /\ Delivers(h, Changes({o}, every, was))
           /\ o \notin stale[h] =>
                 /\ every = [x \in {o} |-> Every(PreparedIn(o))']
                 /\ was = [x \in {o} |-> order[o]]
    BY <1>0, <1>1, <2>1, WriteItemSees
  <2> DEFINE todo == Changes({o}, every, was)
  <2>3. \A x \in DOMAIN todo : x = o /\ todo[x] = every[o]
    BY ChangesValue
  <2>4. \A x \in DOMAIN todo \ stale[h] : todo[x] = Every(PreparedIn(x))'
    BY <2>2, <2>3 DEF Every, PreparedIn, ItemsOf
  <2>5. Delivers(h, todo) /\ handler[h] # Idle
    BY <1>1, <1>a, <2>2 DEF WriteItem
  <2> HIDE DEF todo
  <2> QED
    BY <1>0, <2>4, <2>5, DeliversKeepsFresh
<1>2. CASE WriteItems(h)
  BY <1>0, <1>2, OthersAreUpToDate DEF WriteItems
<1>3. CASE Reread(h)
  <2>1. PICK o : o = handler[h].order
    OBVIOUS
  <2> DEFINE every == [x \in {o} |-> Every(PreparedIn(x))]
             todo == Changes({o} \cap DOMAIN order, every, order)
  <2>2. Delivers(h, todo) /\ UNCHANGED item /\ handler[h] # Idle
    BY <1>3, <1>a, <2>1 DEF Reread
  <2>3. \A x \in DOMAIN todo : x \in {o} /\ todo[x] = every[x]
    <3> HIDE DEF every
    <3> QED
      BY ChangesValue
  <2>4. \A x \in DOMAIN todo : todo[x] = Every(PreparedIn(x))
    BY <2>3
  <2>5. \A x \in DOMAIN todo : todo[x] = Every(PreparedIn(x))'
    <3> HIDE DEF todo
    <3> QED
      BY <1>b, <2>2, <2>4
  <2> HIDE DEF todo
  <2> QED
    BY <1>0, <2>2, <2>5, DeliversKeepsFresh
<1>4. CASE Sweep(h)
  <2> DEFINE every == [x \in DOMAIN order |-> ItemsOf(x) # {} /\ Every(PreparedIn(x))]
             todo == Changes(DOMAIN order, every, order)
  <2>1. Delivers(h, todo) /\ UNCHANGED item /\ handler[h] # Idle
    BY <1>4, <1>a DEF Sweep
  <2>2. \A x \in DOMAIN todo : x \in DOMAIN order /\ todo[x] = every[x]
    <3> HIDE DEF every
    <3> QED
      BY ChangesValue
  <2>3. \A x \in DOMAIN order : ItemsOf(x) # {} => every[x] = Every(PreparedIn(x))
    BY DEF Every
  <2>4. \A x \in DOMAIN todo : ItemsOf(x)' # {} => todo[x] = Every(PreparedIn(x))'
    <3> HIDE DEF todo, every
    <3> QED
      BY <1>b, <2>1, <2>2, <2>3
  <2> HIDE DEF todo
  <2> QED
    BY <1>0, <2>1, <2>4, DeliversKeepsFresh
<1>5. ASSUME NEW o \in Orders, Deliver(h, o) PROVE FreshInv'
  <2> DEFINE todo == handler[h].todo
             left == [x \in DOMAIN todo \ {o} |-> todo[x]]
  <2>1. Delivers(h, left) /\ UNCHANGED item /\ handler[h].at = "deliver"
    BY <1>5 DEF Deliver
  <2>2. \A x \in DOMAIN todo \ stale[h] :
           ItemsOf(x) # {} => todo[x] = Every(PreparedIn(x))
    BY <1>0, <2>1 DEF UpToDate
  <2>3. \A x \in DOMAIN left \ stale[h] :
           ItemsOf(x)' # {} => left[x] = Every(PreparedIn(x))'
    BY <1>b, <2>1, <2>2
  <2> HIDE DEF left
  <2> QED
    BY <1>0, <1>a, <2>1, <2>3, DeliversKeepsFresh
<1>6. CASE RemoveOrder(h) \/ Save(h) \/ Fail(h)
  <2>1. Goes(h, Idle) /\ Idle.at \notin {"item", "deliver"}
    BY <1>6 DEF RemoveOrder, Save, Fail, Ends, Idle
  <2> QED
    BY <1>0, <2>1, OthersAreUpToDate
<1>7. CASE Load(h)
  <2>1. \E r : r.at = "save" /\ Goes(h, r)
    BY <1>7 DEF Load
  <2> QED
    BY <1>0, <2>1, OthersAreUpToDate
<1> QED
  BY <1>1, <1>2, <1>3, <1>4, <1>5, <1>6, <1>7 DEF Goon

\* A request that ends had nothing left to write.
LEMMA NothingLeft ==
    ASSUME TypeOK, NEW h \in Handlers, NEW todo, Delivers(h, todo), handler'[h] = Idle
    PROVE  DOMAIN todo = {}
<1> SUFFICES ASSUME DOMAIN todo # {} PROVE FALSE
  OBVIOUS
<1>1. handler'[h] = [at |-> "deliver", todo |-> todo]
  BY DEF Delivers, Goes, TypeOK
<1> QED
  BY <1>1 DEF Idle

\* The statement with which a request ends leaves the order as its items say.
LEMMA LastStatementRepairs ==
    ASSUME TypeOK, FreshInv, NEW h \in Handlers, NEW o \in DOMAIN order \ stale[h],
           ItemsOf(o) # {}, Goon(h), handler[h] # Idle, handler'[h] = Idle,
           \/ handler[h].at \in {"item", "reread"} /\ handler[h].order = o
           \/ handler[h].at = "deliver" /\ o \in DOMAIN handler[h].todo
           \/ handler[h].at = "sweep"
    PROVE  order'[o] = Every(PreparedIn(o))'
<1>0. UpToDate(h)
  BY DEF FreshInv
<1>b. ASSUME UNCHANGED item PROVE \A x : Every(PreparedIn(x))' = Every(PreparedIn(x))
  BY <1>b DEF ItemsOf, Every, PreparedIn
<1>1. CASE WriteItem(h)
  <2>1. handler[h].order = o
    BY <1>1 DEF WriteItem
  <2>2. PICK every, was : /\ every = [x \in {o} |-> Every(PreparedIn(o))']
                          /\ was = [x \in {o} |-> order[o]]
                          /\ Delivers(h, Changes({o}, every, was))
    BY <1>0, <1>1, <2>1, WriteItemSees
  <2> DEFINE todo == Changes({o}, every, was)
  <2>3. DOMAIN todo = {}
    <3> HIDE DEF todo
    <3> QED
      BY <2>2, NothingLeft DEF todo
  <2>4. \A x \in {o} \ DOMAIN todo : every[x] = was[x]
    BY ChangesValue
  <2>5. every[o] = order[o] /\ every[o] = Every(PreparedIn(o))' /\ order' = order
    <3>1. every[o] = was[o]
      <4> HIDE DEF todo
      <4> QED
        BY <2>3, <2>4
    <3> QED
      BY <1>1, <2>2, <3>1 DEF WriteItem
  <2> QED
    BY <2>5
<1>2. CASE WriteItems(h)
  BY <1>2 DEF WriteItems
<1>3. CASE Reread(h)
  <2> DEFINE every == [x \in {o} |-> Every(PreparedIn(x))]
             todo == Changes({o} \cap DOMAIN order, every, order)
  <2>1. handler[h].order = o
    BY <1>3 DEF Reread
  <2>2. Delivers(h, todo) /\ UNCHANGED <<order, item>>
    BY <1>3, <2>1 DEF Reread
  <2>3. DOMAIN todo = {}
    <3> HIDE DEF todo
    <3> QED
      BY <2>2, NothingLeft
  <2>4. every[o] = order[o]
    <3>1. \A x \in ({o} \cap DOMAIN order) \ DOMAIN todo : every[x] = order[x]
      <4> HIDE DEF every
      <4> QED
        BY ChangesValue
    <3> HIDE DEF todo, every
    <3> QED
      BY <2>3, <3>1
  <2>5. every[o] = Every(PreparedIn(o))
    OBVIOUS
  <2> QED
    BY <1>b, <2>2, <2>4, <2>5
<1>4. CASE Sweep(h)
  <2> DEFINE every == [x \in DOMAIN order |-> ItemsOf(x) # {} /\ Every(PreparedIn(x))]
             todo == Changes(DOMAIN order, every, order)
  <2>1. Delivers(h, todo) /\ UNCHANGED <<order, item>>
    BY <1>4 DEF Sweep
  <2>2. DOMAIN todo = {}
    <3> HIDE DEF todo
    <3> QED
      BY <2>1, NothingLeft
  <2>3. every[o] = order[o]
    <3>1. \A x \in DOMAIN order \ DOMAIN todo : every[x] = order[x]
      <4> HIDE DEF every
      <4> QED
        BY ChangesValue
    <3> HIDE DEF todo, every
    <3> QED
      BY <2>2, <3>1
  <2>4. every[o] = Every(PreparedIn(o))
    BY DEF Every
  <2> HIDE DEF every
  <2> QED
    BY <1>b, <2>1, <2>3, <2>4
<1>5. ASSUME NEW x \in Orders, Deliver(h, x) PROVE order'[o] = Every(PreparedIn(o))'
  <2> DEFINE todo == handler[h].todo
             left == [y \in DOMAIN todo \ {x} |-> todo[y]]
  <2>1. /\ handler[h].at = "deliver" /\ x \in DOMAIN todo /\ Delivers(h, left)
        /\ UNCHANGED item
        /\ order' = [y \in DOMAIN order |-> IF y = x THEN todo[x] ELSE order[y]]
    BY <1>5 DEF Deliver
  <2>2. DOMAIN left = {}
    <3> HIDE DEF left
    <3> QED
      BY <2>1, NothingLeft
  <2>3. o \in DOMAIN todo /\ o = x
    BY <2>1, <2>2
  <2>4. todo[o] = Every(PreparedIn(o))
    BY <1>0, <2>1, <2>3 DEF UpToDate
  <2>5. order'[o] = todo[o]
    BY <2>1, <2>3
  <2> QED
    BY <1>b, <2>1, <2>4, <2>5
<1>6. ~RemoveOrder(h) /\ ~Load(h) /\ ~Save(h) /\ ~Fail(h)
  BY DEF RemoveOrder, Load, Save, Fail
<1> QED
  BY <1>1, <1>2, <1>3, <1>4, <1>5, <1>6 DEF Goon

\* The requests that arrive find an idle handler.
LEMMA ArriveIsFirst ==
    ASSUME NEW h, Arrive(h)
    PROVE  handler[h] = Idle
BY DEF Arrive, WritePeriod, Create, Delete, ReadForItem, ReadForOrder, ReadForDelivery,
       ReadForUpdate, ReadForDelete, Saves

\* A step moves one handler only.
LEMMA OneMoves ==
    ASSUME TypeOK, NEW g \in Handlers, Arrive(g) \/ Goon(g)
    PROVE  \A h \in Handlers \ {g} : handler'[h] = handler[h]
<1>1. (\E r : Goes(g, r)) \/ UNCHANGED handler
  BY DEF Arrive, WritePeriod, Create, Delete, ReadForItem, ReadForOrder, ReadForDelivery,
     ReadForUpdate, ReadForDelete, Saves, Goon, WriteItem, WriteItems, Reread, Sweep,
     Deliver, RemoveOrder, Load, Save, Fail, Delivers, Ends
<1> QED
  BY <1>1 DEF Goes, TypeOK

\* For requests of every kind, any interleaving of them and restarts at any time: the
\* order that updateItemPrepared or updateOrderPeriodItemsPrepared ends with, and that
\* nobody else changed since they began, is delivered exactly when all its items are
\* prepared, and so is every such order when updateOrdersDeliveryStatus finds nothing to
\* do.
THEOREM UndisturbedRequestsRepair == Spec => RequestRepairsOrder
<1>1. Init => FreshInv
  BY DEF Init, FreshInv, UpToDate, Idle
<1>2. TypeOK /\ FreshInv /\ [Next]_vars => FreshInv'
  <2> SUFFICES ASSUME TypeOK, FreshInv, [Next]_vars PROVE FreshInv'
    OBVIOUS
  <2>1. CASE Restart
    <3>1. \A h \in Handlers : handler'[h] = Idle
      BY <2>1 DEF Restart
    <3> QED
      BY <3>1 DEF FreshInv, UpToDate, Idle
  <2>2. CASE UNCHANGED vars
    <3>1. UNCHANGED <<order, item, handler, stale>>
      BY <2>2 DEF vars
    <3> SUFFICES ASSUME NEW h \in Handlers PROVE UpToDate(h)'
      BY DEF FreshInv
    <3>2. UpToDate(h)
      BY DEF FreshInv
    <3>3. /\ ItemsOf(handler[h].order)' = ItemsOf(handler[h].order)
          /\ PreparedIn(handler[h].order)' = PreparedIn(handler[h].order)
      BY <3>1 DEF ItemsOf, PreparedIn
    <3>4. \A o : /\ ItemsOf(o)' = ItemsOf(o)
                /\ Every(PreparedIn(o))' = Every(PreparedIn(o))
      BY <3>1 DEF ItemsOf, PreparedIn, Every
    <3> QED
      BY <3>1, <3>2, <3>3, <3>4 DEF UpToDate
  <2> QED
    BY <2>1, <2>2, ArriveKeepsFresh, GoonKeepsFresh DEF Next
<1>3. TypeOK /\ FreshInv /\ [Next]_vars =>
         [\A h \in Handlers : \A o \in DOMAIN order \ stale[h] :
             /\ Finishes(h) /\ ItemsOf(o) # {}
             /\ \/ handler[h].at \in {"item", "reread"} /\ handler[h].order = o
                \/ handler[h].at = "deliver" /\ o \in DOMAIN handler[h].todo
                \/ handler[h].at = "sweep"
             => order'[o] = Every(PreparedIn(o))']_vars
  <2> SUFFICES ASSUME TypeOK, FreshInv, Next, NEW h \in Handlers,
                      NEW o \in DOMAIN order \ stale[h],
                      Finishes(h), ItemsOf(o) # {},
                      \/ handler[h].at \in {"item", "reread"} /\ handler[h].order = o
                      \/ handler[h].at = "deliver" /\ o \in DOMAIN handler[h].todo
                      \/ handler[h].at = "sweep"
               PROVE  order'[o] = Every(PreparedIn(o))'
    OBVIOUS
  <2>1. handler[h] # Idle /\ handler'[h] = Idle /\ ~Restart
    BY DEF Finishes
  <2>2. PICK g \in Handlers : Arrive(g) \/ Goon(g)
    BY <2>1 DEF Next
  <2>3. g = h
    BY <2>1, <2>2, OneMoves
  <2>4. Goon(h)
    BY <2>1, <2>2, <2>3, ArriveIsFirst
  <2> QED
    BY <2>1, <2>4, LastStatementRepairs
<1>4. Spec => []TypeOK
  BY PreparationTypes
<1> QED
  BY <1>1, <1>2, <1>3, <1>4, PTL DEF Spec, RequestRepairsOrder
=============================================================================
