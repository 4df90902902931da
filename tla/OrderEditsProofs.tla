-------------------------- MODULE OrderEditsProofs --------------------------
(***************************************************************************)
(* Theorems about OrderEdits, for any number of requests and of items.     *)
(*                                                                         *)
(* A request works on what it sees: the committed rows with its own writes *)
(* over them.  While the order does not change, Lines(h) says what that    *)
(* must be, and Fresh(h) which statements it has behind it.                *)
(***************************************************************************)
EXTENDS OrderEdits, AmountsProofs

-----------------------------------------------------------------------------
(* The inductive invariant *)

IsOverlay(w) ==
    /\ DOMAIN w \subseteq Rows
    /\ w = [r \in DOMAIN w |-> w[r]]
    /\ \A r \in DOMAIN w :
          w[r] # NULL => IF r = Order THEN w[r] \in OrderRow ELSE w[r] \in Nat

Types ==
    /\ IsTable(row)
    /\ DOMAIN handler = Handlers /\ written = [h \in Handlers |-> written[h]]
    /\ stale \in [Handlers -> BOOLEAN]
    /\ \A h \in Handlers :
          /\ IsOverlay(written[h])
          /\ handler[h] # Idle => IsRequest(handler[h])
          /\ handler[h] = Idle => written[h] = None /\ ~stale[h]

\* A transaction has written nothing but deletions before it deletes the order, and
\* nothing at all before it deletes an item or pays.
Phases ==
    \A h \in Handlers :
        /\ handler[h].at \in {"remove", "pay"} => written[h] = None
        /\ handler[h].at = "removeOrder" =>
              \A r \in DOMAIN written[h] : r # Order /\ written[h][r] = NULL
        /\ Deletes(h, Order) => handler[h].at = "commit"

\* Who deletes the order has locked all there is, and nobody else has written.
DeletesAlone ==
    \A h \in Handlers : Deletes(h, Order) =>
        /\ \A r \in DOMAIN written[h] : written[h][r] = NULL
        /\ DOMAIN row \subseteq DOMAIN written[h]
        /\ \A g \in Handlers \ {h} : written[g] = None

HaveOrder == HasOrder(row) /\ \A h \in Handlers : HasOrder(Sees(h))

\* The order with the lines that the edit of h leaves, before it is recalculated.
Lines(h) ==
    IF handler[h].op = "update" THEN [row EXCEPT ![handler[h].item] = handler[h].to]
    ELSE Only(row, DOMAIN row \ {handler[h].item})

FreshPayment(h) ==
    /\ handler[h].want = [row EXCEPT ![Order].paid = Sum(PricesIn(row)),
                                     ![Order].status = "paid"]
    /\ \/ handler[h].at = "pay"
       \/ handler[h].at = "commit" /\ Sees(h) = handler[h].want

\* What the edit wants, and how far it is.
Intends(h) ==
    /\ handler[h].op \in {"update", "delete"}
    /\ handler[h].item \in DOMAIN row \cap Items
    /\ handler[h].op = "update" => handler[h].to \in Prices
    /\ \E err \in Errors(PricesIn(Lines(h))) :
          handler[h].want = Recalculated(Lines(h), err)

Progresses(h) ==
    \/ /\ handler[h].op = "update"
       /\ handler[h].at \in {"load", "write"}
       /\ handler[h].save = {handler[h].item}
       /\ written[h] = None
       /\ handler[h].at = "write" =>
             handler[h].seen = Only(row, {handler[h].item})
    \/ handler[h].op = "delete" /\ handler[h].at = "remove"
    \/ /\ handler[h].op = "delete" /\ handler[h].at = "removeOrder"
       /\ Sees(h) = Lines(h) /\ DOMAIN Lines(h) = {Order}
    \/ /\ handler[h].at \in {"load", "write"}
       /\ handler[h].save = Rows
       /\ Sees(h) = Lines(h) /\ DOMAIN Lines(h) # {Order}
       /\ handler[h].at = "write" => handler[h].seen = Lines(h)
    \/ /\ handler[h].at = "commit"
       /\ Sees(h) = IF DOMAIN Lines(h) = {Order} THEN None ELSE handler[h].want

Fresh(h) ==
    handler[h] # Idle /\ ~stale[h] =>
        /\ Order \in DOMAIN row
        /\ IF handler[h].op = "pay" THEN FreshPayment(h) ELSE Intends(h) /\ Progresses(h)

Inv == Types /\ Phases /\ DeletesAlone /\ HaveOrder /\ \A h \in Handlers : Fresh(h)

-----------------------------------------------------------------------------
(* Tables *)

LEMMA OnlyOf ==
    ASSUME NEW d, NEW S
    PROVE  /\ DOMAIN Only(d, S) = DOMAIN d \cap S
           /\ \A r \in DOMAIN d \cap S : Only(d, S)[r] = d[r]
           /\ Only(d, S) = [r \in DOMAIN Only(d, S) |-> Only(d, S)[r]]
BY DEF Only

LEMMA PatchedOf ==
    ASSUME NEW d, NEW w
    PROVE  /\ DOMAIN Patched(d, w) = DOMAIN d \cup DOMAIN w
           /\ \A r \in DOMAIN w : Patched(d, w)[r] = w[r]
           /\ \A r \in DOMAIN d \ DOMAIN w : Patched(d, w)[r] = d[r]
           /\ Patched(d, w) = [r \in DOMAIN Patched(d, w) |-> Patched(d, w)[r]]
BY DEF Patched

\* p is the table d with the rows of w over it, without those that are NULL.
Layered(p, d, w) ==
    /\ \A r : r \in DOMAIN p <=>
                 IF r \in DOMAIN w THEN w[r] # NULL ELSE r \in DOMAIN d /\ d[r] # NULL
    /\ \A r \in DOMAIN p : p[r] = IF r \in DOMAIN w THEN w[r] ELSE d[r]
    /\ p = [r \in DOMAIN p |-> p[r]]

LEMMA LayeredDomain ==
    ASSUME NEW p, NEW d, NEW w, Layered(p, d, w), \A r \in DOMAIN d : d[r] # NULL
    PROVE  /\ (\A r \in DOMAIN w : w[r] # NULL) => DOMAIN p = DOMAIN d \cup DOMAIN w
           /\ (\A r \in DOMAIN w : w[r] = NULL) => DOMAIN p = DOMAIN d \ DOMAIN w
           /\ DOMAIN d \subseteq DOMAIN p \cup DOMAIN w
<1>1. ASSUME \A r \in DOMAIN w : w[r] # NULL
      PROVE  DOMAIN p = DOMAIN d \cup DOMAIN w
  <2>1. \A r : r \in DOMAIN p <=> r \in DOMAIN d \cup DOMAIN w
    BY <1>1 DEF Layered
  <2> QED
    BY <2>1
<1>2. ASSUME \A r \in DOMAIN w : w[r] = NULL
      PROVE  DOMAIN p = DOMAIN d \ DOMAIN w
  <2>1. \A r : r \in DOMAIN p <=> r \in DOMAIN d \ DOMAIN w
    BY <1>2 DEF Layered
  <2> QED
    BY <2>1
<1>3. DOMAIN d \subseteq DOMAIN p \cup DOMAIN w
  BY DEF Layered
<1> QED
  BY <1>1, <1>2, <1>3

LEMMA LiveOf ==
    ASSUME NEW d, NEW w
    PROVE  Layered(Live(Patched(d, w)), d, w)
<1> DEFINE q == Patched(d, w)
           p == Live(q)
<1>1. /\ DOMAIN q = DOMAIN d \cup DOMAIN w
      /\ \A r \in DOMAIN q : q[r] = IF r \in DOMAIN w THEN w[r] ELSE d[r]
  BY DEF Patched
<1> HIDE DEF q
<1>2. /\ DOMAIN p = {r \in DOMAIN q : q[r] # NULL}
      /\ \A r \in DOMAIN p : p[r] = q[r]
      /\ p = [r \in DOMAIN p |-> p[r]]
  BY DEF Live, Only
<1> HIDE DEF p
<1>3. Layered(p, d, w)
  BY <1>1, <1>2 DEF Layered
<1> QED
  BY <1>3 DEF p, q

\* What a transaction sees: its own rows, and the others that it did not delete.
LEMMA SeesOf ==
    ASSUME NEW h
    PROVE  Layered(Sees(h), row, written[h])
BY LiveOf DEF Sees

LEMMA SeesNext ==
    ASSUME NEW h
    PROVE  Layered(Sees(h)', row', written'[h])
BY LiveOf DEF Sees

\* No row of a table is NULL.
LEMMA TableRow ==
    ASSUME NEW d, IsTable(d), NEW r \in DOMAIN d
    PROVE  /\ d[r] # NULL
           /\ IF r = Order THEN d[r] \in OrderRow ELSE r \in Items /\ d[r] \in Nat
BY OrderEditsAssumption DEF IsTable, Rows

LEMMA RowNotNull ==
    ASSUME Types
    PROVE  \A r \in DOMAIN row : row[r] # NULL
BY TableRow DEF Types

LEMMA OnlyTable ==
    ASSUME NEW d, IsTable(d), NEW S
    PROVE  IsTable(Only(d, S))
<1> DEFINE e == Only(d, S)
<1>1. /\ DOMAIN e = DOMAIN d \cap S
      /\ \A r \in DOMAIN e : e[r] = d[r]
      /\ e = [r \in DOMAIN e |-> e[r]]
  BY DEF Only
<1> HIDE DEF e
<1>2. IsTable(e)
  BY <1>1 DEF IsTable
<1> QED
  BY <1>2 DEF e

LEMMA NoneIsTable == IsTable(None) /\ DOMAIN None = {} /\ IsOverlay(None)
BY DEF IsTable, IsOverlay, None

LEMMA PatchedOverlay ==
    ASSUME NEW w, NEW v, IsOverlay(w), IsOverlay(v)
    PROVE  IsOverlay(Patched(w, v))
<1> DEFINE p == Patched(w, v)
<1>1. /\ DOMAIN p = DOMAIN w \cup DOMAIN v
      /\ \A r \in DOMAIN p : p[r] = IF r \in DOMAIN v THEN v[r] ELSE w[r]
      /\ p = [r \in DOMAIN p |-> p[r]]
  BY DEF Patched
<1> HIDE DEF p
<1>2. IsOverlay(p)
  BY <1>1 DEF IsOverlay
<1> QED
  BY <1>2 DEF p

LEMMA SeesTable ==
    ASSUME Types, NEW h \in Handlers
    PROVE  IsTable(Sees(h))
<1>1. IsTable(row) /\ IsOverlay(written[h])
  BY DEF Types
<1>2. DOMAIN Sees(h) \subseteq Rows
  BY <1>1, SeesOf DEF IsTable, IsOverlay, Layered
<1>3. \A r \in DOMAIN Sees(h) : IF r = Order THEN Sees(h)[r] \in OrderRow ELSE Sees(h)[r] \in Nat
  <2> TAKE r \in DOMAIN Sees(h)
  <2>1. CASE r \in DOMAIN written[h]
    <3>1. written[h][r] # NULL /\ Sees(h)[r] = written[h][r]
      BY <2>1, SeesOf DEF Layered
    <3> QED
      BY <1>1, <2>1, <3>1 DEF IsOverlay
  <2>2. CASE r \notin DOMAIN written[h]
    <3>1. r \in DOMAIN row /\ Sees(h)[r] = row[r]
      BY <2>2, SeesOf DEF Layered
    <3> QED
      BY <1>1, <3>1, TableRow
  <2> QED
    BY <2>1, <2>2
<1> QED
  BY <1>2, <1>3, SeesOf, OrderEditsAssumption DEF IsTable, Layered

LEMMA SeesNotNull ==
    ASSUME Types, NEW h \in Handlers
    PROVE  \A r \in DOMAIN Sees(h) : Sees(h)[r] # NULL
BY SeesTable, TableRow

\* Without writes, what is committed.
LEMMA SeesCommitted ==
    ASSUME Types, NEW h \in Handlers, written[h] = None
    PROVE  Sees(h) = row
<1>1. IsTable(row)
  BY DEF Types
<1>2. DOMAIN Sees(h) = DOMAIN row
  <2>1. DOMAIN written[h] = {}
    BY NoneIsTable
  <2>2. DOMAIN Sees(h) = DOMAIN row \cup DOMAIN written[h]
    BY <2>1, SeesOf, LayeredDomain, RowNotNull
  <2> QED
    BY <2>1, <2>2
<1>3. \A r \in DOMAIN row : Sees(h)[r] = row[r]
  BY <1>2, SeesOf, NoneIsTable DEF Layered
<1> QED
  BY <1>1, <1>2, <1>3, SeesOf DEF IsTable, Layered

\* The sum of the lines is an amount, and recalculating changes the order only.
LEMMA RecalculatedTable ==
    ASSUME NEW d, IsTable(d), Order \in DOMAIN d, NEW err \in -1..1
    PROVE  /\ Sum(PricesIn(d)) \in Nat
           /\ IsTable(Recalculated(d, err))
           /\ DOMAIN Recalculated(d, err) = DOMAIN d
           /\ \A r \in DOMAIN d \ {Order} : Recalculated(d, err)[r] = d[r]
           /\ Recalculated(d, err)[Order] = Edited(d[Order], Sum(PricesIn(d)), err)
<1>1. Sum(PricesIn(d)) \in Nat
  <2>1. IsFiniteSet(DOMAIN d \cap Items)
    BY OrderEditsAssumption, FS_Subset
  <2>2. \A i \in DOMAIN d \cap Items : PricesIn(d)[i] \in Nat
    BY DEF PricesIn, Only, IsTable
  <2>3. DOMAIN PricesIn(d) = DOMAIN d \cap Items
    BY DEF PricesIn, Only
  <2> QED
    BY <2>1, <2>2, <2>3, SumIsNat
<1> DEFINE total == Sum(PricesIn(d))
           old == d[Order]
           new == Edited(old, total, err)
<1>2. old \in OrderRow
  BY DEF IsTable
<1>3. old.total \in Nat /\ old.paid \in Nat
  BY <1>2 DEF OrderRow
<1> HIDE DEF old
<1> HIDE DEF total
<1>4. new \in OrderRow
  <2>1. PICK newPaid \in Nat, newStatus \in {"unpaid", "paid"} :
          new = [old EXCEPT !.total = total, !.paid = newPaid, !.status = newStatus]
    <3>1. total \in Nat
      BY <1>1 DEF total
    <3>2. \E newPaid \in Nat, newStatus \in {"unpaid", "paid"} :
            /\ Edited(old, total, err) =
                  [old EXCEPT !.total = total, !.paid = newPaid, !.status = newStatus]
            /\ newPaid <= total \/ (newPaid = old.paid /\ old.total \in {0, total})
            /\ newStatus = "paid" => newPaid >= total
      BY <1>3, <3>1, EditedAmounts, Zenon
    <3> QED
      BY <3>2
  <2> QED
    BY <1>1, <1>2, <2>1 DEF OrderRow, total
<1> HIDE DEF new
<1>5. Recalculated(d, err) = [d EXCEPT ![Order] = new]
  BY DEF Recalculated, new, old, total
<1>6. IsTable([d EXCEPT ![Order] = new])
  BY <1>4, OrderEditsAssumption DEF IsTable
<1> QED
  BY <1>1, <1>5, <1>6 DEF new, old, total, IsTable

-----------------------------------------------------------------------------
(* Types *)

LEMMA RequestGoesOn ==
    ASSUME NEW s, IsRequest(s),
           NEW a \in {"load", "write", "remove", "removeOrder", "pay", "commit"},
           NEW S \in SUBSET Rows, NEW t, IsTable(t)
    PROVE  IsRequest(At(s, a, S, t))
BY DEF IsRequest, At

LEMMA MergedRow ==
    ASSUME NEW old \in OrderRow, NEW seen \in OrderRow, NEW want \in OrderRow
    PROVE  Merged(old, seen, want) \in OrderRow
<1>1. DOMAIN old = {"total", "paid", "status"}
  BY DEF OrderRow
<1> QED
  BY <1>1 DEF OrderRow, Merged

LEMMA DifferenceOverlay ==
    ASSUME Types, NEW h \in Handlers, IsRequest(handler[h])
    PROVE  /\ IsOverlay(Difference(h))
           /\ \A r \in DOMAIN Difference(h) : Difference(h)[r] # NULL
<1> DEFINE want == handler[h].want
           seen == handler[h].seen
           D == Missing(h) \cup (Changed(h) \cap DOMAIN Sees(h))
           v == Difference(h)
<1>1. IsTable(want) /\ IsTable(seen) /\ IsTable(Sees(h))
  BY SeesTable DEF IsRequest
<1>2. D \subseteq DOMAIN want /\ Changed(h) \subseteq DOMAIN seen
  BY DEF Missing, Changed
<1>3. /\ DOMAIN v = D
      /\ v = [r \in DOMAIN v |-> v[r]]
      /\ \A r \in D : v[r] = IF r = Order /\ r \in Changed(h)
                             THEN Merged(Sees(h)[r], seen[r], want[r]) ELSE want[r]
  BY DEF Difference
<1>4. Missing(h) \cap Changed(h) = {}
  BY DEF Missing, Changed
<1> HIDE DEF v
<1>5. ASSUME NEW r \in D
      PROVE  v[r] # NULL /\ r \in Rows /\ IF r = Order THEN v[r] \in OrderRow ELSE v[r] \in Nat
  <2>1. r \in DOMAIN want /\ r \in Rows
    BY <1>1, <1>2 DEF IsTable
  <2>2. want[r] # NULL /\ IF r = Order THEN want[r] \in OrderRow ELSE want[r] \in Nat
    BY <1>1, <2>1, TableRow
  <2>3. CASE r = Order /\ r \in Changed(h)
    <3>1. Order \in DOMAIN seen /\ Order \in DOMAIN Sees(h)
      BY <1>2, <1>4, <2>3
    <3>2. Sees(h)[Order] \in OrderRow /\ seen[Order] \in OrderRow
      BY <1>1, <3>1, TableRow
    <3>3. v[r] \in OrderRow
      BY <1>3, <2>2, <2>3, <3>2, MergedRow
    <3> QED
      BY <2>1, <2>3, <3>3, OrderEditsAssumption
  <2>4. CASE ~(r = Order /\ r \in Changed(h))
    BY <1>3, <2>1, <2>2, <2>4
  <2> QED
    BY <2>3, <2>4
<1>6. DOMAIN v \subseteq Rows
  BY <1>3, <1>5
<1> HIDE DEF D
<1>7. IsOverlay(v)
  BY <1>3, <1>5, <1>6 DEF IsOverlay
<1> QED
  BY <1>3, <1>5, <1>7 DEF v

\* A step of the request h: it goes on as s, having written w.
Turn(h, s, w) ==
    /\ IsRequest(s) /\ IsOverlay(w)
    /\ handler' = [handler EXCEPT ![h] = s]
    /\ written' = [written EXCEPT ![h] = w]
    /\ UNCHANGED <<row, stale>>

Statement(h) ==
    \/ \E i \in Items :
          \/ \E newPrice \in Prices : ReadForUpdate(h, i, newPrice)
          \/ ReadForDelete(h, i)
    \/ ReadForPayment(h)
    \/ Load(h)
    \/ Write(h)
    \/ Remove(h)
    \/ RemoveOrder(h)
    \/ Pay(h)

LEMMA NotIdle ==
    ASSUME Types, NEW h \in Handlers, handler[h].at # "idle"
    PROVE  handler[h] # Idle /\ IsRequest(handler[h])
BY DEF Types, Idle

\* A statement that reads or writes the rows v.
LEMMA ExecutesTurn ==
    ASSUME Types, NEW h \in Handlers, NEW v, IsOverlay(v), NEW s, IsRequest(s),
           Executes(h, v, s)
    PROVE  Turn(h, s, Patched(written[h], v))
<1>1. IsOverlay(Patched(written[h], v))
  BY PatchedOverlay DEF Types
<1> QED
  BY <1>1 DEF Turn, Executes, Goes

LEMMA StartsTurn ==
    ASSUME Types, NEW h \in Handlers,
           NEW op \in {"update", "delete", "pay"},
           NEW i \in Items \cup {NULL}, NEW to \in Prices \cup {NULL},
           NEW at \in {"load", "remove", "pay"},
           NEW want, IsTable(want), Order \in DOMAIN want,
           Starts(h, op, i, to, at, want), UNCHANGED <<row, written, stale>>
    PROVE  \E s : Turn(h, s, written[h]) /\ s.op = op
<1> DEFINE s == [op |-> op, item |-> i, to |-> to, at |-> at, want |-> want,
                 save |-> {i} \cap Items, seen |-> None]
<1>1. IsRequest(s)
  BY NoneIsTable DEF IsRequest, At, Rows
<1>2. handler' = [handler EXCEPT ![h] = s]
  BY DEF Starts, Goes
<1>3. s.op = op
  OBVIOUS
<1> HIDE DEF s
<1>4. IsOverlay(written[h]) /\ written' = [written EXCEPT ![h] = written[h]]
  <2>1. IsOverlay(written[h])
    BY DEF Types
  <2>2. written = [g \in Handlers |-> written[g]]
    BY DEF Types
  <2> QED
    BY <2>1, <2>2
<1> QED
  BY <1>1, <1>2, <1>3, <1>4 DEF Turn

\* Every statement is a turn of its request.
LEMMA StatementTurn ==
    ASSUME Types, HaveOrder, NEW h \in Handlers, Statement(h)
    PROVE  \E s, w : Turn(h, s, w)
<1> IsTable(row) /\ (DOMAIN row \cap Items # {} => Order \in DOMAIN row)
  BY DEF Types, HaveOrder, HasOrder
<1>1. ASSUME NEW i \in Items, NEW newPrice \in Prices, ReadForUpdate(h, i, newPrice)
      PROVE  \E s, w : Turn(h, s, w)
  <2> DEFINE lines == [row EXCEPT ![i] = newPrice]
  <2>1. IsTable(lines) /\ Order \in DOMAIN lines
    BY <1>1, OrderEditsAssumption DEF ReadForUpdate, IsTable
  <2>2. PICK err \in Errors(PricesIn(lines)) :
           Starts(h, "update", i, newPrice, "load", Recalculated(lines, err))
    BY <1>1 DEF ReadForUpdate
  <2> HIDE DEF lines
  <2>3. err \in -1..1
    BY DEF Errors
  <2> DEFINE want == Recalculated(lines, err)
  <2>4. IsTable(want) /\ Order \in DOMAIN want
    BY <2>1, <2>3, RecalculatedTable
  <2>5. Starts(h, "update", i, newPrice, "load", want) /\ UNCHANGED <<row, written, stale>>
    BY <1>1, <2>2 DEF ReadForUpdate
  <2> HIDE DEF want
  <2> QED
    BY <2>4, <2>5, StartsTurn
<1>2. ASSUME NEW i \in Items, ReadForDelete(h, i)
      PROVE  \E s, w : Turn(h, s, w)
  <2> DEFINE lines == Only(row, DOMAIN row \ {i})
  <2>1. IsTable(lines)
    BY OnlyTable
  <2>2. Order \in DOMAIN lines
    BY <1>2, OnlyOf, OrderEditsAssumption DEF ReadForDelete
  <2>3. PICK err \in Errors(PricesIn(lines)) :
           Starts(h, "delete", i, NULL, "remove", Recalculated(lines, err))
    BY <1>2 DEF ReadForDelete
  <2> HIDE DEF lines
  <2>4. err \in -1..1
    BY DEF Errors
  <2> DEFINE want == Recalculated(lines, err)
  <2>5. IsTable(want) /\ Order \in DOMAIN want
    BY <2>1, <2>2, <2>4, RecalculatedTable
  <2>6. Starts(h, "delete", i, NULL, "remove", want) /\ UNCHANGED <<row, written, stale>>
    BY <1>2, <2>3 DEF ReadForDelete
  <2> HIDE DEF want
  <2> QED
    BY <2>5, <2>6, StartsTurn
<1>3. CASE ReadForPayment(h)
  <2> DEFINE total == Sum(PricesIn(row))
             want == [row EXCEPT ![Order].paid = total, ![Order].status = "paid"]
  <2>1. Order \in DOMAIN row
    BY <1>3 DEF ReadForPayment
  <2>2. total \in Nat
    BY <2>1, RecalculatedTable
  <2> HIDE DEF total
  <2>3. row[Order] \in OrderRow
    BY <2>1 DEF IsTable
  <2>4. [row[Order] EXCEPT !.paid = total, !.status = "paid"] \in OrderRow
    BY <2>2, <2>3 DEF OrderRow
  <2>5. /\ DOMAIN want = DOMAIN row
        /\ want[Order] = [row[Order] EXCEPT !.paid = total, !.status = "paid"]
        /\ \A r \in DOMAIN row \ {Order} : want[r] = row[r]
        /\ want = [r \in DOMAIN want |-> want[r]]
    BY <2>1, <2>3
  <2>6. Starts(h, "pay", NULL, NULL, "pay", want) /\ UNCHANGED <<row, written, stale>>
    BY <1>3 DEF ReadForPayment, total
  <2> HIDE DEF want
  <2>7. IsTable(want) /\ Order \in DOMAIN want
    BY <2>1, <2>4, <2>5, OrderEditsAssumption DEF IsTable
  <2> QED
    BY <2>6, <2>7, StartsTurn
<1>4. CASE Load(h)
  <2> DEFINE seen == Only(Sees(h), handler[h].save)
             s == At(handler[h], "write", handler[h].save, seen)
  <2>1. IsRequest(handler[h])
    BY <1>4, NotIdle DEF Load
  <2>2. IsTable(seen)
    BY SeesTable, OnlyTable
  <2>3. handler' = [handler EXCEPT ![h] = s] /\ UNCHANGED <<row, written, stale>>
    BY <1>4 DEF Load, Goes
  <2> HIDE DEF seen
  <2>4. IsRequest(s)
    BY <2>1, <2>2, RequestGoesOn DEF IsRequest
  <2> HIDE DEF s
  <2>5. IsOverlay(written[h]) /\ written' = [written EXCEPT ![h] = written[h]]
    <3>1. written = [g \in Handlers |-> written[g]]
      BY DEF Types
    <3> QED
      BY <2>3, <3>1 DEF Types
  <2> QED
    BY <2>3, <2>4, <2>5 DEF Turn
<1>5. CASE Write(h)
  <2>1. IsRequest(handler[h])
    BY <1>5, NotIdle DEF Write
  <2>2. IsOverlay(Difference(h))
    BY <2>1, DifferenceOverlay
  <2>3. IsRequest(Committing(h)) /\ IsRequest(Saving(h, Rows))
    BY <2>1, RequestGoesOn, NoneIsTable DEF Committing, Saving
  <2> QED
    BY <1>5, <2>2, <2>3, ExecutesTurn DEF Write
<1>6. CASE Remove(h)
  <2> DEFINE v == [i \in {handler[h].item} \cap DOMAIN Sees(h) |-> NULL]
  <2>1. IsRequest(handler[h])
    BY <1>6, NotIdle DEF Remove
  <2>2. IsOverlay(v)
    BY <2>1, SeesTable DEF IsOverlay, IsTable
  <2>3. IsRequest(At(handler[h], "removeOrder", {}, None)) /\ IsRequest(Saving(h, Rows))
    BY <2>1, RequestGoesOn, NoneIsTable DEF Saving
  <2>4. \E s : IsRequest(s) /\ Executes(h, v, s)
    BY <1>6, <2>3 DEF Remove
  <2> HIDE DEF v
  <2> QED
    BY <2>2, <2>4, ExecutesTurn
<1>7. CASE RemoveOrder(h)
  <2> DEFINE v == [r \in IF Order \in DOMAIN Sees(h) THEN DOMAIN Sees(h) ELSE {} |-> NULL]
  <2>1. IsRequest(handler[h])
    BY <1>7, NotIdle DEF RemoveOrder
  <2>2. IsOverlay(v)
    BY SeesTable DEF IsOverlay, IsTable
  <2>3. IsRequest(Committing(h))
    BY <2>1, RequestGoesOn, NoneIsTable DEF Committing
  <2>4. Executes(h, v, Committing(h))
    BY <1>7 DEF RemoveOrder
  <2> HIDE DEF v
  <2> QED
    BY <2>2, <2>3, <2>4, ExecutesTurn
<1>8. CASE Pay(h)
  <2> DEFINE want == handler[h].want[Order]
             v == [o \in {Order} \cap DOMAIN Sees(h) |->
                     [Sees(h)[o] EXCEPT !.paid = want.paid, !.status = want.status]]
  <2>1. IsRequest(handler[h])
    BY <1>8, NotIdle DEF Pay
  <2>2. want \in OrderRow
    BY <2>1 DEF IsRequest, IsTable
  <2>3. IsTable(Sees(h))
    BY SeesTable
  <2> HIDE DEF want
  <2>4. IsOverlay(v)
    BY <2>2, <2>3 DEF IsOverlay, IsTable, OrderRow, Rows
  <2>5. IsRequest(Committing(h))
    BY <2>1, RequestGoesOn, NoneIsTable DEF Committing
  <2>6. Executes(h, v, Committing(h))
    BY <1>8 DEF Pay, want
  <2> HIDE DEF v
  <2> QED
    BY <2>4, <2>5, <2>6, ExecutesTurn
<1> QED
  BY <1>1, <1>2, <1>3, <1>4, <1>5, <1>6, <1>7, <1>8 DEF Statement

LEMMA TurnOf ==
    ASSUME Types, NEW h \in Handlers, NEW s, NEW w, Turn(h, s, w)
    PROVE  /\ handler'[h] = s /\ written'[h] = w
           /\ \A g \in Handlers \ {h} : handler'[g] = handler[g] /\ written'[g] = written[g]
           /\ row' = row /\ stale' = stale
BY DEF Types, Turn

LEMMA Steps ==
    ASSUME [Next]_vars
    PROVE  \/ \E S \in SUBSET Items : \E line \in [S -> Prices] : Create(line)
           \/ Delete
           \/ \E h \in Handlers : Statement(h) \/ Commit(h) \/ Fail(h)
           \/ UNCHANGED vars
BY DEF Next, Statement

LEMMA TypesKept ==
    ASSUME Types, HaveOrder, [Next]_vars
    PROVE  Types'
<1>1. ASSUME NEW S \in SUBSET Items, NEW line \in [S -> Prices], Create(line)
      PROVE  Types'
  <2> DEFINE total == Sum(line)
             new == [total |-> total, paid |-> 0, status |-> "unpaid"]
  <2>1. total \in Nat
    <3>1. IsFiniteSet(S)
      BY OrderEditsAssumption, FS_Subset
    <3>2. DOMAIN line = S /\ \A i \in S : line[i] \in Nat
      BY OrderEditsAssumption
    <3> QED
      BY <3>1, <3>2, SumIsNat
  <2>2. row' = Patched(line, [o \in {Order} |-> new]) /\ UNCHANGED <<handler, written, stale>>
    BY <1>1 DEF Create
  <2> HIDE DEF total
  <2>3. new \in OrderRow
    BY <2>1 DEF OrderRow
  <2> HIDE DEF new
  <2>4. row' = [r \in S \cup {Order} |-> IF r = Order THEN new ELSE line[r]]
    BY <2>2 DEF Patched
  <2>5. IsTable(row')
    BY <2>3, <2>4, OrderEditsAssumption DEF IsTable, Rows
  <2> QED
    BY <2>2, <2>5 DEF Types
<1>2. CASE Delete
  <2>1. row' = None /\ UNCHANGED <<handler, written>>
    BY <1>2 DEF Delete, Changes
  <2>2. stale' = [g \in Handlers |-> NULL # g /\ handler[g] # Idle /\ (stale[g] \/ None # row)]
    BY <1>2 DEF Delete, Changes
  <2>3. IsTable(row')
    BY <2>1, NoneIsTable
  <2> QED
    BY <2>1, <2>2, <2>3 DEF Types
<1>3. ASSUME NEW h \in Handlers, Statement(h)
      PROVE  Types'
  <2>1. PICK s, w : Turn(h, s, w)
    BY <1>3, StatementTurn
  <2>2. IsRequest(s) /\ IsOverlay(w) /\ s # Idle
    <3>1. IsRequest(s) /\ IsOverlay(w)
      BY <2>1 DEF Turn
    <3>2. s.at # "idle"
      BY <3>1 DEF IsRequest
    <3> QED
      BY <3>1, <3>2 DEF Idle
  <2> QED
    BY <2>1, <2>2, TurnOf DEF Types, Turn
<1>4. ASSUME NEW h \in Handlers, Commit(h)
      PROVE  Types'
  <2>1. row' = Sees(h) /\ handler' = [handler EXCEPT ![h] = Idle]
        /\ written' = [written EXCEPT ![h] = None]
    BY <1>4 DEF Commit, Changes, Ends, Goes
  <2>2. stale' = [g \in Handlers |-> g # h /\ handler[g] # Idle /\ (stale[g] \/ Sees(h) # row)]
    BY <1>4 DEF Commit, Changes
  <2>3. IsTable(row')
    BY <2>1, SeesTable
  <2> QED
    BY <2>1, <2>2, <2>3, NoneIsTable DEF Types
<1>5. ASSUME NEW h \in Handlers, Fail(h)
      PROVE  Types'
  <2>1. /\ row' = row /\ handler' = [handler EXCEPT ![h] = Idle]
        /\ written' = [written EXCEPT ![h] = None] /\ stale' = [stale EXCEPT ![h] = FALSE]
    BY <1>5 DEF Fail, Ends, Goes
  <2> QED
    BY <2>1, NoneIsTable DEF Types
<1>6. CASE UNCHANGED vars
  BY <1>6 DEF vars, Types
<1> QED
  BY <1>1, <1>2, <1>3, <1>4, <1>5, <1>6, Steps

-----------------------------------------------------------------------------
(* Locks *)

\* What a statement writes, and where its request goes.
LEMMA ExecutesOf ==
    ASSUME Types, NEW h \in Handlers, NEW v, NEW s, Executes(h, v, s)
    PROVE  /\ handler'[h] = s
           /\ DOMAIN written'[h] = DOMAIN written[h] \cup DOMAIN v
           /\ \A r \in DOMAIN v : written'[h][r] = v[r]
           /\ \A r \in DOMAIN written[h] \ DOMAIN v : written'[h][r] = written[h][r]
           /\ DOMAIN v = {} => written'[h] = written[h]
           /\ \A g \in Handlers \ {h} : handler'[g] = handler[g] /\ written'[g] = written[g]
           /\ row' = row /\ stale' = stale
<1> DEFINE p == Patched(written[h], v)
<1>1. /\ handler' = [handler EXCEPT ![h] = s]
      /\ written' = [written EXCEPT ![h] = p]
      /\ UNCHANGED <<row, stale>>
  BY DEF Executes, Goes
<1>2. /\ DOMAIN p = DOMAIN written[h] \cup DOMAIN v
      /\ \A r \in DOMAIN v : p[r] = v[r]
      /\ \A r \in DOMAIN written[h] \ DOMAIN v : p[r] = written[h][r]
  BY DEF Patched
<1>3. DOMAIN v = {} => p = written[h]
  <2>1. written[h] = [r \in DOMAIN written[h] |-> written[h][r]]
    BY DEF Types, IsOverlay
  <2> QED
    BY <2>1 DEF Patched
<1> HIDE DEF p
<1>4. DOMAIN handler = Handlers /\ DOMAIN written = Handlers
  BY DEF Types
<1>5. /\ handler'[h] = s /\ written'[h] = p
      /\ \A g \in Handlers \ {h} : handler'[g] = handler[g] /\ written'[g] = written[g]
  BY <1>1, <1>4
<1> QED
  BY <1>1, <1>2, <1>3, <1>5

\* A request that reads writes nothing.
LEMMA ReadsOf ==
    ASSUME Types, NEW h \in Handlers,
           \/ \E i \in Items :
                 \/ \E newPrice \in Prices : ReadForUpdate(h, i, newPrice)
                 \/ ReadForDelete(h, i)
           \/ ReadForPayment(h)
           \/ Load(h)
    PROVE  /\ handler'[h].at \in {"load", "remove", "pay", "write"}
           /\ handler[h] = Idle \/ handler'[h].at = "write"
           /\ \A g \in Handlers \ {h} : handler'[g] = handler[g]
           /\ written' = written /\ row' = row /\ stale' = stale
<1>1. \E s : /\ Goes(h, s)
             /\ s.at \in {"load", "remove", "pay", "write"}
             /\ handler[h] = Idle \/ s.at = "write"
  <2>1. ASSUME NEW op, NEW i, NEW to, NEW at, NEW want, Starts(h, op, i, to, at, want)
        PROVE  \E s : Goes(h, s) /\ s.at = at
    BY <2>1 DEF Starts
  <2>2. ASSUME NEW i \in Items, NEW newPrice \in Prices, ReadForUpdate(h, i, newPrice)
        PROVE  handler[h] = Idle /\ \E s : Goes(h, s) /\ s.at = "load"
    BY <2>1, <2>2 DEF ReadForUpdate
  <2>3. ASSUME NEW i \in Items, ReadForDelete(h, i)
        PROVE  handler[h] = Idle /\ \E s : Goes(h, s) /\ s.at = "remove"
    BY <2>1, <2>3 DEF ReadForDelete
  <2>4. ReadForPayment(h) => handler[h] = Idle /\ \E s : Goes(h, s) /\ s.at = "pay"
    BY <2>1 DEF ReadForPayment
  <2>5. Load(h) => \E s : Goes(h, s) /\ s.at = "write"
    BY DEF Load, At
  <2> QED
    BY <2>2, <2>3, <2>4, <2>5
<1>2. UNCHANGED <<row, written, stale>>
  BY DEF ReadForUpdate, ReadForDelete, ReadForPayment, Load
<1>3. DOMAIN handler = Handlers
  BY DEF Types
<1> QED
  BY <1>1, <1>2, <1>3 DEF Goes

\* A statement deletes the order only when it is RemoveOrder.
LEMMA PhasesKept ==
    ASSUME Types, Phases, HaveOrder, [Next]_vars
    PROVE  Phases'
<1> DEFINE OK(h) ==
             /\ handler[h].at \in {"remove", "pay"} => written[h] = None
             /\ handler[h].at = "removeOrder" =>
                   \A r \in DOMAIN written[h] : r # Order /\ written[h][r] = NULL
             /\ Deletes(h, Order) => handler[h].at = "commit"
<1>1. \A h \in Handlers : OK(h)
  BY DEF Phases
<1>2. ASSUME NEW h \in Handlers, handler'[h] = handler[h], written'[h] = written[h]
      PROVE  OK(h)'
  BY <1>1, <1>2 DEF Deletes
<1>3. ASSUME NEW h \in Handlers, written'[h] = None, handler'[h].at # "removeOrder"
      PROVE  OK(h)'
  BY <1>3, NoneIsTable DEF Deletes
<1>4. ASSUME NEW h \in Handlers, Statement(h)
      PROVE  OK(h)'
  <2>1. CASE \/ \E i \in Items :
                   \/ \E newPrice \in Prices : ReadForUpdate(h, i, newPrice)
                   \/ ReadForDelete(h, i)
             \/ ReadForPayment(h)
             \/ Load(h)
    <3>1. CASE handler[h] = Idle
      BY <1>3, <2>1, <3>1, ReadsOf DEF Types
    <3>2. CASE handler[h] # Idle
      <4>1. Load(h) /\ handler[h].at = "load"
        BY <2>1, <3>2 DEF ReadForUpdate, ReadForDelete, ReadForPayment, Load
      <4> QED
        BY <1>1, <2>1, <3>2, <4>1, ReadsOf DEF Deletes
    <3> QED
      BY <3>1, <3>2
  <2>2. CASE Write(h)
    <3>1. IsRequest(handler[h])
      BY <2>2, NotIdle DEF Write
    <3>2. /\ \A r \in DOMAIN Difference(h) : Difference(h)[r] # NULL
          /\ handler[h].at = "write"
      BY <2>2, <3>1, DifferenceOverlay DEF Write
    <3>3. PICK s : Executes(h, Difference(h), s) /\ s.at \in {"commit", "load"}
      BY <2>2 DEF Write, Committing, Saving, At
    <3>4. ~Deletes(h, Order)'
      BY <1>1, <3>2, <3>3, ExecutesOf DEF Deletes
    <3> QED
      BY <3>3, <3>4, ExecutesOf
  <2>3. CASE Remove(h)
    <3> DEFINE v == [i \in {handler[h].item} \cap DOMAIN Sees(h) |-> NULL]
    <3>1. IsRequest(handler[h])
      BY <2>3, NotIdle DEF Remove
    <3>2. DOMAIN v \subseteq Items /\ \A r \in DOMAIN v : v[r] = NULL
      BY <3>1, SeesTable, OrderEditsAssumption DEF IsRequest, IsTable
    <3>3. PICK s : Executes(h, v, s) /\ s.at \in {"removeOrder", "load"}
      BY <2>3 DEF Remove, Saving, At
    <3> HIDE DEF v
    <3>4. written[h] = None
      BY <1>1, <2>3 DEF Remove
    <3>5. \A r \in DOMAIN written'[h] : r # Order /\ written'[h][r] = NULL
      BY <3>2, <3>3, <3>4, ExecutesOf, NoneIsTable, OrderEditsAssumption
    <3> QED
      BY <3>3, <3>5, ExecutesOf DEF Deletes
  <2>4. CASE RemoveOrder(h) \/ Pay(h)
    <3>1. \E v : Executes(h, v, Committing(h))
      BY <2>4 DEF RemoveOrder, Pay
    <3> QED
      BY <3>1, ExecutesOf DEF Committing, At
  <2> QED
    BY <1>4, <2>1, <2>2, <2>3, <2>4 DEF Statement
<1>5. ASSUME NEW h \in Handlers, Statement(h), NEW g \in Handlers \ {h}
      PROVE  OK(g)'
  <2>1. handler'[g] = handler[g] /\ written'[g] = written[g]
    BY <1>5, StatementTurn, TurnOf
  <2> QED
    BY <1>2, <2>1
<1>6. ASSUME NEW h \in Handlers, Commit(h) \/ Fail(h), NEW g \in Handlers
      PROVE  OK(g)'
  <2>1. handler' = [handler EXCEPT ![h] = Idle] /\ written' = [written EXCEPT ![h] = None]
    BY <1>6 DEF Commit, Fail, Ends, Goes
  <2>2. CASE g = h
    BY <1>3, <2>1, <2>2 DEF Types, Idle
  <2>3. CASE g # h
    BY <1>2, <2>1, <2>3 DEF Types
  <2> QED
    BY <2>2, <2>3
<1>7. ASSUME UNCHANGED <<handler, written>>, NEW g \in Handlers
      PROVE  OK(g)'
  BY <1>2, <1>7
<1>8. \A g \in Handlers : OK(g)'
  BY <1>4, <1>5, <1>6, <1>7, Steps DEF Create, Delete, vars
<1> QED
  BY <1>8 DEF Phases

LEMMA DeletesByRemoveOrder ==
    ASSUME Types, Phases, HaveOrder, NEW h \in Handlers, Statement(h), Deletes(h, Order)'
    PROVE  RemoveOrder(h)
<1>1. CASE \/ \E i \in Items :
                 \/ \E newPrice \in Prices : ReadForUpdate(h, i, newPrice)
                 \/ ReadForDelete(h, i)
           \/ ReadForPayment(h)
           \/ Load(h)
  <2>1. Deletes(h, Order)
    BY <1>1, ReadsOf DEF Deletes
  <2>2. handler[h].at = "commit"
    BY <2>1 DEF Phases
  <2>3. handler[h] = Idle \/ handler[h].at = "load"
    BY <1>1 DEF ReadForUpdate, ReadForDelete, ReadForPayment, Load
  <2> QED
    BY <2>2, <2>3 DEF Idle
<1>2. CASE Write(h)
  <2>1. IsRequest(handler[h])
    BY <1>2, NotIdle DEF Write
  <2>2. PICK s : Executes(h, Difference(h), s)
    BY <1>2 DEF Write
  <2>3. Deletes(h, Order)
    BY <2>1, <2>2, DifferenceOverlay, ExecutesOf DEF Deletes
  <2> QED
    BY <1>2, <2>3 DEF Phases, Write
<1>3. CASE Remove(h)
  <2>1. handler'[h].at \in {"removeOrder", "load"}
    BY <1>3, ExecutesOf DEF Remove, Saving, At
  <2>2. Phases'
    <3>1. [Next]_vars
      BY <1>3 DEF Next
    <3> QED
      BY <3>1, PhasesKept
  <2> QED
    BY <2>1, <2>2 DEF Phases
<1>4. CASE Pay(h)
  <2> DEFINE v == [o \in {Order} \cap DOMAIN Sees(h) |->
                     [Sees(h)[o] EXCEPT !.paid = handler[h].want[Order].paid,
                                        !.status = handler[h].want[Order].status]]
  <2>1. Executes(h, v, Committing(h)) /\ handler[h].at = "pay"
    BY <1>4 DEF Pay
  <2>2. IsRequest(handler[h])
    BY <1>4, NotIdle DEF Pay
  <2>3. handler[h].want[Order] \in OrderRow
    BY <2>2 DEF IsRequest, IsTable
  <2>4. \A r \in DOMAIN v : v[r] \in OrderRow
    BY <2>3, SeesTable DEF IsTable, OrderRow
  <2>5. \A r \in DOMAIN v : v[r] # NULL
    BY <2>4, OrderEditsAssumption
  <2> HIDE DEF v
  <2>6. Deletes(h, Order)
    BY <2>1, <2>5, ExecutesOf DEF Deletes
  <2> QED
    BY <2>1, <2>6 DEF Phases
<1> QED
  BY <1>1, <1>2, <1>3, <1>4 DEF Statement

\* Once k has deleted the order, nobody else can write.
LEMMA NothingToWrite ==
    ASSUME Types, Phases, DeletesAlone, NEW k \in Handlers, Deletes(k, Order),
           NEW h \in Handlers \ {k}, Statement(h)
    PROVE  written'[h] = written[h]
<1>1. written[h] = None /\ DOMAIN row \subseteq DOMAIN written[k]
  BY DEF DeletesAlone
<1>2. Sees(h) = row
  BY <1>1, SeesCommitted
<1>3. DOMAIN written[k] \subseteq LockedFor(h)
  BY DEF LockedFor
<1>4. Order \in LockedFor(h) /\ DOMAIN Sees(h) \subseteq LockedFor(h)
  BY <1>1, <1>2, <1>3 DEF Deletes
<1>5. CASE \/ \E i \in Items :
                 \/ \E newPrice \in Prices : ReadForUpdate(h, i, newPrice)
                 \/ ReadForDelete(h, i)
           \/ ReadForPayment(h)
           \/ Load(h)
  BY <1>5, ReadsOf
<1>6. CASE Write(h)
  <2>1. IsRequest(handler[h])
    BY <1>6, NotIdle DEF Write
  <2>2. Missing(h) \subseteq {Order} \cup Items
    BY <2>1 DEF Missing, IsRequest, Rows
  <2>3. Missing(h) = {}
    BY <1>4, <1>6, <2>2 DEF Write
  <2>4. Changed(h) \cap DOMAIN Sees(h) = {}
    BY <1>4, <1>6 DEF Write
  <2>5. DOMAIN Difference(h) = {}
    BY <2>3, <2>4 DEF Difference
  <2> QED
    BY <1>6, <2>5, ExecutesOf DEF Write
<1>7. CASE Remove(h)
  <2>1. {handler[h].item} \cap DOMAIN Sees(h) = {}
    BY <1>4, <1>7 DEF Remove
  <2>2. PICK s : Executes(h, [i \in {handler[h].item} \cap DOMAIN Sees(h) |-> NULL], s)
    BY <1>7 DEF Remove
  <2> DEFINE v == [i \in {handler[h].item} \cap DOMAIN Sees(h) |-> NULL]
  <2>3. DOMAIN v = {} /\ Executes(h, v, s)
    BY <2>1, <2>2
  <2> HIDE DEF v
  <2> QED
    BY <2>3, ExecutesOf
<1>8. CASE RemoveOrder(h)
  <2> DEFINE v == [r \in IF Order \in DOMAIN Sees(h) THEN DOMAIN Sees(h) ELSE {} |-> NULL]
  <2>1. written[k] # None
    BY NoneIsTable DEF Deletes
  <2>2. Order \notin DOMAIN Sees(h)
    BY <1>8, <2>1 DEF RemoveOrder
  <2>3. DOMAIN v = {} /\ Executes(h, v, Committing(h))
    BY <1>8, <2>2 DEF RemoveOrder
  <2> HIDE DEF v
  <2> QED
    BY <2>3, ExecutesOf
<1>9. ~Pay(h)
  BY <1>4 DEF Pay
<1> QED
  BY <1>5, <1>6, <1>7, <1>8, <1>9 DEF Statement

LEMMA DeletesAloneKept ==
    ASSUME Types, Phases, DeletesAlone, HaveOrder, [Next]_vars
    PROVE  DeletesAlone'
<1> SUFFICES ASSUME NEW k \in Handlers, Deletes(k, Order)'
             PROVE  /\ \A r \in DOMAIN written'[k] : written'[k][r] = NULL
                    /\ DOMAIN row' \subseteq DOMAIN written'[k]
                    /\ \A g \in Handlers \ {k} : written'[g] = None
  BY DEF DeletesAlone
<1>1. ASSUME Deletes(k, Order), written'[k] = written[k], row' = row,
             \A g \in Handlers \ {k} : written[g] = None => written'[g] = None
      PROVE  /\ \A r \in DOMAIN written'[k] : written'[k][r] = NULL
             /\ DOMAIN row' \subseteq DOMAIN written'[k]
             /\ \A g \in Handlers \ {k} : written'[g] = None
  BY <1>1 DEF DeletesAlone
<1>2. ASSUME NEW h \in Handlers, Statement(h)
      PROVE  /\ \A r \in DOMAIN written'[k] : written'[k][r] = NULL
             /\ DOMAIN row' \subseteq DOMAIN written'[k]
             /\ \A g \in Handlers \ {k} : written'[g] = None
  <2>1. /\ \A g \in Handlers \ {h} : written'[g] = written[g]
        /\ row' = row
    BY <1>2, StatementTurn, TurnOf
  <2>2. CASE k # h
    <3>1. Deletes(k, Order)
      BY <2>1, <2>2 DEF Deletes
    <3>2. written'[h] = written[h]
      BY <1>2, <2>2, <3>1, NothingToWrite
    <3> QED
      BY <1>1, <2>1, <2>2, <3>1, <3>2
  <2>3. CASE k = h
    <3> DEFINE v == [r \in IF Order \in DOMAIN Sees(h) THEN DOMAIN Sees(h) ELSE {} |-> NULL]
    <3>1. RemoveOrder(h)
      BY <1>2, <2>3, DeletesByRemoveOrder
    <3>2. /\ Executes(h, v, Committing(h)) /\ handler[h].at = "removeOrder"
          /\ \A r \in DOMAIN v : v[r] = NULL
      BY <3>1 DEF RemoveOrder
    <3>3. Order \in DOMAIN Sees(h)
      <4>1. ~Deletes(h, Order)
        BY <3>2 DEF Phases
      <4>2. CASE Order \notin DOMAIN Sees(h)
        <5>1. DOMAIN v = {}
          BY <4>2
        <5> HIDE DEF v
        <5>2. written'[h] = written[h]
          BY <3>2, <5>1, ExecutesOf
        <5> QED
          BY <2>3, <4>1, <5>2 DEF Deletes
      <4> QED
        BY <4>2
    <3>4. DOMAIN v = DOMAIN Sees(h)
      BY <3>3
    <3>5. \A g \in Handlers \ {h} : written[g] = None
      BY <3>1, <3>3 DEF RemoveOrder
    <3>6. \A r \in DOMAIN written[h] : written[h][r] = NULL
      BY <3>2 DEF Phases
    <3>7. DOMAIN row \subseteq DOMAIN written[h] \cup DOMAIN Sees(h)
      BY SeesOf, LayeredDomain, RowNotNull
    <3> HIDE DEF v
    <3>8. /\ DOMAIN written'[h] = DOMAIN written[h] \cup DOMAIN v
          /\ \A r \in DOMAIN v : written'[h][r] = v[r]
          /\ \A r \in DOMAIN written[h] \ DOMAIN v : written'[h][r] = written[h][r]
      BY <3>2, ExecutesOf
    <3>9. \A r \in DOMAIN written'[h] : written'[h][r] = NULL
      BY <3>2, <3>6, <3>8
    <3>10. DOMAIN row' \subseteq DOMAIN written'[h]
      BY <2>1, <3>4, <3>7, <3>8
    <3>11. \A g \in Handlers \ {h} : written'[g] = None
      BY <2>1, <3>5
    <3> QED
      BY <2>3, <3>9, <3>10, <3>11
  <2> QED
    BY <2>2, <2>3
<1>3. ASSUME NEW h \in Handlers, Commit(h) \/ Fail(h)
      PROVE  /\ \A r \in DOMAIN written'[k] : written'[k][r] = NULL
             /\ DOMAIN row' \subseteq DOMAIN written'[k]
             /\ \A g \in Handlers \ {k} : written'[g] = None
  <2>1. written' = [written EXCEPT ![h] = None]
    BY <1>3 DEF Commit, Fail, Ends, Goes
  <2>2. /\ written'[h] = None
        /\ \A g \in Handlers \ {h} : written'[g] = written[g]
    BY <2>1 DEF Types
  <2>3. k # h
    BY <2>2, NoneIsTable DEF Deletes
  <2>4. Deletes(k, Order)
    BY <2>2, <2>3 DEF Deletes
  <2>5. written[h] = None
    BY <2>3, <2>4 DEF DeletesAlone
  <2>6. row' = row
    BY <1>3, <2>5, SeesCommitted DEF Commit, Changes, Fail
  <2> QED
    BY <1>1, <2>2, <2>3, <2>4, <2>6
<1>4. ASSUME NEW S \in SUBSET Items, NEW line \in [S -> Prices], Create(line)
      PROVE  FALSE
  <2>1. written'[k] = None
    BY <1>4 DEF Create, Types
  <2> QED
    BY <2>1, NoneIsTable DEF Deletes
<1>5. CASE Delete
  <2>1. written'[k] = None
    BY <1>5 DEF Delete
  <2> QED
    BY <2>1, NoneIsTable DEF Deletes
<1>6. CASE UNCHANGED vars
  BY <1>1, <1>6 DEF vars, Deletes
<1> QED
  BY <1>2, <1>3, <1>4, <1>5, <1>6, Steps

-----------------------------------------------------------------------------
(* Items and their order *)

\* What h sees before and after it executes a statement that writes v.
LEMMA SeesAfter ==
    ASSUME Types, NEW h \in Handlers, NEW v, NEW s, Executes(h, v, s)
    PROVE  Layered(Sees(h)', Sees(h), v)
<1> DEFINE d == row
           e == row'
           w == written[h]
           u == written'[h]
           now == Sees(h)
           then == Sees(h)'
<1>1. Layered(now, d, w) /\ Layered(then, e, u)
  BY SeesOf, SeesNext
<1>2. /\ DOMAIN u = DOMAIN w \cup DOMAIN v
      /\ \A r \in DOMAIN v : u[r] = v[r]
      /\ \A r \in DOMAIN w \ DOMAIN v : u[r] = w[r]
      /\ e = d
  BY ExecutesOf
<1> HIDE DEF d, e, w, u, now, then
<1>3. \A r : r \in DOMAIN then <=>
                IF r \in DOMAIN v THEN v[r] # NULL ELSE r \in DOMAIN now /\ now[r] # NULL
  BY <1>1, <1>2 DEF Layered
<1>4. \A r \in DOMAIN then : then[r] = IF r \in DOMAIN v THEN v[r] ELSE now[r]
  BY <1>1, <1>2, <1>3 DEF Layered
<1>5. Layered(then, now, v)
  BY <1>1, <1>3, <1>4 DEF Layered
<1> QED
  BY <1>5 DEF now, then

\* What h sees has an item only with its order, after each statement of h.
LEMMA StatementHasOrder ==
    ASSUME Types, Phases, HaveOrder, NEW h \in Handlers, Statement(h)
    PROVE  HasOrder(Sees(h)')
<1>1. HasOrder(Sees(h)) /\ IsTable(Sees(h))
  BY SeesTable DEF HaveOrder
<1>2. CASE \/ \E i \in Items :
                 \/ \E newPrice \in Prices : ReadForUpdate(h, i, newPrice)
                 \/ ReadForDelete(h, i)
           \/ ReadForPayment(h)
           \/ Load(h)
  BY <1>1, <1>2, ReadsOf DEF Sees
<1>3. CASE Write(h)
  <2> DEFINE v == Difference(h)
  <2>1. PICK s : Executes(h, v, s)
    BY <1>3 DEF Write
  <2>2. IsRequest(handler[h]) /\ ~Refused(h)
    BY <1>3, NotIdle DEF Write
  <2>3. /\ DOMAIN v = Missing(h) \cup (Changed(h) \cap DOMAIN Sees(h))
        /\ \A r \in DOMAIN v : v[r] # NULL
    BY <2>2, DifferenceOverlay DEF Difference
  <2> HIDE DEF v
  <2>4. DOMAIN Sees(h)' = DOMAIN Sees(h) \cup DOMAIN v
    BY <2>1, <2>3, SeesAfter, LayeredDomain, SeesNotNull
  <2>5. Missing(h) \cap Items # {} => Order \in Missing(h) \cup DOMAIN Sees(h)
    BY <2>2 DEF Refused
  <2> QED
    BY <1>1, <2>3, <2>4, <2>5 DEF HasOrder
<1>4. CASE Remove(h)
  <2> DEFINE v == [i \in {handler[h].item} \cap DOMAIN Sees(h) |-> NULL]
  <2>1. PICK s : Executes(h, v, s)
    BY <1>4 DEF Remove
  <2>2. IsRequest(handler[h])
    BY <1>4, NotIdle DEF Remove
  <2>3. Order \notin DOMAIN v /\ \A r \in DOMAIN v : v[r] = NULL
    BY <1>1, <2>2, OrderEditsAssumption DEF IsRequest, Rows
  <2> HIDE DEF v
  <2>4. DOMAIN Sees(h)' = DOMAIN Sees(h) \ DOMAIN v
    BY <2>1, <2>3, SeesAfter, LayeredDomain, SeesNotNull
  <2> QED
    BY <1>1, <2>3, <2>4 DEF HasOrder
<1>5. CASE RemoveOrder(h)
  <2> DEFINE v == [r \in IF Order \in DOMAIN Sees(h) THEN DOMAIN Sees(h) ELSE {} |-> NULL]
  <2>1. Executes(h, v, Committing(h))
    BY <1>5 DEF RemoveOrder
  <2>2. /\ Order \in DOMAIN Sees(h) => DOMAIN v = DOMAIN Sees(h)
        /\ Order \notin DOMAIN Sees(h) => DOMAIN v = {}
        /\ \A r \in DOMAIN v : v[r] = NULL
    OBVIOUS
  <2> HIDE DEF v
  <2>3. DOMAIN Sees(h)' = DOMAIN Sees(h) \ DOMAIN v
    BY <2>1, <2>2, SeesAfter, LayeredDomain, SeesNotNull
  <2> QED
    BY <1>1, <2>2, <2>3 DEF HasOrder
<1>6. CASE Pay(h)
  <2> DEFINE v == [o \in {Order} \cap DOMAIN Sees(h) |->
                     [Sees(h)[o] EXCEPT !.paid = handler[h].want[Order].paid,
                                        !.status = handler[h].want[Order].status]]
  <2>1. Executes(h, v, Committing(h)) /\ handler[h].at = "pay"
    BY <1>6 DEF Pay
  <2>2. DOMAIN v = {Order} \cap DOMAIN Sees(h)
    OBVIOUS
  <2>3. IsRequest(handler[h])
    BY <1>6, NotIdle DEF Pay
  <2>4. \A r \in DOMAIN v : v[r] \in OrderRow
    <3>1. handler[h].want[Order] \in OrderRow
      BY <2>3 DEF IsRequest, IsTable
    <3> QED
      BY <1>1, <3>1 DEF IsTable, OrderRow
  <2>5. \A r \in DOMAIN v : v[r] # NULL
    BY <2>4, OrderEditsAssumption
  <2> HIDE DEF v
  <2>6. DOMAIN Sees(h)' = DOMAIN Sees(h) \cup DOMAIN v
    BY <2>1, <2>2, <2>5, SeesAfter, LayeredDomain, SeesNotNull
  <2> QED
    BY <1>1, <2>2, <2>6 DEF HasOrder
<1> QED
  BY <1>2, <1>3, <1>4, <1>5, <1>6 DEF Statement

\* What the others see when h commits: their locks keep items and order together.
LEMMA CommitHasOrder ==
    ASSUME Types, DeletesAlone, HaveOrder, NEW h \in Handlers, Commit(h),
           NEW g \in Handlers \ {h}
    PROVE  HasOrder(Sees(g)')
<1> SUFFICES ASSUME NEW i \in DOMAIN Sees(g)' \cap Items
             PROVE  Order \in DOMAIN Sees(g)'
  BY DEF HasOrder
<1>1. row' = Sees(h) /\ written'[g] = written[g]
  BY DEF Commit, Changes, Ends, Types
<1>2. Layered(Sees(g)', Sees(h), written[g])
  BY <1>1, SeesNext
<1>3. Layered(Sees(g), row, written[g]) /\ Layered(Sees(h), row, written[h])
  BY SeesOf
<1>4. HasOrder(Sees(g)) /\ HasOrder(Sees(h))
  BY DEF HaveOrder
<1>5. \A r \in DOMAIN Sees(h) : Sees(h)[r] # NULL
  BY SeesNotNull
<1>6. CASE Deletes(g, Order)
  <2>1. /\ \A r \in DOMAIN written[g] : written[g][r] = NULL
        /\ DOMAIN row \subseteq DOMAIN written[g] /\ written[h] = None
    BY <1>6 DEF DeletesAlone
  <2>2. Sees(h) = row
    BY <2>1, SeesCommitted
  <2> QED
    BY <1>2, <2>1, <2>2 DEF Layered
<1>7. CASE Deletes(h, Order)
  <2>1. /\ \A r \in DOMAIN written[h] : written[h][r] = NULL
        /\ DOMAIN row \subseteq DOMAIN written[h] /\ written[g] = None
    BY <1>7 DEF DeletesAlone
  <2> QED
    BY <1>2, <1>3, <2>1, NoneIsTable DEF Layered
<1>8. CASE ~Deletes(g, Order) /\ ~Deletes(h, Order)
  <2>1. Order \in DOMAIN written[g] => Order \in DOMAIN Sees(g)'
    BY <1>2, <1>8 DEF Layered, Deletes
  <2>2. CASE i \in DOMAIN written[g] /\ Order \notin DOMAIN written[g]
    <3>1. i \in DOMAIN Sees(g)
      BY <1>2, <1>3, <2>2 DEF Layered
    <3>2. Order \in DOMAIN row /\ row[Order] # NULL
      BY <1>3, <1>4, <2>2, <3>1 DEF Layered, HasOrder
    <3>3. Order \in DOMAIN Sees(h)
      BY <1>3, <1>8, <3>2 DEF Layered, Deletes
    <3> QED
      BY <1>2, <1>5, <2>2, <3>3 DEF Layered
  <2>3. CASE i \notin DOMAIN written[g] /\ Order \notin DOMAIN written[g]
    <3>1. i \in DOMAIN Sees(h)
      BY <1>2, <2>3 DEF Layered
    <3>2. Order \in DOMAIN Sees(h)
      BY <1>4, <3>1 DEF HasOrder
    <3> QED
      BY <1>2, <1>5, <2>3, <3>2 DEF Layered
  <2> QED
    BY <2>1, <2>2, <2>3
<1> QED
  BY <1>6, <1>7, <1>8

LEMMA HaveOrderKept ==
    ASSUME Types, Phases, DeletesAlone, HaveOrder, [Next]_vars
    PROVE  HaveOrder'
<1>1. ASSUME NEW S \in SUBSET Items, NEW line \in [S -> Prices], Create(line)
      PROVE  HaveOrder'
  <2>1. Order \in DOMAIN row'
    BY <1>1 DEF Create, Patched
  <2>2. Types'
    <3>1. [Next]_vars
      OBVIOUS
    <3> QED
      BY <3>1, TypesKept
  <2>3. row'[Order] # NULL
    BY <2>1, <2>2, OrderEditsAssumption DEF Types, IsTable
  <2>4. ASSUME NEW g \in Handlers
        PROVE  HasOrder(Sees(g)')
    <3>1. DOMAIN written'[g] = {}
      BY <1>1, NoneIsTable DEF Create, Types
    <3> QED
      BY <2>1, <2>3, <3>1, SeesNext DEF Layered, HasOrder
  <2> QED
    BY <2>1, <2>4 DEF HaveOrder, HasOrder
<1>2. CASE Delete
  <2>1. row' = None /\ \A g \in Handlers : written'[g] = None
    BY <1>2 DEF Delete, Changes
  <2>2. ASSUME NEW g \in Handlers
        PROVE  HasOrder(Sees(g)')
    BY <2>1, SeesNext, NoneIsTable DEF Layered, HasOrder
  <2> QED
    BY <2>1, <2>2, NoneIsTable DEF HaveOrder, HasOrder
<1>3. ASSUME NEW h \in Handlers, Statement(h)
      PROVE  HaveOrder'
  <2>1. row' = row /\ \A g \in Handlers \ {h} : written'[g] = written[g]
    BY <1>3, StatementTurn, TurnOf
  <2>2. ASSUME NEW g \in Handlers \ {h}
        PROVE  HasOrder(Sees(g)')
    BY <2>1 DEF Sees, HaveOrder
  <2>3. HasOrder(Sees(h)')
    BY <1>3, StatementHasOrder
  <2> QED
    BY <2>1, <2>2, <2>3 DEF HaveOrder
<1>4. ASSUME NEW h \in Handlers, Commit(h)
      PROVE  HaveOrder'
  <2>1. row' = Sees(h) /\ written'[h] = None
    BY <1>4 DEF Commit, Changes, Ends, Types
  <2>2. HasOrder(row')
    BY <2>1 DEF HaveOrder
  <2>3. HasOrder(Sees(h)')
    <3>1. DOMAIN written'[h] = {}
      BY <2>1, NoneIsTable
    <3> QED
      BY <2>1, <2>2, <3>1, SeesNotNull, SeesNext DEF Layered, HasOrder
  <2> QED
    BY <1>4, <2>2, <2>3, CommitHasOrder DEF HaveOrder
<1>5. ASSUME NEW h \in Handlers, Fail(h)
      PROVE  HaveOrder'
  <2>1. /\ row' = row /\ written'[h] = None
        /\ \A g \in Handlers \ {h} : written'[g] = written[g]
    BY <1>5 DEF Fail, Ends, Types
  <2>2. ASSUME NEW g \in Handlers \ {h}
        PROVE  HasOrder(Sees(g)')
    BY <2>1 DEF Sees, HaveOrder
  <2>3. HasOrder(Sees(h)')
    <3>1. DOMAIN written'[h] = {} /\ HasOrder(row)
      BY <2>1, NoneIsTable DEF HaveOrder
    <3> QED
      BY <2>1, <3>1, RowNotNull, SeesNext DEF Layered, HasOrder
  <2> QED
    BY <2>1, <2>2, <2>3 DEF HaveOrder
<1>6. CASE UNCHANGED vars
  BY <1>6 DEF vars, HaveOrder, Sees
<1> QED
  BY <1>1, <1>2, <1>3, <1>4, <1>5, <1>6, Steps

-----------------------------------------------------------------------------
(* Fresh requests *)

LEMMA SameTable ==
    ASSUME NEW d, NEW e, IsTable(d), IsTable(e), DOMAIN d = DOMAIN e,
           \A r \in DOMAIN d : d[r] = e[r]
    PROVE  d = e
BY DEF IsTable

LEMMA OnlyAll ==
    ASSUME NEW d, IsTable(d)
    PROVE  Only(d, Rows) = d
<1> DEFINE e == Only(d, Rows)
<1>1. DOMAIN e = DOMAIN d /\ \A r \in DOMAIN e : e[r] = d[r]
  BY DEF Only, IsTable
<1>2. IsTable(e)
  BY OnlyTable
<1> HIDE DEF e
<1>3. e = d
  BY <1>1, <1>2, SameTable
<1> QED
  BY <1>3 DEF e

\* A request whose order does not change, and that does nothing, stays fresh.
LEMMA OtherStaysFresh ==
    ASSUME NEW g \in Handlers, Fresh(g), handler'[g] = handler[g], written'[g] = written[g],
           handler[g] # Idle /\ ~stale'[g] => ~stale[g] /\ row' = row
    PROVE  Fresh(g)'
BY DEF Fresh, FreshPayment, Intends, Progresses, Lines, Sees

\* The rows that an edit starts from, and the row it makes of the order.
LEMMA LinesOf ==
    ASSUME Types, NEW h \in Handlers, Intends(h), Order \in DOMAIN row
    PROVE  /\ IsTable(Lines(h)) /\ Order \in DOMAIN Lines(h)
           /\ \A r \in DOMAIN Lines(h) \ {handler[h].item} : Lines(h)[r] = row[r]
           /\ DOMAIN handler[h].want = DOMAIN Lines(h)
           /\ \A r \in DOMAIN Lines(h) \ {Order} : handler[h].want[r] = Lines(h)[r]
           /\ IsTable(handler[h].want)
<1>1. IsTable(row) /\ handler[h].item \in Items /\ handler[h].item # Order
  BY OrderEditsAssumption DEF Types, Intends
<1>2. CASE handler[h].op = "update"
  <2>1. Lines(h) = [row EXCEPT ![handler[h].item] = handler[h].to] /\ handler[h].to \in Nat
    BY <1>2, OrderEditsAssumption DEF Lines, Intends
  <2> DEFINE d == [row EXCEPT ![handler[h].item] = handler[h].to]
  <2>2. /\ DOMAIN d = DOMAIN row /\ d = [r \in DOMAIN d |-> d[r]]
        /\ d[handler[h].item] = handler[h].to
        /\ \A r \in DOMAIN d \ {handler[h].item} : d[r] = row[r]
    BY DEF Intends
  <2> HIDE DEF d
  <2>3. IsTable(d)
    BY <1>1, <2>1, <2>2 DEF IsTable
  <2>4. d = Lines(h)
    BY <2>1 DEF d
  <2>5. IsTable(Lines(h)) /\ Order \in DOMAIN Lines(h)
        /\ \A r \in DOMAIN Lines(h) \ {handler[h].item} : Lines(h)[r] = row[r]
    BY <2>2, <2>3, <2>4
  <2>6. PICK err \in -1..1 : handler[h].want = Recalculated(Lines(h), err)
    BY DEF Intends, Errors
  <2> QED
    BY <2>5, <2>6, RecalculatedTable
<1>3. CASE handler[h].op = "delete"
  <2> DEFINE d == Only(row, DOMAIN row \ {handler[h].item})
  <2>1. d = Lines(h)
    BY <1>3 DEF Lines
  <2>2. /\ DOMAIN d = DOMAIN row \ {handler[h].item}
        /\ \A r \in DOMAIN d : d[r] = row[r]
    BY DEF Only
  <2>3. IsTable(d)
    BY <1>1, OnlyTable
  <2> HIDE DEF d
  <2>4. IsTable(Lines(h)) /\ Order \in DOMAIN Lines(h)
        /\ \A r \in DOMAIN Lines(h) \ {handler[h].item} : Lines(h)[r] = row[r]
    BY <1>1, <2>1, <2>2, <2>3
  <2>5. PICK err \in -1..1 : handler[h].want = Recalculated(Lines(h), err)
    BY DEF Intends, Errors
  <2> QED
    BY <2>4, <2>5, RecalculatedTable
<1> QED
  BY <1>2, <1>3 DEF Intends

\* What stays the same while the request goes on.
GoesOn(h, a, S, t) ==
    /\ row' = row
    /\ handler'[h] = At(handler[h], a, S, t)

LEMMA IntentionKept ==
    ASSUME NEW h \in Handlers, Intends(h), NEW a, NEW S, NEW t, GoesOn(h, a, S, t)
    PROVE  /\ Intends(h)' /\ Lines(h)' = Lines(h)
           /\ handler'[h].op = handler[h].op /\ handler'[h].item = handler[h].item
           /\ handler'[h].want = handler[h].want
           /\ handler'[h].at = a /\ handler'[h].save = S /\ handler'[h].seen = t
<1> row' = row
  BY DEF GoesOn
<1>1. /\ handler'[h].op = handler[h].op /\ handler'[h].item = handler[h].item
      /\ handler'[h].to = handler[h].to /\ handler'[h].want = handler[h].want
      /\ handler'[h].at = a /\ handler'[h].save = S /\ handler'[h].seen = t
  BY DEF At, GoesOn
<1>2. Lines(h)' = Lines(h)
  BY <1>1 DEF Lines
<1> QED
  BY <1>1, <1>2 DEF Intends

LEMMA StartsFresh ==
    ASSUME Types, HaveOrder, NEW h \in Handlers,
           \/ \E i \in Items :
                 \/ \E newPrice \in Prices : ReadForUpdate(h, i, newPrice)
                 \/ ReadForDelete(h, i)
           \/ ReadForPayment(h)
    PROVE  Fresh(h)'
<1>1. /\ row' = row /\ written'[h] = None
      /\ DOMAIN handler = Handlers
  BY DEF Types, ReadForUpdate, ReadForDelete, ReadForPayment
<1>2. Order \in DOMAIN row
  BY DEF HaveOrder, HasOrder, ReadForUpdate, ReadForDelete, ReadForPayment
<1>3. ASSUME NEW op, NEW i, NEW to, NEW at, NEW want, Starts(h, op, i, to, at, want)
      PROVE  /\ handler'[h].op = op /\ handler'[h].item = i /\ handler'[h].to = to
             /\ handler'[h].at = at /\ handler'[h].want = want
             /\ handler'[h].save = {i} \cap Items /\ handler'[h].seen = None
  <2> DEFINE s == [op |-> op, item |-> i, to |-> to, at |-> at, want |-> want,
                   save |-> {i} \cap Items, seen |-> None]
  <2>1. handler'[h] = s
    BY <1>1, <1>3 DEF Starts, Goes
  <2> QED
    BY <2>1
<1>4. ASSUME NEW i \in Items, NEW newPrice \in Prices, ReadForUpdate(h, i, newPrice)
      PROVE  Fresh(h)'
  <2> DEFINE lines == [row EXCEPT ![i] = newPrice]
  <2>1. i \in DOMAIN row
    BY <1>4 DEF ReadForUpdate
  <2>2. PICK err \in Errors(PricesIn(lines)) :
           Starts(h, "update", i, newPrice, "load", Recalculated(lines, err))
    BY <1>4 DEF ReadForUpdate
  <2>3. /\ handler'[h].op = "update" /\ handler'[h].item = i /\ handler'[h].to = newPrice
        /\ handler'[h].at = "load" /\ handler'[h].want = Recalculated(lines, err)
        /\ handler'[h].save = {i} \cap Items
    BY <1>3, <2>2
  <2>4. Lines(h)' = lines
    BY <1>1, <2>3 DEF Lines
  <2> HIDE DEF lines
  <2>5. Intends(h)'
    BY <1>1, <2>1, <2>3, <2>4 DEF Intends
  <2>6. Progresses(h)'
    BY <1>1, <2>3 DEF Progresses
  <2> QED
    BY <1>1, <1>2, <2>3, <2>5, <2>6 DEF Fresh
<1>5. ASSUME NEW i \in Items, ReadForDelete(h, i)
      PROVE  Fresh(h)'
  <2> DEFINE lines == Only(row, DOMAIN row \ {i})
  <2>1. i \in DOMAIN row
    BY <1>5 DEF ReadForDelete
  <2>2. PICK err \in Errors(PricesIn(lines)) :
           Starts(h, "delete", i, NULL, "remove", Recalculated(lines, err))
    BY <1>5 DEF ReadForDelete
  <2>3. /\ handler'[h].op = "delete" /\ handler'[h].item = i
        /\ handler'[h].at = "remove" /\ handler'[h].want = Recalculated(lines, err)
    BY <1>3, <2>2
  <2>4. Lines(h)' = lines
    BY <1>1, <2>3 DEF Lines
  <2> HIDE DEF lines
  <2>5. Intends(h)'
    BY <1>1, <2>1, <2>3, <2>4 DEF Intends
  <2>6. Progresses(h)'
    BY <2>3 DEF Progresses
  <2> QED
    BY <1>1, <1>2, <2>3, <2>5, <2>6 DEF Fresh
<1>6. CASE ReadForPayment(h)
  <2> DEFINE want == [row EXCEPT ![Order].paid = Sum(PricesIn(row)), ![Order].status = "paid"]
  <2>1. Starts(h, "pay", NULL, NULL, "pay", want)
    BY <1>6 DEF ReadForPayment
  <2>2. handler'[h].op = "pay" /\ handler'[h].at = "pay" /\ handler'[h].want = want
    <3> HIDE DEF want
    <3> QED
      BY <1>3, <2>1
  <2>3. FreshPayment(h)'
    BY <1>1, <2>2 DEF FreshPayment
  <2> QED
    BY <1>1, <1>2, <2>2, <2>3 DEF Fresh
<1> QED
  BY <1>4, <1>5, <1>6

\* A fresh request that is not a payment.
LEMMA FreshEdit ==
    ASSUME Types, NEW h \in Handlers, Fresh(h), ~stale[h],
           handler[h].at \in {"load", "write", "remove", "removeOrder"}
    PROVE  /\ handler[h] # Idle /\ IsRequest(handler[h])
           /\ Order \in DOMAIN row /\ Intends(h) /\ Progresses(h)
<1>1. handler[h] # Idle /\ IsRequest(handler[h])
  <2>1. handler[h].at # "idle"
    OBVIOUS
  <2> QED
    BY <2>1, NotIdle
<1>2. handler[h].op # "pay"
  <2>1. ~FreshPayment(h)
    BY DEF FreshPayment
  <2> QED
    BY <1>1, <2>1 DEF Fresh
<1> QED
  BY <1>1, <1>2 DEF Fresh

\* The rows of an edit after a statement that leaves it its intention.
LEMMA EditGoesOn ==
    ASSUME Types, NEW h \in Handlers, Fresh(h), Intends(h), Order \in DOMAIN row,
           NEW a, NEW S, NEW t, GoesOn(h, a, S, t), Progresses(h)'
    PROVE  Fresh(h)'
<1>1. Intends(h)' /\ handler'[h].op = handler[h].op
  BY IntentionKept
<1>2. handler'[h].op # "pay"
  BY <1>1 DEF Intends
<1>3. Order \in DOMAIN row'
  BY DEF GoesOn
<1> QED
  BY <1>1, <1>2, <1>3 DEF Fresh

LEMMA LoadFresh ==
    ASSUME Types, NEW h \in Handlers, Fresh(h), ~stale[h], Load(h)
    PROVE  Fresh(h)'
<1> DEFINE t == Only(Sees(h), handler[h].save)
<1>1. /\ handler[h].at = "load" /\ written' = written
      /\ GoesOn(h, "write", handler[h].save, t)
  BY DEF Load, Goes, Types, GoesOn
<1>2. /\ IsRequest(handler[h]) /\ Order \in DOMAIN row /\ Intends(h) /\ Progresses(h)
  BY <1>1, FreshEdit
<1>3. /\ Lines(h)' = Lines(h) /\ handler'[h].op = handler[h].op
      /\ handler'[h].item = handler[h].item
      /\ handler'[h].at = "write" /\ handler'[h].save = handler[h].save
      /\ handler'[h].seen = t
  <2> HIDE DEF t
  <2> QED
    BY <1>1, <1>2, IntentionKept
<1>4. Sees(h)' = Sees(h)
  BY <1>1 DEF Sees, GoesOn
<1>5. CASE /\ handler[h].op = "update" /\ handler[h].save = {handler[h].item}
           /\ written[h] = None
  <2>1. t = Only(row, {handler[h].item})
    BY <1>5, SeesCommitted
  <2> HIDE DEF t
  <2>2. Progresses(h)'
    BY <1>1, <1>3, <1>5, <2>1 DEF Progresses, GoesOn
  <2> QED
    BY <1>1, <1>2, <2>2, EditGoesOn
<1>6. CASE /\ handler[h].save = Rows /\ Sees(h) = Lines(h) /\ DOMAIN Lines(h) # {Order}
  <2>1. t = Lines(h)
    BY <1>2, <1>6, LinesOf, OnlyAll
  <2> HIDE DEF t
  <2>2. Progresses(h)'
    BY <1>3, <1>4, <1>6, <2>1 DEF Progresses
  <2> QED
    BY <1>1, <1>2, <2>2, EditGoesOn
<1> QED
  BY <1>1, <1>2, <1>5, <1>6 DEF Progresses

\* What save does in a fresh request: first the item, then the order.
LEMMA WriteOfItem ==
    ASSUME Types, NEW h \in Handlers, Intends(h), Order \in DOMAIN row,
           handler[h].op = "update", handler[h].save = {handler[h].item},
           handler[h].seen = Only(row, {handler[h].item})
    PROVE  /\ Missing(h) = {} /\ Orphans(h) = {} /\ Changed(h) \subseteq {handler[h].item}
           /\ DOMAIN Lines(h) = DOMAIN row
           /\ handler[h].item \notin Changed(h) =>
                 Lines(h)[handler[h].item] = row[handler[h].item]
<1> DEFINE i == handler[h].item
           want == handler[h].want
           seen == handler[h].seen
<1>1. i \in DOMAIN row /\ i # Order
  BY OrderEditsAssumption DEF Intends
<1>2. DOMAIN seen = {i} /\ seen[i] = row[i]
  BY <1>1 DEF Only
<1>3. DOMAIN Lines(h) = DOMAIN row
  BY DEF Lines
<1>4. DOMAIN want = DOMAIN row /\ want[i] = Lines(h)[i]
  BY <1>1, <1>3, LinesOf
<1> QED
  BY <1>1, <1>2, <1>3, <1>4 DEF Missing, Orphans, Changed

LEMMA WriteOfOrder ==
    ASSUME Types, NEW h \in Handlers, Intends(h), Order \in DOMAIN row,
           handler[h].save = Rows, handler[h].seen = Lines(h)
    PROVE  Missing(h) = {} /\ Orphans(h) = {} /\ Changed(h) \subseteq {Order}
<1>1. /\ DOMAIN handler[h].want = DOMAIN Lines(h)
      /\ \A r \in DOMAIN Lines(h) \ {Order} : handler[h].want[r] = Lines(h)[r]
  BY LinesOf
<1> QED
  BY <1>1 DEF Missing, Orphans, Changed

LEMMA FreshWriteAccepted ==
    ASSUME Types, NEW h \in Handlers, Fresh(h), ~stale[h], handler[h].at = "write"
    PROVE  ~Refused(h)
<1>1. Order \in DOMAIN row /\ Intends(h) /\ Progresses(h)
  BY FreshEdit
<1>2. Missing(h) = {} /\ Orphans(h) = {}
  BY <1>1, WriteOfItem, WriteOfOrder DEF Progresses
<1> QED
  BY <1>2 DEF Refused

\* Where a statement leaves its request.
LEMMA ExecutesGoesOn ==
    ASSUME Types, NEW h \in Handlers, NEW v, NEW a, NEW S, NEW t,
           Executes(h, v, At(handler[h], a, S, t))
    PROVE  GoesOn(h, a, S, t) /\ Layered(Sees(h)', Sees(h), v)
<1> DEFINE s == At(handler[h], a, S, t)
<1>1. Executes(h, v, s)
  OBVIOUS
<1> HIDE DEF s
<1>2. handler'[h] = s /\ row' = row /\ Layered(Sees(h)', Sees(h), v)
  BY <1>1, ExecutesOf, SeesAfter
<1> QED
  BY <1>2 DEF GoesOn, s

LEMMA SeesTableNext ==
    ASSUME Types, HaveOrder, NEW h \in Handlers, Statement(h)
    PROVE  IsTable(Sees(h)')
<1>1. Types'
  <2>1. [Next]_vars
    BY DEF Next, Statement
  <2> QED
    BY <2>1, TypesKept
<1>2. Layered(Sees(h)', row', written'[h])
  BY SeesNext
<1>3. Sees(h)' = Live(Patched(row', written'[h]))
  BY DEF Sees
<1> DEFINE then == Sees(h)'
<1>4. IsTable(row') /\ IsOverlay(written'[h])
  BY <1>1 DEF Types
<1>5. ASSUME NEW r \in DOMAIN then
      PROVE  r \in Rows /\ IF r = Order THEN then[r] \in OrderRow ELSE then[r] \in Nat
  <2>1. CASE r \in DOMAIN written'[h]
    <3>1. written'[h][r] # NULL /\ then[r] = written'[h][r]
      BY <1>2, <1>5, <2>1 DEF Layered
    <3> QED
      BY <1>4, <2>1, <3>1 DEF IsOverlay
  <2>2. CASE r \notin DOMAIN written'[h]
    <3>1. r \in DOMAIN row' /\ then[r] = row'[r]
      BY <1>2, <1>5, <2>2 DEF Layered
    <3> QED
      BY <1>4, <3>1, TableRow, OrderEditsAssumption DEF Rows
  <2> QED
    BY <2>1, <2>2
<1>6. then = [r \in DOMAIN then |-> then[r]]
  BY <1>2 DEF Layered
<1> HIDE DEF then
<1>7. IsTable(then)
  BY <1>5, <1>6, OrderEditsAssumption DEF IsTable
<1> QED
  BY <1>7 DEF then

LEMMA WriteFresh ==
    ASSUME Types, HaveOrder, NEW h \in Handlers, Fresh(h), ~stale[h], Write(h)
    PROVE  Fresh(h)'
<1> DEFINE v == Difference(h)
           want == handler[h].want
           now == Sees(h)
           then == Sees(h)'
<1>1. handler[h].at = "write"
  BY DEF Write
<1>2. IsRequest(handler[h]) /\ Order \in DOMAIN row /\ Intends(h) /\ Progresses(h)
  BY <1>1, FreshEdit
<1>3. IsTable(now) /\ IsTable(then)
  BY SeesTable, SeesTableNext DEF Statement
<1>4. /\ DOMAIN v = Missing(h) \cup (Changed(h) \cap DOMAIN now)
      /\ \A r \in DOMAIN v : v[r] # NULL
      /\ \A r \in DOMAIN v :
            v[r] = IF r = Order /\ r \in Changed(h)
                   THEN Merged(now[r], handler[h].seen[r], want[r]) ELSE want[r]
  BY <1>2, DifferenceOverlay DEF Difference
<1>5. Missing(h) = {} => DOMAIN v \subseteq DOMAIN now
  BY <1>4
<1>6. CASE /\ handler[h].op = "update" /\ handler[h].save = {handler[h].item}
           /\ written[h] = None /\ handler[h].seen = Only(row, {handler[h].item})
  <2> DEFINE i == handler[h].item
             lines == Lines(h)
  <2>1. /\ i \in DOMAIN row /\ i \in Items /\ i # Order
    BY <1>2, OrderEditsAssumption DEF Intends
  <2>2. now = row
    BY <1>6, SeesCommitted
  <2>3. Executes(h, v, At(handler[h], "load", Rows, None))
    <3>1. handler[h].save # Rows
      BY <1>6, <2>1 DEF Rows
    <3> QED
      BY <3>1 DEF Write, Saving
  <2> HIDE DEF v
  <2>4. GoesOn(h, "load", Rows, None) /\ Layered(then, now, v)
    BY <2>3, ExecutesGoesOn
  <2>5. /\ Missing(h) = {} /\ Changed(h) \subseteq {i} /\ DOMAIN lines = DOMAIN row
        /\ i \notin Changed(h) => lines[i] = row[i]
    BY <1>2, <1>6, WriteOfItem
  <2>6. /\ IsTable(lines) /\ want[i] = lines[i]
        /\ \A r \in DOMAIN lines \ {i} : lines[r] = row[r]
    BY <1>2, <2>1, <2>5, LinesOf
  <2>7. DOMAIN v = Changed(h)
    BY <1>4, <2>1, <2>2, <2>5
  <2>8. DOMAIN then = DOMAIN lines
    <3>1. \A r \in DOMAIN now : now[r] # NULL
      BY <1>3, TableRow
    <3>2. DOMAIN then = DOMAIN now \cup DOMAIN v
      BY <1>4, <2>4, <3>1, LayeredDomain
    <3> QED
      BY <1>5, <2>2, <2>5, <3>2
  <2>9. \A r \in DOMAIN then : then[r] = lines[r]
    <3> TAKE r \in DOMAIN then
    <3>1. then[r] = IF r \in DOMAIN v THEN v[r] ELSE now[r]
      BY <2>4 DEF Layered
    <3>2. CASE r \in Changed(h)
      BY <1>4, <2>1, <2>5, <2>6, <2>7, <3>1, <3>2
    <3>3. CASE r \notin Changed(h)
      BY <2>2, <2>5, <2>6, <2>7, <2>8, <3>1, <3>3
    <3> QED
      BY <3>2, <3>3
  <2>10. then = lines
    BY <1>3, <2>6, <2>8, <2>9, SameTable
  <2>11. Progresses(h)'
    <3>1. /\ Lines(h)' = lines /\ handler'[h].at = "load" /\ handler'[h].save = Rows
      BY <1>2, <2>4, IntentionKept
    <3>2. DOMAIN lines # {Order}
      BY <2>1, <2>5
    <3> QED
      BY <2>10, <3>1, <3>2 DEF Progresses
  <2> QED
    BY <1>2, <2>4, <2>11, EditGoesOn
<1>7. CASE /\ handler[h].save = Rows /\ now = Lines(h) /\ DOMAIN Lines(h) # {Order}
           /\ handler[h].seen = Lines(h)
  <2>1. Executes(h, v, At(handler[h], "commit", {}, None))
    BY <1>7 DEF Write, Committing
  <2> HIDE DEF v
  <2>2. GoesOn(h, "commit", {}, None) /\ Layered(then, now, v)
    BY <2>1, ExecutesGoesOn
  <2>3. Missing(h) = {} /\ Changed(h) \subseteq {Order}
    BY <1>2, <1>7, WriteOfOrder
  <2>4. /\ DOMAIN want = DOMAIN now /\ IsTable(want) /\ Order \in DOMAIN now
        /\ \A r \in DOMAIN now \ {Order} : want[r] = now[r]
    BY <1>2, <1>7, LinesOf
  <2>5. DOMAIN v = Changed(h) /\ (Order \notin Changed(h) => want[Order] = now[Order])
    BY <1>4, <1>7, <2>3, <2>4 DEF Changed
  <2>6. DOMAIN then = DOMAIN want
    <3>1. \A r \in DOMAIN now : now[r] # NULL
      BY <1>3, TableRow
    <3>2. DOMAIN then = DOMAIN now \cup DOMAIN v
      BY <1>4, <2>2, <3>1, LayeredDomain
    <3> QED
      BY <2>3, <2>4, <2>5, <3>2
  <2>7. Merged(now[Order], now[Order], want[Order]) = want[Order]
    <3>1. now[Order] \in OrderRow /\ want[Order] \in OrderRow
      BY <1>3, <2>4 DEF IsTable
    <3> DEFINE old == now[Order]
               new == want[Order]
    <3> HIDE DEF old, new
    <3>2. Merged(old, old, new) = new
      BY <3>1 DEF Merged, OrderRow, old, new
    <3> QED
      BY <3>2 DEF old, new
  <2>8. \A r \in DOMAIN then : then[r] = want[r]
    <3> TAKE r \in DOMAIN then
    <3>1. then[r] = IF r \in DOMAIN v THEN v[r] ELSE now[r]
      BY <2>2 DEF Layered
    <3>2. CASE r \in Changed(h)
      BY <1>4, <1>7, <2>3, <2>5, <2>7, <3>1, <3>2
    <3>3. CASE r \notin Changed(h)
      BY <2>4, <2>5, <2>6, <3>1, <3>3
    <3> QED
      BY <3>2, <3>3
  <2>9. then = want
    BY <1>3, <2>4, <2>6, <2>8, SameTable
  <2>10. Progresses(h)'
    <3>1. Lines(h)' = Lines(h) /\ handler'[h].at = "commit" /\ handler'[h].want = want
      BY <1>2, <2>2, IntentionKept
    <3> QED
      BY <1>7, <2>9, <3>1 DEF Progresses
  <2> QED
    BY <1>2, <2>2, <2>10, EditGoesOn
<1> QED
  BY <1>1, <1>2, <1>6, <1>7 DEF Progresses

LEMMA RemoveFresh ==
    ASSUME Types, Phases, HaveOrder, NEW h \in Handlers, Fresh(h), ~stale[h], Remove(h)
    PROVE  Fresh(h)'
<1> DEFINE i == handler[h].item
           want == handler[h].want
           lines == Lines(h)
           then == Sees(h)'
           v == [r \in {handler[h].item} \cap DOMAIN Sees(h) |-> NULL]
<1>1. handler[h].at = "remove" /\ written[h] = None
  BY DEF Remove, Phases
<1>2. IsRequest(handler[h]) /\ Order \in DOMAIN row /\ Intends(h) /\ Progresses(h)
  BY <1>1, FreshEdit
<1>3. /\ i \in DOMAIN row /\ i \in Items /\ i # Order
  BY <1>2, OrderEditsAssumption DEF Intends
<1>4. Sees(h) = row
  BY <1>1, SeesCommitted
<1>5. lines = Only(row, DOMAIN row \ {i})
  BY <1>1, <1>2 DEF Progresses, Lines
<1>6. /\ IsTable(lines) /\ DOMAIN want = DOMAIN lines
      /\ \A r \in DOMAIN lines \ {i} : lines[r] = row[r]
  BY <1>2, LinesOf
<1>7. DOMAIN lines = DOMAIN row \ {i}
  BY <1>5 DEF Only
<1>8. DOMAIN v = {i} /\ \A r \in DOMAIN v : v[r] = NULL
  BY <1>3, <1>4
<1>9. \/ DOMAIN want = {Order} /\ Executes(h, v, At(handler[h], "removeOrder", {}, None))
      \/ DOMAIN want # {Order} /\ Executes(h, v, At(handler[h], "load", Rows, None))
  BY DEF Remove, Saving
<1> HIDE DEF v
<1>10. Layered(then, Sees(h), v)
  BY <1>9, ExecutesGoesOn
<1>11. IsTable(then)
  BY SeesTableNext DEF Statement
<1>12. then = lines
  <2>1. DOMAIN then = DOMAIN lines
    <3> DEFINE now == Sees(h)
    <3>1. \A r \in DOMAIN now : now[r] # NULL
      BY SeesNotNull
    <3>2. Layered(then, now, v)
      BY <1>10
    <3>3. now = row
      BY <1>4
    <3> HIDE DEF then, now
    <3>4. DOMAIN then = DOMAIN now \ DOMAIN v
      BY <1>8, <3>1, <3>2, LayeredDomain
    <3> QED
      BY <1>7, <1>8, <3>3, <3>4
  <2>2. \A r \in DOMAIN then : then[r] = lines[r]
    BY <1>4, <1>6, <1>7, <1>8, <1>10, <2>1 DEF Layered
  <2> QED
    BY <1>6, <1>11, <2>1, <2>2, SameTable
<1>13. handler[h].op = "delete"
  BY <1>1, <1>2 DEF Progresses
<1>14. CASE DOMAIN want = {Order} /\ Executes(h, v, At(handler[h], "removeOrder", {}, None))
  <2>1. GoesOn(h, "removeOrder", {}, None)
    BY <1>14, ExecutesGoesOn
  <2>2. /\ Lines(h)' = lines /\ handler'[h].at = "removeOrder"
        /\ handler'[h].op = "delete"
    BY <1>2, <1>13, <2>1, IntentionKept
  <2>3. Progresses(h)'
    BY <1>6, <1>12, <1>14, <2>2 DEF Progresses
  <2> QED
    BY <1>2, <2>1, <2>3, EditGoesOn
<1>15. CASE DOMAIN want # {Order} /\ Executes(h, v, At(handler[h], "load", Rows, None))
  <2>1. GoesOn(h, "load", Rows, None)
    BY <1>15, ExecutesGoesOn
  <2>2. /\ Lines(h)' = lines /\ handler'[h].at = "load" /\ handler'[h].save = Rows
    BY <1>2, <2>1, IntentionKept
  <2>3. Progresses(h)'
    BY <1>6, <1>12, <1>15, <2>2 DEF Progresses
  <2> QED
    BY <1>2, <2>1, <2>3, EditGoesOn
<1> QED
  BY <1>9, <1>14, <1>15

LEMMA RemoveOrderFresh ==
    ASSUME Types, HaveOrder, NEW h \in Handlers, Fresh(h), ~stale[h], RemoveOrder(h)
    PROVE  Fresh(h)'
<1> DEFINE then == Sees(h)'
           v == [r \in IF Order \in DOMAIN Sees(h) THEN DOMAIN Sees(h) ELSE {} |-> NULL]
<1>1. handler[h].at = "removeOrder"
  BY DEF RemoveOrder
<1>2. IsRequest(handler[h]) /\ Order \in DOMAIN row /\ Intends(h) /\ Progresses(h)
  BY <1>1, FreshEdit
<1>3. DOMAIN Sees(h) = {Order} /\ DOMAIN Lines(h) = {Order}
  BY <1>1, <1>2 DEF Progresses
<1>4. DOMAIN v = {Order} /\ \A r \in DOMAIN v : v[r] = NULL
  BY <1>3
<1>5. Executes(h, v, At(handler[h], "commit", {}, None))
  BY DEF RemoveOrder, Committing
<1> HIDE DEF v
<1>6. GoesOn(h, "commit", {}, None) /\ Layered(then, Sees(h), v)
  BY <1>5, ExecutesGoesOn
<1>7. DOMAIN then = {}
  <2> DEFINE now == Sees(h)
  <2>1. \A r \in DOMAIN now : now[r] # NULL
    BY SeesNotNull
  <2>2. Layered(then, now, v) /\ DOMAIN now = {Order}
    BY <1>3, <1>6
  <2> HIDE DEF then, now
  <2>3. DOMAIN then = DOMAIN now \ DOMAIN v
    BY <1>4, <2>1, <2>2, LayeredDomain
  <2> QED
    BY <1>4, <2>2, <2>3
<1>8. then = None
  BY <1>6, <1>7 DEF Layered, None
<1>9. Progresses(h)'
  <2>1. Lines(h)' = Lines(h) /\ handler'[h].at = "commit"
    BY <1>2, <1>6, IntentionKept
  <2> QED
    BY <1>3, <1>8, <2>1 DEF Progresses
<1> QED
  BY <1>2, <1>6, <1>9, EditGoesOn

LEMMA PayFresh ==
    ASSUME Types, Phases, HaveOrder, NEW h \in Handlers, Fresh(h), ~stale[h], Pay(h)
    PROVE  Fresh(h)'
<1> DEFINE want == handler[h].want
           then == Sees(h)'
           total == Sum(PricesIn(row))
           v == [o \in {Order} \cap DOMAIN Sees(h) |->
                   [Sees(h)[o] EXCEPT !.paid = handler[h].want[Order].paid,
                                      !.status = handler[h].want[Order].status]]
<1>1. handler[h].at = "pay" /\ written[h] = None
  BY DEF Pay, Phases
<1>2. handler[h] # Idle /\ IsRequest(handler[h])
  <2>1. handler[h].at # "idle"
    BY <1>1
  <2> QED
    BY <2>1, NotIdle
<1>3. Order \in DOMAIN row /\ handler[h].op = "pay" /\ FreshPayment(h)
  <2>1. ~Progresses(h)
    BY <1>1 DEF Progresses
  <2> QED
    BY <1>2, <2>1 DEF Fresh
<1>4. Sees(h) = row
  BY <1>1, SeesCommitted
<1>5. want = [row EXCEPT ![Order].paid = total, ![Order].status = "paid"]
  BY <1>3 DEF FreshPayment
<1>6. row[Order] \in OrderRow
  BY <1>3 DEF Types, IsTable
<1> HIDE DEF total
<1>7. /\ DOMAIN want = DOMAIN row
      /\ want[Order] = [row[Order] EXCEPT !.paid = total, !.status = "paid"]
      /\ \A r \in DOMAIN row \ {Order} : want[r] = row[r]
  BY <1>3, <1>5, <1>6
<1>8. DOMAIN v = {Order} /\ v[Order] = want[Order]
  BY <1>3, <1>4, <1>6, <1>7 DEF OrderRow
<1>9. Executes(h, v, At(handler[h], "commit", {}, None))
  BY DEF Pay, Committing
<1> HIDE DEF v
<1>10. GoesOn(h, "commit", {}, None) /\ Layered(then, Sees(h), v)
  BY <1>9, ExecutesGoesOn
<1>11. IsTable(then) /\ IsTable(want)
  BY <1>2, SeesTableNext DEF Statement, IsRequest
<1>12. v[Order] # NULL
  BY <1>3, <1>7, <1>8, <1>11, TableRow
<1>13. then = want
  <2>1. DOMAIN then = DOMAIN want
    <3> DEFINE now == Sees(h)
    <3>1. \A r \in DOMAIN now : now[r] # NULL
      BY SeesNotNull
    <3>2. Layered(then, now, v) /\ \A r \in DOMAIN v : v[r] # NULL
      BY <1>8, <1>10, <1>12
    <3>3. now = row
      BY <1>4
    <3> HIDE DEF then, now, want
    <3>4. DOMAIN then = DOMAIN now \cup DOMAIN v
      BY <3>1, <3>2, LayeredDomain
    <3> QED
      BY <1>3, <1>7, <1>8, <3>3, <3>4
  <2>2. \A r \in DOMAIN then : then[r] = want[r]
    BY <1>4, <1>7, <1>8, <1>10, <2>1 DEF Layered
  <2> QED
    BY <1>11, <2>1, <2>2, SameTable
<1>14. /\ row' = row /\ handler'[h].op = "pay" /\ handler'[h].at = "commit"
       /\ handler'[h].want = want
  BY <1>3, <1>10 DEF GoesOn, At
<1> HIDE DEF then, want
<1>15. handler'[h].want = [row' EXCEPT ![Order].paid = Sum(PricesIn(row')),
                                       ![Order].status = "paid"]
  BY <1>5, <1>14 DEF total
<1>16. FreshPayment(h)'
  BY <1>13, <1>14, <1>15 DEF FreshPayment, then
<1> QED
  BY <1>3, <1>14, <1>16 DEF Fresh

LEMMA FreshKept ==
    ASSUME Inv, [Next]_vars, NEW g \in Handlers
    PROVE  Fresh(g)'
<1>1. Types /\ Phases /\ HaveOrder /\ Fresh(g)
  BY DEF Inv
<1>2. ASSUME handler'[g] = Idle
      PROVE  Fresh(g)'
  BY <1>2 DEF Fresh
<1>3. ASSUME NEW S \in SUBSET Items, NEW line \in [S -> Prices], Create(line)
      PROVE  Fresh(g)'
  BY <1>2, <1>3 DEF Create
<1>4. CASE Delete
  <2>1. UNCHANGED <<handler, written>> /\ row' = None /\ Order \in DOMAIN row
    BY <1>4 DEF Delete, Changes
  <2>2. stale' = [k \in Handlers |-> k # NULL /\ handler[k] # Idle /\ (stale[k] \/ None # row)]
    BY <1>4 DEF Delete, Changes
  <2>3. None # row /\ g # NULL
    BY <2>1, NoneIsTable, OrderEditsAssumption
  <2>4. handler[g] # Idle => stale'[g]
    BY <2>2, <2>3
  <2> QED
    BY <1>1, <2>1, <2>4, OtherStaysFresh
<1>5. ASSUME NEW h \in Handlers, Statement(h)
      PROVE  Fresh(g)'
  <2>1. /\ \A k \in Handlers \ {h} : handler'[k] = handler[k] /\ written'[k] = written[k]
        /\ row' = row /\ stale' = stale
    BY <1>1, <1>5, StatementTurn, TurnOf
  <2>2. CASE g # h
    BY <1>1, <2>1, <2>2, OtherStaysFresh
  <2>3. CASE g = h /\ stale[h]
    BY <2>1, <2>3 DEF Fresh
  <2>4. CASE g = h /\ ~stale[h]
    BY <1>1, <1>5, <2>4, StartsFresh, LoadFresh, WriteFresh, RemoveFresh, RemoveOrderFresh,
       PayFresh DEF Statement
  <2> QED
    BY <2>2, <2>3, <2>4
<1>6. ASSUME NEW h \in Handlers, Commit(h)
      PROVE  Fresh(g)'
  <2>1. row' = Sees(h) /\ handler' = [handler EXCEPT ![h] = Idle]
        /\ written' = [written EXCEPT ![h] = None]
    BY <1>6 DEF Commit, Changes, Ends, Goes
  <2>2. stale' = [k \in Handlers |-> k # h /\ handler[k] # Idle /\ (stale[k] \/ Sees(h) # row)]
    BY <1>6 DEF Commit, Changes
  <2>3. CASE g = h
    BY <1>1, <1>2, <2>1, <2>3 DEF Types
  <2>4. CASE g # h
    BY <1>1, <2>1, <2>2, <2>4, OtherStaysFresh DEF Types
  <2> QED
    BY <2>3, <2>4
<1>7. ASSUME NEW h \in Handlers, Fail(h)
      PROVE  Fresh(g)'
  <2>1. /\ row' = row /\ handler' = [handler EXCEPT ![h] = Idle]
        /\ written' = [written EXCEPT ![h] = None] /\ stale' = [stale EXCEPT ![h] = FALSE]
    BY <1>7 DEF Fail, Ends, Goes
  <2>2. CASE g = h
    BY <1>1, <1>2, <2>1, <2>2 DEF Types
  <2>3. CASE g # h
    BY <1>1, <2>1, <2>3, OtherStaysFresh DEF Types
  <2> QED
    BY <2>2, <2>3
<1>8. CASE UNCHANGED vars
  BY <1>1, <1>8, OtherStaysFresh DEF vars
<1> QED
  BY <1>3, <1>4, <1>5, <1>6, <1>7, <1>8, Steps

-----------------------------------------------------------------------------
(* The same order in module Orders *)

AsOrder(r) == [user |-> User, total |-> r.total, paid |-> r.paid, status |-> r.status]

AsItem(p) == [order |-> Order, article |-> Article, period |-> NULL, price |-> p]

AsOrders(d) == [o \in DOMAIN d \cap {Order} |-> AsOrder(d[o])]

AsItems(d) == [i \in DOMAIN d \cap Items |-> AsItem(d[i])]

LEMMA Tables ==
    /\ OrderTable = AsOrders(row) /\ OrderTable' = AsOrders(row')
    /\ ItemTable = AsItems(row) /\ ItemTable' = AsItems(row')
BY DEF OrderTable, ItemTable, AsOrders, AsItems, AsOrder, AsItem

LEMMA SameAmounts ==
    /\ \A f : Money!Sum(f) = Sum(f)
    /\ \A f : Money!Errors(f) = Errors(f)
    /\ \A r, n, e : Money!Edited(r, n, e) = Edited(r, n, e)
<1>0. \A S : Money!Cardinality(S) = Cardinality(S)
  BY Zenon DEF Money!Cardinality, Cardinality
<1>1. \A f : Money!Sum(f) = Sum(f)
  BY <1>0 DEF Money!Sum, Sum
<1>2. \A f : Money!Errors(f) = Errors(f)
  BY <1>0, <1>1 DEF Money!Errors, Errors
<1>3. \A r, n, e : Money!Edited(r, n, e) = Edited(r, n, e)
  BY DEF Money!Edited, Money!Rounded, Money!Least, Edited, Rounded, Least
<1> QED
  BY <1>1, <1>2, <1>3

LEMMA SameItems ==
    /\ Money!ItemsOf(Order) = DOMAIN row \cap Items
    /\ Money!LiveItemsOf(Order) = DOMAIN row \cap Items
    /\ Money!PeriodsOf(Order) = {}
<1>1. /\ DOMAIN ItemTable = DOMAIN row \cap Items
      /\ \A i \in DOMAIN row \cap Items : ItemTable[i] = AsItem(row[i])
  BY Tables DEF AsItems
<1>2. Money!ItemsOf(Order) = DOMAIN row \cap Items
  BY <1>1 DEF Money!ItemsOf, AsItem
<1>3. Money!LiveItemsOf(Order) = DOMAIN row \cap Items
  BY <1>1, <1>2, OrderEditsAssumption DEF Money!LiveItemsOf, AsItem
<1>4. Money!PeriodsOf(Order) = {}
  BY <1>1, <1>2 DEF Money!PeriodsOf, AsItem
<1> QED
  BY <1>2, <1>3, <1>4

\* An edit does the same to the row of either module.
LEMMA EditedAsOrder ==
    ASSUME NEW r \in OrderRow, NEW n, NEW e
    PROVE  Edited(AsOrder(r), n, e) = AsOrder(Edited(r, n, e))
<1> DEFINE changed(x) == x.total > 0 /\ (n # x.total \/ e # 0)
           share(x) == IF changed(x) THEN Rounded(n * x.paid, x.total) ELSE x.paid
           covers(x) == share(x) > n \/ (share(x) = n /\ e < 1)
           newPaid(x) == IF changed(x) THEN Least(share(x), n) ELSE share(x)
           newStatus(x) == IF n # 0 /\ share(x) # 0 /\ covers(x) THEN "paid" ELSE "unpaid"
<1>1. \A x : Edited(x, n, e) =
                [x EXCEPT !.total = n, !.paid = newPaid(x), !.status = newStatus(x)]
  BY Zenon DEF Edited
<1> DEFINE a == AsOrder(r)
<1>2. a.total = r.total /\ a.paid = r.paid
  BY DEF AsOrder
<1> HIDE DEF a
<1>3. newPaid(a) = newPaid(r) /\ newStatus(a) = newStatus(r)
  BY <1>2
<1> HIDE DEF newPaid, newStatus
<1> DEFINE x == newPaid(r)
           y == newStatus(r)
<1>4. /\ Edited(r, n, e) = [r EXCEPT !.total = n, !.paid = x, !.status = y]
      /\ Edited(a, n, e) = [a EXCEPT !.total = n, !.paid = x, !.status = y]
  BY <1>1, <1>3, Zenon
<1> HIDE DEF x, y
<1>5. Edited(r, n, e) = [total |-> n, paid |-> x, status |-> y]
  <2>1. r = [total |-> r.total, paid |-> r.paid, status |-> r.status]
    BY DEF OrderRow
  <2> QED
    BY <1>4, <2>1
<1>6. Edited(a, n, e) = [user |-> User, total |-> n, paid |-> x, status |-> y]
  BY <1>4 DEF a, AsOrder
<1> QED
  BY <1>5, <1>6 DEF a, AsOrder

\* The orders, when the row of the order becomes that of d.
LEMMA OrderBecomes ==
    ASSUME Order \in DOMAIN row, NEW d, Order \in DOMAIN d
    PROVE  [AsOrders(row) EXCEPT ![Order] = AsOrder(d[Order])] = AsOrders(d)
<1>1. DOMAIN row \cap {Order} = {Order} /\ DOMAIN d \cap {Order} = {Order}
  OBVIOUS
<1> QED
  BY <1>1 DEF AsOrders

LEMMA MoneyRecalculates ==
    ASSUME Types, NEW h \in Handlers, Intends(h), Order \in DOMAIN row,
           row' = handler[h].want
    PROVE  Money!Recalculate(Order, PricesIn(Lines(h)))
<1> DEFINE lines == Lines(h)
           want == handler[h].want
           f == PricesIn(lines)
<1>1. /\ IsTable(lines) /\ Order \in DOMAIN lines /\ lines[Order] = row[Order]
      /\ Order \in DOMAIN want
  BY LinesOf, OrderEditsAssumption DEF Intends
<1>2. PICK err \in Errors(f) : want = Recalculated(lines, err)
  BY DEF Intends
<1>3. want[Order] = Edited(row[Order], Sum(f), err)
  <2>1. err \in -1..1
    BY DEF Errors
  <2> QED
    BY <1>1, <1>2, <2>1, RecalculatedTable
<1>4. row[Order] \in OrderRow
  BY DEF Types, IsTable
<1> HIDE DEF f, want
<1>5. AsOrder(want[Order]) = Money!Edited(AsOrder(row[Order]), Money!Sum(f), err)
  <2>1. Edited(AsOrder(row[Order]), Sum(f), err) = AsOrder(want[Order])
    BY <1>3, <1>4, EditedAsOrder
  <2> QED
    BY <2>1, SameAmounts
<1>6. [AsOrders(row) EXCEPT ![Order] = AsOrder(want[Order])] = AsOrders(want)
  BY <1>1, OrderBecomes
<1>7. OrderTable = AsOrders(row) /\ OrderTable' = AsOrders(want)
  BY Tables DEF want
<1>8. OrderTable[Order] = AsOrder(row[Order])
  BY <1>7 DEF AsOrders
<1>9. OrderTable' =
        [OrderTable EXCEPT ![Order] = Money!Edited(OrderTable[Order], Money!Sum(f), err)]
  BY <1>5, <1>6, <1>7, <1>8
<1>10. err \in Money!Errors(f)
  BY SameAmounts
<1> QED
  BY <1>9, <1>10 DEF Money!Recalculate, f

LEMMA UpdateAtOnce ==
    ASSUME Types, NEW h \in Handlers, Intends(h), Order \in DOMAIN row,
           handler[h].op = "update", row' = handler[h].want
    PROVE  Money!UpdateOrderItem(Order, handler[h].item, handler[h].to)
<1> DEFINE i == handler[h].item
           price == handler[h].to
           want == handler[h].want
           lines == Lines(h)
           f == [j \in Money!ItemsOf(Order) |->
                    IF j = i THEN price ELSE ItemTable[j].price]
<1>1. i \in DOMAIN row /\ i \in Items /\ i # Order
  BY OrderEditsAssumption DEF Intends
<1>2. Order \in DOMAIN OrderTable
  BY DEF OrderTable
<1>3. i \in Money!LiveItemsOf(Order)
  BY <1>1, SameItems
<1>4. lines = [row EXCEPT ![i] = price]
  BY DEF Lines
<1>5. /\ DOMAIN lines = DOMAIN row /\ lines[i] = price
      /\ \A r \in DOMAIN row \ {i} : lines[r] = row[r]
  BY <1>1, <1>4
<1>6. DOMAIN want = DOMAIN row /\ \A r \in DOMAIN row \ {Order} : want[r] = lines[r]
  BY <1>5, LinesOf
<1>7. /\ ItemTable = AsItems(row) /\ ItemTable' = AsItems(want)
  BY Tables
<1>8. \A j \in DOMAIN row \cap Items : ItemTable[j].price = row[j]
  BY <1>7 DEF AsItems, AsItem
<1>9. f = PricesIn(lines)
  <2>1. Money!ItemsOf(Order) = DOMAIN row \cap Items
    BY SameItems
  <2>2. \A j \in DOMAIN row \cap Items :
           (IF j = i THEN price ELSE ItemTable[j].price) = lines[j]
    BY <1>5, <1>8
  <2> QED
    BY <1>5, <2>1, <2>2 DEF PricesIn, Only
<1>10. Money!Recalculate(Order, f)
  BY <1>9, MoneyRecalculates
<1> HIDE DEF f
<1>11. ItemTable' = [ItemTable EXCEPT ![i].price = price]
  <2> DEFINE t == ItemTable
             u == ItemTable'
  <2>1. /\ DOMAIN t = DOMAIN row \cap Items /\ DOMAIN u = DOMAIN row \cap Items
        /\ \A j \in DOMAIN row \cap Items : t[j] = AsItem(row[j]) /\ u[j] = AsItem(lines[j])
        /\ t = [j \in DOMAIN t |-> t[j]] /\ u = [j \in DOMAIN u |-> u[j]]
    BY <1>1, <1>6, <1>7, OrderEditsAssumption DEF AsItems
  <2>2. [AsItem(row[i]) EXCEPT !.price = price] = AsItem(price)
    BY DEF AsItem
  <2> HIDE DEF t, u
  <2>3. /\ i \in DOMAIN t /\ [t[i] EXCEPT !.price = price] = u[i]
        /\ \A j \in DOMAIN t \ {i} : u[j] = t[j]
    BY <1>1, <1>5, <2>1, <2>2
  <2>4. u = [t EXCEPT ![i] = u[i]]
    BY <2>1, <2>3
  <2>5. u = [t EXCEPT ![i].price = price]
    BY <2>3, <2>4
  <2> QED
    BY <2>5 DEF t, u
<1> QED
  BY <1>2, <1>3, <1>10, <1>11 DEF Money!UpdateOrderItem, f

\* The lines of the order after i has gone.
LEMMA ItemsWithout ==
    ASSUME NEW i \in DOMAIN row \cap Items, NEW d, d = row',
           DOMAIN d \cap Items = (DOMAIN row \cap Items) \ {i},
           \A r \in DOMAIN d \cap Items : d[r] = row[r]
    PROVE  ItemTable' = [j \in DOMAIN ItemTable \ {i} |-> ItemTable[j]]
<1>1. ItemTable = AsItems(row) /\ ItemTable' = AsItems(d)
  BY Tables
<1>2. AsItems(d) = [j \in DOMAIN AsItems(row) \ {i} |-> AsItems(row)[j]]
  BY DEF AsItems
<1> QED
  BY <1>1, <1>2

LEMMA DeleteAtOnce ==
    ASSUME Types, NEW h \in Handlers, Intends(h), Order \in DOMAIN row,
           handler[h].op = "delete",
           row' = IF DOMAIN Lines(h) = {Order} THEN None ELSE handler[h].want
    PROVE  Money!DeleteOrderItemById(Order, handler[h].item)
<1> DEFINE i == handler[h].item
           want == handler[h].want
           lines == Lines(h)
<1>1. i \in DOMAIN row \cap Items /\ i # Order
  BY OrderEditsAssumption DEF Intends
<1>2. Order \in DOMAIN OrderTable
  BY DEF OrderTable
<1>3. Money!ItemsOf(Order) = DOMAIN row \cap Items
  BY SameItems
<1>4. lines = Only(row, DOMAIN row \ {i})
  BY DEF Lines
<1>5. DOMAIN lines = DOMAIN row \ {i} /\ \A r \in DOMAIN lines : lines[r] = row[r]
  BY <1>4 DEF Only
<1>6. DOMAIN row \subseteq Rows
  BY DEF Types, IsTable
<1>7. CASE DOMAIN lines = {Order}
  <2>1. row' = None
    BY <1>7
  <2>2. DOMAIN row \cap Items = {i}
    BY <1>1, <1>5, <1>7, OrderEditsAssumption
  <2>3. ItemTable' = [j \in DOMAIN ItemTable \ {i} |-> ItemTable[j]]
    BY <1>1, <2>1, <2>2, NoneIsTable, ItemsWithout
  <2>4. OrderTable' = [x \in DOMAIN OrderTable \ {Order} |-> OrderTable[x]]
    <3>1. OrderTable' = AsOrders(None) /\ OrderTable = AsOrders(row)
      BY <2>1, Tables
    <3>2. AsOrders(None) = [x \in DOMAIN AsOrders(row) \ {Order} |-> AsOrders(row)[x]]
      BY NoneIsTable DEF AsOrders
    <3> QED
      BY <3>1, <3>2
  <2> QED
    BY <1>1, <1>2, <1>3, <2>2, <2>3, <2>4 DEF Money!DeleteOrderItemById
<1>8. CASE DOMAIN lines # {Order}
  <2>1. row' = want
    BY <1>8
  <2>2. DOMAIN row \cap Items # {i}
    BY <1>1, <1>5, <1>6, <1>8 DEF Rows
  <2>3. DOMAIN want = DOMAIN lines /\ \A r \in DOMAIN lines \ {Order} : want[r] = lines[r]
    BY LinesOf
  <2>4. ItemTable' = [j \in DOMAIN ItemTable \ {i} |-> ItemTable[j]]
    <3>1. DOMAIN want \cap Items = (DOMAIN row \cap Items) \ {i}
      BY <1>5, <2>3
    <3>2. \A r \in DOMAIN want \cap Items : want[r] = row[r]
      BY <1>5, <2>3, OrderEditsAssumption
    <3> HIDE DEF want
    <3> QED
      BY <1>1, <2>1, <3>1, <3>2, ItemsWithout
  <2>5. Money!PricesOf(Money!ItemsOf(Order) \ {i}) = PricesIn(lines)
    <3>1. \A j \in DOMAIN row \cap Items : ItemTable[j].price = row[j]
      BY Tables DEF AsItems, AsItem
    <3> QED
      BY <1>3, <1>5, <3>1 DEF Money!PricesOf, PricesIn, Only
  <2>6. Money!Recalculate(Order, Money!PricesOf(Money!ItemsOf(Order) \ {i}))
    BY <2>1, <2>5, MoneyRecalculates
  <2> QED
    BY <1>1, <1>2, <1>3, <2>2, <2>4, <2>6 DEF Money!DeleteOrderItemById
<1> QED
  BY <1>7, <1>8

LEMMA PaidAsOrder ==
    ASSUME NEW r \in OrderRow, NEW n
    PROVE  AsOrder([r EXCEPT !.paid = n, !.status = "paid"])
             = [AsOrder(r) EXCEPT !.paid = n, !.status = "paid"]
<1> DEFINE w == [r EXCEPT !.paid = n, !.status = "paid"]
           a == AsOrder(r)
           e == [user |-> User, total |-> r.total, paid |-> n, status |-> "paid"]
<1>1. w.total = r.total /\ w.paid = n /\ w.status = "paid"
  BY DEF OrderRow
<1> HIDE DEF w
<1>2. AsOrder(w) = e
  BY <1>1 DEF AsOrder
<1> DEFINE b == [a EXCEPT !.paid = n]
<1>3. b = [user |-> User, total |-> r.total, paid |-> n, status |-> r.status]
  BY DEF AsOrder
<1>4. [a EXCEPT !.paid = n, !.status = "paid"] = [b EXCEPT !.status = "paid"]
  OBVIOUS
<1> HIDE DEF b
<1>5. [b EXCEPT !.status = "paid"] = e
  BY <1>3
<1> HIDE DEF e, a
<1> QED
  BY <1>2, <1>4, <1>5 DEF w, a

LEMMA PayAtOnce ==
    ASSUME Types, NEW h \in Handlers, FreshPayment(h), Order \in DOMAIN row,
           row' = handler[h].want
    PROVE  Money!MarkAsPaid(Order)
<1> DEFINE total == Sum(PricesIn(row))
           want == handler[h].want
<1>1. row[Order] \in OrderRow /\ total \in Nat
  BY RecalculatedTable DEF Types, IsTable
<1>2. want = [row EXCEPT ![Order].paid = total, ![Order].status = "paid"]
  BY DEF FreshPayment
<1>3. Money!PriceOf(Money!LiveItemsOf(Order)) = total
  <2>1. \A j \in DOMAIN row \cap Items : ItemTable[j].price = row[j]
    BY Tables DEF AsItems, AsItem
  <2>2. Money!PricesOf(Money!LiveItemsOf(Order)) = PricesIn(row)
    BY <2>1, SameItems DEF Money!PricesOf, PricesIn, Only
  <2> QED
    BY <2>2, SameAmounts DEF Money!PriceOf
<1>4. Money!TransportOf(Order) = 0
  <2> DEFINE f == [p \in Money!PeriodsOf(Order) |-> Money!TransportShare(p)]
  <2>1. DOMAIN f = {}
    BY SameItems
  <2> HIDE DEF f
  <2>2. UNION {{x} \X (1..f[x]) : x \in DOMAIN f} = {}
    BY <2>1
  <2>3. Sum(f) = 0
    BY <2>2, FS_EmptySet DEF Sum
  <2>4. Money!TransportOf(Order) = Sum(f)
    BY SameAmounts DEF Money!TransportOf, f
  <2> QED
    BY <2>3, <2>4
<1> HIDE DEF total
<1>5. /\ Order \in DOMAIN want /\ DOMAIN want = DOMAIN row
      /\ want[Order] = [row[Order] EXCEPT !.paid = total, !.status = "paid"]
      /\ \A r \in DOMAIN row \ {Order} : want[r] = row[r]
  BY <1>1, <1>2
<1> HIDE DEF want
<1>6. AsOrder(want[Order]) = [AsOrder(row[Order]) EXCEPT !.paid = total, !.status = "paid"]
  <2> DEFINE r == row[Order]
  <2>1. r \in OrderRow /\ want[Order] = [r EXCEPT !.paid = total, !.status = "paid"]
    BY <1>1, <1>5
  <2>2. AsOrder([r EXCEPT !.paid = total, !.status = "paid"])
          = [AsOrder(r) EXCEPT !.paid = total, !.status = "paid"]
    BY <1>1, PaidAsOrder
  <2> HIDE DEF r
  <2>3. AsOrder(want[Order]) = [AsOrder(r) EXCEPT !.paid = total, !.status = "paid"]
    BY <2>1, <2>2, Zenon
  <2> QED
    BY <2>3 DEF r
<1>7. [AsOrders(row) EXCEPT ![Order] = AsOrder(want[Order])] = AsOrders(want)
  BY <1>5, OrderBecomes
<1>8. OrderTable = AsOrders(row) /\ OrderTable' = AsOrders(want)
  BY Tables DEF want
<1>9. AsOrders(row)[Order] = AsOrder(row[Order])
  BY DEF AsOrders
<1>10. OrderTable' = [OrderTable EXCEPT ![Order].paid = total, ![Order].status = "paid"]
  <2> DEFINE t == OrderTable
             u == OrderTable'
  <2>1. /\ t[Order] = AsOrder(row[Order]) /\ Order \in DOMAIN t
        /\ u = [t EXCEPT ![Order] = [t[Order] EXCEPT !.paid = total, !.status = "paid"]]
    BY <1>6, <1>7, <1>8, <1>9 DEF AsOrders
  <2> HIDE DEF t, u
  <2>2. u = [t EXCEPT ![Order].paid = total, ![Order].status = "paid"]
    BY <2>1
  <2> QED
    BY <2>2 DEF t, u
<1>11. ItemTable' = ItemTable
  <2>1. DOMAIN want \cap Items = DOMAIN row \cap Items
    BY <1>5
  <2>2. \A r \in DOMAIN row \cap Items : want[r] = row[r]
    BY <1>5, OrderEditsAssumption
  <2>3. AsItems(want) = AsItems(row)
    BY <2>1, <2>2 DEF AsItems
  <2> QED
    BY <2>3, Tables DEF want
<1>12. Money!PriceOf(Money!LiveItemsOf(Order)) + Money!TransportOf(Order) = total
  BY <1>1, <1>3, <1>4 DEF total
<1>13. Order \in DOMAIN OrderTable
  BY DEF OrderTable
<1> QED
  BY <1>10, <1>11, <1>12, <1>13 DEF Money!MarkAsPaid

-----------------------------------------------------------------------------
(* Theorems *)

LEMMA InvInit == Init => Inv
<1> SUFFICES ASSUME Init PROVE Inv
  OBVIOUS
<1>1. Types
  BY NoneIsTable DEF Init, Types
<1>2. Phases
  BY NoneIsTable DEF Init, Phases, Deletes, Idle
<1>3. DeletesAlone
  BY NoneIsTable DEF Init, DeletesAlone, Deletes
<1>4. HaveOrder
  <2>1. \A h \in Handlers : Sees(h) = row
    BY <1>1, SeesCommitted DEF Init
  <2> QED
    BY <2>1, NoneIsTable DEF Init, HaveOrder, HasOrder
<1>5. \A h \in Handlers : Fresh(h)
  BY DEF Init, Fresh
<1> QED
  BY <1>1, <1>2, <1>3, <1>4, <1>5 DEF Inv

LEMMA Inductive == Inv /\ [Next]_vars => Inv'
<1> SUFFICES ASSUME Inv, [Next]_vars PROVE Inv'
  OBVIOUS
<1>1. Types /\ Phases /\ DeletesAlone /\ HaveOrder
  BY DEF Inv
<1>2. Types' /\ Phases' /\ DeletesAlone' /\ HaveOrder'
  BY <1>1, TypesKept, PhasesKept, DeletesAloneKept, HaveOrderKept
<1>3. \A h \in Handlers : Fresh(h)'
  BY FreshKept
<1> QED
  BY <1>2, <1>3 DEF Inv

LEMMA Invariance == Spec => []Inv
BY InvInit, Inductive, PTL DEF Spec

\* The rows keep their types, and no item is without its order: neither in what is
\* committed nor in what any of the transactions would commit.
THEOREM EditsKeepTypes == Spec => []TypeOK
<1>1. Inv => TypeOK
  <2> SUFFICES ASSUME Inv PROVE TypeOK
    OBVIOUS
  <2>1. Types /\ HaveOrder
    BY DEF Inv
  <2>2. \A h \in Handlers : IsTable(Sees(h))
    BY <2>1, SeesTable
  <2> QED
    BY <2>1, <2>2 DEF TypeOK, Types, HaveOrder
<1> QED
  BY <1>1, Invariance, PTL

\* save of an edit never stumbles over an order that did not change since the edit read
\* it: it finds the rows it updates, inserts none that exists, parts with no item.
THEOREM FreshSavesAccepted == Spec => []FreshSavesAreAccepted
<1>1. Inv => FreshSavesAreAccepted
  BY FreshWriteAccepted DEF Inv, FreshSavesAreAccepted
<1> QED
  BY <1>1, Invariance, PTL

\* Whatever statements interleave, a request that commits, and whose order did not
\* change after the request read it, did what module Orders does in one step.
THEOREM EditsAreAtomic == Spec => FreshEditsAreAtomic
<1>1. ASSUME Inv, NEW h \in Handlers, Commit(h), ~stale[h]
      PROVE  AtOnce(h)
  <2>1. /\ Types /\ handler[h].at = "commit" /\ row' = Sees(h)
    BY <1>1 DEF Inv, Commit, Changes
  <2>2. handler[h] # Idle
    BY <2>1 DEF Idle
  <2>3. /\ Order \in DOMAIN row
        /\ IF handler[h].op = "pay" THEN FreshPayment(h) ELSE Intends(h) /\ Progresses(h)
    BY <1>1, <2>2 DEF Inv, Fresh
  <2>4. CASE handler[h].op = "pay"
    <3>1. FreshPayment(h) /\ row' = handler[h].want
      BY <2>1, <2>3, <2>4 DEF FreshPayment
    <3> QED
      BY <2>1, <2>3, <2>4, <3>1, PayAtOnce DEF AtOnce
  <2>5. CASE handler[h].op # "pay"
    <3>1. /\ Intends(h)
          /\ row' = IF DOMAIN Lines(h) = {Order} THEN None ELSE handler[h].want
      BY <2>1, <2>3, <2>5 DEF Progresses
    <3>2. CASE handler[h].op = "update"
      <4>1. handler[h].item \in DOMAIN Lines(h) /\ handler[h].item # Order
        BY <3>1, <3>2, OrderEditsAssumption DEF Intends, Lines
      <4>2. row' = handler[h].want
        BY <3>1, <4>1
      <4> QED
        BY <2>1, <2>3, <3>1, <3>2, <4>2, UpdateAtOnce DEF AtOnce
    <3>3. CASE handler[h].op = "delete"
      BY <2>1, <2>3, <3>1, <3>3, DeleteAtOnce DEF AtOnce
    <3> QED
      BY <3>1, <3>2, <3>3 DEF Intends
  <2> QED
    BY <2>4, <2>5
<1>2. Inv /\ [Next]_vars => [\A h \in Handlers : Commit(h) /\ ~stale[h] => AtOnce(h)]_vars
  BY <1>1
<1> QED
  BY <1>2, Invariance, PTL DEF Spec, FreshEditsAreAtomic
=============================================================================
