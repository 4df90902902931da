----------------------- MODULE OrderIdempotencyProofs -----------------------
(***************************************************************************)
(* Why an answered order is not made again: theorems about                 *)
(* OrderIdempotency for any window, clock and number of requests.          *)
(***************************************************************************)
EXTENDS OrderIdempotency, TLAPS

\* What a request that missed the map holds.
LEMMA HandlerType ==
    ASSUME TypeOK, NEW h \in Handlers
    PROVE  /\ handler[h].at = "insert" => handler[h].key \in Keys /\ handler[h].began \in Nat
           /\ handler[h].at = "set" => handler[h].key \in Keys /\ handler[h].order \in Orders
BY DEF TypeOK, Busy, Idle

LEMMA TypeStep == TypeOK /\ [Next]_vars => TypeOK'
<1> SUFFICES ASSUME TypeOK, [Next]_vars PROVE TypeOK'
  OBVIOUS
<1> USE IdempotencyAssumption
<1>1. CASE Tick
  BY <1>1 DEF Tick, TypeOK
<1>2. ASSUME NEW h \in Handlers, NEW k \in Keys, Submit(h, k)
      PROVE  TypeOK'
  <2>1. [at |-> "insert", key |-> k, began |-> now] \in Busy
    BY DEF TypeOK, Busy
  <2> QED
    BY <1>2, <2>1 DEF Submit, TypeOK
<1>3. ASSUME NEW h \in Handlers, Refuse(h)
      PROVE  TypeOK'
  BY <1>3 DEF Refuse, TypeOK
<1>4. ASSUME NEW h \in Handlers, NEW o \in Orders, Commit(h, o)
      PROVE  TypeOK'
  <2>1. PICK k, b : k = handler[h].key /\ b = handler[h].began
    OBVIOUS
  <2>2. k \in Keys /\ b \in Nat
    BY <1>4, <2>1, HandlerType DEF Commit
  <2>3. [at |-> "set", key |-> k, order |-> o] \in Busy
    BY <2>2 DEF Busy
  <2>4. [key |-> k, began |-> b, answered |-> NULL, boot |-> boot, live |-> TRUE] \in OrderRow
    BY <2>2 DEF TypeOK, OrderRow
  <2>5. /\ handler' = [handler EXCEPT ![h] = [at |-> "set", key |-> k, order |-> o]]
        /\ order' = [x \in DOMAIN order \cup {o} |->
                        IF x = o THEN [key |-> k, began |-> b, answered |-> NULL,
                                       boot |-> boot, live |-> TRUE]
                        ELSE order[x]]
        /\ UNCHANGED <<now, boot, cache>>
    BY <1>4, <2>1 DEF Commit
  <2> QED
    BY <2>3, <2>4, <2>5 DEF TypeOK
<1>5. ASSUME NEW h \in Handlers, Remember(h)
      PROVE  TypeOK'
  <2>1. PICK k, o : k = handler[h].key /\ o = handler[h].order
    OBVIOUS
  <2>2. k \in Keys /\ o \in Orders
    BY <1>5, <2>1, HandlerType DEF Remember
  <2>3. [order |-> o, at |-> now] \in Entry
    BY <2>2 DEF TypeOK, Entry
  <2>4. /\ cache' = [x \in DOMAIN cache \cup {k} |->
                        IF x = k THEN [order |-> o, at |-> now] ELSE cache[x]]
        /\ order' = [order EXCEPT ![o].answered = now]
        /\ handler' = [handler EXCEPT ![h] = Idle]
        /\ UNCHANGED <<now, boot>>
    BY <1>5, <2>1 DEF Remember
  <2>5. DOMAIN cache' \subseteq Keys /\ cache' \in [DOMAIN cache' -> Entry]
    BY <2>2, <2>3, <2>4 DEF TypeOK
  <2>6. DOMAIN order' \subseteq Orders /\ order' \in [DOMAIN order' -> OrderRow]
    BY <2>4 DEF TypeOK, OrderRow
  <2> QED
    BY <2>4, <2>5, <2>6 DEF TypeOK
<1>6. CASE CleanIdempotencyCache
  BY <1>6 DEF CleanIdempotencyCache, TypeOK
<1>7. ASSUME NEW o \in Orders, Delete(o)
      PROVE  TypeOK'
  BY <1>7 DEF Delete, TypeOK, OrderRow
<1>8. CASE Restart
  BY <1>8 DEF Restart, TypeOK
<1>9. CASE UNCHANGED vars
  BY <1>9 DEF vars, TypeOK
<1> QED
  BY <1>1, <1>2, <1>3, <1>4, <1>5, <1>6, <1>7, <1>8, <1>9 DEF Next

\* The map, the orders and the requests always have the shape the code gives them.
THEOREM IdempotencyTypes == Spec => []TypeOK
<1>1. Init => TypeOK
  BY DEF Init, TypeOK
<1> QED
  BY <1>1, TypeStep, PTL DEF Spec

-----------------------------------------------------------------------------
(* The invariant *)

\* Was order a, of content k, answered before time t since the server started?
AnsweredBefore(a, k, t) ==
    /\ order[a].key = k
    /\ order[a].boot = boot
    /\ order[a].answered # NULL
    /\ order[a].answered < t

\* Nothing is dated later than now.
PastOnly ==
    /\ \A k \in DOMAIN cache : cache[k].at <= now
    /\ \A o \in DOMAIN order :
          /\ order[o].began <= now
          /\ order[o].answered # NULL => order[o].answered <= now
          /\ order[o].boot <= boot
    /\ \A h \in Handlers : handler[h].at = "insert" => handler[h].began <= now

\* The order a request is about to put into the map has its content.
SetsOwnOrder ==
    \A h \in Handlers :
       handler[h].at = "set" =>
          /\ handler[h].order \in DOMAIN order
          /\ order[handler[h].order].key = handler[h].key
          /\ order[handler[h].order].boot = boot

\* While an answer is recent, the map has an entry for its content that is as recent.
Remembered ==
    \A a \in DOMAIN order :
       /\ order[a].boot = boot
       /\ order[a].answered # NULL
       /\ now - order[a].answered < Window
       => /\ order[a].key \in DOMAIN cache
          /\ cache[order[a].key].at >= order[a].answered

\* So a request that missed the map came a window after every answer before it.
MissedRightly ==
    \A h \in Handlers, a \in DOMAIN order :
       /\ handler[h].at = "insert"
       /\ AnsweredBefore(a, handler[h].key, handler[h].began)
       => handler[h].began - order[a].answered >= Window

IdemInv ==
    PastOnly /\ SetsOwnOrder /\ Remembered /\ MissedRightly /\ AnsweredNotRepeated

LEMMA OrderTypes ==
    ASSUME TypeOK, NEW o \in DOMAIN order
    PROVE  /\ order[o].key \in Keys /\ order[o].began \in Nat /\ order[o].boot \in Nat
           /\ order[o].answered # NULL => order[o].answered \in Nat
BY DEF TypeOK, OrderRow

LEMMA CacheTypes ==
    ASSUME TypeOK, NEW k \in DOMAIN cache
    PROVE  k \in Keys /\ cache[k].at \in Nat
BY DEF TypeOK, Entry

LEMMA IdemStep == TypeOK /\ IdemInv /\ [Next]_vars => IdemInv'
<1> SUFFICES ASSUME TypeOK, IdemInv, [Next]_vars PROVE IdemInv'
  OBVIOUS
<1> USE IdempotencyAssumption, OrderTypes, CacheTypes
<1>0. now \in Nat /\ boot \in Nat /\ handler = [h \in Handlers |-> handler[h]]
  BY DEF TypeOK
<1>1. CASE Tick
  <2>1. now' = now + 1 /\ UNCHANGED <<boot, order, cache, handler>>
    BY <1>1 DEF Tick
  <2>2. PastOnly'
    BY <1>0, <2>1, HandlerType DEF IdemInv, PastOnly
  <2>3. Remembered'
    BY <1>0, <2>1 DEF IdemInv, Remembered
  <2> QED
    BY <2>1, <2>2, <2>3 DEF IdemInv, SetsOwnOrder, MissedRightly, AnsweredBefore,
       AnsweredNotRepeated
<1>2. ASSUME NEW h \in Handlers, NEW k \in Keys, Submit(h, k)
      PROVE  IdemInv'
  <2>1. /\ ~Fresh(k) /\ UNCHANGED <<now, boot, order, cache>>
        /\ handler' = [handler EXCEPT ![h] = [at |-> "insert", key |-> k, began |-> now]]
    BY <1>2 DEF Submit
  <2>2. /\ handler'[h].at = "insert" /\ handler'[h].key = k /\ handler'[h].began = now
        /\ \A g \in Handlers \ {h} : handler'[g] = handler[g]
    BY <1>0, <2>1
  <2>3. PastOnly' /\ SetsOwnOrder' /\ Remembered' /\ AnsweredNotRepeated'
    BY <1>0, <2>1, <2>2 DEF IdemInv, PastOnly, SetsOwnOrder, Remembered,
       AnsweredNotRepeated
  <2>4. ASSUME NEW a \in DOMAIN order, AnsweredBefore(a, k, now)
        PROVE  now - order[a].answered >= Window
    BY <1>0, <2>1, <2>4 DEF AnsweredBefore, IdemInv, Remembered, Fresh
  <2>5. MissedRightly'
    BY <2>1, <2>2, <2>4 DEF IdemInv, MissedRightly, AnsweredBefore
  <2> QED
    BY <2>3, <2>5 DEF IdemInv
<1>3. ASSUME NEW h \in Handlers, Refuse(h)
      PROVE  IdemInv'
  <2>1. /\ UNCHANGED <<now, boot, order, cache>>
        /\ handler'[h].at = "idle" /\ \A g \in Handlers \ {h} : handler'[g] = handler[g]
    BY <1>0, <1>3 DEF Refuse, Idle
  <2> QED
    BY <2>1 DEF IdemInv, PastOnly, SetsOwnOrder, Remembered, MissedRightly, AnsweredBefore,
       AnsweredNotRepeated
<1>4. ASSUME NEW h \in Handlers, NEW o \in Orders, Commit(h, o)
      PROVE  IdemInv'
  <2>1. PICK k, b : k = handler[h].key /\ b = handler[h].began
    OBVIOUS
  <2>2. handler[h].at = "insert" /\ k \in Keys /\ b \in Nat /\ b <= now
    BY <1>4, <2>1, HandlerType DEF Commit, IdemInv, PastOnly
  <2>3. /\ o \notin DOMAIN order /\ UNCHANGED <<now, boot, cache>>
        /\ DOMAIN order' = DOMAIN order \cup {o}
        /\ order'[o] = [key |-> k, began |-> b, answered |-> NULL, boot |-> boot,
                        live |-> TRUE]
        /\ \A x \in DOMAIN order : order'[x] = order[x]
        /\ handler' = [handler EXCEPT ![h] = [at |-> "set", key |-> k, order |-> o]]
    BY <1>4, <2>1 DEF Commit
  <2>4. /\ order'[o].key = k /\ order'[o].began = b /\ order'[o].answered = NULL
        /\ order'[o].boot = boot
    BY <2>3
  <2>5. /\ handler'[h].at = "set" /\ handler'[h].key = k /\ handler'[h].order = o
        /\ \A g \in Handlers \ {h} : handler'[g] = handler[g]
    BY <1>0, <2>3
  <2>6. PastOnly'
    BY <1>0, <2>2, <2>3, <2>4, <2>5 DEF IdemInv, PastOnly
  <2>7. SetsOwnOrder'
    BY <2>3, <2>4, <2>5 DEF IdemInv, SetsOwnOrder
  <2>8. Remembered'
    BY <2>3, <2>4 DEF IdemInv, Remembered
  <2>9. MissedRightly'
    BY <2>3, <2>4, <2>5 DEF IdemInv, MissedRightly, AnsweredBefore
  <2>10. \A a \in DOMAIN order :
            AnsweredBefore(a, k, b) => b - order[a].answered >= Window
    BY <2>1, <2>2 DEF IdemInv, MissedRightly
  <2>11. AnsweredNotRepeated'
    BY <2>3, <2>4, <2>10 DEF IdemInv, AnsweredNotRepeated, AnsweredBefore
  <2> QED
    BY <2>6, <2>7, <2>8, <2>9, <2>11 DEF IdemInv
<1>5. ASSUME NEW h \in Handlers, Remember(h)
      PROVE  IdemInv'
  <2>1. PICK k, o : k = handler[h].key /\ o = handler[h].order
    OBVIOUS
  <2>2. o \in DOMAIN order /\ order[o].key = k /\ order[o].boot = boot
    BY <1>5, <2>1 DEF Remember, IdemInv, SetsOwnOrder
  <2>3. /\ cache' = [x \in DOMAIN cache \cup {k} |->
                        IF x = k THEN [order |-> o, at |-> now] ELSE cache[x]]
        /\ order' = [order EXCEPT ![o].answered = now]
        /\ UNCHANGED <<now, boot>>
        /\ handler'[h].at = "idle" /\ \A g \in Handlers \ {h} : handler'[g] = handler[g]
    BY <1>0, <1>5, <2>1 DEF Remember, Idle
  <2>4. DOMAIN cache' = DOMAIN cache \cup {k} /\ cache'[k].at = now
        /\ \A x \in DOMAIN cache \ {k} : cache'[x] = cache[x]
    BY <2>3
  <2>5. /\ DOMAIN order' = DOMAIN order /\ order'[o].answered = now
        /\ \A x \in DOMAIN order : /\ order'[x].key = order[x].key
                                   /\ order'[x].boot = order[x].boot
                                   /\ order'[x].began = order[x].began
                                   /\ x # o => order'[x].answered = order[x].answered
    BY <2>2, <2>3 DEF TypeOK, OrderRow
  <2>6. PastOnly'
    BY <1>0, <2>3, <2>4, <2>5 DEF IdemInv, PastOnly
  <2>7. SetsOwnOrder'
    BY <2>3, <2>5 DEF IdemInv, SetsOwnOrder
  <2>8. Remembered'
    BY <1>0, <2>2, <2>3, <2>4, <2>5 DEF IdemInv, Remembered, PastOnly
  <2>9. MissedRightly'
    <3> SUFFICES ASSUME NEW g \in Handlers, NEW a \in DOMAIN order, g # h,
                        handler[g].at = "insert",
                        order'[a].key = handler[g].key, order'[a].boot = boot,
                        order'[a].answered # NULL, order'[a].answered < handler[g].began
                 PROVE  handler[g].began - order'[a].answered >= Window
      BY <2>3, <2>5 DEF MissedRightly, AnsweredBefore
    <3>1. handler[g].began <= now /\ handler[g].began \in Nat
      BY HandlerType DEF IdemInv, PastOnly
    <3>2. a # o
      BY <1>0, <2>5, <3>1
    <3> QED
      BY <2>5, <3>2 DEF IdemInv, MissedRightly, AnsweredBefore
  <2>10. AnsweredNotRepeated'
    <3> SUFFICES ASSUME NEW a \in DOMAIN order, NEW b \in DOMAIN order,
                        order[a].key = order[b].key, order[a].boot = order[b].boot,
                        order'[a].answered # NULL, order'[a].answered < order[b].began
                 PROVE  order[b].began - order'[a].answered >= Window
      BY <2>5 DEF AnsweredNotRepeated
    <3>1. a # o
      BY <1>0, <2>5 DEF IdemInv, PastOnly
    <3> QED
      BY <2>5, <3>1 DEF IdemInv, AnsweredNotRepeated
  <2> QED
    BY <2>6, <2>7, <2>8, <2>9, <2>10 DEF IdemInv
<1>6. CASE CleanIdempotencyCache
  <2>1. /\ UNCHANGED <<now, boot, order, handler>>
        /\ cache' = [k \in {x \in DOMAIN cache : now - cache[x].at <= Window} |-> cache[k]]
    BY <1>6 DEF CleanIdempotencyCache
  <2>2. PastOnly'
    BY <2>1 DEF IdemInv, PastOnly
  <2>3. Remembered'
    BY <1>0, <2>1 DEF IdemInv, Remembered
  <2> QED
    BY <2>1, <2>2, <2>3 DEF IdemInv, SetsOwnOrder, MissedRightly, AnsweredBefore,
       AnsweredNotRepeated
<1>7. ASSUME NEW o \in Orders, Delete(o)
      PROVE  IdemInv'
  <2>1. /\ UNCHANGED <<now, boot, cache, handler>> /\ DOMAIN order' = DOMAIN order
        /\ \A x \in DOMAIN order : /\ order'[x].key = order[x].key
                                   /\ order'[x].boot = order[x].boot
                                   /\ order'[x].began = order[x].began
                                   /\ order'[x].answered = order[x].answered
    BY <1>7 DEF Delete, TypeOK, OrderRow
  <2>2. PastOnly' /\ SetsOwnOrder'
    BY <2>1 DEF IdemInv, PastOnly, SetsOwnOrder
  <2>3. Remembered' /\ MissedRightly'
    BY <2>1 DEF IdemInv, Remembered, MissedRightly, AnsweredBefore
  <2>4. AnsweredNotRepeated'
    BY <2>1 DEF IdemInv, AnsweredNotRepeated
  <2> QED
    BY <2>2, <2>3, <2>4 DEF IdemInv
<1>8. CASE Restart
  <2>1. /\ boot' = boot + 1 /\ UNCHANGED <<now, order>>
        /\ DOMAIN cache' = {} /\ \A h \in Handlers : handler'[h].at = "idle"
    BY <1>8 DEF Restart, Idle
  <2>2. \A a \in DOMAIN order : order[a].boot # boot'
    BY <1>0, <2>1 DEF IdemInv, PastOnly
  <2>3. PastOnly'
    BY <1>0, <2>1 DEF IdemInv, PastOnly
  <2>4. SetsOwnOrder' /\ Remembered' /\ MissedRightly'
    BY <2>1, <2>2 DEF SetsOwnOrder, Remembered, MissedRightly
  <2>5. AnsweredNotRepeated'
    BY <2>1 DEF IdemInv, AnsweredNotRepeated
  <2> QED
    BY <2>3, <2>4, <2>5 DEF IdemInv
<1>9. CASE UNCHANGED vars
  BY <1>9 DEF vars, IdemInv, PastOnly, SetsOwnOrder, Remembered, MissedRightly,
     AnsweredBefore, AnsweredNotRepeated
<1> QED
  BY <1>1, <1>2, <1>3, <1>4, <1>5, <1>6, <1>7, <1>8, <1>9 DEF Next

\* Content submitted again after its order was answered, within the window and before a
\* restart, makes no second order, however many requests interleave, whichever of them
\* the map remembers and whenever it is cleaned.
THEOREM NoRepeatedOrders == Spec => []AnsweredNotRepeated
<1>1. Init => IdemInv
  BY DEF Init, IdemInv, PastOnly, SetsOwnOrder, Remembered, MissedRightly,
     AnsweredNotRepeated, Idle
<1>2. IdemInv => AnsweredNotRepeated
  BY DEF IdemInv
<1> QED
  BY <1>1, <1>2, IdemStep, IdempotencyTypes, PTL DEF Spec
=============================================================================
