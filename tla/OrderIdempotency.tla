-------------------------- MODULE OrderIdempotency --------------------------
(***************************************************************************)
(* How OrdersService.create tells a new order from a request that came     *)
(* twice: a map in the memory of the server, from the hash of the user and *)
(* the lines of an order to the order they made, which counts for Window   *)
(* units of time.  The map is read before the first await of a request and *)
(* written after its transaction has committed, so requests with the same  *)
(* content interleave; it is lost when the server restarts.                *)
(*                                                                         *)
(* A request that finds its order in the map changes nothing, and is no    *)
(* step here; the checks and the inserts of the transaction are in module  *)
(* Orders.                                                                 *)
(***************************************************************************)
EXTENDS Integers

CONSTANTS
    Orders,       \* the ids of rows
    Keys,         \* the hashes of contents
    Handlers,     \* one per request that is being answered
    Window,       \* IDEMPOTENCY_WINDOW_MS
    MaxTime,      \* a bound on the clock, for TLC
    MaxRestarts,  \* a bound on the restarts of the server, for TLC
    NULL          \* not answered

ASSUME IdempotencyAssumption ==
    /\ Window \in Nat /\ MaxTime \in Nat /\ MaxRestarts \in Nat
    /\ NULL \notin Int

VARIABLES
    now,      \* Date.now()
    boot,     \* how often the server has restarted
    order,    \* every order ever made: its content, when its request came, when
              \* and since which restart the map got it, and whether it still exists
    cache,    \* idempotencyCache
    handler   \* the requests that missed the map

vars == <<now, boot, order, cache, handler>>

-----------------------------------------------------------------------------

OrderRow == [key: Keys, began: Nat, answered: Nat \cup {NULL}, boot: Nat,
             live: BOOLEAN]

Entry == [order: Orders, at: Nat]

Idle == [at |-> "idle"]

Busy == [at: {"insert"}, key: Keys, began: Nat]
        \cup [at: {"set"}, key: Keys, order: Orders]

TypeOK ==
    /\ now \in Nat /\ boot \in Nat
    /\ DOMAIN order \subseteq Orders /\ order \in [DOMAIN order -> OrderRow]
    /\ DOMAIN cache \subseteq Keys /\ cache \in [DOMAIN cache -> Entry]
    /\ handler \in [Handlers -> {Idle} \cup Busy]

\* timeSinceCreation < IDEMPOTENCY_WINDOW_MS
Fresh(k) == k \in DOMAIN cache /\ now - cache[k].at < Window

-----------------------------------------------------------------------------

Init ==
    /\ now = 0 /\ boot = 0
    /\ order = [o \in {} |-> {}]
    /\ cache = [k \in {} |-> {}]
    /\ handler = [h \in Handlers |-> Idle]

Tick ==
    /\ now < MaxTime
    /\ now' = now + 1
    /\ UNCHANGED <<boot, order, cache, handler>>

\* create, up to its first await: no recent order has this content.
Submit(h, k) ==
    /\ handler[h] = Idle
    /\ ~Fresh(k)
    /\ handler' = [handler EXCEPT ![h] = [at |-> "insert", key |-> k, began |-> now]]
    /\ UNCHANGED <<now, boot, order, cache>>

\* A check or a statement of the transaction fails: it rolls back.
Refuse(h) ==
    /\ handler[h].at = "insert"
    /\ handler' = [handler EXCEPT ![h] = Idle]
    /\ UNCHANGED <<now, boot, order, cache>>

Commit(h, o) ==
    /\ handler[h].at = "insert"
    /\ o \in Orders \ DOMAIN order
    /\ order' = [x \in DOMAIN order \cup {o} |->
                    IF x = o THEN [key |-> handler[h].key, began |-> handler[h].began,
                                   answered |-> NULL, boot |-> boot, live |-> TRUE]
                    ELSE order[x]]
    /\ handler' = [handler EXCEPT ![h] = [at |-> "set", key |-> handler[h].key, order |-> o]]
    /\ UNCHANGED <<now, boot, cache>>

\* Mutants of Remember: the entry has no order; an entry of the map stays as it was.
RememberNothing(h) ==
    /\ handler[h].at = "set"
    /\ cache' = [x \in DOMAIN cache \cup {handler[h].key} |->
                    IF x = handler[h].key THEN [order |-> NULL, at |-> now] ELSE cache[x]]
    /\ order' = [order EXCEPT ![handler[h].order].answered = now]
    /\ handler' = [handler EXCEPT ![h] = Idle]
    /\ UNCHANGED <<now, boot>>

RememberFirst(h) ==
    /\ handler[h].at = "set"
    /\ LET k == handler[h].key
       IN  cache' = [x \in DOMAIN cache \cup {k} |->
                        IF x \in DOMAIN cache THEN cache[x]
                        ELSE [order |-> handler[h].order, at |-> now]]
    /\ order' = [order EXCEPT ![handler[h].order].answered = now]
    /\ handler' = [handler EXCEPT ![h] = Idle]
    /\ UNCHANGED <<now, boot>>

\* "Guardar en cache per evitar duplicats".
Remember(h) ==
    /\ handler[h].at = "set"
    /\ LET k == handler[h].key
       IN  cache' = [x \in DOMAIN cache \cup {k} |->
                        IF x = k THEN [order |-> handler[h].order, at |-> now]
                                 ELSE cache[x]]
    /\ order' = [order EXCEPT ![handler[h].order].answered = now]
    /\ handler' = [handler EXCEPT ![h] = Idle]
    /\ UNCHANGED <<now, boot>>

\* A mutant of CleanIdempotencyCache: it drops the entries that still count.
CleanFreshEntries ==
    /\ \E k \in DOMAIN cache : now - cache[k].at <= Window
    /\ cache' = [k \in {x \in DOMAIN cache : now - cache[x].at > Window} |-> cache[k]]
    /\ UNCHANGED <<now, boot, order, handler>>

CleanIdempotencyCache ==
    /\ \E k \in DOMAIN cache : now - cache[k].at > Window
    /\ cache' = [k \in {x \in DOMAIN cache : now - cache[x].at <= Window} |-> cache[k]]
    /\ UNCHANGED <<now, boot, order, handler>>

\* The order is deleted; the map keeps it.
Delete(o) ==
    /\ o \in DOMAIN order
    /\ order[o].live
    /\ order' = [order EXCEPT ![o].live = FALSE]
    /\ UNCHANGED <<now, boot, cache, handler>>

Restart ==
    /\ boot < MaxRestarts
    /\ boot' = boot + 1
    /\ cache' = [k \in {} |-> {}]
    /\ handler' = [h \in Handlers |-> Idle]
    /\ UNCHANGED <<now, order>>

Next ==
    \/ Tick
    \/ \E h \in Handlers :
          \/ \E k \in Keys : Submit(h, k)
          \/ Refuse(h)
          \/ \E o \in Orders : Commit(h, o)
          \/ Remember(h)
    \/ CleanIdempotencyCache
    \/ \E o \in Orders : Delete(o)
    \/ Restart

Spec == Init /\ [][Next]_vars

-----------------------------------------------------------------------------
(* Properties *)

\* Content that is submitted again after its order was answered, within the window and
\* before a restart, makes no second order: whichever of several concurrent orders the
\* map remembers, whenever it is cleaned and whatever is deleted.
AnsweredNotRepeated ==
    \A a, b \in DOMAIN order :
       /\ order[a].key = order[b].key
       /\ order[a].boot = order[b].boot
       /\ order[a].answered # NULL
       /\ order[a].answered < order[b].began
       => order[b].began - order[a].answered >= Window

\* "Guardar en cache per evitar duplicats": two orders with one content that exist at
\* once were submitted at least a window apart.  Two requests that both come before
\* either is answered contradict it.
NoDuplicates ==
    \A a, b \in DOMAIN order :
       /\ a # b /\ order[a].key = order[b].key
       /\ order[a].live /\ order[b].live
       /\ order[a].began <= order[b].began
       => order[b].began - order[a].began >= Window
=============================================================================
