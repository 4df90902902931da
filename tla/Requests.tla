------------------------------ MODULE Requests ------------------------------
(***************************************************************************)
(* The requests that the server answers at once, for the modules Accounts, *)
(* Memberships and BasketSchedule.  Their services open no transaction: a  *)
(* step of a request is one statement that writes, or the reads before it, *)
(* and what it has read is what it saves later.                            *)
(***************************************************************************)
EXTENDS Naturals, FiniteSets

CONSTANTS
    Handlers,    \* one per request that is being answered
    Copies       \* bound: how many ids the rows with one key may have had

\* There is always an id that no other request remembers, as there is among UUIDs.
ASSUME RequestsAssumption ==
    IsFiniteSet(Handlers) /\ Copies \in Nat /\ Cardinality(Handlers) <= Copies

VARIABLES
    request,     \* what each request asks, what it has read and where it is
    kinds        \* the kinds of requests that arrive

Idle == [at |-> "idle"]

At(h, at) == request[h].at = at

Begins(h, kind) == At(h, "idle") /\ kind \in kinds

Goes(h, r) ==
    /\ request' = [request EXCEPT ![h] = r]
    /\ UNCHANGED kinds

Ends(h) == Goes(h, Idle)

-----------------------------------------------------------------------------
(* Tables whose rows have an id, and a key under a unique index *)

IsTable(table, keys, rows) ==
    DOMAIN table \subseteq keys /\ table \in [DOMAIN table -> rows]

\* The table with this row, which may replace another with its key.
Put(table, key, row) ==
    [x \in DOMAIN table \cup {key} |-> IF x = key THEN row ELSE table[x]]

\* The columns of sent, and those of a row that sent does not have.
Over(sent, row) ==
    [c \in DOMAIN sent \cup DOMAIN row |-> IF c \in DOMAIN sent THEN sent[c] ELSE row[c]]

Without(f, D) == [x \in DOMAIN f \ D |-> f[x]]

\* An id for a new row: none that a request remembers of an earlier row with this key.
FreshId(key) ==
    CHOOSE n \in 1..Copies :
        \A h \in Handlers : "row" \in DOMAIN request[h] /\ request[h].key = key
                                => request[h].row.id # n

\* INSERT: the unique index refuses a second row.
Inserted(table, key, row) ==
    IF key \in DOMAIN table THEN table ELSE Put(table, key, row)

\* save() of a row that was read: it is inserted again if it is gone, which the unique
\* index refuses if there is another row with its key.  save() selects the row and then
\* updates the columns that differ; the two are one step here.  What another request writes
\* between them, in a column that this one does not change, would stay.
Saved(table, key, row) ==
    IF key \in DOMAIN table /\ table[key].id # row.id THEN table ELSE Put(table, key, row)
=============================================================================
