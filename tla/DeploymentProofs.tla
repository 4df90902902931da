------------------------ MODULE DeploymentProofs ----------------------------
(***************************************************************************)
(* What the migrations, and the catalogue that the server keeps on the     *)
(* tables that they leave, do for every value of the constants: any        *)
(* databases that synchronize may have made, any stray spellings, any      *)
(* number of articles, periods, requests and handlers. A migration is a    *)
(* sequence of statements, so the first part says what a run of statements *)
(* does when every statement does it; the second, what a statement of each *)
(* kind keeps of the rows; the third, which statements the 24 migrations   *)
(* have. SchemaAt(d, k) says all that is known of the schema of a database *)
(* after k migrations: of one that was new, or made by synchronize, and    *)
(* reverted any number of times. Every migration takes its schema to the   *)
(* next, and every revert that succeeds takes it back; after the last one  *)
(* nothing is left open. RowsInv and SchemaInv then hold of the database   *)
(* through runs, reverts and the writes of older releases, and give the    *)
(* server tables on which the steps of CatalogueProofs start.              *)
(***************************************************************************)
EXTENDS Deployment, CatalogueProofs, WellFoundedInduction

-----------------------------------------------------------------------------
(* A run of statements *)

\* Induction up to n.
LEMMA UpTo ==
    ASSUME NEW n \in Nat, NEW S, 0 \in S, \A i \in 1..n : i - 1 \in S => i \in S
    PROVE  0..n \subseteq S
<1> SUFFICES ASSUME NEW y \in (0..n) \ S PROVE FALSE
  OBVIOUS
<1> DEFINE R == OpToRel(<, Nat)
           Left == (0..n) \ S
<1>1. R = {p \in Nat \X Nat : p[1] < p[2]}
  BY DEF OpToRel
<1>2. IsWellFoundedOn(R, Nat)
  BY NatLessThanWellFounded
<1>3. Left \in SUBSET Nat /\ Left # {}
  OBVIOUS
<1> HIDE DEF R, Left
<1>4. PICK x \in Left : \A z \in Left : ~(<<z, x>> \in R)
  BY <1>2, <1>3, WFMin
<1>5. x \in 1..n /\ x - 1 \in 0..n
  BY <1>4 DEF Left
<1>6. x - 1 \in Left
  BY <1>4, <1>5 DEF Left
<1>7. <<x - 1, x>> \in R
  BY <1>1, <1>5
<1> QED
  BY <1>4, <1>6, <1>7

\* The states of a run.
LEMMA RunStates ==
    ASSUME NEW d, NEW statements, Len(statements) \in Nat
    PROVE  \E state : /\ state[0] = d
                      /\ \A i \in 1..Len(statements) :
                            state[i] = Step(state[i - 1], statements[i])
                      /\ Run(d, statements) = state[Len(statements)]
<1> DEFINE n == Len(statements)
           F(k, f) == [i \in 0..k |-> IF i = 0 THEN d ELSE Step(f[i - 1], statements[i])]
           state == CHOOSE f : f = F(n, f)
           Good == {k \in 0..n : \E f : f = F(k, f)}
<1>1. Run(d, statements) = state[n]
  BY DEF Run
<1>2. n \in Nat
  OBVIOUS
<1> HIDE DEF n
<1>3. 0 \in Good
  <2> DEFINE f == [i \in 0..0 |-> d]
  <2>1. f = F(0, f)
    OBVIOUS
  <2> HIDE DEF f, F
  <2> QED
    BY <1>2, <2>1
<1>4. ASSUME NEW k \in 1..n, k - 1 \in Good PROVE k \in Good
  <2>1. PICK g : g = F(k - 1, g)
    BY <1>4
  <2> DEFINE f == [i \in 0..k |-> IF i = k THEN Step(g[k - 1], statements[k]) ELSE g[i]]
  <2>2. \A i \in 0..k : f[i] = IF i = 0 THEN d ELSE Step(f[i - 1], statements[i])
    <3> SUFFICES ASSUME NEW i \in 0..k
                 PROVE  f[i] = IF i = 0 THEN d ELSE Step(f[i - 1], statements[i])
      OBVIOUS
    <3>1. CASE i = k
      BY <1>2, <3>1
    <3>2. CASE i # k
      <4>1. i \in 0..(k - 1) /\ (i # 0 => i - 1 \in 0..k /\ i - 1 # k)
        BY <1>2, <3>2
      <4>2. g[i] = IF i = 0 THEN d ELSE Step(g[i - 1], statements[i])
        BY <2>1, <4>1
      <4> QED
        BY <3>2, <4>1, <4>2
    <3> QED
      BY <3>1, <3>2
  <2>3. f = F(k, f)
    <3> SUFFICES F(k, f) = [i \in 0..k |-> f[i]]
      OBVIOUS
    <3> HIDE DEF f
    <3> QED
      BY <2>2
  <2> HIDE DEF f, F
  <2> QED
    BY <1>2, <2>3
<1>5. n \in Good
  <2> HIDE DEF Good
  <2> QED
    BY <1>2, <1>3, <1>4, UpTo
<1>6. state = F(n, state)
  BY <1>5
<1> HIDE DEF state
<1>7. \A i \in 1..n : i \in 0..n /\ i # 0
  BY <1>2
<1>8. /\ DOMAIN state = 0..n /\ state[0] = d
      /\ \A i \in 1..n : state[i] = Step(state[i - 1], statements[i])
  BY <1>2, <1>6, <1>7
<1> QED
  BY <1>1, <1>8 DEF n

\* The databases that a run of several migrations goes through.
LEMMA ForwardStates ==
    ASSUME NEW d, NEW m \in Nat, NEW n \in Nat
    PROVE  \E state : /\ \A i \in 0..n :
                            state[i] = IF i <= m THEN d ELSE Run(state[i - 1], Sequence[i].up)
                      /\ Forward(d, m, n) = state[n]
<1> DEFINE F(k, f) == [i \in 0..k |-> IF i <= m THEN d ELSE Run(f[i - 1], Sequence[i].up)]
           state == CHOOSE f : f = F(n, f)
           Good == {k \in 0..n : \E f : f = F(k, f)}
<1>1. Forward(d, m, n) = state[n]
  BY DEF Forward
<1>3. 0 \in Good
  <2> DEFINE f == [i \in 0..0 |-> d]
  <2>1. f = F(0, f)
    OBVIOUS
  <2> HIDE DEF f, F
  <2> QED
    BY <2>1
<1>4. ASSUME NEW k \in 1..n, k - 1 \in Good PROVE k \in Good
  <2>1. PICK g : g = F(k - 1, g)
    BY <1>4
  <2> DEFINE f == [i \in 0..k |-> IF i = k
                                  THEN IF k <= m THEN d ELSE Run(g[k - 1], Sequence[k].up)
                                  ELSE g[i]]
  <2>2. \A i \in 0..k : f[i] = IF i <= m THEN d ELSE Run(f[i - 1], Sequence[i].up)
    <3> SUFFICES ASSUME NEW i \in 0..k
                 PROVE  f[i] = IF i <= m THEN d ELSE Run(f[i - 1], Sequence[i].up)
      OBVIOUS
    <3>1. CASE i = k
      BY <3>1
    <3>2. CASE i # k
      <4>1. i \in 0..(k - 1) /\ (~(i <= m) => i - 1 \in 0..k /\ i - 1 # k)
        BY <3>2
      <4>2. g[i] = IF i <= m THEN d ELSE Run(g[i - 1], Sequence[i].up)
        BY <2>1, <4>1
      <4> QED
        BY <3>2, <4>1, <4>2
    <3> QED
      BY <3>1, <3>2
  <2>3. f = F(k, f)
    <3> SUFFICES F(k, f) = [i \in 0..k |-> f[i]]
      OBVIOUS
    <3> HIDE DEF f
    <3> QED
      BY <2>2
  <2> HIDE DEF f, F
  <2> QED
    BY <2>3
<1>5. n \in Good
  <2> HIDE DEF Good
  <2> QED
    BY <1>3, <1>4, UpTo
<1>6. state = F(n, state)
  BY <1>5
<1> HIDE DEF state
<1> QED
  BY <1>1, <1>6

\* One sequence of statements after the other.
LEMMA RunJoined ==
    ASSUME NEW d, NEW S, NEW a \in Seq(S), NEW b \in Seq(S)
    PROVE  Run(d, a \o b) = Run(Run(d, a), b)
<1> DEFINE n == Len(a)
           m == Len(b)
           c == a \o b
<1>1. n \in Nat /\ m \in Nat
  OBVIOUS
<1>c. Len(c) = n + m /\ \A k \in 1..(n + m) : c[k] = IF k <= n THEN a[k] ELSE b[k - n]
  BY ConcatProperties
<1> HIDE DEF n, m, c
<1>a. Len(c) \in Nat
  BY <1>1, <1>c
<1>2. PICK all : /\ all[0] = d
                 /\ \A i \in 1..(n + m) : all[i] = Step(all[i - 1], c[i])
                 /\ Run(d, c) = all[n + m]
  <2>1. PICK all : /\ all[0] = d
                   /\ \A i \in 1..Len(c) : all[i] = Step(all[i - 1], c[i])
                   /\ Run(d, c) = all[Len(c)]
    BY <1>a, RunStates
  <2> QED
    BY <1>c, <2>1
<1>3. PICK first : /\ first[0] = d
                   /\ \A i \in 1..n : first[i] = Step(first[i - 1], a[i])
                   /\ Run(d, a) = first[n]
  BY <1>1, RunStates DEF n
<1>b. PICK e : e = first[n]
  OBVIOUS
<1>4. PICK next : /\ next[0] = e
                  /\ \A i \in 1..m : next[i] = Step(next[i - 1], b[i])
                  /\ Run(e, b) = next[m]
  BY <1>1, RunStates DEF m
<1>5. all[n] = first[n]
  <2> DEFINE S1 == {i \in 0..n : all[i] = first[i]}
  <2>1. 0 \in S1
    BY <1>1, <1>2, <1>3
  <2>2. ASSUME NEW i \in 1..n, i - 1 \in S1 PROVE i \in S1
    <3>1. i \in 1..(n + m) /\ i \in 0..n /\ i <= n
      BY <1>1
    <3> QED
      BY <1>c, <1>2, <1>3, <2>2, <3>1
  <2>3. 0..n \subseteq S1
    <3> HIDE DEF S1
    <3> QED
      BY <1>1, <2>1, <2>2, UpTo
  <2> QED
    BY <1>1, <2>3
<1>6. all[n + m] = next[m]
  <2> DEFINE S2 == {i \in 0..m : all[n + i] = next[i]}
  <2>1. 0 \in S2
    BY <1>1, <1>4, <1>5, <1>b
  <2>2. ASSUME NEW i \in 1..m, i - 1 \in S2 PROVE i \in S2
    <3>1. n + i \in 1..(n + m) /\ i \in 0..m /\ n + i - 1 = n + (i - 1)
      BY <1>1
    <3>2. all[n + i] = Step(all[n + (i - 1)], b[i])
      <4>1. PICK k \in 1..(n + m) : k = n + i
        BY <3>1
      <4>2. all[k] = Step(all[k - 1], c[k])
        BY <1>2
      <4>3. ~(k <= n) /\ k - n = i /\ k - 1 = n + (i - 1)
        BY <1>1, <4>1
      <4>4. c[k] = b[i]
        BY <1>c, <4>3
      <4> QED
        BY <4>1, <4>2, <4>3, <4>4
    <3> QED
      BY <1>4, <2>2, <3>1, <3>2
  <2>3. 0..m \subseteq S2
    <3> HIDE DEF S2
    <3> QED
      BY <1>1, <2>1, <2>2, UpTo
  <2> QED
    BY <1>1, <2>3
<1> QED
  BY <1>2, <1>3, <1>4, <1>6, <1>b DEF c

\* Short sequences.
LEMMA RunNone ==
    ASSUME NEW d
    PROVE  Run(d, <<>>) = d
<1>1. Len(<<>>) = 0
  OBVIOUS
<1> QED
  BY <1>1, RunStates

LEMMA RunOne ==
    ASSUME NEW d, NEW s
    PROVE  Run(d, <<s>>) = Step(d, s)
<1>1. Len(<<s>>) = 1 /\ <<s>>[1] = s
  OBVIOUS
<1>2. PICK state : /\ state[0] = d /\ state[1] = Step(state[0], <<s>>[1])
                   /\ Run(d, <<s>>) = state[1]
  BY <1>1, RunStates
<1> QED
  BY <1>1, <1>2

-----------------------------------------------------------------------------
(* The rows, after a statement *)

\* What a statement of a migration may be.
Ops == {"create", "createMissing", "dropTable", "add", "addMissing", "drop", "rename", "key",
        "keyMissing", "dropKey", "unique", "enum", "label", "dropEnum", "fillHashes",
        "fixSales", "unfixSales", "allowArticleDeletion", "forbidArticleDeletion",
        "removePartial", "restorePartial"}

\* What a database has.
DbFields == {"ok", "columns", "labels", "keys", "unique", "optional", "uuid",
             "order", "line", "sale", "articles"}

HashColumn == <<"articles", "hash">>
StatusColumn == <<"orders", "payment_status">>

\* The values of the rows.
RowsTyped(d) ==
    /\ DOMAIN d = DbFields
    /\ d.order \in {"none", "unset", "unpaid", "partial", "paid"}
    /\ d.line \in {"none", "linked", "unlinked"}
    /\ d.sale \in {"none", "known", "stray", "email"}
    /\ \A n \in DOMAIN d.articles : n \in Names /\ d.articles[n] \in {NoHash, HashKey[n]}

\* Statements about the schema alone keep the values.
LEMMA RowsKept ==
    ASSUME NEW d, NEW e, RowsTyped(d), DOMAIN e = DOMAIN d, e.order = d.order, e.line = d.line,
           e.sale = d.sale, e.articles = d.articles
    PROVE  RowsTyped(e)
BY DEF RowsTyped

\* So does any statement.
LEMMA DoTyped ==
    ASSUME NEW d, NEW s, RowsTyped(d), s.op \in Ops
    PROVE  RowsTyped(Do(d, s))
<1>0. DOMAIN d = DbFields
  BY DEF RowsTyped
<1>1. RowsTyped(Fail(d))
  BY <1>0, RowsKept DEF Fail, DbFields
<1>2. ASSUME NEW c PROVE RowsTyped(WithColumn(d, c))
  BY <1>0 DEF WithColumn, DbFields, RowsTyped
<1>3. ASSUME NEW c PROVE RowsTyped(WithoutColumn(d, c))
  BY <1>0 DEF WithoutColumn, DbFields, RowsTyped
<1>4. RowsTyped(WithTable(d, s))
  BY <1>0, RowsKept DEF WithTable, DbFields
<1>5. ASSUME NEW t PROVE RowsTyped(WithoutTable(d, t))
  BY <1>0 DEF WithoutTable, DbFields, RowsTyped
<1>6. CASE s.op = "create"
  <2>1. Do(d, s) = IF s.table \in Tables(d) THEN Fail(d)
               ELSE [WithTable(d, s) EXCEPT !.keys = @ \cup s.keys]
    BY <1>6 DEF Do
  <2>2. RowsTyped([WithTable(d, s) EXCEPT !.keys = @ \cup s.keys])
    BY <1>0, <1>4, RowsKept DEF WithTable, DbFields
  <2> QED
    BY <1>1, <2>1, <2>2
<1>7. CASE s.op = "createMissing"
  BY <1>4, <1>7 DEF Do
<1>8. CASE s.op = "dropTable"
  BY <1>5, <1>8 DEF Do
<1>9. CASE s.op \in {"add", "addMissing", "drop"}
  BY <1>1, <1>2, <1>3, <1>9 DEF Do
<1>10. CASE s.op = "rename"
  BY <1>0, <1>10, RowsKept DEF Do, DbFields
<1>11. CASE s.op = "key"
  BY <1>0, <1>1, <1>11, RowsKept DEF Do, DbFields
<1>12. CASE s.op = "keyMissing"
  BY <1>0, <1>12, RowsKept DEF Do, DbFields
<1>13. CASE s.op = "dropKey"
  BY <1>0, <1>13, RowsKept DEF Do, DbFields
<1>14. CASE s.op = "unique"
  BY <1>0, <1>14, RowsKept DEF Do, DbFields
<1>15. CASE s.op \in {"enum", "label", "dropEnum"}
  BY <1>0, <1>15, RowsKept DEF Do, DbFields
<1>16. CASE s.op = "fillHashes"
  <2>1. Do(d, s) = FillHashes(d)
    BY <1>16 DEF Do
  <2> QED
    BY <1>0, <2>1 DEF FillHashes, DbFields, RowsTyped
<1>17. CASE s.op = "fixSales"
  <2>1. Do(d, s) = FixSales(d)
    BY <1>17 DEF Do
  <2> QED
    BY <1>0, <1>1, <2>1 DEF FixSales, DbFields, RowsTyped
<1>18. CASE s.op = "unfixSales"
  <2>1. Do(d, s) = UnfixSales(d)
    BY <1>18 DEF Do
  <2> QED
    BY <1>0, <1>1, <2>1, RowsKept DEF UnfixSales, DbFields
<1>19. CASE s.op = "allowArticleDeletion"
  <2>1. Do(d, s) = AllowArticleDeletion(d)
    BY <1>19 DEF Do
  <2> QED
    BY <1>0, <2>1, RowsKept DEF AllowArticleDeletion, DbFields
<1>20. CASE s.op = "forbidArticleDeletion"
  <2>1. Do(d, s) = ForbidArticleDeletion(d)
    BY <1>20 DEF Do
  <2> QED
    BY <1>0, <1>1, <2>1, RowsKept DEF ForbidArticleDeletion, DbFields
<1>21. CASE s.op = "removePartial"
  <2>1. Do(d, s) = RemovePartial(d)
    BY <1>21 DEF Do
  <2> QED
    BY <1>0, <2>1 DEF RemovePartial, DbFields, RowsTyped
<1>22. CASE s.op = "restorePartial"
  BY <1>1, <1>22 DEF Do, RestorePartial
<1> QED
  BY <1>6, <1>7, <1>8, <1>9, <1>10, <1>11, <1>12, <1>13, <1>14, <1>15, <1>16, <1>17, <1>18,
     <1>19, <1>20, <1>21, <1>22 DEF Ops

\* What RunKeepsRows says of two databases.
Kept(d, e) ==
    /\ (e.order = "paid") = (d.order = "paid")
    /\ (e.order = "none") = (d.order = "none")
    /\ e.line = d.line
    /\ e.sale # d.sale => d.sale = "known" /\ e.sale = "email"
    /\ DOMAIN e.articles = DOMAIN d.articles
    /\ \A n \in DOMAIN d.articles : d.articles[n] # NoHash => e.articles[n] = d.articles[n]

\* Statements that lose no row and no meaning of one.
Harmless(s) ==
    /\ s.op \in Ops \ {"dropTable", "unfixSales", "forbidArticleDeletion", "restorePartial"}
    /\ s.op \in {"add", "addMissing", "drop"} => s.column # HashColumn
    /\ s.op = "drop" => s.column # StatusColumn

\* It holds of two runs when it holds of each.
LEMMA KeptTrans ==
    ASSUME NEW d, NEW e, NEW f, Kept(d, e), Kept(e, f)
    PROVE  Kept(d, f)
BY DEF Kept

\* And when no row changes.
LEMMA SameKept ==
    ASSUME NEW d, NEW e, e.order = d.order, e.line = d.line, e.sale = d.sale,
           e.articles = d.articles
    PROVE  Kept(d, e)
BY DEF Kept

\* A harmless statement keeps the rows.
LEMMA DoKeeps ==
    ASSUME NEW d, NEW s, RowsTyped(d), Harmless(s)
    PROVE  Kept(d, Do(d, s))
<1>0. DOMAIN d = DbFields
  BY DEF RowsTyped
<1>1. Kept(d, Fail(d)) /\ Kept(d, d)
  BY <1>0, SameKept DEF Fail, DbFields
<1>2. ASSUME NEW c, c # HashColumn PROVE Kept(d, WithColumn(d, c))
  <2> DEFINE e == WithColumn(d, c)
  <2>1. /\ e.order = IF c = StatusColumn /\ d.order = "unset" THEN "unpaid" ELSE d.order
        /\ e.articles = IF c = HashColumn THEN [n \in DOMAIN d.articles |-> NoHash]
                        ELSE d.articles
        /\ e.line = d.line /\ e.sale = d.sale
    BY <1>0 DEF WithColumn, DbFields, StatusColumn, HashColumn
  <2> HIDE DEF e
  <2>2. Kept(d, e)
    BY <1>2, <2>1 DEF Kept
  <2> QED
    BY <2>2 DEF e
<1>3. ASSUME NEW c, c # StatusColumn PROVE Kept(d, WithoutColumn(d, c))
  <2> DEFINE e == WithoutColumn(d, c)
  <2>1. /\ e.order = IF c = StatusColumn /\ d.order # "none" THEN "unset" ELSE d.order
        /\ e.line = d.line /\ e.sale = d.sale /\ e.articles = d.articles
    BY <1>0 DEF WithoutColumn, DbFields, StatusColumn
  <2> HIDE DEF e
  <2>2. Kept(d, e)
    BY <1>3, <2>1, SameKept
  <2> QED
    BY <2>2 DEF e
<1>4. /\ Kept(d, WithTable(d, s))
      /\ Kept(d, [WithTable(d, s) EXCEPT !.keys = @ \cup s.keys])
  <2> DEFINE e == WithTable(d, s)
             f == [e EXCEPT !.keys = @ \cup s.keys]
  <2>1. /\ e.order = d.order /\ e.line = d.line /\ e.sale = d.sale
        /\ e.articles = d.articles /\ DOMAIN e = DbFields
    BY <1>0 DEF WithTable, DbFields
  <2> HIDE DEF e
  <2>2. /\ f.order = d.order /\ f.line = d.line /\ f.sale = d.sale
        /\ f.articles = d.articles
    BY <2>1 DEF DbFields
  <2> HIDE DEF f
  <2>3. Kept(d, e) /\ Kept(d, f)
    BY <2>1, <2>2, SameKept
  <2> QED
    BY <2>3 DEF e, f
<1>6. CASE s.op \in {"create", "createMissing"}
  BY <1>1, <1>4, <1>6 DEF Do
<1>9. CASE s.op \in {"add", "addMissing", "drop"}
  BY <1>1, <1>2, <1>3, <1>9 DEF Do, Harmless
<1>10. CASE s.op = "rename"
  BY <1>0, <1>10, SameKept DEF Do, DbFields
<1>11. CASE s.op = "key"
  BY <1>0, <1>1, <1>11, SameKept DEF Do, DbFields
<1>12. CASE s.op \in {"keyMissing", "dropKey", "unique"}
  BY <1>0, <1>12, SameKept DEF Do, DbFields
<1>15. CASE s.op \in {"enum", "label", "dropEnum"}
  BY <1>0, <1>15, SameKept DEF Do, DbFields
<1>16. CASE s.op = "fillHashes"
  <2>1. Do(d, s) = FillHashes(d)
    BY <1>16 DEF Do
  <2> QED
    BY <1>0, <2>1 DEF FillHashes, DbFields, Kept
<1>17. CASE s.op = "fixSales"
  <2>1. Do(d, s) = FixSales(d)
    BY <1>17 DEF Do
  <2> QED
    BY <1>0, <1>1, <2>1 DEF FixSales, DbFields, Kept
<1>19. CASE s.op = "allowArticleDeletion"
  <2>1. Do(d, s) = AllowArticleDeletion(d)
    BY <1>19 DEF Do
  <2> QED
    BY <1>0, <2>1, SameKept DEF AllowArticleDeletion, DbFields
<1>21. CASE s.op = "removePartial"
  <2>1. Do(d, s) = RemovePartial(d)
    BY <1>21 DEF Do
  <2> QED
    BY <1>0, <2>1 DEF RemovePartial, DbFields, Kept
<1> QED
  BY <1>6, <1>9, <1>10, <1>11, <1>12, <1>15, <1>16, <1>17, <1>19, <1>21 DEF Ops, Harmless

\* Every article has the hash of its name.
Filled(d) ==
    HashColumn \in d.columns /\ \A n \in DOMAIN d.articles : d.articles[n] = HashKey[n]

\* Statements that leave hashes as they are.
KeepsHashes(s) ==
    /\ s.op \in Ops
    /\ s.op \in {"add", "addMissing", "drop"} => s.column # HashColumn
    /\ s.op = "dropTable" => s.table # "articles"
    /\ s.op = "rename" => s.from # HashColumn

LEMMA DoKeepsHashes ==
    ASSUME NEW d, NEW s, RowsTyped(d), KeepsHashes(s), Filled(d)
    PROVE  Filled(Do(d, s))
<1>0. DOMAIN d = DbFields
  BY DEF RowsTyped
<1>a. ASSUME NEW e, d.columns \subseteq e.columns, e.articles = d.articles PROVE Filled(e)
  BY <1>a DEF Filled
<1>1. Filled(Fail(d))
  BY <1>0, <1>a DEF Fail, DbFields
<1>2. ASSUME NEW c, c # HashColumn PROVE Filled(WithColumn(d, c)) /\ Filled(WithoutColumn(d, c))
  BY <1>0, <1>2 DEF WithColumn, WithoutColumn, DbFields, HashColumn, Filled
<1>4. /\ Filled(WithTable(d, s))
      /\ Filled([WithTable(d, s) EXCEPT !.keys = @ \cup s.keys])
  BY <1>0, <1>a DEF WithTable, DbFields
<1>5. ASSUME NEW t, t # "articles" PROVE Filled(WithoutTable(d, t))
  BY <1>0, <1>5 DEF WithoutTable, DbFields, Filled, HashColumn
<1>6. CASE s.op \in {"create", "createMissing"}
  BY <1>1, <1>4, <1>6 DEF Do
<1>8. CASE s.op = "dropTable"
  BY <1>5, <1>8 DEF Do, KeepsHashes
<1>9. CASE s.op \in {"add", "addMissing", "drop"}
  BY <1>1, <1>2, <1>9 DEF Do, KeepsHashes
<1>10. CASE s.op = "rename"
  BY <1>0, <1>10 DEF Do, DbFields, Filled, KeepsHashes
<1>11. CASE s.op = "key"
  BY <1>0, <1>1, <1>11, <1>a DEF Do, DbFields
<1>12. CASE s.op \in {"keyMissing", "dropKey", "unique"}
  BY <1>0, <1>12, <1>a DEF Do, DbFields
<1>15. CASE s.op \in {"enum", "label", "dropEnum"}
  BY <1>0, <1>15, <1>a DEF Do, DbFields
<1>16. CASE s.op = "fillHashes"
  <2>1. Do(d, s) = FillHashes(d)
    BY <1>16 DEF Do
  <2> QED
    BY <1>0, <2>1 DEF FillHashes, DbFields, Filled
<1>17. CASE s.op \in {"fixSales", "unfixSales"}
  <2>1. Do(d, s) \in {FixSales(d), UnfixSales(d)}
    BY <1>17 DEF Do
  <2>2. Filled(FixSales(d)) /\ Filled(UnfixSales(d))
    BY <1>0, <1>1, <1>a DEF FixSales, UnfixSales, DbFields
  <2> QED
    BY <2>1, <2>2
<1>19. CASE s.op \in {"allowArticleDeletion", "forbidArticleDeletion"}
  <2>1. Do(d, s) \in {AllowArticleDeletion(d), ForbidArticleDeletion(d)}
    BY <1>19 DEF Do
  <2>2. Filled(AllowArticleDeletion(d)) /\ Filled(ForbidArticleDeletion(d))
    BY <1>0, <1>1, <1>a DEF AllowArticleDeletion, ForbidArticleDeletion, DbFields
  <2> QED
    BY <2>1, <2>2
<1>21. CASE s.op \in {"removePartial", "restorePartial"}
  <2>1. Do(d, s) \in {RemovePartial(d), Fail(d)}
    BY <1>21 DEF Do, RestorePartial
  <2>2. Filled(RemovePartial(d))
    BY <1>0, <1>a DEF RemovePartial, DbFields
  <2> QED
    BY <1>1, <2>1, <2>2
<1> QED
  BY <1>6, <1>8, <1>9, <1>10, <1>11, <1>12, <1>15, <1>16, <1>17, <1>19, <1>21
  DEF Ops, KeepsHashes

-----------------------------------------------------------------------------
(* The statements of the migrations *)

\* The statements of InitialSchema.
InitialStatement ==
    {InitialEnums[j] : j \in 1..5} \cup {InitialCatalogue[j] : j \in 1..8}
    \cup {InitialOrders[j] : j \in 1..9} \cup {InitialKeys[j] : j \in 1..22}
    \cup {InitialIndexes[j] : j \in 1..2}

\* The operations of the first migration.
LEMMA InitialStatements ==
    /\ InitialEnums \in Seq(InitialStatement)
    /\ InitialCatalogue \in Seq(InitialStatement)
    /\ InitialOrders \in Seq(InitialStatement)
    /\ InitialKeys \in Seq(InitialStatement)
    /\ InitialIndexes \in Seq(InitialStatement)
<1>1. InitialEnums = [j \in 1..5 |-> InitialEnums[j]]
  BY DEF InitialEnums
<1>2. InitialCatalogue = [j \in 1..8 |-> InitialCatalogue[j]]
  BY DEF InitialCatalogue
<1>3. InitialOrders = [j \in 1..9 |-> InitialOrders[j]]
  BY DEF InitialOrders
<1>4. InitialKeys = [j \in 1..22 |-> InitialKeys[j]]
  BY DEF InitialKeys
<1>5. InitialIndexes = [j \in 1..2 |-> InitialIndexes[j]]
  BY DEF InitialIndexes
<1>6. ASSUME NEW n \in Nat, NEW f, f = [j \in 1..n |-> f[j]],
             {f[j] : j \in 1..n} \subseteq InitialStatement
      PROVE  f \in Seq(InitialStatement)
  BY <1>6
<1> QED
  BY <1>1, <1>2, <1>3, <1>4, <1>5, <1>6 DEF InitialStatement

LEMMA InitialUp == InitialSchema.up \in Seq(InitialStatement)
BY InitialStatements DEF InitialSchema, Migration

\* They are of these kinds.
LEMMA InitialOps ==
    \A s \in InitialStatement : s.op \in {"enum", "createMissing", "keyMissing", "unique"}
<1>1. \A j \in 1..5 : InitialEnums[j].op = "enum"
  BY DEF InitialEnums, CreateEnumIfNotExists
<1>2. \A j \in 1..8 : InitialCatalogue[j].op = "createMissing"
  BY DEF InitialCatalogue, CreateTableIfNotExists
<1>3. \A j \in 1..9 : InitialOrders[j].op = "createMissing"
  BY DEF InitialOrders, CreateTableIfNotExists
<1>4. \A j \in 1..22 : InitialKeys[j].op = "keyMissing"
  <2> DEFINE KeyOp(s) == s.op = "keyMissing"
  <2>1. ASSUME NEW table, NEW column, NEW rule
        PROVE  KeyOp(AddForeignKeyIfNotExists(table, column, rule))
    BY DEF AddForeignKeyIfNotExists
  <2> HIDE DEF KeyOp
  <2>2. /\ KeyOp(InitialKeys[1]) /\ KeyOp(InitialKeys[2]) /\ KeyOp(InitialKeys[3])
        /\ KeyOp(InitialKeys[4]) /\ KeyOp(InitialKeys[5]) /\ KeyOp(InitialKeys[6])
        /\ KeyOp(InitialKeys[7]) /\ KeyOp(InitialKeys[8]) /\ KeyOp(InitialKeys[9])
        /\ KeyOp(InitialKeys[10]) /\ KeyOp(InitialKeys[11]) /\ KeyOp(InitialKeys[12])
        /\ KeyOp(InitialKeys[13]) /\ KeyOp(InitialKeys[14]) /\ KeyOp(InitialKeys[15])
        /\ KeyOp(InitialKeys[16]) /\ KeyOp(InitialKeys[17]) /\ KeyOp(InitialKeys[18])
        /\ KeyOp(InitialKeys[19]) /\ KeyOp(InitialKeys[20]) /\ KeyOp(InitialKeys[21])
        /\ KeyOp(InitialKeys[22])
    BY <2>1 DEF InitialKeys
  <2>3. \A j \in 1..22 : KeyOp(InitialKeys[j])
    BY <2>2
  <2> QED
    BY <2>3 DEF KeyOp
<1>5. \A j \in 1..2 : InitialIndexes[j].op = "unique"
  BY DEF InitialIndexes, CreateUniqueIndex
<1> QED
  BY <1>1, <1>2, <1>3, <1>4, <1>5 DEF InitialStatement

\* They lose nothing.
LEMMA InitialHarmless == \A s \in InitialStatement : Harmless(s) /\ KeepsHashes(s)
BY InitialOps DEF Harmless, KeepsHashes, Ops

\* What the statements of a sequence have in common.
AllHarmless(ss) == Len(ss) \in Nat /\ \A i \in 1..Len(ss) : Harmless(ss[i])
AllKeepHashes(ss) == Len(ss) \in Nat /\ \A i \in 1..Len(ss) : KeepsHashes(ss[i])
AllKnown(ss) == Len(ss) \in Nat /\ \A i \in 1..Len(ss) : ss[i].op \in Ops

\* The migrations, by number.
LEMMA SequenceParts ==
    /\ Len(Sequence) = 24
    /\ Sequence[1] = InitialSchema /\ Sequence[2] = AddPreparerRole
    /\ Sequence[3] = AddSystemConfig /\ Sequence[4] = AddPreparerRoleToEnum
    /\ Sequence[5] = FixSalesUserEmailType /\ Sequence[6] = AddPaymentStatusToOrders
    /\ Sequence[7] = AllowArticleDeletionInOrders /\ Sequence[8] = AddIsEcoToArticles
    /\ Sequence[9] = AddTaxRateToArticles /\ Sequence[10] = AddTotalAmountToOrders
    /\ Sequence[11] = AddPaidAmountToOrders /\ Sequence[12] = AddIsDeliveredToOrders
    /\ Sequence[13] = AddManatUnitMeasure /\ Sequence[14] = AddPeriodIdToOrderItems
    /\ Sequence[15] = RenameTaxIdToCif /\ Sequence[16] = AddHashToArticles
    /\ Sequence[17] = AddTransportCostToPeriods /\ Sequence[18] = AddTransportTaxRateToPeriods
    /\ Sequence[19] = AddCustomizationOptions /\ Sequence[20] = RemovePartialPaymentStatus
    /\ Sequence[21] = RemovePaidAmountFromOrderItems /\ Sequence[22] = AddBasketScheduleTables
    /\ Sequence[23] = AddIsPreparedToOrderItems /\ Sequence[24] = CreatePeriodUserPayments
BY DEF Sequence

\* Every statement is one of the known kinds; no migration but RemovePartialPaymentStatus
\* does any harm when it is applied.
LEMMA InitialDownKnown == AllKnown(InitialDown)
BY DEF InitialDown, AllKnown, DropTable, DropEnum, Ops

LEMMA UpsHarmless == \A i \in (1..24) \ {16} : AllHarmless(Sequence[i].up)
<1> USE DEF AllHarmless, Harmless, Ops, Migration, HashColumn, StatusColumn, Statement,
            AddColumnIfNotExists, AddColumn, DropColumn, DropTable, CreateTable,
            CreateTableIfNotExists, RenameColumn, AddForeignKey, DropForeignKey,
            CreateEnumIfNotExists, AddLabelIfNotExists, DropEnum, CreateUniqueIndex, AddMissing
<1>1. AllHarmless(InitialSchema.up)
  BY InitialUp, InitialHarmless
<1>2. AllHarmless(AddPreparerRole.up) /\ AllHarmless(AddSystemConfig.up)
  BY DEF AddPreparerRole, AddSystemConfig
<1>3. AllHarmless(AddPreparerRoleToEnum.up) /\ AllHarmless(FixSalesUserEmailType.up)
  BY DEF AddPreparerRoleToEnum, FixSalesUserEmailType
<1>4. AllHarmless(AddPaymentStatusToOrders.up)
  BY DEF AddPaymentStatusToOrders
<1>5. AllHarmless(AllowArticleDeletionInOrders.up)
  BY DEF AllowArticleDeletionInOrders
<1>6. AllHarmless(AddIsEcoToArticles.up) /\ AllHarmless(AddTaxRateToArticles.up)
  BY DEF AddIsEcoToArticles, AddTaxRateToArticles
<1>7. AllHarmless(AddTotalAmountToOrders.up) /\ AllHarmless(AddPaidAmountToOrders.up)
  BY DEF AddTotalAmountToOrders, AddPaidAmountToOrders
<1>8. AllHarmless(AddIsDeliveredToOrders.up) /\ AllHarmless(AddManatUnitMeasure.up)
  BY DEF AddIsDeliveredToOrders, AddManatUnitMeasure
<1>9. AllHarmless(RenameTaxIdToCif.up)
  BY DEF RenameTaxIdToCif
<1>16. AllHarmless(AddPeriodIdToOrderItems.up)
  <2>1. Harmless(AddColumnIfNotExists("order_items", "period_id"))
    OBVIOUS
  <2>2. Harmless(AddForeignKey("order_items", "period_id", "SET NULL"))
    OBVIOUS
  <2> HIDE DEF Harmless, AddColumnIfNotExists, AddForeignKey
  <2>3. ASSUME NEW a, NEW b, Harmless(a), Harmless(b) PROVE AllHarmless(<<a, b>>)
    BY <2>3
  <2> HIDE DEF AllHarmless
  <2> QED
    BY <2>1, <2>2, <2>3 DEF AddPeriodIdToOrderItems
<1>10. AllHarmless(AddTransportCostToPeriods.up) /\ AllHarmless(AddTransportTaxRateToPeriods.up)
  BY DEF AddTransportCostToPeriods, AddTransportTaxRateToPeriods
<1>11. AllHarmless(AddCustomizationOptions.up) /\ AllHarmless(RemovePartialPaymentStatus.up)
  BY DEF AddCustomizationOptions, RemovePartialPaymentStatus
<1>12. AllHarmless(RemovePaidAmountFromOrderItems.up)
  BY DEF RemovePaidAmountFromOrderItems
<1>13. AllHarmless(AddBasketScheduleTables.up)
  BY DEF AddBasketScheduleTables
<1>14. AllHarmless(AddIsPreparedToOrderItems.up)
  BY DEF AddIsPreparedToOrderItems
<1>15. AllHarmless(CreatePeriodUserPayments.up)
  BY DEF CreatePeriodUserPayments
<1> HIDE DEF AllHarmless
<1> QED
  BY <1>1, <1>2, <1>3, <1>4, <1>5, <1>6, <1>7, <1>8, <1>9, <1>10, <1>11, <1>12, <1>13, <1>14,
     <1>15, <1>16, SequenceParts

\* After the hashes are there, no migration touches them.
LEMMA LaterKeepHashes ==
    \A i \in 17..24 : AllKeepHashes(Sequence[i].up) /\ AllKeepHashes(Sequence[i].down)
<1> USE DEF AllKeepHashes, KeepsHashes, Ops, Migration, HashColumn, Statement,
            AddColumnIfNotExists, AddColumn, DropColumn, DropTable, CreateTable,
            CreateTableIfNotExists, AddForeignKey, CreateEnumIfNotExists, DropEnum,
            CreateUniqueIndex, AddMissing
<1>1. AllKeepHashes(AddTransportCostToPeriods.up) /\ AllKeepHashes(AddTransportCostToPeriods.down)
  BY DEF AddTransportCostToPeriods
<1>2. /\ AllKeepHashes(AddTransportTaxRateToPeriods.up)
      /\ AllKeepHashes(AddTransportTaxRateToPeriods.down)
  BY DEF AddTransportTaxRateToPeriods
<1>3. AllKeepHashes(AddCustomizationOptions.up) /\ AllKeepHashes(AddCustomizationOptions.down)
  BY DEF AddCustomizationOptions
<1>4. /\ AllKeepHashes(RemovePartialPaymentStatus.up)
      /\ AllKeepHashes(RemovePartialPaymentStatus.down)
  BY DEF RemovePartialPaymentStatus
<1>5. /\ AllKeepHashes(RemovePaidAmountFromOrderItems.up)
      /\ AllKeepHashes(RemovePaidAmountFromOrderItems.down)
  BY DEF RemovePaidAmountFromOrderItems
<1>6. AllKeepHashes(AddBasketScheduleTables.up) /\ AllKeepHashes(AddBasketScheduleTables.down)
  BY DEF AddBasketScheduleTables
<1>7. AllKeepHashes(AddIsPreparedToOrderItems.up) /\ AllKeepHashes(AddIsPreparedToOrderItems.down)
  BY DEF AddIsPreparedToOrderItems
<1>8. AllKeepHashes(CreatePeriodUserPayments.up) /\ AllKeepHashes(CreatePeriodUserPayments.down)
  BY DEF CreatePeriodUserPayments
<1> HIDE DEF AllKeepHashes
<1> QED
  BY <1>1, <1>2, <1>3, <1>4, <1>5, <1>6, <1>7, <1>8, SequenceParts

\* The statements of reverts are of the known kinds.
LEMMA DownsKnown == \A i \in 1..24 : AllKnown(Sequence[i].down)
<1> USE DEF AllKnown, Ops, Migration, Statement, AddColumn, DropColumn, DropTable,
            RenameColumn, DropForeignKey, DropEnum, AddMissing
<1>1. AllKnown(InitialSchema.down) /\ AllKnown(AddSystemConfig.down)
  BY InitialDownKnown DEF InitialSchema, AddSystemConfig
<1>2. AllKnown(AddPreparerRole.down) /\ AllKnown(AddPreparerRoleToEnum.down)
  BY DEF AddPreparerRole, AddPreparerRoleToEnum
<1>3. AllKnown(FixSalesUserEmailType.down) /\ AllKnown(AllowArticleDeletionInOrders.down)
  BY DEF FixSalesUserEmailType, AllowArticleDeletionInOrders
<1>4. AllKnown(AddPaymentStatusToOrders.down) /\ AllKnown(AddIsEcoToArticles.down)
  BY DEF AddPaymentStatusToOrders, AddIsEcoToArticles
<1>5. AllKnown(AddTaxRateToArticles.down) /\ AllKnown(AddTotalAmountToOrders.down)
  BY DEF AddTaxRateToArticles, AddTotalAmountToOrders
<1>6. AllKnown(AddPaidAmountToOrders.down) /\ AllKnown(AddIsDeliveredToOrders.down)
  BY DEF AddPaidAmountToOrders, AddIsDeliveredToOrders
<1>7. AllKnown(AddManatUnitMeasure.down) /\ AllKnown(RenameTaxIdToCif.down)
  BY DEF AddManatUnitMeasure, RenameTaxIdToCif
<1>8. AllKnown(AddPeriodIdToOrderItems.down) /\ AllKnown(AddHashToArticles.down)
  BY DEF AddPeriodIdToOrderItems, AddHashToArticles
<1>9. \A i \in 17..24 : AllKnown(Sequence[i].down)
  BY LaterKeepHashes DEF AllKeepHashes, KeepsHashes
<1> HIDE DEF AllKnown
<1> QED
  BY <1>1, <1>2, <1>3, <1>4, <1>5, <1>6, <1>7, <1>8, <1>9, SequenceParts

\* So are all others.
LEMMA UpsKnown == \A i \in 1..24 : AllKnown(Sequence[i].up)
<1>1. AllKnown(AddHashToArticles.up)
  BY DEF AddHashToArticles, Migration, AddColumnIfNotExists, Statement, AllKnown, Ops
<1> QED
  BY <1>1, UpsHarmless, SequenceParts DEF AllKnown, AllHarmless, Harmless

-----------------------------------------------------------------------------
(* A run, when its statements are known *)

\* Runs keep the values of the rows.
LEMMA RunTyped ==
    ASSUME NEW d, NEW ss, RowsTyped(d), AllKnown(ss)
    PROVE  RowsTyped(Run(d, ss))
<1> DEFINE n == Len(ss)
<1>1. PICK state : /\ state[0] = d
                   /\ \A i \in 1..n : state[i] = Step(state[i - 1], ss[i])
                   /\ Run(d, ss) = state[n]
  <2>1. Len(ss) \in Nat
    BY DEF AllKnown
  <2> HIDE DEF AllKnown
  <2> QED
    BY <2>1, RunStates
<1> DEFINE Good == {i \in 0..n : RowsTyped(state[i])}
<1>2. n \in Nat
  BY DEF AllKnown
<1>3. ASSUME NEW i \in 1..n, i - 1 \in Good PROVE i \in Good
  <2>1. RowsTyped(state[i - 1]) /\ ss[i].op \in Ops /\ i \in 0..n
    BY <1>2, <1>3 DEF AllKnown
  <2> HIDE DEF n
  <2>2. RowsTyped(Step(state[i - 1], ss[i]))
    BY <2>1, DoTyped DEF Step
  <2> QED
    BY <1>1, <2>1, <2>2
<1>4. 0 \in Good
  BY <1>1, <1>2
<1> HIDE DEF Good, n
<1>5. n \in Good
  BY <1>2, <1>3, <1>4, UpTo
<1> QED
  BY <1>1, <1>5 DEF Good

\* Runs of harmless statements keep the rows.
LEMMA RunKeeps ==
    ASSUME NEW d, NEW ss, RowsTyped(d), AllHarmless(ss)
    PROVE  Kept(d, Run(d, ss))
<1> DEFINE n == Len(ss)
<1>1. PICK state : /\ state[0] = d
                   /\ \A i \in 1..n : state[i] = Step(state[i - 1], ss[i])
                   /\ Run(d, ss) = state[n]
  <2>1. Len(ss) \in Nat
    BY DEF AllHarmless
  <2> HIDE DEF AllHarmless
  <2> QED
    BY <2>1, RunStates
<1> DEFINE Good == {i \in 0..n : RowsTyped(state[i]) /\ Kept(d, state[i])}
<1>2. n \in Nat
  BY DEF AllHarmless
<1>3. ASSUME NEW i \in 1..n, i - 1 \in Good PROVE i \in Good
  <2>1. /\ RowsTyped(state[i - 1]) /\ Kept(d, state[i - 1])
        /\ Harmless(ss[i]) /\ ss[i].op \in Ops /\ i \in 0..n
    BY <1>2, <1>3 DEF AllHarmless, Harmless
  <2> HIDE DEF n
  <2>2. RowsTyped(Do(state[i - 1], ss[i]))
    BY <2>1, DoTyped
  <2>3. Kept(state[i - 1], Do(state[i - 1], ss[i]))
    BY <2>1, DoKeeps
  <2>4. Kept(d, Do(state[i - 1], ss[i]))
    BY <2>1, <2>3, KeptTrans
  <2> QED
    BY <1>1, <2>1, <2>2, <2>4 DEF Step
<1>4. 0 \in Good
  BY <1>1, <1>2, SameKept
<1> HIDE DEF Good, n
<1>5. n \in Good
  BY <1>2, <1>3, <1>4, UpTo
<1> QED
  BY <1>1, <1>5 DEF Good

\* Runs of statements that keep the hashes leave every article with one.
LEMMA RunKeepsHashes ==
    ASSUME NEW d, NEW ss, RowsTyped(d), d.ok => Filled(d), AllKeepHashes(ss)
    PROVE  Run(d, ss).ok => Filled(Run(d, ss))
<1> DEFINE n == Len(ss)
<1>1. PICK state : /\ state[0] = d
                   /\ \A i \in 1..n : state[i] = Step(state[i - 1], ss[i])
                   /\ Run(d, ss) = state[n]
  <2>1. Len(ss) \in Nat
    BY DEF AllKeepHashes
  <2> HIDE DEF AllKeepHashes
  <2> QED
    BY <2>1, RunStates
<1> DEFINE Good == {i \in 0..n : RowsTyped(state[i]) /\ (state[i].ok => Filled(state[i]))}
<1>2. n \in Nat
  BY DEF AllKeepHashes
<1>3. ASSUME NEW i \in 1..n, i - 1 \in Good PROVE i \in Good
  <2>1. /\ RowsTyped(state[i - 1]) /\ (state[i - 1].ok => Filled(state[i - 1]))
        /\ KeepsHashes(ss[i]) /\ ss[i].op \in Ops /\ i \in 0..n
    BY <1>2, <1>3 DEF AllKeepHashes, KeepsHashes
  <2> HIDE DEF n
  <2>2. RowsTyped(Do(state[i - 1], ss[i]))
    BY <2>1, DoTyped
  <2>3. state[i - 1].ok => Filled(Do(state[i - 1], ss[i]))
    BY <2>1, DoKeepsHashes
  <2> QED
    BY <1>1, <2>1, <2>2, <2>3 DEF Step
<1>4. 0 \in Good
  BY <1>1, <1>2
<1> HIDE DEF Good, n
<1>5. n \in Good
  BY <1>2, <1>3, <1>4, UpTo
<1> QED
  BY <1>1, <1>5 DEF Good

\* Two statements, one after the other.
LEMMA RunTwo ==
    ASSUME NEW d, NEW s, NEW t
    PROVE  Run(d, <<s, t>>) = Step(Step(d, s), t)
<1>1. Len(<<s, t>>) = 2 /\ <<s, t>>[1] = s /\ <<s, t>>[2] = t
  OBVIOUS
<1>2. PICK state : /\ state[0] = d
                   /\ state[1] = Step(state[0], <<s, t>>[1])
                   /\ state[2] = Step(state[1], <<s, t>>[2])
                   /\ Run(d, <<s, t>>) = state[2]
  <2> DEFINE ss == <<s, t>>
  <2>1. Len(ss) = 2 /\ Len(ss) \in Nat
    BY <1>1
  <2> HIDE DEF ss
  <2>2. PICK state : /\ state[0] = d
                     /\ \A i \in 1..Len(ss) : state[i] = Step(state[i - 1], ss[i])
                     /\ Run(d, ss) = state[Len(ss)]
    BY <2>1, RunStates
  <2>3. state[1] = Step(state[0], ss[1]) /\ state[2] = Step(state[1], ss[2])
    BY <2>1, <2>2
  <2> QED
    BY <2>1, <2>2, <2>3 DEF ss
<1> QED
  BY <1>1, <1>2

\* AddHashToArticles, which loses no hash even where the column is new to a table whose
\* articles have hashes: they are made again.
LEMMA HashesMade ==
    ASSUME NEW d, RowsTyped(d)
    PROVE  LET r == Run(d, Sequence[16].up) IN Kept(d, r) /\ (r.ok => Filled(r))
<1> DEFINE s == AddColumnIfNotExists("articles", "hash")
           e == Do(d, s)
           r == Run(d, Sequence[16].up)
<1>1. r = Step(Step(d, s), Statement("fillHashes"))
  BY RunTwo, SequenceParts DEF AddHashToArticles, Migration
<1>0. DOMAIN d = DbFields
  BY DEF RowsTyped
<1>2. e = IF HashColumn \in d.columns THEN d ELSE WithColumn(d, HashColumn)
  BY DEF Do, AddColumnIfNotExists, HashColumn
<1>3. /\ DOMAIN e = DbFields /\ e.line = d.line /\ e.sale = d.sale /\ e.order = d.order
      /\ e.ok = d.ok /\ HashColumn \in e.columns
      /\ \/ e.articles = d.articles
         \/ e.articles = [n \in DOMAIN d.articles |-> NoHash]
  BY <1>0, <1>2 DEF WithColumn, DbFields, HashColumn
<1> HIDE DEF e
<1>4. Do(e, Statement("fillHashes")) = FillHashes(e)
  BY DEF Do, Statement
<1> DEFINE f == FillHashes(e)
<1>5. /\ f.line = d.line /\ f.sale = d.sale /\ f.order = d.order /\ HashColumn \in f.columns
      /\ f.articles = [n \in DOMAIN e.articles |->
                          IF e.articles[n] = NoHash THEN HashKey[n] ELSE e.articles[n]]
  BY <1>3 DEF FillHashes, DbFields
<1>6. \A n \in DOMAIN d.articles : d.articles[n] \in {NoHash, HashKey[n]}
  BY DEF RowsTyped
<1> HIDE DEF f
<1>7. Kept(d, f) /\ Filled(f)
  BY <1>3, <1>5, <1>6 DEF Kept, Filled
<1>8. r = IF d.ok THEN f ELSE d
  BY <1>1, <1>3, <1>4 DEF Step, e, f
<1>9. Kept(d, d)
  BY SameKept
<1> QED
  BY <1>7, <1>8, <1>9

\* A migration that is applied, and one that is reverted.
LEMMA Applied ==
    ASSUME NEW d, RowsTyped(d), NEW i \in 1..24, i > 16 /\ d.ok => Filled(d)
    PROVE  LET r == Run(d, Sequence[i].up)
           IN  RowsTyped(r) /\ Kept(d, r) /\ (i >= 16 /\ r.ok => Filled(r))
<1>1. CASE i = 16
  BY <1>1, HashesMade, RunTyped, UpsKnown
<1>2. CASE i < 16
  BY <1>2, RunKeeps, RunTyped, UpsKnown, UpsHarmless
<1>3. CASE i > 16
  <2>1. i \in 17..24
    BY <1>3
  <2> QED
    BY <1>3, <2>1, RunKeeps, RunTyped, RunKeepsHashes, UpsKnown, UpsHarmless, LaterKeepHashes
<1> QED
  BY <1>1, <1>2, <1>3

LEMMA Forwarded ==
    ASSUME NEW d, RowsTyped(d), NEW m \in 0..24, NEW n \in 0..24, m <= n,
           m >= 16 /\ d.ok => Filled(d)
    PROVE  LET r == Forward(d, m, n)
           IN  RowsTyped(r) /\ Kept(d, r) /\ (n >= 16 /\ r.ok => Filled(r))
<1>1. PICK state : /\ \A i \in 0..n :
                         state[i] = IF i <= m THEN d ELSE Run(state[i - 1], Sequence[i].up)
                   /\ Forward(d, m, n) = state[n]
  <2>1. m \in Nat /\ n \in Nat
    OBVIOUS
  <2>2. PICK state : /\ \A i \in 0..n :
                           state[i] = IF i <= m THEN d ELSE Run(state[i - 1], Sequence[i].up)
                     /\ Forward(d, m, n) = state[n]
    BY <2>1, ForwardStates
  <2> QED
    BY <2>2
<1> DEFINE Good == {i \in 0..n : /\ RowsTyped(state[i]) /\ Kept(d, state[i])
                                 /\ i >= m /\ i >= 16 /\ state[i].ok => Filled(state[i])}
<1>2. Kept(d, d)
  BY SameKept
<1>3. ASSUME NEW i \in 0..n, i <= m PROVE i \in Good
  <2>1. state[i] = d
    BY <1>1, <1>3
  <2>2. i >= m /\ i >= 16 => m >= 16
    BY <1>3
  <2> QED
    BY <1>2, <2>1, <2>2
<1>4. ASSUME NEW i \in 1..n, i - 1 \in Good PROVE i \in Good
  <2>1. i \in 1..24 /\ i \in 0..n
    OBVIOUS
  <2>2. CASE i <= m
    BY <1>3, <2>1, <2>2
  <2>3. CASE ~(i <= m)
    <3>1. state[i] = Run(state[i - 1], Sequence[i].up)
      BY <1>1, <2>1, <2>3
    <3>2. /\ RowsTyped(state[i - 1]) /\ Kept(d, state[i - 1])
          /\ i > 16 /\ state[i - 1].ok => Filled(state[i - 1])
      BY <1>4, <2>3
    <3>3. /\ RowsTyped(state[i]) /\ Kept(state[i - 1], state[i])
          /\ i >= 16 /\ state[i].ok => Filled(state[i])
      BY <2>1, <3>1, <3>2, Applied
    <3> QED
      BY <2>1, <3>2, <3>3, KeptTrans
  <2> QED
    BY <2>2, <2>3
<1>5. 0 \in Good
  BY <1>3
<1> HIDE DEF Good
<1>6. n \in Good
  BY <1>4, <1>5, UpTo
<1> QED
  BY <1>1, <1>6 DEF Good

LEMMA Reverted ==
    ASSUME NEW d, RowsTyped(d), NEW i \in 1..24, i > 16 /\ d.ok => Filled(d)
    PROVE  LET r == Run(d, Sequence[i].down)
           IN  RowsTyped(r) /\ (i > 16 /\ r.ok => Filled(r))
<1>1. RowsTyped(Run(d, Sequence[i].down))
  BY RunTyped, DownsKnown
<1>2. CASE i > 16
  <2>1. i \in 17..24
    BY <1>2
  <2> QED
    BY <1>1, <1>2, <2>1, RunKeepsHashes, LaterKeepHashes
<1> QED
  BY <1>1, <1>2

-----------------------------------------------------------------------------
(* The schema after each migration *)

\* The tables and enumerated types of InitialSchema.
TableStatements ==
    {InitialCatalogue[j] : j \in 1..8} \cup {InitialOrders[j] : j \in 1..9}

EnumStatements == {InitialEnums[j] : j \in 1..5}

TaxId == <<"suppliers", "tax_id">>
Cif == <<"suppliers", "cif">>
PaidAmount == <<"order_items", "paid_amount">>
SaleUser == <<"sales", "user_email">>
LineArticle == <<"order_items", "article_id">>
NoticeGroup == <<"notices", "groupId">>

\* The columns that migration i adds, if they are not there already.
Added(i) ==
    CASE i = 2 -> {<<"user_consumer_groups", "is_preparer">>,
                   <<"group_invitations", "is_preparer">>}
      [] i = 3 -> Cols("system_config", {"key", "value", "description", "updated_at"})
      [] i = 6 -> {<<"orders", "payment_status">>, <<"sales", "payment_status">>}
      [] i = 8 -> {<<"articles", "is_eco">>}
      [] i = 9 -> {<<"articles", "tax_rate">>}
      [] i = 10 -> {<<"orders", "total_amount">>}
      [] i = 11 -> {<<"orders", "paid_amount">>}
      [] i = 12 -> {<<"orders", "is_delivered">>}
      [] i = 14 -> {<<"order_items", "period_id">>}
      [] i = 16 -> {<<"articles", "hash">>}
      [] i = 17 -> {<<"periods", "transport_cost">>}
      [] i = 18 -> {<<"periods", "transport_tax_rate">>}
      [] i = 19 -> {<<"articles", "customization_options">>,
                    <<"order_items", "selected_options">>}
      [] i = 22 -> Cols("basket_schedule_config",
                        {"consumer_group_id", "preferred_weekday", "preferred_time"})
                   \cup Cols("basket_schedule_votes",
                             {"id", "consumer_group_id", "user_email", "date", "status"})
                   \cup Cols("basket_schedule_assignments",
                             {"id", "consumer_group_id", "date", "assigned_user_email"})
      [] i = 23 -> {<<"order_items", "is_prepared">>}
      [] i = 24 -> Cols("period_user_payments",
                        {"id", "period_id", "user_id", "consumer_group_id", "payment_status",
                         "total_amount", "notes", "created_at", "updated_at"})
      [] OTHER -> {}

\* The migrations whose columns must not be there before: they would fail, or skip a table.
Strict == {3, 14, 19, 22, 23, 24}

\* The columns of a table of InitialSchema that no later migration adds, drops or renames.
Lasting(s) ==
    Cols(s.table, s.columns) \ ({TaxId, PaidAmount} \cup (UNION {Added(i) : i \in 2..24}))

KnownColumns ==
    (UNION {Cols(s.table, s.columns) : s \in TableStatements})
    \cup {Cif} \cup (UNION {Added(i) : i \in 2..24})

ColumnsAt(d, k) ==
    /\ d.columns \subseteq KnownColumns
    /\ \A s \in TableStatements : k >= 1 \/ s.table \in Tables(d) => Lasting(s) \subseteq d.columns
    /\ \A i \in 2..k : Added(i) \subseteq d.columns
    /\ \A i \in Strict : i > k => Added(i) \cap d.columns = {}
    /\ k < 15 /\ (k >= 1 \/ "suppliers" \in Tables(d))
          => (TaxId \in d.columns <=> Cif \notin d.columns)
    /\ k >= 15 => Cif \in d.columns /\ TaxId \notin d.columns
    /\ k >= 21 => PaidAmount \notin d.columns

MemberIndex == <<"user_consumer_groups", {"user_email", "consumer_group_id"}>>

\* The unique indexes that migration i makes.
IndexesOf(i) ==
    CASE i = 22 -> {<<"basket_schedule_votes", {"consumer_group_id", "user_email", "date"}>>,
                    <<"basket_schedule_assignments", {"consumer_group_id", "date"}>>}
      [] i = 24 -> {<<"period_user_payments", {"period_id", "user_id", "consumer_group_id"}>>}
      [] OTHER -> {}

InitialUnique ==
    {<<"users", {"email"}>>, <<"consumer_groups", {"email"}>>, <<"refresh_tokens", {"token"}>>,
     <<"group_invitations", {"token"}>>}

UniqueAt(d, k) ==
    /\ d.unique \subseteq InitialUnique \cup {MemberIndex} \cup IndexesOf(22) \cup IndexesOf(24)
    /\ \A s \in TableStatements :
          k >= 1 \/ s.table \in Tables(d) => {s.table} \X s.unique \subseteq d.unique
    /\ k >= 1 => MemberIndex \in d.unique
    /\ \A i \in 2..k : IndexesOf(i) \subseteq d.unique

PartialLabels == {<<"orders_payment_status_enum", "partial">>,
                  <<"sales_payment_status_enum", "partial">>}
PaymentEnum == "period_user_payments_payment_status_enum"

\* The labels that migration i makes.
LabelsOf(i) ==
    CASE i = 4 -> {<<"users_roles_enum", "preparer">>}
      [] i = 13 -> {<<"articles_unit_measure_enum", "manat">>}
      [] i = 24 -> Cols(PaymentEnum, {"unpaid", "paid"})
      [] OTHER -> {}

LastingLabels(s) == Cols(s.enum, s.labels) \ PartialLabels

LabelsAt(d, k) ==
    /\ d.labels \subseteq (UNION {Cols(s.enum, s.labels) : s \in EnumStatements})
                          \cup LabelsOf(4) \cup LabelsOf(13) \cup LabelsOf(24)
    /\ \A s \in EnumStatements :
          k >= 1 \/ Labels(d, s.enum) # {} => LastingLabels(s) \subseteq d.labels
    /\ \A i \in 2..k : LabelsOf(i) \subseteq d.labels
    /\ k < 24 => LabelsOf(24) \cap d.labels = {}
    /\ k >= 20 => d.labels \cap PartialLabels = {}

\* The columns that refer to other tables and have a key of the name that the migrations
\* give; they are made by migration i.
RefersFrom(i) ==
    CASE i = 1 -> {<<"refresh_tokens", "user_email">>, <<"suppliers", "consumer_group_id">>,
                   <<"producers", "supplier_id">>, <<"producers", "consumer_group_id">>,
                   <<"articles", "producer_id">>, <<"articles", "consumer_group_id">>,
                   <<"article_price_history", "article_id">>,
                   <<"categories", "consumer_group_id">>, <<"periods", "supplier_id">>,
                   <<"period_articles", "period_id">>, <<"period_articles", "article_id">>,
                   <<"orders", "user_id">>, <<"orders", "consumer_group_id">>,
                   <<"order_items", "order_id">>, <<"order_items", "article_id">>,
                   <<"sales", "consumer_group_id">>, <<"sale_items", "sale_id">>,
                   <<"sale_items", "article_id">>, <<"notices", "groupId">>,
                   <<"user_consumer_groups", "user_email">>,
                   <<"user_consumer_groups", "consumer_group_id">>}
      [] i = 14 -> {<<"order_items", "period_id">>}
      [] i = 22 -> {<<"basket_schedule_config", "consumer_group_id">>,
                    <<"basket_schedule_votes", "consumer_group_id">>,
                    <<"basket_schedule_assignments", "consumer_group_id">>}
      [] i = 24 -> {<<"period_user_payments", "period_id">>,
                    <<"period_user_payments", "user_id">>,
                    <<"period_user_payments", "consumer_group_id">>}
      [] OTHER -> {}

ReferringColumns == {SaleUser} \cup (UNION {RefersFrom(i) : i \in {1, 14, 22, 24}})

SetNull == "SET NULL"

\* The rule of the key of a column, but for the articles of lines.
RuleOf(c) ==
    CASE c \in {<<"producers", "supplier_id">>, <<"articles", "producer_id">>,
                <<"order_items", "period_id">>} -> SetNull
      [] c = <<"sale_items", "article_id">> -> "RESTRICT"
      [] OTHER -> "CASCADE"

NewKeys(i) == {Key(c[1], c[2], RuleOf(c)) : c \in RefersFrom(i)}

\* A key, after k migrations.
KeyAt(x, k) ==
    LET c == <<x.table, x.column>>
    IN  /\ x = [Key(x.table, x.column, x.rule) EXCEPT !.auto = x.auto] /\ x.auto \in BOOLEAN
        /\ c \in ReferringColumns
        /\ c = LineArticle => x.rule = IF ~x.auto /\ k >= 7 THEN SetNull ELSE "RESTRICT"
        /\ c \notin {LineArticle, NoticeGroup} => x.rule = RuleOf(c)

KeysAt(d, k) ==
    /\ \A x \in d.keys : <<x.table, x.column>> \in d.columns /\ KeyAt(x, k)
    /\ \A i \in 1..k : \A c \in RefersFrom(i) : NamedKey(d, c[1], c[2])

SchemaAt(d, k) == ColumnsAt(d, k) /\ UniqueAt(d, k) /\ LabelsAt(d, k) /\ KeysAt(d, k)

-----------------------------------------------------------------------------
(* What the migrations add *)

\* The migration that adds a column.
AddedBy(c) ==
    IF c[1] = "system_config" THEN 3
    ELSE IF c[1] = "period_user_payments" THEN 24
    ELSE IF c[1] \in {"basket_schedule_config", "basket_schedule_votes",
                       "basket_schedule_assignments"} THEN 22
    ELSE CASE c[2] = "is_preparer" -> 2
           [] c[2] = "payment_status" -> 6
           [] c[2] = "is_eco" -> 8
           [] c[2] = "tax_rate" -> 9
           [] c[2] = "total_amount" -> 10
           [] c[2] = "paid_amount" -> 11
           [] c[2] = "is_delivered" -> 12
           [] c[2] = "period_id" -> 14
           [] c[2] = "hash" -> 16
           [] c[2] = "transport_cost" -> 17
           [] c[2] = "transport_tax_rate" -> 18
           [] c[2] \in {"customization_options", "selected_options"} -> 19
           [] c[2] = "is_prepared" -> 23

\* Every column has one migration that adds it.
LEMMA AddedOnce == \A i \in 2..24 : \A c \in Added(i) : AddedBy(c) = i
<1> DEFINE G(i) == \A c \in Added(i) : AddedBy(c) = i
<1>1. G(2) /\ G(3)
  BY DEF Added, AddedBy, Cols
<1>2. G(4) /\ G(5) /\ G(7) /\ G(13) /\ G(15) /\ G(20) /\ G(21)
  BY DEF Added
<1>3. G(6) /\ G(8) /\ G(9) /\ G(10)
  BY DEF Added, AddedBy
<1>4. G(11) /\ G(12) /\ G(14) /\ G(16)
  BY DEF Added, AddedBy
<1>5. G(17) /\ G(18) /\ G(19) /\ G(23)
  BY DEF Added, AddedBy
<1>6. G(22)
  BY DEF Added, AddedBy, Cols
<1>7. G(24)
  <2>1. \A c \in Added(24) : c[1] = "period_user_payments"
    BY DEF Added, Cols
  <2> QED
    BY <2>1 DEF AddedBy
<1> HIDE DEF G
<1>8. \A i \in 2..24 : G(i)
  BY <1>1, <1>2, <1>3, <1>4, <1>5, <1>6, <1>7
<1> QED
  BY <1>8 DEF G

LEMMA AddedApart ==
    \A i \in 2..24, j \in 2..24 : i # j => Added(i) \cap Added(j) = {}
BY AddedOnce

\* What the later migrations do not add: the columns that InitialSchema has, those that are
\* renamed or dropped, and those of the keys of InitialSchema.
LEMMA Specials ==
    \A i \in 2..24 : {TaxId, Cif, PaidAmount, SaleUser} \cap Added(i) = {}
<1> DEFINE G(i) == {TaxId, Cif, PaidAmount, SaleUser} \cap Added(i) = {}
<1> USE DEF TaxId, Cif, PaidAmount, SaleUser, Added, Cols
<1>2. G(2) /\ G(3) /\ G(4) /\ G(5) /\ G(6) /\ G(7)
  OBVIOUS
<1>3. G(8) /\ G(9) /\ G(10) /\ G(11) /\ G(12) /\ G(13)
  OBVIOUS
<1>4. G(14) /\ G(15) /\ G(16) /\ G(17) /\ G(18) /\ G(19)
  OBVIOUS
<1>5. G(20) /\ G(21) /\ G(23)
  OBVIOUS
<1>6. G(22)
  OBVIOUS
<1>7. G(24)
  OBVIOUS
<1> HIDE DEF G
<1>8. \A i \in 2..24 : G(i)
  BY <1>2, <1>3, <1>4, <1>5, <1>6, <1>7
<1> QED
  BY <1>8 DEF G

\* The columns of the keys of InitialSchema.
LEMMA OldReferences ==
    /\ \A i \in 2..24 : RefersFrom(1) \cap Added(i) = {}
    /\ RefersFrom(1) \cap {TaxId, Cif, PaidAmount, SaleUser} = {}
<1> DEFINE G(i) == RefersFrom(1) \cap Added(i) = {}
<1>1. RefersFrom(1) \cap {TaxId, Cif, PaidAmount, SaleUser} = {}
  BY DEF RefersFrom, TaxId, Cif, PaidAmount, SaleUser
<1>2. \A c \in RefersFrom(1) :
          /\ c[1] \notin {"system_config", "basket_schedule_config", "basket_schedule_votes",
                          "basket_schedule_assignments", "period_user_payments"}
          /\ c[2] \notin {"is_preparer", "payment_status", "is_eco", "tax_rate",
                          "total_amount", "paid_amount", "is_delivered", "hash",
                          "transport_cost", "transport_tax_rate", "customization_options",
                          "selected_options", "is_prepared"}
          /\ c # <<"order_items", "period_id">>
  BY DEF RefersFrom
<1>3. G(2) /\ G(4) /\ G(5) /\ G(6) /\ G(7)
  BY <1>2 DEF Added
<1>4. G(8) /\ G(9) /\ G(10) /\ G(11) /\ G(12) /\ G(13)
  BY <1>2 DEF Added
<1>5. G(14) /\ G(15) /\ G(16) /\ G(17) /\ G(18) /\ G(19)
  BY <1>2 DEF Added
<1>6. G(20) /\ G(21) /\ G(23)
  BY <1>2 DEF Added
<1>7. G(3) /\ G(22) /\ G(24)
  <2>1. /\ \A c \in Added(3) : c[1] = "system_config"
        /\ \A c \in Added(24) : c[1] = "period_user_payments"
    BY DEF Added, Cols
  <2>2. \A c \in Added(22) : c[1] \in {"basket_schedule_config", "basket_schedule_votes",
                                       "basket_schedule_assignments"}
    BY DEF Added, Cols
  <2> QED
    BY <1>2, <2>1, <2>2
<1> HIDE DEF G
<1>8. \A i \in 2..24 : G(i)
  BY <1>3, <1>4, <1>5, <1>6, <1>7
<1> QED
  BY <1>1, <1>8 DEF G

\* The other keys are of columns that are added with them.
LEMMA NewReferences ==
    /\ \A i \in 2..24 : RefersFrom(i) \subseteq Added(i)
    /\ \A i \in (2..24) \ {14, 22, 24} : RefersFrom(i) = {}
<1>1. \A i \in (2..24) \ {14, 22, 24} : RefersFrom(i) = {}
  BY DEF RefersFrom
<1>2. RefersFrom(14) \subseteq Added(14)
  BY DEF RefersFrom, Added
<1>3. RefersFrom(22) \subseteq Added(22)
  BY DEF RefersFrom, Added, Cols
<1>4. RefersFrom(24) \subseteq Added(24)
  BY DEF RefersFrom, Added, Cols
<1> QED
  BY <1>1, <1>2, <1>3, <1>4

\* A table that a later migration creates has no other column.
LEMMA InitialTables ==
    \A s \in TableStatements :
        s.table \notin {"system_config", "basket_schedule_config", "basket_schedule_votes",
                        "basket_schedule_assignments", "period_user_payments"}
<1> DEFINE G(s) == s.table \notin {"system_config", "basket_schedule_config",
                       "basket_schedule_votes", "basket_schedule_assignments",
                       "period_user_payments"}
<1>1. \A j \in 1..8 : G(InitialCatalogue[j])
  BY DEF InitialCatalogue, CreateTableIfNotExists
<1>2. \A j \in 1..9 : G(InitialOrders[j])
  BY DEF InitialOrders, CreateTableIfNotExists
<1> QED
  BY <1>1, <1>2 DEF TableStatements

\* A known column is of InitialSchema, the renamed one, or one that a migration adds.
LEMMA ColumnOrigin ==
    \A c : c \in KnownColumns <=>
        \/ \E s \in TableStatements : c \in Cols(s.table, s.columns)
        \/ c = Cif
        \/ \E i \in 2..24 : c \in Added(i)
BY DEF KnownColumns

\* The tables that later migrations make have the columns of those migrations alone.
LEMMA OwnTables ==
    ASSUME NEW c \in KnownColumns
    PROVE  /\ c = <<c[1], c[2]>>
           /\ c[1] = "system_config" <=> c \in Added(3)
           /\ c[1] \in {"basket_schedule_config", "basket_schedule_votes",
                        "basket_schedule_assignments"} <=> c \in Added(22)
           /\ c[1] = "period_user_payments" <=> c \in Added(24)
<1> DEFINE G(i) == \A x \in Added(i) :
              /\ x = <<x[1], x[2]>>
              /\ x[1] = "system_config" <=> i = 3
              /\ x[1] \in {"basket_schedule_config", "basket_schedule_votes",
                           "basket_schedule_assignments"} <=> i = 22
              /\ x[1] = "period_user_payments" <=> i = 24
<1>1. G(2) /\ G(4) /\ G(5) /\ G(6) /\ G(7)
  BY DEF Added
<1>2. G(8) /\ G(9) /\ G(10) /\ G(11) /\ G(12) /\ G(13)
  BY DEF Added
<1>3. G(14) /\ G(15) /\ G(16) /\ G(17) /\ G(18) /\ G(19)
  BY DEF Added
<1>4. G(20) /\ G(21) /\ G(23)
  BY DEF Added
<1>5. G(3)
  BY DEF Added, Cols
<1>6. G(22)
  BY DEF Added, Cols
<1>7. G(24)
  BY DEF Added, Cols
<1>8. \A i \in 2..24 : G(i)
  <2> HIDE DEF G
  <2> QED
    BY <1>1, <1>2, <1>3, <1>4, <1>5, <1>6, <1>7
<1>9. CASE \E i \in 2..24 : c \in Added(i)
  BY <1>8, <1>9, AddedApart
<1>10. CASE \A i \in 2..24 : c \notin Added(i)
  <2>1. CASE c = Cif
    BY <1>10, <2>1 DEF Cif
  <2>2. CASE c # Cif
    <3>1. PICK s \in TableStatements : c \in Cols(s.table, s.columns)
      BY <1>10, <2>2, ColumnOrigin
    <3>2. c = <<c[1], c[2]>> /\ c[1] = s.table
      BY <3>1 DEF Cols
    <3> QED
      BY <1>10, <3>2, InitialTables
  <2> QED
    BY <2>1, <2>2
<1> QED
  BY <1>9, <1>10

-----------------------------------------------------------------------------
(* The schema, when a step adds or drops what its migration does *)

\* What it takes for a column to be lasting.
LEMMA LastingIs ==
    ASSUME NEW s, NEW c
    PROVE  c \in Lasting(s) <=> /\ c \in Cols(s.table, s.columns)
                                /\ c \notin {TaxId, PaidAmount}
                                /\ \A i \in 2..24 : c \notin Added(i)
BY DEF Lasting

\* A migration that only adds to the schema, and one that only takes away what it added.
LEMMA ColumnsRaised ==
    ASSUME NEW d, NEW e, NEW i \in (2..24) \ {15, 21}, ColumnsAt(d, i - 1),
           e.columns = d.columns \cup Added(i)
    PROVE  ColumnsAt(e, i)
<1>0. i - 1 \in Nat /\ i - 1 >= 1 /\ (i - 1 < 15 <=> i < 15) /\ (i - 1 >= 21 <=> i >= 21)
  OBVIOUS
<1>1. e.columns \subseteq KnownColumns
  BY ColumnOrigin DEF ColumnsAt
<1>2. \A s \in TableStatements : Lasting(s) \subseteq e.columns
  BY <1>0 DEF ColumnsAt
<1>3. \A j \in 2..i : Added(j) \subseteq e.columns
  BY <1>0 DEF ColumnsAt
<1>4. \A j \in Strict : j > i => Added(j) \cap e.columns = {}
  <2>1. ASSUME NEW j \in Strict, j > i PROVE Added(j) \cap e.columns = {}
    <3>1. j \in 2..24 /\ j > i - 1 /\ j # i
      BY <2>1 DEF Strict
    <3>2. Added(j) \cap d.columns = {} /\ Added(j) \cap Added(i) = {}
      BY <3>1, AddedApart DEF ColumnsAt
    <3> QED
      BY <3>2
  <2> QED
    BY <2>1
<1>5. {TaxId, Cif, PaidAmount} \cap Added(i) = {}
  BY Specials
<1>6. /\ TaxId \in e.columns <=> TaxId \in d.columns
      /\ Cif \in e.columns <=> Cif \in d.columns
      /\ PaidAmount \in e.columns <=> PaidAmount \in d.columns
  BY <1>5
<1> QED
  BY <1>0, <1>1, <1>2, <1>3, <1>4, <1>6 DEF ColumnsAt

\* Dropping what a migration has added.
LEMMA ColumnsLowered ==
    ASSUME NEW d, NEW e, NEW i \in (2..24) \ {15, 21}, ColumnsAt(d, i),
           e.columns = d.columns \ Added(i)
    PROVE  ColumnsAt(e, i - 1)
<1>0. i - 1 \in Nat /\ i - 1 >= 1 /\ (i - 1 < 15 <=> i < 15) /\ (i - 1 >= 21 <=> i >= 22)
  OBVIOUS
<1>1. e.columns \subseteq KnownColumns
  BY DEF ColumnsAt
<1>2. \A s \in TableStatements : Lasting(s) \subseteq e.columns
  BY <1>0, LastingIs DEF ColumnsAt
<1>3. \A j \in 2..(i - 1) : Added(j) \subseteq e.columns
  <2>1. ASSUME NEW j \in 2..(i - 1) PROVE Added(j) \subseteq e.columns
    <3>1. j \in 2..i /\ j \in 2..24 /\ j # i
      OBVIOUS
    <3>2. Added(j) \subseteq d.columns /\ Added(j) \cap Added(i) = {}
      BY <3>1, AddedApart DEF ColumnsAt
    <3> QED
      BY <3>2
  <2> QED
    BY <2>1
<1>4. \A j \in Strict : j > i - 1 => Added(j) \cap e.columns = {}
  <2>1. ASSUME NEW j \in Strict, j > i - 1 PROVE Added(j) \cap e.columns = {}
    <3>1. j = i \/ j > i
      BY <2>1 DEF Strict
    <3> QED
      BY <3>1 DEF ColumnsAt
  <2> QED
    BY <2>1
<1>5. {TaxId, Cif, PaidAmount} \cap Added(i) = {}
  BY Specials
<1>6. /\ TaxId \in e.columns <=> TaxId \in d.columns
      /\ Cif \in e.columns <=> Cif \in d.columns
      /\ PaidAmount \in e.columns <=> PaidAmount \in d.columns
  BY <1>5
<1> QED
  BY <1>0, <1>1, <1>2, <1>3, <1>4, <1>6 DEF ColumnsAt

\* The same of unique indexes.
LEMMA UniqueRaised ==
    ASSUME NEW d, NEW e, NEW i \in 2..24, UniqueAt(d, i - 1),
           e.unique = d.unique \cup IndexesOf(i)
    PROVE  UniqueAt(e, i)
<1>0. i - 1 \in Nat /\ i - 1 >= 1
  OBVIOUS
<1>1. i \notin {22, 24} => IndexesOf(i) = {}
  BY DEF IndexesOf
<1>2. \A j \in 2..i : IndexesOf(j) \subseteq e.unique
  <2>1. ASSUME NEW j \in 2..i PROVE IndexesOf(j) \subseteq e.unique
    <3>1. j = i \/ j \in 2..(i - 1)
      OBVIOUS
    <3> QED
      BY <3>1 DEF UniqueAt
  <2> QED
    BY <2>1
<1> QED
  BY <1>0, <1>1, <1>2 DEF UniqueAt

LEMMA UniqueLowered ==
    ASSUME NEW d, NEW e, NEW i \in 2..24, UniqueAt(d, i),
           e.unique \subseteq d.unique, d.unique \ e.unique \subseteq IndexesOf(i)
    PROVE  UniqueAt(e, i - 1)
<1>0. i - 1 \in Nat /\ i - 1 >= 1
  OBVIOUS
<1>1. i \notin {22, 24} => IndexesOf(i) = {}
  BY DEF IndexesOf
<1>2. \A j \in 2..(i - 1) : IndexesOf(j) \cap IndexesOf(i) = {}
  BY DEF IndexesOf
<1>3. MemberIndex \notin IndexesOf(i)
  BY DEF IndexesOf, MemberIndex
<1>4. \A s \in TableStatements : ({s.table} \X s.unique) \cap IndexesOf(i) = {}
  <2>1. \A u \in IndexesOf(i) : u[1] \in {"basket_schedule_votes", "basket_schedule_assignments",
                                          "period_user_payments"}
    BY DEF IndexesOf
  <2> QED
    BY <2>1, InitialTables
<1>5. \A j \in 2..(i - 1) : IndexesOf(j) \subseteq e.unique
  <2>1. ASSUME NEW j \in 2..(i - 1) PROVE IndexesOf(j) \subseteq e.unique
    <3>1. j \in 2..i
      OBVIOUS
    <3> QED
      BY <1>2, <3>1 DEF UniqueAt
  <2> QED
    BY <2>1
<1>6. MemberIndex \in e.unique
  BY <1>3 DEF UniqueAt
<1>7. \A s \in TableStatements : {s.table} \X s.unique \subseteq e.unique
  BY <1>4 DEF UniqueAt
<1> QED
  BY <1>0, <1>5, <1>6, <1>7 DEF UniqueAt

\* No enumerated type of InitialSchema is the one that the last migration makes.
LEMMA OldEnums == \A s \in EnumStatements : s.enum # PaymentEnum
<1>1. \A j \in 1..5 : InitialEnums[j].enum # PaymentEnum
  BY DEF InitialEnums, CreateEnumIfNotExists, PaymentEnum
<1> QED
  BY <1>1 DEF EnumStatements

\* The labels that the migrations make are apart from the others.
LEMMA NewLabels ==
    /\ \A l \in LabelsOf(24) : l[1] = PaymentEnum
    /\ \A i \in 2..23 : LabelsOf(i) \cap LabelsOf(24) = {}
    /\ \A i \in 2..24 : LabelsOf(i) \cap PartialLabels = {}
    /\ \A i \in (2..24) \ {4, 13, 24} : LabelsOf(i) = {}
<1>1. \A l \in LabelsOf(24) : l[1] = PaymentEnum
  BY DEF LabelsOf, Cols
<1>2. \A i \in (2..24) \ {4, 13, 24} : LabelsOf(i) = {}
  BY DEF LabelsOf
<1>3. /\ \A l \in LabelsOf(4) : l[1] # PaymentEnum /\ l[2] # "partial"
      /\ \A l \in LabelsOf(13) : l[1] # PaymentEnum /\ l[2] # "partial"
  BY DEF LabelsOf, PaymentEnum
<1>4. \A l \in PartialLabels : l[1] # PaymentEnum /\ l[2] = "partial"
  BY DEF PartialLabels, PaymentEnum
<1>5. \A i \in 2..23 : LabelsOf(i) \cap LabelsOf(24) = {}
  BY <1>1, <1>2, <1>3
<1>6. \A i \in 2..24 : LabelsOf(i) \cap PartialLabels = {}
  BY <1>1, <1>2, <1>3, <1>4
<1> QED
  BY <1>1, <1>2, <1>5, <1>6

\* And of labels; AddPreparerRoleToEnum and AddManatUnitMeasure leave theirs when reverted.
LEMMA LabelsRaised ==
    ASSUME NEW d, NEW e, NEW i \in (2..24) \ {20}, LabelsAt(d, i - 1),
           e.labels = d.labels \cup LabelsOf(i)
    PROVE  LabelsAt(e, i)
<1>0. i - 1 \in Nat /\ i - 1 >= 1 /\ i - 1 < 24 /\ (i >= 20 <=> i - 1 >= 20)
  OBVIOUS
<1>1. i \notin {4, 13, 24} => LabelsOf(i) = {}
  BY NewLabels
<1>2. \A j \in 2..i : LabelsOf(j) \subseteq e.labels
  <2>1. ASSUME NEW j \in 2..i PROVE LabelsOf(j) \subseteq e.labels
    <3>1. j = i \/ j \in 2..(i - 1)
      OBVIOUS
    <3> QED
      BY <3>1 DEF LabelsAt
  <2> QED
    BY <2>1
<1>3. i < 24 => LabelsOf(24) \cap e.labels = {}
  BY <1>0, NewLabels DEF LabelsAt
<1>4. i >= 20 => e.labels \cap PartialLabels = {}
  BY <1>0, NewLabels DEF LabelsAt
<1>5. \A s \in EnumStatements : LastingLabels(s) \subseteq e.labels
  BY <1>0 DEF LabelsAt
<1>6. e.labels \subseteq (UNION {Cols(s.enum, s.labels) : s \in EnumStatements})
                          \cup LabelsOf(4) \cup LabelsOf(13) \cup LabelsOf(24)
  BY <1>1 DEF LabelsAt
<1> QED
  BY <1>2, <1>3, <1>4, <1>5, <1>6 DEF LabelsAt

LEMMA LabelsLowered ==
    ASSUME NEW d, NEW e, NEW i \in (2..24) \ {20}, LabelsAt(d, i),
           e.labels = IF i = 24 THEN d.labels \ LabelsOf(24) ELSE d.labels
    PROVE  LabelsAt(e, i - 1)
<1>0. i - 1 \in Nat /\ i - 1 >= 1 /\ i - 1 < 24 /\ (i >= 20 <=> i - 1 >= 20)
  OBVIOUS
<1>2. \A j \in 2..(i - 1) : LabelsOf(j) \subseteq e.labels
  <2>1. ASSUME NEW j \in 2..(i - 1) PROVE LabelsOf(j) \subseteq e.labels
    <3>1. j \in 2..i /\ j \in 2..23
      OBVIOUS
    <3>2. LabelsOf(j) \subseteq d.labels /\ LabelsOf(j) \cap LabelsOf(24) = {}
      BY <3>1, NewLabels DEF LabelsAt
    <3> QED
      BY <3>2
  <2> QED
    BY <2>1
<1>3. LabelsOf(24) \cap e.labels = {}
  BY <1>0 DEF LabelsAt
<1>4. i >= 20 => e.labels \cap PartialLabels = {}
  BY <1>0 DEF LabelsAt
<1>5. \A s \in EnumStatements : LastingLabels(s) \cap LabelsOf(24) = {}
  BY NewLabels, OldEnums DEF LastingLabels, Cols
<1>6. \A s \in EnumStatements : LastingLabels(s) \subseteq e.labels
  BY <1>0, <1>5 DEF LabelsAt
<1>7. e.labels \subseteq d.labels
  OBVIOUS
<1> QED
  BY <1>0, <1>2, <1>3, <1>4, <1>6, <1>7 DEF LabelsAt

\* The columns that refer to other tables.
LEMMA Referring ==
    /\ \A j \in 1..24 : /\ RefersFrom(j) \subseteq ReferringColumns
                        /\ SaleUser \notin RefersFrom(j)
    /\ \A c \in ReferringColumns : c = <<c[1], c[2]>>
    /\ \A i \in 2..24, j \in 1..24 : i # j => RefersFrom(j) \cap Added(i) = {}
    /\ \A i \in 2..24 : LineArticle \notin RefersFrom(i) /\ NoticeGroup \notin RefersFrom(i)
<1>1. \A j \in 1..24 : RefersFrom(j) \subseteq ReferringColumns
  BY NewReferences DEF ReferringColumns
<1>2. \A j \in 1..24 : SaleUser \notin RefersFrom(j)
  BY Specials, NewReferences, OldReferences
<1>3. \A c \in RefersFrom(1) : c = <<c[1], c[2]>>
  BY DEF RefersFrom
<1>4. \A j \in 2..24 : \A c \in RefersFrom(j) : c = <<c[1], c[2]>>
  BY NewReferences, OwnTables, ColumnOrigin
<1>5. \A c \in ReferringColumns : c = <<c[1], c[2]>>
  BY <1>3, <1>4 DEF ReferringColumns, SaleUser
<1>6. ASSUME NEW i \in 2..24, NEW j \in 1..24, i # j PROVE RefersFrom(j) \cap Added(i) = {}
  <2>1. CASE j = 1
    BY <2>1, OldReferences
  <2>2. CASE j # 1
    <3>1. j \in 2..24
      BY <2>2
    <3> QED
      BY <1>6, <3>1, NewReferences, AddedApart
  <2> QED
    BY <2>1, <2>2
<1>7. LineArticle \in RefersFrom(1) /\ NoticeGroup \in RefersFrom(1)
  BY DEF RefersFrom, LineArticle, NoticeGroup
<1>8. \A i \in 2..24 : LineArticle \notin RefersFrom(i) /\ NoticeGroup \notin RefersFrom(i)
  BY <1>7, NewReferences, OldReferences
<1> QED
  BY <1>1, <1>2, <1>5, <1>6, <1>8

\* The keys that a migration makes have their rules, which only migration 7 changes.
LEMMA NewKeysAt ==
    ASSUME NEW i \in 2..24, NEW x \in NewKeys(i), NEW k
    PROVE  /\ KeyAt(x, k) /\ ~x.auto
           /\ <<x.table, x.column>> \in RefersFrom(i)
<1>1. PICK c \in RefersFrom(i) : x = Key(c[1], c[2], RuleOf(c))
  BY DEF NewKeys
<1>2. c = <<c[1], c[2]>> /\ c \in ReferringColumns /\ c # LineArticle
  BY Referring
<1>3. x.table = c[1] /\ x.column = c[2] /\ x.rule = RuleOf(c) /\ x.auto = FALSE
  BY <1>1 DEF Key
<1>4. x = [Key(x.table, x.column, x.rule) EXCEPT !.auto = x.auto]
  BY <1>1, <1>3 DEF Key
<1>5. <<x.table, x.column>> = c
  BY <1>2, <1>3
<1> QED
  BY <1>2, <1>3, <1>4, <1>5 DEF KeyAt

LEMMA KeyStays ==
    ASSUME NEW i \in (2..24) \ {7}, NEW x
    PROVE  KeyAt(x, i - 1) <=> KeyAt(x, i)
<1>1. i - 1 >= 7 <=> i >= 7
  OBVIOUS
<1> QED
  BY <1>1 DEF KeyAt

\* And of keys; those of sales.user_email may go at any time.
LEMMA KeysRaised ==
    ASSUME NEW d, NEW e, NEW i \in (2..24) \ {7}, KeysAt(d, i - 1),
           e.keys \subseteq d.keys \cup NewKeys(i),
           \A x \in d.keys \cup NewKeys(i) : x \in e.keys \/ <<x.table, x.column>> = SaleUser,
           \A x \in e.keys : <<x.table, x.column>> \in e.columns
    PROVE  KeysAt(e, i)
<1>1. \A x \in e.keys : KeyAt(x, i)
  BY NewKeysAt, KeyStays DEF KeysAt
<1>2. ASSUME NEW j \in 1..i, NEW c \in RefersFrom(j) PROVE NamedKey(e, c[1], c[2])
  <2>1. c = <<c[1], c[2]>> /\ c # SaleUser
    <3>1. j \in 1..24
      OBVIOUS
    <3> QED
      BY <3>1, Referring
  <2>2. CASE j = i
    <3>1. PICK x : x = Key(c[1], c[2], RuleOf(c))
      OBVIOUS
    <3>2. x \in NewKeys(i) /\ x.table = c[1] /\ x.column = c[2] /\ ~x.auto
      BY <2>2, <3>1 DEF NewKeys, Key
    <3> QED
      BY <2>1, <3>2 DEF NamedKey, KeysOf
  <2>3. CASE j # i
    <3>1. j \in 1..(i - 1)
      BY <2>3
    <3>2. PICK x \in d.keys : x.table = c[1] /\ x.column = c[2] /\ ~x.auto
      BY <3>1 DEF KeysAt, NamedKey, KeysOf
    <3> QED
      BY <2>1, <3>2 DEF NamedKey, KeysOf
  <2> QED
    BY <2>2, <2>3
<1> QED
  BY <1>1, <1>2 DEF KeysAt

LEMMA KeysLowered ==
    ASSUME NEW d, NEW e, NEW i \in (2..24) \ {7}, KeysAt(d, i), e.keys \subseteq d.keys,
           \A x \in d.keys \ e.keys : <<x.table, x.column>> \in Added(i) \cup {SaleUser},
           \A x \in e.keys : <<x.table, x.column>> \in e.columns
    PROVE  KeysAt(e, i - 1)
<1>1. \A x \in e.keys : KeyAt(x, i - 1)
  BY KeyStays DEF KeysAt
<1>2. ASSUME NEW j \in 1..(i - 1), NEW c \in RefersFrom(j) PROVE NamedKey(e, c[1], c[2])
  <2>1. j \in 1..24 /\ j # i /\ j \in 1..i
    OBVIOUS
  <2>2. c = <<c[1], c[2]>> /\ c \notin Added(i) \cup {SaleUser}
    BY <2>1, Referring
  <2>3. PICK x \in d.keys : x.table = c[1] /\ x.column = c[2] /\ ~x.auto
    BY <2>1 DEF KeysAt, NamedKey, KeysOf
  <2> QED
    BY <2>2, <2>3 DEF NamedKey, KeysOf
<1> QED
  BY <1>1, <1>2 DEF KeysAt

\* A database with more columns, indexes, labels and keys.
Grows(d, e, X, U, L, K) ==
    /\ RowsTyped(e) /\ e.ok
    /\ e.columns = d.columns \cup X /\ e.unique = d.unique \cup U
    /\ e.labels = d.labels \cup L /\ e.keys = d.keys \cup K

\* One after the other.
LEMMA GrowsTwice ==
    ASSUME NEW d, NEW e, NEW f, NEW X, NEW U, NEW L, NEW K, NEW Y, NEW V, NEW M, NEW J,
           Grows(d, e, X, U, L, K), Grows(e, f, Y, V, M, J)
    PROVE  Grows(d, f, X \cup Y, U \cup V, L \cup M, K \cup J)
BY DEF Grows

LEMMA GrowsNot ==
    ASSUME NEW d, RowsTyped(d), d.ok
    PROVE  Grows(d, d, {}, {}, {}, {})
BY DEF Grows

\* What the statements of migrations add.
LEMMA AddGrows ==
    ASSUME NEW d, NEW t, NEW c, RowsTyped(d), d.ok
    PROVE  /\ Grows(d, Step(d, AddColumnIfNotExists(t, c)), {<<t, c>>}, {}, {}, {})
           /\ <<t, c>> \notin d.columns
                => Grows(d, Step(d, AddColumn(t, c)), {<<t, c>>}, {}, {}, {})
<1> DEFINE x == <<t, c>>
           s == AddColumnIfNotExists(t, c)
           a == AddColumn(t, c)
<1>1. s.op = "addMissing" /\ s.column = x /\ a.op = "add" /\ a.column = x
  BY DEF AddColumnIfNotExists, AddColumn
<1>2. RowsTyped(Do(d, s)) /\ RowsTyped(Do(d, a))
  BY <1>1, DoTyped DEF Ops
<1>3. DOMAIN d = DbFields
  BY DEF RowsTyped
<1> HIDE DEF s, a, x
<1>4. /\ WithColumn(d, x).ok = d.ok /\ WithColumn(d, x).columns = d.columns \cup {x}
      /\ WithColumn(d, x).unique = d.unique /\ WithColumn(d, x).labels = d.labels
      /\ WithColumn(d, x).keys = d.keys
  BY <1>3 DEF WithColumn, DbFields
<1>5. Do(d, s) = IF x \in d.columns THEN d ELSE WithColumn(d, x)
  BY <1>1 DEF Do
<1>6. x \notin d.columns => Do(d, a) = WithColumn(d, x)
  BY <1>1 DEF Do
<1>7. Step(d, s) = Do(d, s) /\ Step(d, a) = Do(d, a)
  BY DEF Step
<1>8. Grows(d, Do(d, s), {x}, {}, {}, {})
  BY <1>2, <1>4, <1>5 DEF Grows
<1>9. x \notin d.columns => Grows(d, Do(d, a), {x}, {}, {}, {})
  BY <1>2, <1>4, <1>6 DEF Grows
<1> QED
  BY <1>7, <1>8, <1>9 DEF s, a, x

\* A table that is not there, a key, an index and a type.
LEMMA CreateGrows ==
    ASSUME NEW d, NEW t, NEW C, NEW K, NEW U, RowsTyped(d), d.ok, t \notin Tables(d)
    PROVE  /\ Grows(d, Step(d, CreateTable(t, C, K, U)), Cols(t, C), {t} \X U, {}, K)
           /\ Grows(d, Step(d, CreateTableIfNotExists(t, C, U)), Cols(t, C), {t} \X U, {}, {})
<1> DEFINE s == CreateTableIfNotExists(t, C, U)
           a == CreateTable(t, C, K, U)
           X == Cols(t, C)
           V == {t} \X U
<1>1. /\ s.op = "createMissing" /\ s.table = t /\ s.columns = C /\ s.unique = U
      /\ a.op = "create" /\ a.table = t /\ a.columns = C /\ a.unique = U /\ a.keys = K
  BY DEF CreateTableIfNotExists, CreateTable
<1>2. RowsTyped(Do(d, s)) /\ RowsTyped(Do(d, a))
  BY <1>1, DoTyped DEF Ops
<1>3. DOMAIN d = DbFields
  BY DEF RowsTyped
<1> HIDE DEF s, a
<1>4. /\ Do(d, s) = [d EXCEPT !.columns = @ \cup X, !.unique = @ \cup V]
      /\ WithTable(d, a) = [d EXCEPT !.columns = @ \cup X, !.unique = @ \cup V]
      /\ Do(d, a) = [WithTable(d, a) EXCEPT !.keys = @ \cup K]
  BY <1>1 DEF Do, WithTable
<1>7. Step(d, s) = Do(d, s) /\ Step(d, a) = Do(d, a)
  BY DEF Step
<1> HIDE DEF X, V
<1>8. Grows(d, Do(d, s), X, V, {}, {})
  BY <1>2, <1>3, <1>4 DEF Grows, DbFields
<1>9. Grows(d, Do(d, a), X, V, {}, K)
  BY <1>2, <1>3, <1>4 DEF Grows, DbFields
<1> QED
  BY <1>7, <1>8, <1>9 DEF s, a, X, V

LEMMA KeyGrows ==
    ASSUME NEW d, NEW t, NEW c, NEW r, RowsTyped(d), d.ok, ~NamedKey(d, t, c)
    PROVE  Grows(d, Step(d, AddForeignKey(t, c, r)), {}, {}, {}, {Key(t, c, r)})
<1> DEFINE s == AddForeignKey(t, c, r)
           k == Key(t, c, r)
<1>1. s.op = "key" /\ s.key = k /\ k.table = t /\ k.column = c
  BY DEF AddForeignKey, Key
<1>2. RowsTyped(Do(d, s))
  BY <1>1, DoTyped DEF Ops
<1>3. DOMAIN d = DbFields
  BY DEF RowsTyped
<1> HIDE DEF s, k
<1>4. Do(d, s) = [d EXCEPT !.keys = @ \cup {k}]
  BY <1>1 DEF Do
<1>5. Grows(d, Do(d, s), {}, {}, {}, {k})
  BY <1>2, <1>3, <1>4 DEF Grows, DbFields
<1> QED
  BY <1>5 DEF s, k, Step

LEMMA IndexGrows ==
    ASSUME NEW d, NEW t, NEW C, RowsTyped(d), d.ok
    PROVE  Grows(d, Step(d, CreateUniqueIndex(t, C)), {}, {<<t, C>>}, {}, {})
<1> DEFINE s == CreateUniqueIndex(t, C)
           u == <<t, C>>
<1>1. s.op = "unique" /\ s.index = u
  BY DEF CreateUniqueIndex
<1>2. RowsTyped(Do(d, s))
  BY <1>1, DoTyped DEF Ops
<1>3. DOMAIN d = DbFields
  BY DEF RowsTyped
<1> HIDE DEF s, u
<1>4. Do(d, s) = [d EXCEPT !.unique = @ \cup {u}]
  BY <1>1 DEF Do
<1>5. Grows(d, Do(d, s), {}, {u}, {}, {})
  BY <1>2, <1>3, <1>4 DEF Grows, DbFields
<1> QED
  BY <1>5 DEF s, u, Step

LEMMA EnumGrows ==
    ASSUME NEW d, NEW t, NEW C, RowsTyped(d), d.ok
    PROVE  Grows(d, Step(d, CreateEnumIfNotExists(t, C)), {}, {},
                 IF Labels(d, t) = {} THEN Cols(t, C) ELSE {}, {})
<1> DEFINE s == CreateEnumIfNotExists(t, C)
           X == Cols(t, C)
<1>1. s.op = "enum" /\ s.enum = t /\ s.labels = C
  BY DEF CreateEnumIfNotExists
<1>2. RowsTyped(Do(d, s))
  BY <1>1, DoTyped DEF Ops
<1>3. DOMAIN d = DbFields
  BY DEF RowsTyped
<1> HIDE DEF s
<1>4. Do(d, s) = IF Labels(d, t) # {} THEN d ELSE [d EXCEPT !.labels = @ \cup X]
  BY <1>1 DEF Do
<1> HIDE DEF X
<1>5. Grows(d, Do(d, s), {}, {}, IF Labels(d, t) = {} THEN X ELSE {}, {})
  BY <1>2, <1>3, <1>4 DEF Grows, DbFields
<1> QED
  BY <1>5 DEF s, X, Step

LEMMA LabelGrows ==
    ASSUME NEW d, NEW t, NEW c, RowsTyped(d), d.ok
    PROVE  Grows(d, Step(d, AddLabelIfNotExists(t, c)), {}, {}, {<<t, c>>}, {})
<1> DEFINE s == AddLabelIfNotExists(t, c)
           l == <<t, c>>
<1>1. s.op = "label" /\ <<s.enum, s.label>> = l
  BY DEF AddLabelIfNotExists
<1>2. RowsTyped(Do(d, s))
  BY <1>1, DoTyped DEF Ops
<1>3. DOMAIN d = DbFields
  BY DEF RowsTyped
<1> HIDE DEF s, l
<1>4. Do(d, s) = [d EXCEPT !.labels = @ \cup {l}]
  BY <1>1 DEF Do
<1>5. Grows(d, Do(d, s), {}, {}, {l}, {})
  BY <1>2, <1>3, <1>4 DEF Grows, DbFields
<1> QED
  BY <1>5 DEF s, l, Step

\* Filling hashes adds nothing to the schema.
LEMMA HashesGrow ==
    ASSUME NEW d, RowsTyped(d), d.ok
    PROVE  Grows(d, Step(d, Statement("fillHashes")), {}, {}, {}, {})
<1> DEFINE s == Statement("fillHashes")
<1>1. s.op = "fillHashes"
  BY DEF Statement
<1>2. RowsTyped(Do(d, s))
  BY <1>1, DoTyped DEF Ops
<1>3. DOMAIN d = DbFields
  BY DEF RowsTyped
<1> HIDE DEF s
<1>4. Do(d, s) = FillHashes(d)
  BY <1>1 DEF Do
<1>5. Grows(d, Do(d, s), {}, {}, {}, {})
  BY <1>2, <1>3, <1>4 DEF Grows, DbFields, FillHashes
<1> QED
  BY <1>5 DEF s, Step

\* A migration that grows the schema as it should.
LEMMA RaisedBy ==
    ASSUME NEW d, NEW e, NEW i \in (2..24) \ {7, 15, 20, 21}, SchemaAt(d, i - 1),
           Grows(d, e, Added(i), IndexesOf(i), LabelsOf(i), NewKeys(i))
    PROVE  SchemaAt(e, i)
<1>1. ColumnsAt(e, i)
  BY ColumnsRaised DEF SchemaAt, Grows
<1>2. UniqueAt(e, i)
  BY UniqueRaised DEF SchemaAt, Grows
<1>3. LabelsAt(e, i)
  BY LabelsRaised DEF SchemaAt, Grows
<1>4. \A x \in e.keys : <<x.table, x.column>> \in e.columns
  BY NewKeysAt, NewReferences DEF SchemaAt, KeysAt, Grows
<1>5. KeysAt(e, i)
  BY <1>4, KeysRaised DEF SchemaAt, Grows
<1> QED
  BY <1>1, <1>2, <1>3, <1>5 DEF SchemaAt

-----------------------------------------------------------------------------
(* Applying a migration *)

\* Runs of three, four and six statements.
LEMMA RunThree ==
    ASSUME NEW d, NEW a, NEW b, NEW c
    PROVE  Run(d, <<a, b, c>>) = Step(Step(Step(d, a), b), c)
<1> DEFINE ss == <<a, b, c>>
<1>1. Len(ss) = 3
  OBVIOUS
<1>a. Len(ss) \in Nat
  BY <1>1
<1>2. ss[1] = a /\ ss[2] = b /\ ss[3] = c
  OBVIOUS
<1> HIDE DEF ss
<1>3. PICK state : /\ state[0] = d
                   /\ \A i \in 1..Len(ss) : state[i] = Step(state[i - 1], ss[i])
                   /\ Run(d, ss) = state[Len(ss)]
  BY <1>a, RunStates
<1>4. state[1] = Step(state[0], ss[1])
  BY <1>1, <1>3
<1>5. state[2] = Step(state[1], ss[2])
  BY <1>1, <1>3
<1>6. state[3] = Step(state[2], ss[3])
  BY <1>1, <1>3
<1> QED
  BY <1>1, <1>2, <1>3, <1>4, <1>5, <1>6 DEF ss

LEMMA RunFour ==
    ASSUME NEW d, NEW a, NEW b, NEW c, NEW f
    PROVE  Run(d, <<a, b, c, f>>) = Step(Step(Step(Step(d, a), b), c), f)
<1> DEFINE ss == <<a, b, c, f>>
<1>1. Len(ss) = 4
  OBVIOUS
<1>a. Len(ss) \in Nat
  BY <1>1
<1>2. ss[1] = a /\ ss[2] = b /\ ss[3] = c /\ ss[4] = f
  OBVIOUS
<1> HIDE DEF ss
<1>3. PICK state : /\ state[0] = d
                   /\ \A i \in 1..Len(ss) : state[i] = Step(state[i - 1], ss[i])
                   /\ Run(d, ss) = state[Len(ss)]
  BY <1>a, RunStates
<1>4. state[1] = Step(state[0], ss[1])
  BY <1>1, <1>3
<1>5. state[2] = Step(state[1], ss[2])
  BY <1>1, <1>3
<1>6. state[3] = Step(state[2], ss[3])
  BY <1>1, <1>3
<1>7. state[4] = Step(state[3], ss[4])
  BY <1>1, <1>3
<1> QED
  BY <1>1, <1>2, <1>3, <1>4, <1>5, <1>6, <1>7 DEF ss

LEMMA RunSix ==
    ASSUME NEW d, NEW a, NEW b, NEW c, NEW f, NEW g, NEW h
    PROVE  Run(d, <<a, b, c, f, g, h>>) = Step(Step(Step(Step(Step(Step(d, a), b), c), f), g), h)
<1> DEFINE ss == <<a, b, c, f, g, h>>
<1>1. Len(ss) = 6
  OBVIOUS
<1>a. Len(ss) \in Nat
  BY <1>1
<1>2. ss[1] = a /\ ss[2] = b /\ ss[3] = c /\ ss[4] = f /\ ss[5] = g /\ ss[6] = h
  OBVIOUS
<1> HIDE DEF ss
<1>3. PICK state : /\ state[0] = d
                   /\ \A i \in 1..Len(ss) : state[i] = Step(state[i - 1], ss[i])
                   /\ Run(d, ss) = state[Len(ss)]
  BY <1>a, RunStates
<1>4. state[1] = Step(state[0], ss[1])
  BY <1>1, <1>3
<1>5. state[2] = Step(state[1], ss[2])
  BY <1>1, <1>3
<1>6. state[3] = Step(state[2], ss[3])
  BY <1>1, <1>3
<1>7. state[4] = Step(state[3], ss[4])
  BY <1>1, <1>3
<1>8. state[5] = Step(state[4], ss[5])
  BY <1>1, <1>3
<1>9. state[6] = Step(state[5], ss[6])
  BY <1>1, <1>3
<1> QED
  BY <1>1, <1>2, <1>3, <1>4, <1>5, <1>6, <1>7, <1>8, <1>9 DEF ss

\* What a migration finds before it is applied.
LEMMA Absent ==
    ASSUME NEW d, NEW i \in Strict, SchemaAt(d, i - 1), NEW c \in Added(i)
    PROVE  c \notin d.columns /\ ~NamedKey(d, c[1], c[2])
<1>1. i \in 2..24 /\ i > i - 1
  BY DEF Strict
<1>2. c \notin d.columns
  BY <1>1 DEF SchemaAt, ColumnsAt
<1>3. c = <<c[1], c[2]>>
  BY <1>1, OwnTables, ColumnOrigin
<1> QED
  BY <1>2, <1>3 DEF SchemaAt, KeysAt, NamedKey, KeysOf

\* The tables and the type that a migration makes are not there before it.
LEMMA AbsentTables ==
    ASSUME NEW d, NEW i \in {3, 22, 24}, SchemaAt(d, i - 1)
    PROVE  /\ i = 3 => "system_config" \notin Tables(d)
           /\ i = 22 => \A t \in {"basket_schedule_config", "basket_schedule_votes",
                                  "basket_schedule_assignments"} : t \notin Tables(d)
           /\ i = 24 => "period_user_payments" \notin Tables(d)
<1>1. i \in Strict /\ i > i - 1
  BY DEF Strict
<1>2. Added(i) \cap d.columns = {} /\ d.columns \subseteq KnownColumns
  BY <1>1 DEF SchemaAt, ColumnsAt
<1> QED
  BY <1>2, OwnTables DEF Tables

LEMMA PresentEnums ==
    ASSUME NEW d, NEW k \in Nat, k >= 1, SchemaAt(d, k)
    PROVE  /\ Labels(d, "orders_payment_status_enum") # {}
           /\ Labels(d, "sales_payment_status_enum") # {}
<1>1. /\ InitialEnums[3] = CreateEnumIfNotExists("orders_payment_status_enum",
                                                 {"unpaid", "partial", "paid"})
      /\ InitialEnums[4] = CreateEnumIfNotExists("sales_payment_status_enum",
                                                 {"unpaid", "partial", "paid"})
  BY DEF InitialEnums
<1>2. /\ <<"orders_payment_status_enum", "paid">> \in LastingLabels(InitialEnums[3])
      /\ <<"sales_payment_status_enum", "paid">> \in LastingLabels(InitialEnums[4])
  BY <1>1 DEF LastingLabels, Cols, CreateEnumIfNotExists, PartialLabels
<1>3. InitialEnums[3] \in EnumStatements /\ InitialEnums[4] \in EnumStatements
  BY DEF EnumStatements
<1>4. /\ <<"orders_payment_status_enum", "paid">> \in d.labels
      /\ <<"sales_payment_status_enum", "paid">> \in d.labels
  BY <1>2, <1>3 DEF SchemaAt, LabelsAt
<1> QED
  BY <1>4 DEF Labels

LEMMA AbsentEnum ==
    ASSUME NEW d, SchemaAt(d, 23)
    PROVE  Labels(d, PaymentEnum) = {}
<1>1. \A s \in EnumStatements : \A l \in Cols(s.enum, s.labels) : l[1] # PaymentEnum
  BY OldEnums DEF Cols
<1>2. \A l \in LabelsOf(4) \cup LabelsOf(13) : l[1] # PaymentEnum
  BY DEF LabelsOf, PaymentEnum
<1>3. d.labels \cap LabelsOf(24) = {}
  BY DEF SchemaAt, LabelsAt
<1>4. \A l \in d.labels : l[1] # PaymentEnum
  BY <1>1, <1>2, <1>3 DEF SchemaAt, LabelsAt
<1> QED
  BY <1>4 DEF Labels

\* What the migrations make besides columns.
LEMMA NothingElse ==
    /\ \A i \in (2..24) \ {22, 24} : IndexesOf(i) = {}
    /\ \A i \in (2..24) \ {4, 13, 24} : LabelsOf(i) = {}
    /\ \A i \in (2..24) \ {14, 22, 24} : NewKeys(i) = {}
<1>1. \A i \in (2..24) \ {22, 24} : IndexesOf(i) = {}
  BY DEF IndexesOf
<1> QED
  BY <1>1, NewLabels, NewReferences DEF NewKeys

Raises(d, i) == Grows(d, Run(d, Sequence[i].up), Added(i), IndexesOf(i), LabelsOf(i), NewKeys(i))

\* The migrations that add one column, and those that add a few.
LEMMA OneRaises ==
    ASSUME NEW d, NEW i \in {8, 9, 10, 11, 12, 17, 18}, RowsTyped(d), d.ok
    PROVE  Raises(d, i)
<1>1. ASSUME NEW t, NEW c, Sequence[i] = AddMissing(t, c), Added(i) = {<<t, c>>}
      PROVE  Raises(d, i)
  <2>1. Run(d, Sequence[i].up) = Step(d, AddColumnIfNotExists(t, c))
    BY <1>1, RunOne DEF AddMissing, Migration
  <2>2. Grows(d, Step(d, AddColumnIfNotExists(t, c)), {<<t, c>>}, {}, {}, {})
    BY AddGrows
  <2>3. IndexesOf(i) = {} /\ LabelsOf(i) = {} /\ NewKeys(i) = {}
    BY NothingElse
  <2> QED
    BY <1>1, <2>1, <2>2, <2>3 DEF Raises
<1>2. CASE i = 8
  BY <1>1, <1>2, SequenceParts DEF AddIsEcoToArticles, Added
<1>3. CASE i = 9
  BY <1>1, <1>3, SequenceParts DEF AddTaxRateToArticles, Added
<1>4. CASE i = 10
  BY <1>1, <1>4, SequenceParts DEF AddTotalAmountToOrders, Added
<1>5. CASE i = 11
  BY <1>1, <1>5, SequenceParts DEF AddPaidAmountToOrders, Added
<1>6. CASE i = 12
  BY <1>1, <1>6, SequenceParts DEF AddIsDeliveredToOrders, Added
<1>7. CASE i = 17
  BY <1>1, <1>7, SequenceParts DEF AddTransportCostToPeriods, Added
<1>8. CASE i = 18
  BY <1>1, <1>8, SequenceParts DEF AddTransportTaxRateToPeriods, Added
<1> QED
  BY <1>2, <1>3, <1>4, <1>5, <1>6, <1>7, <1>8

\* AddPreparerRole, AddHashToArticles: two statements.
LEMMA PreparerRaises ==
    ASSUME NEW d, RowsTyped(d), d.ok
    PROVE  Raises(d, 2)
<1> DEFINE s == AddColumnIfNotExists("user_consumer_groups", "is_preparer")
           t == AddColumnIfNotExists("group_invitations", "is_preparer")
           e == Step(d, s)
           f == Step(e, t)
<1>1. Run(d, Sequence[2].up) = f
  BY RunTwo, SequenceParts DEF AddPreparerRole, Migration
<1>2. Grows(d, e, {<<"user_consumer_groups", "is_preparer">>}, {}, {}, {})
  BY AddGrows
<1>3. Grows(e, f, {<<"group_invitations", "is_preparer">>}, {}, {}, {})
  <2> HIDE DEF e
  <2>1. RowsTyped(e) /\ e.ok
    BY <1>2 DEF Grows
  <2>2. RowsTyped(e)
    BY <2>1
  <2>3. e.ok
    BY <2>1
  <2> QED
    BY <2>2, <2>3, AddGrows
<1> HIDE DEF e, f
<1>4. Grows(d, f, {<<"user_consumer_groups", "is_preparer">>,
                   <<"group_invitations", "is_preparer">>}, {}, {}, {})
  BY <1>2, <1>3 DEF Grows
<1>5. Added(2) = {<<"user_consumer_groups", "is_preparer">>,
                  <<"group_invitations", "is_preparer">>}
  BY DEF Added
<1> QED
  BY <1>1, <1>4, <1>5, NothingElse DEF Raises

LEMMA HashRaises ==
    ASSUME NEW d, RowsTyped(d), d.ok
    PROVE  Raises(d, 16)
<1> DEFINE s == AddColumnIfNotExists("articles", "hash")
           e == Step(d, s)
           f == Step(e, Statement("fillHashes"))
<1>1. Run(d, Sequence[16].up) = f
  BY RunTwo, SequenceParts DEF AddHashToArticles, Migration
<1>2. Grows(d, e, {<<"articles", "hash">>}, {}, {}, {})
  BY AddGrows
<1>3. Grows(e, f, {}, {}, {}, {})
  <2> HIDE DEF e
  <2>1. RowsTyped(e)
    BY <1>2 DEF Grows
  <2>2. e.ok
    BY <1>2 DEF Grows
  <2> QED
    BY <2>1, <2>2, HashesGrow
<1> HIDE DEF e, f
<1>4. Grows(d, f, {<<"articles", "hash">>}, {}, {}, {})
  BY <1>2, <1>3 DEF Grows
<1>5. Added(16) = {<<"articles", "hash">>}
  BY DEF Added
<1> QED
  BY <1>1, <1>4, <1>5, NothingElse DEF Raises

LEMMA ConfigRaises ==
    ASSUME NEW d, RowsTyped(d), d.ok, SchemaAt(d, 2)
    PROVE  Raises(d, 3)
<1> DEFINE C == {"key", "value", "description", "updated_at"}
           s == CreateTableIfNotExists("system_config", C, {})
<1>1. Run(d, Sequence[3].up) = Step(d, s)
  BY RunOne, SequenceParts DEF AddSystemConfig, Migration
<1>2. "system_config" \notin Tables(d)
  BY AbsentTables
<1>3. Grows(d, Step(d, s), Cols("system_config", C), {"system_config"} \X {}, {}, {})
  <2> HIDE DEF C
  <2> QED
    BY <1>2, CreateGrows
<1>4. Added(3) = Cols("system_config", C)
  BY DEF Added
<1>5. {"system_config"} \X {} = {}
  OBVIOUS
<1> HIDE DEF C
<1> QED
  BY <1>1, <1>3, <1>4, <1>5, NothingElse DEF Raises

LEMMA LabelRaises ==
    ASSUME NEW d, NEW i \in {4, 13}, RowsTyped(d), d.ok
    PROVE  Raises(d, i)
<1>1. ASSUME NEW t, NEW c, Sequence[i].up = <<AddLabelIfNotExists(t, c)>>,
             LabelsOf(i) = {<<t, c>>}
      PROVE  Raises(d, i)
  <2>1. Run(d, Sequence[i].up) = Step(d, AddLabelIfNotExists(t, c))
    BY <1>1, RunOne
  <2>2. Added(i) = {}
    BY DEF Added
  <2>3. Grows(d, Step(d, AddLabelIfNotExists(t, c)), {}, {}, {<<t, c>>}, {})
    BY LabelGrows
  <2>4. IndexesOf(i) = {} /\ NewKeys(i) = {}
    BY NothingElse
  <2> QED
    BY <1>1, <2>1, <2>2, <2>3, <2>4 DEF Raises
<1>2. CASE i = 4
  BY <1>1, <1>2, SequenceParts DEF AddPreparerRoleToEnum, Migration, LabelsOf
<1>3. CASE i = 13
  BY <1>1, <1>3, SequenceParts DEF AddManatUnitMeasure, Migration, LabelsOf
<1> QED
  BY <1>2, <1>3

\* After a statement that adds, the next can be run.
LEMMA GrownOk ==
    ASSUME NEW d, NEW e, NEW X, NEW U, NEW L, NEW K, Grows(d, e, X, U, L, K)
    PROVE  RowsTyped(e) /\ e.ok
BY DEF Grows

LEMMA TablesGrow ==
    ASSUME NEW d, NEW e, NEW t, NEW C, NEW U, NEW L, NEW K, Grows(d, e, Cols(t, C), U, L, K)
    PROVE  Tables(e) \subseteq Tables(d) \cup {t}
BY DEF Grows, Tables, Cols

LEMMA KeyStillAbsent ==
    ASSUME NEW d, NEW e, NEW t, NEW c, NEW b, NEW r, NEW X, NEW U, NEW L, b # c,
           ~NamedKey(d, t, c), Grows(d, e, X, U, L, {Key(t, b, r)})
    PROVE  ~NamedKey(e, t, c)
<1>1. Key(t, b, r).column = b
  BY DEF Key
<1> QED
  BY <1>1 DEF Grows, NamedKey, KeysOf

LEMMA SameKeysAbsent ==
    ASSUME NEW d, NEW e, NEW t, NEW c, NEW X, NEW U, NEW L,
           ~NamedKey(d, t, c), Grows(d, e, X, U, L, {})
    PROVE  ~NamedKey(e, t, c)
BY DEF Grows, NamedKey, KeysOf

\* The migrations of several statements.
LEMMA StatusRaises ==
    ASSUME NEW d, RowsTyped(d), d.ok, SchemaAt(d, 5)
    PROVE  Raises(d, 6)
<1> DEFINE P == {"unpaid", "partial", "paid"}
           s1 == CreateEnumIfNotExists("orders_payment_status_enum", P)
           s2 == AddColumnIfNotExists("orders", "payment_status")
           s3 == CreateEnumIfNotExists("sales_payment_status_enum", P)
           s4 == AddColumnIfNotExists("sales", "payment_status")
           e1 == Step(d, s1)
           e2 == Step(e1, s2)
           e3 == Step(e2, s3)
           e4 == Step(e3, s4)
<1>1. Run(d, Sequence[6].up) = e4
  BY RunFour, SequenceParts DEF AddPaymentStatusToOrders, Migration
<1>2. /\ Labels(d, "orders_payment_status_enum") # {}
      /\ Labels(d, "sales_payment_status_enum") # {}
  BY PresentEnums
<1> HIDE DEF P
<1>3. Grows(d, e1, {}, {}, {}, {})
  <2>1. Grows(d, e1, {}, {}, IF Labels(d, "orders_payment_status_enum") = {}
                             THEN Cols("orders_payment_status_enum", P) ELSE {}, {})
    BY EnumGrows
  <2> HIDE DEF e1
  <2> QED
    BY <1>2, <2>1
<1> HIDE DEF e1
<1>4. Grows(e1, e2, {<<"orders", "payment_status">>}, {}, {}, {})
  BY <1>3, GrownOk, AddGrows
<1> HIDE DEF e2
<1>5. Labels(e2, "sales_payment_status_enum") # {}
  BY <1>2, <1>3, <1>4 DEF Grows, Labels
<1>6. Grows(e2, e3, {}, {}, {}, {})
  <2>1. RowsTyped(e2)
    BY <1>4, GrownOk
  <2>2. e2.ok
    BY <1>4, GrownOk
  <2>3. Grows(e2, e3, {}, {}, IF Labels(e2, "sales_payment_status_enum") = {}
                              THEN Cols("sales_payment_status_enum", P) ELSE {}, {})
    BY <2>1, <2>2, EnumGrows
  <2> HIDE DEF e3
  <2> QED
    BY <1>5, <2>3
<1> HIDE DEF e3
<1>7. Grows(e3, e4, {<<"sales", "payment_status">>}, {}, {}, {})
  BY <1>6, GrownOk, AddGrows
<1> HIDE DEF e4
<1>8. Grows(d, e4, {<<"orders", "payment_status">>, <<"sales", "payment_status">>}, {}, {}, {})
  BY <1>3, <1>4, <1>6, <1>7 DEF Grows
<1>9. Added(6) = {<<"orders", "payment_status">>, <<"sales", "payment_status">>}
  BY DEF Added
<1> QED
  BY <1>1, <1>8, <1>9, NothingElse DEF Raises

LEMMA PeriodRaises ==
    ASSUME NEW d, RowsTyped(d), d.ok, SchemaAt(d, 13)
    PROVE  Raises(d, 14)
<1> DEFINE s == AddColumnIfNotExists("order_items", "period_id")
           t == AddForeignKey("order_items", "period_id", SetNull)
           k == Key("order_items", "period_id", SetNull)
           e == Step(d, s)
           f == Step(e, t)
<1>1. Run(d, Sequence[14].up) = f
  <2>1. Sequence[14].up = <<s, t>>
    <3>1. t = AddForeignKey("order_items", "period_id", "SET NULL")
      BY DEF SetNull
    <3> HIDE DEF t
    <3>2. Sequence[14] = Migration(<<s, t>>, <<DropForeignKey("order_items", "period_id"),
                                               DropColumn("order_items", "period_id")>>)
      BY <3>1, SequenceParts, Zenon DEF AddPeriodIdToOrderItems
    <3> QED
      BY <3>2 DEF Migration
  <2> HIDE DEF s, t
  <2> QED
    BY <2>1, RunTwo
<1>2. Grows(d, e, {<<"order_items", "period_id">>}, {}, {}, {})
  BY AddGrows
<1>3. Added(14) = {<<"order_items", "period_id">>}
  BY DEF Added
<1>4. ~NamedKey(d, "order_items", "period_id")
  <2> DEFINE c == <<"order_items", "period_id">>
  <2>1. c \in Added(14) /\ c[1] = "order_items" /\ c[2] = "period_id"
    BY <1>3
  <2>2. 14 \in Strict /\ SchemaAt(d, 14 - 1)
    BY DEF Strict
  <2> HIDE DEF c
  <2> QED
    BY <2>1, <2>2, Absent
<1> HIDE DEF e
<1>5. Grows(e, f, {}, {}, {}, {k})
  <2>1. RowsTyped(e)
    BY <1>2, GrownOk
  <2>2. e.ok
    BY <1>2, GrownOk
  <2>3. ~NamedKey(e, "order_items", "period_id")
    BY <1>2, <1>4, SameKeysAbsent
  <2> QED
    BY <2>1, <2>2, <2>3, KeyGrows
<1>6. NewKeys(14) = {k}
  BY DEF NewKeys, RefersFrom, RuleOf
<1> HIDE DEF f, k
<1> QED
  BY <1>1, <1>2, <1>3, <1>5, <1>6, NothingElse DEF Raises, Grows

LEMMA OptionsRaise ==
    ASSUME NEW d, RowsTyped(d), d.ok, SchemaAt(d, 18)
    PROVE  Raises(d, 19)
<1> DEFINE a == <<"articles", "customization_options">>
           b == <<"order_items", "selected_options">>
           e == Step(d, AddColumn("articles", "customization_options"))
           f == Step(e, AddColumn("order_items", "selected_options"))
<1>1. Run(d, Sequence[19].up) = f
  BY RunTwo, SequenceParts DEF AddCustomizationOptions, Migration
<1>2. Added(19) = {a, b} /\ a # b
  BY DEF Added
<1>3. a \notin d.columns /\ b \notin d.columns
  <2> HIDE DEF a, b
  <2>1. a \in Added(19) /\ b \in Added(19) /\ 19 \in Strict /\ 19 - 1 = 18
    BY <1>2 DEF Strict
  <2> QED
    BY <2>1, Absent
<1>4. Grows(d, e, {a}, {}, {}, {})
  BY <1>3, AddGrows
<1> HIDE DEF e
<1>5. Grows(e, f, {b}, {}, {}, {})
  <2>1. RowsTyped(e)
    BY <1>4, GrownOk
  <2>2. e.ok
    BY <1>4, GrownOk
  <2>3. b \notin e.columns
    <3> HIDE DEF a, b
    <3> QED
      BY <1>2, <1>3, <1>4 DEF Grows
  <2> QED
    BY <2>1, <2>2, <2>3, AddGrows
<1> HIDE DEF f, a, b
<1> QED
  BY <1>1, <1>2, <1>4, <1>5, NothingElse DEF Raises, Grows

\* The marks of basket lines, then the tables of the schedule and of payments.
LEMMA ReadyRaises ==
    ASSUME NEW d, RowsTyped(d), d.ok, SchemaAt(d, 22)
    PROVE  Raises(d, 23)
<1> DEFINE a == <<"order_items", "is_prepared">>
           e == Step(d, AddColumn("order_items", "is_prepared"))
<1>1. Run(d, Sequence[23].up) = e
  BY RunOne, SequenceParts DEF AddIsPreparedToOrderItems, Migration
<1>2. Added(23) = {a}
  BY DEF Added
<1>3. a \notin d.columns
  <2> HIDE DEF a
  <2>1. a \in Added(23) /\ 23 \in Strict /\ 23 - 1 = 22
    BY <1>2 DEF Strict
  <2> QED
    BY <2>1, Absent
<1>4. Grows(d, e, {a}, {}, {}, {})
  BY <1>3, AddGrows
<1> HIDE DEF e, a
<1> QED
  BY <1>1, <1>2, <1>4, NothingElse DEF Raises

LEMMA BasketsRaise ==
    ASSUME NEW d, RowsTyped(d), d.ok, SchemaAt(d, 21)
    PROVE  Raises(d, 22)
<1> DEFINE C1 == {"consumer_group_id", "preferred_weekday", "preferred_time"}
           C2 == {"id", "consumer_group_id", "user_email", "date", "status"}
           C3 == {"id", "consumer_group_id", "date", "assigned_user_email"}
           K1 == {Key("basket_schedule_config", "consumer_group_id", "CASCADE")}
           K2 == {Key("basket_schedule_votes", "consumer_group_id", "CASCADE")}
           K3 == {Key("basket_schedule_assignments", "consumer_group_id", "CASCADE")}
           U2 == {{"consumer_group_id", "user_email", "date"}}
           U3 == {{"consumer_group_id", "date"}}
           e1 == Step(d, CreateTable("basket_schedule_config", C1, K1, {}))
           e2 == Step(e1, CreateTable("basket_schedule_votes", C2, K2, U2))
           e3 == Step(e2, CreateTable("basket_schedule_assignments", C3, K3, U3))
<1>1. Run(d, Sequence[22].up) = e3
  BY RunThree, SequenceParts DEF AddBasketScheduleTables, Migration
<1>2. /\ "basket_schedule_config" \notin Tables(d)
      /\ "basket_schedule_votes" \notin Tables(d)
      /\ "basket_schedule_assignments" \notin Tables(d)
  BY AbsentTables
<1>3. Added(22) = Cols("basket_schedule_config", C1) \cup Cols("basket_schedule_votes", C2)
                  \cup Cols("basket_schedule_assignments", C3)
  BY DEF Added
<1>4. IndexesOf(22) = ({"basket_schedule_votes"} \X U2) \cup ({"basket_schedule_assignments"} \X U3)
  BY DEF IndexesOf
<1>5. NewKeys(22) = K1 \cup K2 \cup K3
  BY DEF NewKeys, RefersFrom, RuleOf
<1> HIDE DEF C1, C2, C3, K1, K2, K3, U2, U3
<1>6. Grows(d, e1, Cols("basket_schedule_config", C1), {"basket_schedule_config"} \X {}, {}, K1)
  BY <1>2, CreateGrows
<1> HIDE DEF e1
<1>7. Grows(e1, e2, Cols("basket_schedule_votes", C2), {"basket_schedule_votes"} \X U2, {}, K2)
  <2>1. RowsTyped(e1)
    BY <1>6, GrownOk
  <2>2. e1.ok
    BY <1>6, GrownOk
  <2>3. "basket_schedule_votes" \notin Tables(e1)
    BY <1>2, <1>6, TablesGrow
  <2> QED
    BY <2>1, <2>2, <2>3, CreateGrows
<1>8. Tables(e2) \subseteq Tables(d) \cup {"basket_schedule_config", "basket_schedule_votes"}
  <2> HIDE DEF e2
  <2>1. Tables(e1) \subseteq Tables(d) \cup {"basket_schedule_config"}
    BY <1>6, TablesGrow
  <2>2. Tables(e2) \subseteq Tables(e1) \cup {"basket_schedule_votes"}
    BY <1>7, TablesGrow
  <2> QED
    BY <2>1, <2>2
<1> HIDE DEF e2
<1>9. Grows(e2, e3, Cols("basket_schedule_assignments", C3),
            {"basket_schedule_assignments"} \X U3, {}, K3)
  <2>1. RowsTyped(e2)
    BY <1>7, GrownOk
  <2>2. e2.ok
    BY <1>7, GrownOk
  <2>3. "basket_schedule_assignments" \notin Tables(e2)
    BY <1>2, <1>8
  <2> QED
    BY <2>1, <2>2, <2>3, CreateGrows
<1> HIDE DEF e3
<1>10. Grows(d, e3, Added(22), IndexesOf(22), {}, NewKeys(22))
  <2>1. {"basket_schedule_config"} \X {} = {}
    OBVIOUS
  <2> DEFINE X1 == Cols("basket_schedule_config", C1)
             X2 == Cols("basket_schedule_votes", C2)
             X3 == Cols("basket_schedule_assignments", C3)
             V2 == {"basket_schedule_votes"} \X U2
             V3 == {"basket_schedule_assignments"} \X U3
  <2>2. Added(22) = X1 \cup X2 \cup X3 /\ IndexesOf(22) = V2 \cup V3
    BY <1>3, <1>4
  <2>3. /\ Grows(d, e1, X1, {}, {}, K1) /\ Grows(e1, e2, X2, V2, {}, K2)
        /\ Grows(e2, e3, X3, V3, {}, K3)
    BY <1>6, <1>7, <1>9, <2>1
  <2> HIDE DEF X1, X2, X3, V2, V3
  <2> QED
    BY <1>5, <2>2, <2>3 DEF Grows
<1> QED
  BY <1>1, <1>10, NothingElse DEF Raises

LEMMA PaymentsRaise ==
    ASSUME NEW d, RowsTyped(d), d.ok, SchemaAt(d, 23)
    PROVE  Raises(d, 24)
<1> DEFINE p == "period_user_payments"
           C == {"id", "period_id", "user_id", "consumer_group_id", "payment_status",
                 "total_amount", "notes", "created_at", "updated_at"}
           I == {"period_id", "user_id", "consumer_group_id"}
           P == {"unpaid", "paid"}
           e1 == Step(d, CreateEnumIfNotExists(PaymentEnum, P))
           e2 == Step(e1, CreateTableIfNotExists(p, C, {}))
           e3 == Step(e2, CreateUniqueIndex(p, I))
           e4 == Step(e3, AddForeignKey(p, "period_id", "CASCADE"))
           e5 == Step(e4, AddForeignKey(p, "user_id", "CASCADE"))
           e6 == Step(e5, AddForeignKey(p, "consumer_group_id", "CASCADE"))
           k4 == Key(p, "period_id", "CASCADE")
           k5 == Key(p, "user_id", "CASCADE")
           k6 == Key(p, "consumer_group_id", "CASCADE")
<1>1. Run(d, Sequence[24].up) = e6
  BY RunSix, SequenceParts DEF CreatePeriodUserPayments, Migration, PaymentEnum
<1>2. /\ Added(24) = Cols(p, C) /\ IndexesOf(24) = {<<p, I>>}
      /\ LabelsOf(24) = Cols(PaymentEnum, P)
  BY DEF Added, IndexesOf, LabelsOf
<1>3. NewKeys(24) = {k4, k5, k6}
  BY DEF NewKeys, RefersFrom, RuleOf
<1>4. Labels(d, PaymentEnum) = {} /\ p \notin Tables(d)
  BY AbsentEnum, AbsentTables
<1>5. /\ ~NamedKey(d, p, "period_id") /\ ~NamedKey(d, p, "user_id")
      /\ ~NamedKey(d, p, "consumer_group_id")
  <2>1. ASSUME NEW c \in {"period_id", "user_id", "consumer_group_id"} PROVE ~NamedKey(d, p, c)
    <3> DEFINE x == <<p, c>>
    <3>1. x \in Added(24) /\ x[1] = p /\ x[2] = c
      BY <1>2 DEF Cols
    <3>2. 24 \in Strict
      BY DEF Strict
    <3> HIDE DEF x, p
    <3> QED
      BY <3>1, <3>2, Absent
  <2> QED
    BY <2>1
<1> HIDE DEF C, I, P, p
<1>6. Grows(d, e1, {}, {}, Cols(PaymentEnum, P), {})
  <2>1. Grows(d, e1, {}, {}, IF Labels(d, PaymentEnum) = {} THEN Cols(PaymentEnum, P) ELSE {}, {})
    BY EnumGrows
  <2> HIDE DEF e1
  <2> QED
    BY <1>4, <2>1
<1> HIDE DEF e1
<1>7. Grows(e1, e2, Cols(p, C), {p} \X {}, {}, {})
  <2>1. RowsTyped(e1)
    BY <1>6, GrownOk
  <2>2. e1.ok
    BY <1>6, GrownOk
  <2>3. p \notin Tables(e1)
    BY <1>4, <1>6 DEF Grows, Tables
  <2> QED
    BY <2>1, <2>2, <2>3, CreateGrows
<1> HIDE DEF e2
<1>8. Grows(e2, e3, {}, {<<p, I>>}, {}, {})
  <2>1. RowsTyped(e2)
    BY <1>7, GrownOk
  <2>2. e2.ok
    BY <1>7, GrownOk
  <2> QED
    BY <2>1, <2>2, IndexGrows
<1> HIDE DEF e3
<1>9. /\ ~NamedKey(e3, p, "period_id") /\ ~NamedKey(e3, p, "user_id")
      /\ ~NamedKey(e3, p, "consumer_group_id")
  <2>1. e3.keys = d.keys
    BY <1>6, <1>7, <1>8 DEF Grows
  <2> QED
    BY <1>5, <2>1 DEF NamedKey, KeysOf
<1>10. Grows(e3, e4, {}, {}, {}, {k4})
  <2>1. RowsTyped(e3)
    BY <1>8, GrownOk
  <2>2. e3.ok
    BY <1>8, GrownOk
  <2> QED
    BY <1>9, <2>1, <2>2, KeyGrows
<1> HIDE DEF e4
<1>11. ~NamedKey(e4, p, "user_id") /\ ~NamedKey(e4, p, "consumer_group_id")
  BY <1>9, <1>10, KeyStillAbsent
<1>12. Grows(e4, e5, {}, {}, {}, {k5})
  <2>1. RowsTyped(e4)
    BY <1>10, GrownOk
  <2>2. e4.ok
    BY <1>10, GrownOk
  <2> QED
    BY <1>11, <2>1, <2>2, KeyGrows
<1> HIDE DEF e5
<1>13. ~NamedKey(e5, p, "consumer_group_id")
  BY <1>11, <1>12, KeyStillAbsent
<1>14. Grows(e5, e6, {}, {}, {}, {k6})
  <2>1. RowsTyped(e5)
    BY <1>12, GrownOk
  <2>2. e5.ok
    BY <1>12, GrownOk
  <2> QED
    BY <1>13, <2>1, <2>2, KeyGrows
<1> HIDE DEF e6, k4, k5, k6
<1>15. Grows(d, e6, Added(24), IndexesOf(24), LabelsOf(24), NewKeys(24))
  <2>1. {p} \X {} = {}
    OBVIOUS
  <2> DEFINE X == Cols(p, C)
             L == Cols(PaymentEnum, P)
             u == <<p, I>>
  <2>2. /\ Grows(d, e1, {}, {}, L, {}) /\ Grows(e1, e2, X, {}, {}, {})
        /\ Grows(e2, e3, {}, {u}, {}, {})
    BY <1>6, <1>7, <1>8, <2>1
  <2>3. Added(24) = X /\ IndexesOf(24) = {u} /\ LabelsOf(24) = L
    BY <1>2
  <2> HIDE DEF X, L, u
  <2>4. Grows(d, e3, X, {u}, L, {})
    BY <2>2 DEF Grows
  <2>5. Grows(d, e6, X, {u}, L, {k4, k5, k6})
    BY <2>4, <1>10, <1>12, <1>14 DEF Grows
  <2> QED
    BY <1>3, <2>3, <2>5
<1> QED
  BY <1>1, <1>15 DEF Raises

\* All of them: each does what it does, and the schema is then its own.
LEMMA Raised ==
    ASSUME NEW d, NEW i \in (2..24) \ {5, 7, 15, 20, 21}, RowsTyped(d), d.ok, SchemaAt(d, i - 1)
    PROVE  LET r == Run(d, Sequence[i].up) IN r.ok /\ SchemaAt(r, i)
<1>1. Raises(d, i)
  BY OneRaises, PreparerRaises, HashRaises, ConfigRaises, LabelRaises, StatusRaises,
     PeriodRaises, OptionsRaise, ReadyRaises, BasketsRaise, PaymentsRaise
<1> QED
  BY <1>1, RaisedBy, GrownOk DEF Raises

\* The renamed and the dropped columns refer to nothing.
LEMMA Literals ==
    /\ TaxId # Cif /\ TaxId # PaidAmount /\ Cif # PaidAmount
    /\ {TaxId, Cif, PaidAmount} \cap ReferringColumns = {}
    /\ TaxId[1] = "suppliers"
<1>1. {TaxId, Cif, PaidAmount} \cap RefersFrom(1) = {}
  BY OldReferences
<1>2. \A i \in {14, 22, 24} : {TaxId, Cif, PaidAmount} \cap RefersFrom(i) = {}
  BY NewReferences, Specials
<1>3. SaleUser \notin {TaxId, Cif, PaidAmount}
  BY DEF SaleUser, TaxId, Cif, PaidAmount
<1>4. TaxId # Cif /\ TaxId # PaidAmount /\ Cif # PaidAmount /\ TaxId[1] = "suppliers"
  BY DEF TaxId, Cif, PaidAmount
<1> QED
  BY <1>1, <1>2, <1>3, <1>4 DEF ReferringColumns

\* No index and no key has a column that a migration removes again.
LEMMA NotIndexed ==
    ASSUME NEW d, NEW k, UniqueAt(d, k), NEW u \in d.unique
    PROVE  ~(u[1] = "order_items" /\ "paid_amount" \in u[2])
BY DEF UniqueAt, InitialUnique, MemberIndex, IndexesOf

\* The five migrations that do more than add: the conversion of sales fails on an unknown user.
LEMMA SalesRaised ==
    ASSUME NEW d, RowsTyped(d), d.ok, SchemaAt(d, 4)
    PROVE  LET r == Run(d, Sequence[5].up)
           IN  (d.sale # "stray" => r.ok) /\ (r.ok => SchemaAt(r, 5))
<1> DEFINE r == Run(d, Sequence[5].up)
           s == Statement("fixSales")
<1>1. r = FixSales(d)
  <2>1. r = Step(d, s)
    BY RunOne, SequenceParts DEF FixSalesUserEmailType, Migration
  <2>2. s.op = "fixSales"
    BY DEF Statement
  <2> HIDE DEF s
  <2>3. Step(d, s) = Do(d, s)
    BY DEF Step
  <2>4. Do(d, s) = FixSales(d)
    BY <2>2 DEF Do
  <2> HIDE DEF r
  <2> QED
    BY <2>1, <2>3, <2>4
<1>2. DOMAIN d = DbFields
  BY DEF RowsTyped
<1> HIDE DEF r
<1>3. /\ d.sale # "stray" => r.ok
      /\ r.columns = d.columns /\ r.unique = d.unique /\ r.labels = d.labels
      /\ r.keys \subseteq d.keys
      /\ \A x \in d.keys \ r.keys : x \in KeysOf(d, "sales", "user_email")
  BY <1>1, <1>2 DEF FixSales, Fail, DbFields
<1>4. Added(5) = {} /\ IndexesOf(5) = {} /\ LabelsOf(5) = {} /\ NewKeys(5) = {}
  BY NothingElse DEF Added
<1>5. ColumnsAt(r, 5)
  BY <1>3, <1>4, ColumnsRaised DEF SchemaAt
<1>6. UniqueAt(r, 5)
  BY <1>3, <1>4, UniqueRaised DEF SchemaAt
<1>7. LabelsAt(r, 5)
  BY <1>3, <1>4, LabelsRaised DEF SchemaAt
<1>8. KeysAt(r, 5)
  <2>1. \A x \in d.keys \cup NewKeys(5) : x \in r.keys \/ <<x.table, x.column>> = SaleUser
    BY <1>3, <1>4 DEF KeysOf, SaleUser
  <2>2. \A x \in r.keys : <<x.table, x.column>> \in r.columns
    BY <1>3 DEF SchemaAt, KeysAt
  <2>3. r.keys \subseteq d.keys \cup NewKeys(5)
    BY <1>3
  <2>4. KeysAt(d, 5 - 1)
    BY DEF SchemaAt
  <2>5. 5 \in (2..24) \ {7}
    OBVIOUS
  <2> QED
    BY <2>1, <2>2, <2>3, <2>4, <2>5, KeysRaised
<1> QED
  BY <1>3, <1>5, <1>6, <1>7, <1>8 DEF SchemaAt, r

\* The keys of order_items.article_id, before and after their rule is changed.
ArticleKeysKept(d, rule) ==
    {k \in d.keys : k.auto \/ k # Key("order_items", "article_id", k.rule)}
    \cup {Key("order_items", "article_id", rule)}

\* The key of the article of a line, which migration 7 changes and its revert changes back.
LEMMA ArticleKeys ==
    ASSUME NEW d, NEW e, NEW i \in {6, 7}, NEW k \in {6, 7}, i # k, KeysAt(d, k),
           e.columns = d.columns,
           e.keys = ArticleKeysKept(d, IF i = 7 THEN SetNull ELSE "RESTRICT")
    PROVE  KeysAt(e, i)
<1> DEFINE rule == IF i = 7 THEN SetNull ELSE "RESTRICT"
           new == Key("order_items", "article_id", rule)
<1>1. /\ new.table = "order_items" /\ new.column = "article_id" /\ new.rule = rule
      /\ new.auto = FALSE
  BY DEF Key
<1>2. new = [Key(new.table, new.column, new.rule) EXCEPT !.auto = new.auto]
  BY <1>1 DEF Key
<1>3. LineArticle \in RefersFrom(1) /\ LineArticle = <<"order_items", "article_id">>
  BY DEF RefersFrom, LineArticle
<1>4. LineArticle \in e.columns
  <2>1. NamedKey(d, LineArticle[1], LineArticle[2])
    BY <1>3 DEF KeysAt
  <2>2. PICK x \in d.keys : x.table = "order_items" /\ x.column = "article_id"
    BY <1>3, <2>1 DEF NamedKey, KeysOf
  <2> QED
    BY <1>3, <2>2 DEF KeysAt
<1>5. i >= 7 <=> i = 7
  OBVIOUS
<1>6. KeyAt(new, i)
  <2>1. LineArticle \in ReferringColumns
    BY <1>3, Referring
  <2> HIDE DEF new
  <2> QED
    BY <1>1, <1>2, <1>3, <1>5, <2>1 DEF KeyAt
<1> HIDE DEF new
<1>7. e.keys = {x \in d.keys : x.auto \/ x # Key("order_items", "article_id", x.rule)} \cup {new}
  BY DEF ArticleKeysKept, new
<1>8. ASSUME NEW x \in e.keys PROVE KeyAt(x, i) /\ <<x.table, x.column>> \in e.columns
  <2>1. CASE x = new
    BY <1>1, <1>3, <1>4, <1>6, <2>1
  <2>2. CASE x # new
    <3>1. x \in d.keys /\ (x.auto \/ x # Key("order_items", "article_id", x.rule))
      BY <1>7, <2>2
    <3>2. KeyAt(x, k) /\ <<x.table, x.column>> \in e.columns
      BY <3>1 DEF KeysAt
    <3>3. <<x.table, x.column>> = LineArticle => x.auto
      <4>1. SUFFICES ASSUME x.table = "order_items", x.column = "article_id", ~x.auto PROVE FALSE
        BY <1>3, <3>2 DEF KeyAt
      <4>2. x.auto = FALSE
        BY <3>2, <4>1 DEF KeyAt
      <4>3. x = [Key("order_items", "article_id", x.rule) EXCEPT !.auto = FALSE]
        BY <3>2, <4>1, <4>2 DEF KeyAt
      <4>4. x = Key("order_items", "article_id", x.rule)
        BY <4>3 DEF Key
      <4> QED
        BY <3>1, <4>1, <4>4
    <3> QED
      BY <3>2, <3>3 DEF KeyAt
  <2> QED
    BY <2>1, <2>2
<1>9. ASSUME NEW j \in 1..i, NEW c \in RefersFrom(j) PROVE NamedKey(e, c[1], c[2])
  <2>1. j \in 1..24 /\ (j \in 2..7 => RefersFrom(j) = {})
    BY NewReferences
  <2>2. j = 1 /\ j \in 1..k
    BY <2>1
  <2>3. c = <<c[1], c[2]>>
    BY <2>2, Referring
  <2>4. PICK x \in d.keys : x.table = c[1] /\ x.column = c[2] /\ ~x.auto
    BY <2>2 DEF KeysAt, NamedKey, KeysOf
  <2>5. CASE c = LineArticle
    BY <1>1, <1>3, <1>7, <2>5 DEF NamedKey, KeysOf
  <2>6. CASE c # LineArticle
    <3>1. x # Key("order_items", "article_id", x.rule)
      BY <1>3, <2>3, <2>4, <2>6 DEF Key
    <3> QED
      BY <1>7, <2>4, <3>1 DEF NamedKey, KeysOf
  <2> QED
    BY <2>5, <2>6
<1> QED
  BY <1>8, <1>9 DEF KeysAt

\* Lines may outlive their articles.
LEMMA DeletionRaised ==
    ASSUME NEW d, RowsTyped(d), d.ok, SchemaAt(d, 6)
    PROVE  LET r == Run(d, Sequence[7].up) IN r.ok /\ SchemaAt(r, 7)
<1> DEFINE r == Run(d, Sequence[7].up)
           s == Statement("allowArticleDeletion")
<1>1. r = AllowArticleDeletion(d)
  <2>1. r = Step(d, s)
    BY RunOne, SequenceParts DEF AllowArticleDeletionInOrders, Migration
  <2>2. s.op = "allowArticleDeletion"
    BY DEF Statement
  <2> HIDE DEF s
  <2>3. Step(d, s) = Do(d, s)
    BY DEF Step
  <2>4. Do(d, s) = AllowArticleDeletion(d)
    BY <2>2 DEF Do
  <2> HIDE DEF r
  <2> QED
    BY <2>1, <2>3, <2>4
<1>2. DOMAIN d = DbFields
  BY DEF RowsTyped
<1>0. AllowArticleDeletion(d) = [d EXCEPT !.optional = TRUE, !.keys = ArticleKeysKept(d, SetNull)]
  BY Zenon DEF AllowArticleDeletion, ArticleKeysKept, SetNull
<1> HIDE DEF r
<1>3. /\ r.ok /\ r.columns = d.columns /\ r.unique = d.unique /\ r.labels = d.labels
      /\ r.keys = ArticleKeysKept(d, SetNull)
  BY <1>0, <1>1, <1>2 DEF DbFields
<1>4. Added(7) = {} /\ IndexesOf(7) = {} /\ LabelsOf(7) = {}
  BY NothingElse DEF Added
<1>5. ColumnsAt(r, 7)
  <2>1. ColumnsAt(d, 7 - 1)
    BY DEF SchemaAt
  <2>2. r.columns = d.columns \cup Added(7)
    BY <1>3, <1>4
  <2> QED
    BY <2>1, <2>2, ColumnsRaised
<1>6. UniqueAt(r, 7)
  BY <1>3, <1>4, UniqueRaised DEF SchemaAt
<1>7. LabelsAt(r, 7)
  BY <1>3, <1>4, LabelsRaised DEF SchemaAt
<1>8. KeysAt(r, 7)
  <2>1. KeysAt(d, 6)
    BY DEF SchemaAt
  <2>2. r.keys = ArticleKeysKept(d, IF 7 = 7 THEN SetNull ELSE "RESTRICT")
    BY <1>3
  <2>3. 7 \in {6, 7} /\ 6 \in {6, 7} /\ 7 # 6
    OBVIOUS
  <2> QED
    BY <1>3, <2>1, <2>2, <2>3, ArticleKeys
<1> QED
  BY <1>3, <1>5, <1>6, <1>7, <1>8 DEF SchemaAt, r

\* The identification number is renamed where it has the old name.
LEMMA CifRaised ==
    ASSUME NEW d, RowsTyped(d), d.ok, SchemaAt(d, 14)
    PROVE  LET r == Run(d, Sequence[15].up) IN r.ok /\ SchemaAt(r, 15)
<1> DEFINE r == Run(d, Sequence[15].up)
           s == RenameColumn("suppliers", "tax_id", "cif")
<1>1. r = IF TaxId \in d.columns /\ Cif \notin d.columns
          THEN [d EXCEPT !.columns = (@ \ {TaxId}) \cup {Cif}] ELSE d
  <2>1. r = Step(d, s)
    BY RunOne, SequenceParts DEF RenameTaxIdToCif, Migration
  <2>2. s.op = "rename" /\ s.from = TaxId /\ s.to = Cif
    BY DEF RenameColumn, TaxId, Cif
  <2> HIDE DEF s
  <2>3. Step(d, s) = Do(d, s)
    BY DEF Step
  <2>4. Do(d, s) = IF TaxId \in d.columns /\ Cif \notin d.columns
                   THEN [d EXCEPT !.columns = (@ \ {TaxId}) \cup {Cif}] ELSE d
    BY <2>2 DEF Do
  <2> HIDE DEF r
  <2> QED
    BY <2>1, <2>3, <2>4
<1>2. DOMAIN d = DbFields
  BY DEF RowsTyped
<1> HIDE DEF r
<1>3. /\ r.ok /\ r.unique = d.unique /\ r.labels = d.labels /\ r.keys = d.keys
      /\ TaxId \in d.columns <=> Cif \notin d.columns
      /\ r.columns = (d.columns \ {TaxId}) \cup {Cif}
  BY <1>1, <1>2 DEF DbFields, SchemaAt, ColumnsAt
<1>4. Added(15) = {} /\ IndexesOf(15) = {} /\ LabelsOf(15) = {} /\ NewKeys(15) = {}
  BY NothingElse DEF Added
<1>5. ColumnsAt(r, 15)
  <2>1. r.columns \subseteq KnownColumns
    BY <1>3, ColumnOrigin DEF SchemaAt, ColumnsAt
  <2>2. \A t \in TableStatements : Lasting(t) \subseteq r.columns
    BY <1>3, LastingIs DEF SchemaAt, ColumnsAt
  <2>3. \A j \in 2..15 : Added(j) \subseteq r.columns
    <3>1. ASSUME NEW j \in 2..15 PROVE Added(j) \subseteq r.columns
      <4>1. j \in 2..24 /\ (j = 15 \/ j \in 2..14)
        OBVIOUS
      <4>2. Added(j) \subseteq d.columns
        BY <1>4, <4>1 DEF SchemaAt, ColumnsAt
      <4>3. TaxId \notin Added(j)
        BY <4>1, Specials
      <4> QED
        BY <1>3, <4>2, <4>3
    <3> QED
      BY <3>1
  <2>4. \A j \in Strict : j > 15 => Added(j) \cap r.columns = {}
    <3>1. ASSUME NEW j \in Strict, j > 15 PROVE Added(j) \cap r.columns = {}
      <4>1. j \in 2..24 /\ j > 14
        BY <3>1 DEF Strict
      <4>2. Added(j) \cap d.columns = {} /\ Cif \notin Added(j)
        BY <4>1, Specials DEF SchemaAt, ColumnsAt
      <4> QED
        BY <1>3, <4>2
    <3> QED
      BY <3>1
  <2> QED
    BY <1>3, <2>1, <2>2, <2>3, <2>4, Literals DEF ColumnsAt
<1>6. UniqueAt(r, 15)
  BY <1>3, <1>4, UniqueRaised DEF SchemaAt
<1>7. LabelsAt(r, 15)
  BY <1>3, <1>4, LabelsRaised DEF SchemaAt
<1>8. KeysAt(r, 15)
  <2>1. \A x \in d.keys \cup NewKeys(15) : x \in r.keys \/ <<x.table, x.column>> = SaleUser
    BY <1>3, <1>4
  <2>2. \A x \in r.keys : <<x.table, x.column>> \in r.columns
    BY <1>3, Literals DEF SchemaAt, KeysAt, KeyAt
  <2>3. r.keys \subseteq d.keys \cup NewKeys(15)
    BY <1>3
  <2>4. KeysAt(d, 15 - 1)
    BY DEF SchemaAt
  <2> QED
    BY <2>1, <2>2, <2>3, <2>4, KeysRaised
<1> QED
  BY <1>3, <1>5, <1>6, <1>7, <1>8 DEF SchemaAt, r

\* No status is partial any more.
LEMMA PartialRaised ==
    ASSUME NEW d, RowsTyped(d), d.ok, SchemaAt(d, 19)
    PROVE  LET r == Run(d, Sequence[20].up) IN r.ok /\ SchemaAt(r, 20)
<1> DEFINE r == Run(d, Sequence[20].up)
           s == Statement("removePartial")
<1>1. r = RemovePartial(d)
  <2>1. r = Step(d, s)
    BY RunOne, SequenceParts DEF RemovePartialPaymentStatus, Migration
  <2>2. s.op = "removePartial"
    BY DEF Statement
  <2> HIDE DEF s
  <2>3. Step(d, s) = Do(d, s)
    BY DEF Step
  <2>4. Do(d, s) = RemovePartial(d)
    BY <2>2 DEF Do
  <2> HIDE DEF r
  <2> QED
    BY <2>1, <2>3, <2>4
<1>2. DOMAIN d = DbFields
  BY DEF RowsTyped
<1> HIDE DEF r
<1>3. /\ r.ok /\ r.columns = d.columns /\ r.unique = d.unique /\ r.keys = d.keys
      /\ r.labels = d.labels \ PartialLabels
  BY <1>1, <1>2 DEF DbFields, RemovePartial, PartialLabels
<1>4. Added(20) = {} /\ IndexesOf(20) = {} /\ NewKeys(20) = {} /\ LabelsOf(20) = {}
  BY NothingElse DEF Added
<1>5. ColumnsAt(r, 20)
  BY <1>3, <1>4, ColumnsRaised DEF SchemaAt
<1>6. UniqueAt(r, 20)
  BY <1>3, <1>4, UniqueRaised DEF SchemaAt
<1>7. LabelsAt(r, 20)
  <2>1. \A j \in 2..20 : LabelsOf(j) \subseteq r.labels
    <3>1. ASSUME NEW j \in 2..20 PROVE LabelsOf(j) \subseteq r.labels
      <4>1. j \in 2..24 /\ (j = 20 \/ j \in 2..19)
        OBVIOUS
      <4>2. LabelsOf(j) \subseteq d.labels /\ LabelsOf(j) \cap PartialLabels = {}
        BY <1>4, <4>1, NewLabels DEF SchemaAt, LabelsAt
      <4> QED
        BY <1>3, <4>2
    <3> QED
      BY <3>1
  <2>2. \A t \in EnumStatements : LastingLabels(t) \subseteq r.labels
    BY <1>3 DEF SchemaAt, LabelsAt, LastingLabels
  <2> QED
    BY <1>3, <2>1, <2>2 DEF SchemaAt, LabelsAt
<1>8. KeysAt(r, 20)
  <2>1. \A x \in d.keys \cup NewKeys(20) : x \in r.keys \/ <<x.table, x.column>> = SaleUser
    BY <1>3, <1>4
  <2>2. \A x \in r.keys : <<x.table, x.column>> \in r.columns
    BY <1>3 DEF SchemaAt, KeysAt
  <2>3. r.keys \subseteq d.keys \cup NewKeys(20)
    BY <1>3
  <2>4. KeysAt(d, 20 - 1)
    BY DEF SchemaAt
  <2> QED
    BY <2>1, <2>2, <2>3, <2>4, KeysRaised
<1> QED
  BY <1>3, <1>5, <1>6, <1>7, <1>8 DEF SchemaAt, r

\* The amount paid of lines is dropped.
LEMMA PaidRaised ==
    ASSUME NEW d, RowsTyped(d), d.ok, SchemaAt(d, 20)
    PROVE  LET r == Run(d, Sequence[21].up) IN r.ok /\ SchemaAt(r, 21)
<1> DEFINE r == Run(d, Sequence[21].up)
           s == DropColumn("order_items", "paid_amount")
<1>1. r = WithoutColumn(d, PaidAmount)
  <2>1. r = Step(d, s)
    BY RunOne, SequenceParts DEF RemovePaidAmountFromOrderItems, Migration
  <2>2. s.op = "drop" /\ s.column = PaidAmount
    BY DEF DropColumn, PaidAmount
  <2> HIDE DEF s
  <2>3. Step(d, s) = Do(d, s)
    BY DEF Step
  <2>4. Do(d, s) = WithoutColumn(d, PaidAmount)
    BY <2>2 DEF Do
  <2> HIDE DEF r
  <2> QED
    BY <2>1, <2>3, <2>4
<1>2. DOMAIN d = DbFields
  BY DEF RowsTyped
<1> HIDE DEF r
<1>a. PaidAmount[1] = "order_items" /\ PaidAmount[2] = "paid_amount"
      /\ PaidAmount = <<"order_items", "paid_amount">>
  BY DEF PaidAmount
<1>b. KeysOf(d, PaidAmount[1], PaidAmount[2]) = {}
  <2>1. \A x \in d.keys : <<x.table, x.column>> # PaidAmount
    BY Literals DEF SchemaAt, KeysAt, KeyAt
  <2> QED
    BY <2>1, <1>a DEF KeysOf
<1>c. \A u \in d.unique : ~(u[1] = PaidAmount[1] /\ PaidAmount[2] \in u[2])
  BY <1>a, NotIndexed DEF SchemaAt
<1>d. /\ r.ok = d.ok /\ r.columns = d.columns \ {PaidAmount} /\ r.labels = d.labels
      /\ r.keys = d.keys \ KeysOf(d, PaidAmount[1], PaidAmount[2])
      /\ r.unique = {u \in d.unique : ~(u[1] = PaidAmount[1] /\ PaidAmount[2] \in u[2])}
  BY <1>1, <1>2 DEF WithoutColumn, DbFields
<1>3. /\ r.ok /\ r.columns = d.columns \ {PaidAmount} /\ r.unique = d.unique
      /\ r.keys = d.keys /\ r.labels = d.labels
  BY <1>b, <1>c, <1>d
<1>4. Added(21) = {} /\ IndexesOf(21) = {} /\ NewKeys(21) = {} /\ LabelsOf(21) = {}
  BY NothingElse DEF Added
<1>5. ColumnsAt(r, 21)
  <2>1. r.columns \subseteq KnownColumns
    BY <1>3 DEF SchemaAt, ColumnsAt
  <2>2. \A t \in TableStatements : Lasting(t) \subseteq r.columns
    BY <1>3, LastingIs DEF SchemaAt, ColumnsAt
  <2>3. \A j \in 2..21 : Added(j) \subseteq r.columns
    <3>1. ASSUME NEW j \in 2..21 PROVE Added(j) \subseteq r.columns
      <4>1. j \in 2..24 /\ (j = 21 \/ j \in 2..20)
        OBVIOUS
      <4>2. Added(j) \subseteq d.columns
        BY <1>4, <4>1 DEF SchemaAt, ColumnsAt
      <4>3. PaidAmount \notin Added(j)
        BY <4>1, Specials
      <4> QED
        BY <1>3, <4>2, <4>3
    <3> QED
      BY <3>1
  <2>4. \A j \in Strict : j > 21 => Added(j) \cap r.columns = {}
    <3>1. ASSUME NEW j \in Strict, j > 21 PROVE Added(j) \cap r.columns = {}
      <4>1. j \in 2..24 /\ j > 20
        BY <3>1 DEF Strict
      <4>2. Added(j) \cap d.columns = {}
        BY <4>1 DEF SchemaAt, ColumnsAt
      <4> QED
        BY <1>3, <4>2
    <3> QED
      BY <3>1
  <2>5. Cif \in r.columns /\ TaxId \notin r.columns
    BY <1>3, Literals DEF SchemaAt, ColumnsAt
  <2> QED
    BY <1>3, <2>1, <2>2, <2>3, <2>4, <2>5 DEF ColumnsAt
<1>6. UniqueAt(r, 21)
  BY <1>3, <1>4, UniqueRaised DEF SchemaAt
<1>7. LabelsAt(r, 21)
  BY <1>3, <1>4, LabelsRaised DEF SchemaAt
<1>8. KeysAt(r, 21)
  <2>1. \A x \in d.keys \cup NewKeys(21) : x \in r.keys \/ <<x.table, x.column>> = SaleUser
    BY <1>3, <1>4
  <2>2. \A x \in r.keys : <<x.table, x.column>> \in r.columns
    BY <1>3, Literals DEF SchemaAt, KeysAt, KeyAt
  <2>3. r.keys \subseteq d.keys \cup NewKeys(21)
    BY <1>3
  <2>4. KeysAt(d, 21 - 1)
    BY DEF SchemaAt
  <2> QED
    BY <2>1, <2>2, <2>3, <2>4, KeysRaised
<1> QED
  BY <1>3, <1>5, <1>6, <1>7, <1>8 DEF SchemaAt, r

-----------------------------------------------------------------------------
(* Reverting a migration *)

\* A database without some columns.
Drops(d, e, X) ==
    /\ DOMAIN e = DbFields /\ e.ok = d.ok /\ e.labels = d.labels
    /\ e.columns = d.columns \ X
    /\ e.keys = {k \in d.keys : <<k.table, k.column>> \notin X}
    /\ e.unique = {u \in d.unique : \A c \in X : ~(u[1] = c[1] /\ c[2] \in u[2])}

\* One after the other, none, and one column.
LEMMA DropsTwice ==
    ASSUME NEW d, NEW e, NEW f, NEW X, NEW Y, Drops(d, e, X), Drops(e, f, Y)
    PROVE  Drops(d, f, X \cup Y)
BY DEF Drops

LEMMA DropsNone ==
    ASSUME NEW d, DOMAIN d = DbFields
    PROVE  Drops(d, d, {})
BY DEF Drops

LEMMA ColumnDrops ==
    ASSUME NEW d, NEW t, NEW c, DOMAIN d = DbFields, d.ok
    PROVE  Drops(d, Step(d, DropColumn(t, c)), {<<t, c>>})
<1> DEFINE x == <<t, c>>
           s == DropColumn(t, c)
           e == WithoutColumn(d, x)
<1>1. s.op = "drop" /\ s.column = x
  BY DEF DropColumn
<1>2. x[1] = t /\ x[2] = c
  OBVIOUS
<1> HIDE DEF s
<1>3. Step(d, s) = e
  <2>1. Step(d, s) = Do(d, s)
    BY DEF Step
  <2>2. Do(d, s) = WithoutColumn(d, s.column)
    BY <1>1 DEF Do
  <2> QED
    BY <1>1, <2>1, <2>2
<1>4. /\ DOMAIN e = DbFields /\ e.ok = d.ok /\ e.labels = d.labels
      /\ e.columns = d.columns \ {x}
      /\ e.keys = d.keys \ KeysOf(d, t, c)
      /\ e.unique = {u \in d.unique : ~(u[1] = t /\ c \in u[2])}
  <2> HIDE DEF x
  <2> QED
    BY <1>2 DEF WithoutColumn, DbFields
<1>5. KeysOf(d, t, c) = {k \in d.keys : <<k.table, k.column>> \in {x}}
  BY DEF KeysOf
<1> HIDE DEF e
<1>6. Drops(d, e, {x})
  <2> HIDE DEF x
  <2> QED
    BY <1>2, <1>4, <1>5 DEF Drops
<1> QED
  BY <1>3, <1>6 DEF s

\* The columns that migrations drop are in no unique index.
LEMMA AddedNotIndexed ==
    ASSUME NEW d, NEW k, UniqueAt(d, k), NEW i \in (2..24) \ {3, 22, 24}, NEW c \in Added(i),
           NEW u \in d.unique
    PROVE  ~(u[1] = c[1] /\ c[2] \in u[2])
<1> DEFINE G(j) == \A x \in Added(j) :
                       x[1] \in {"user_consumer_groups", "group_invitations", "orders", "sales",
                                 "articles", "order_items", "periods"}
                       /\ x[2] \notin {"email", "token", "user_email", "consumer_group_id"}
<1>1. G(2) /\ G(4) /\ G(5) /\ G(6) /\ G(7) /\ G(8) /\ G(9) /\ G(10) /\ G(11) /\ G(12) /\ G(13)
  BY DEF Added
<1>2. G(14) /\ G(15) /\ G(16) /\ G(17) /\ G(18) /\ G(19) /\ G(20) /\ G(21) /\ G(23)
  BY DEF Added
<1> HIDE DEF G
<1>3. \A j \in (2..24) \ {3, 22, 24} : G(j)
  BY <1>1, <1>2
<1>4. /\ c[1] \notin {"basket_schedule_votes", "basket_schedule_assignments",
                      "period_user_payments"}
      /\ c[2] \notin {"email", "token", "user_email", "consumer_group_id"}
  BY <1>3 DEF G
<1> QED
  BY <1>4 DEF UniqueAt, InitialUnique, MemberIndex, IndexesOf

\* Dropping what the migration has added leaves the schema before it.
LEMMA LoweredBy ==
    ASSUME NEW d, NEW e, NEW i \in (2..24) \ {3, 5, 7, 15, 20, 21, 22, 24}, SchemaAt(d, i),
           Drops(d, e, Added(i))
    PROVE  SchemaAt(e, i - 1)
<1>1. ColumnsAt(e, i - 1)
  BY ColumnsLowered DEF SchemaAt, Drops
<1>2. e.unique = d.unique
  BY AddedNotIndexed DEF SchemaAt, Drops
<1>3. UniqueAt(e, i - 1)
  BY <1>2, UniqueLowered DEF SchemaAt
<1>4. LabelsAt(e, i - 1)
  BY LabelsLowered DEF SchemaAt, Drops
<1>5. KeysAt(e, i - 1)
  <2>1. \A x \in d.keys \ e.keys : <<x.table, x.column>> \in Added(i) \cup {SaleUser}
    BY DEF Drops
  <2>2. \A x \in e.keys : <<x.table, x.column>> \in e.columns
    BY DEF Drops, SchemaAt, KeysAt
  <2>3. e.keys \subseteq d.keys
    BY DEF Drops
  <2>4. KeysAt(d, i)
    BY DEF SchemaAt
  <2> QED
    BY <2>1, <2>2, <2>3, <2>4, KeysLowered
<1> QED
  BY <1>1, <1>3, <1>4, <1>5 DEF SchemaAt

Lowers(d, i) == Drops(d, Run(d, Sequence[i].down), Added(i))

\* The reverts that drop one column, two, none, and a key with its column.
LEMMA OneLowers ==
    ASSUME NEW d, NEW i \in {8, 9, 10, 11, 12, 16, 17, 18, 23}, DOMAIN d = DbFields, d.ok
    PROVE  Lowers(d, i)
<1>1. ASSUME NEW t, NEW c, Sequence[i].down = <<DropColumn(t, c)>>, Added(i) = {<<t, c>>}
      PROVE  Lowers(d, i)
  <2>1. Run(d, Sequence[i].down) = Step(d, DropColumn(t, c))
    BY <1>1, RunOne
  <2>2. Drops(d, Step(d, DropColumn(t, c)), {<<t, c>>})
    BY ColumnDrops
  <2> QED
    BY <1>1, <2>1, <2>2 DEF Lowers
<1> USE DEF AddMissing, Migration
<1>2. CASE i = 8
  BY <1>1, <1>2, SequenceParts DEF AddIsEcoToArticles, Added
<1>3. CASE i = 9
  BY <1>1, <1>3, SequenceParts DEF AddTaxRateToArticles, Added
<1>4. CASE i = 10
  BY <1>1, <1>4, SequenceParts DEF AddTotalAmountToOrders, Added
<1>5. CASE i = 11
  BY <1>1, <1>5, SequenceParts DEF AddPaidAmountToOrders, Added
<1>6. CASE i = 12
  BY <1>1, <1>6, SequenceParts DEF AddIsDeliveredToOrders, Added
<1>7. CASE i = 17
  BY <1>1, <1>7, SequenceParts DEF AddTransportCostToPeriods, Added
<1>8. CASE i = 18
  BY <1>1, <1>8, SequenceParts DEF AddTransportTaxRateToPeriods, Added
<1>9. CASE i = 16
  BY <1>1, <1>9, SequenceParts DEF AddHashToArticles, Added
<1>10. CASE i = 23
  BY <1>1, <1>10, SequenceParts DEF AddIsPreparedToOrderItems, Added
<1> QED
  BY <1>2, <1>3, <1>4, <1>5, <1>6, <1>7, <1>8, <1>9, <1>10

LEMMA TwoLower ==
    ASSUME NEW d, NEW i \in {2, 6, 19}, DOMAIN d = DbFields, d.ok
    PROVE  Lowers(d, i)
<1>1. ASSUME NEW t, NEW c, NEW u, NEW b, Added(i) = {<<t, c>>, <<u, b>>},
             Sequence[i].down = <<DropColumn(t, c), DropColumn(u, b)>>
      PROVE  Lowers(d, i)
  <2> DEFINE e == Step(d, DropColumn(t, c))
             f == Step(e, DropColumn(u, b))
  <2>1. Run(d, Sequence[i].down) = f
    BY <1>1, RunTwo
  <2>2. Drops(d, e, {<<t, c>>})
    BY ColumnDrops
  <2> HIDE DEF e
  <2>3. Drops(e, f, {<<u, b>>})
    <3>1. DOMAIN e = DbFields
      BY <2>2 DEF Drops
    <3>2. e.ok
      BY <2>2 DEF Drops
    <3> QED
      BY <3>1, <3>2, ColumnDrops
  <2> HIDE DEF f
  <2>4. Drops(d, f, {<<t, c>>} \cup {<<u, b>>})
    BY <2>2, <2>3, DropsTwice
  <2>5. {<<t, c>>} \cup {<<u, b>>} = Added(i)
    BY <1>1
  <2> QED
    BY <2>1, <2>4, <2>5 DEF Lowers
<1> USE DEF Migration
<1>2. CASE i = 2
  BY <1>1, <1>2, SequenceParts DEF AddPreparerRole, Added
<1>3. CASE i = 6
  BY <1>1, <1>3, SequenceParts DEF AddPaymentStatusToOrders, Added
<1>4. CASE i = 19
  BY <1>1, <1>4, SequenceParts DEF AddCustomizationOptions, Added
<1> QED
  BY <1>2, <1>3, <1>4

LEMMA NoneLower ==
    ASSUME NEW d, NEW i \in {4, 13}, DOMAIN d = DbFields, d.ok
    PROVE  Lowers(d, i)
<1>1. Sequence[i].down = <<>>
  BY SequenceParts DEF AddPreparerRoleToEnum, AddManatUnitMeasure, Migration
<1>2. Run(d, Sequence[i].down) = d
  BY <1>1, RunNone
<1>3. Added(i) = {}
  BY DEF Added
<1> QED
  BY <1>2, <1>3, DropsNone DEF Lowers

LEMMA PeriodLowers ==
    ASSUME NEW d, DOMAIN d = DbFields, d.ok
    PROVE  Lowers(d, 14)
<1> DEFINE x == <<"order_items", "period_id">>
           s == DropForeignKey("order_items", "period_id")
           e == Step(d, s)
           f == Step(e, DropColumn("order_items", "period_id"))
<1>1. Run(d, Sequence[14].down) = f
  <2> DEFINE t == DropColumn("order_items", "period_id")
  <2>1. Sequence[14].down = <<s, t>>
    <3>1. Sequence[14] = Migration(<<AddColumnIfNotExists("order_items", "period_id"),
                                     AddForeignKey("order_items", "period_id", "SET NULL")>>,
                                   <<s, t>>)
      BY SequenceParts, Zenon DEF AddPeriodIdToOrderItems
    <3>2. \A up, down : Migration(up, down).down = down
      BY DEF Migration
    <3> HIDE DEF s, t
    <3> QED
      BY <3>1, <3>2, Zenon
  <2> HIDE DEF s, t
  <2> QED
    BY <2>1, RunTwo DEF t
<1>2. /\ DOMAIN e = DbFields /\ e.ok = d.ok /\ e.labels = d.labels /\ e.columns = d.columns
      /\ e.unique = d.unique
      /\ e.keys = {k \in d.keys : k.auto \/ k # Key("order_items", "period_id", k.rule)}
  <2>1. s.op = "dropKey" /\ s.column = x /\ x[1] = "order_items" /\ x[2] = "period_id"
    BY DEF DropForeignKey
  <2> HIDE DEF s, x
  <2>2. e = Do(d, s)
    BY DEF Step
  <2>3. Do(d, s) = [d EXCEPT !.keys =
                      {k \in @ : k.auto \/ k # Key(s.column[1], s.column[2], k.rule)}]
    BY <2>1 DEF Do
  <2> HIDE DEF e
  <2> QED
    BY <2>1, <2>2, <2>3 DEF DbFields
<1> HIDE DEF e
<1>3. Drops(e, f, {x})
  <2>1. e.ok
    BY <1>2
  <2>2. DOMAIN e = DbFields
    BY <1>2
  <2> QED
    BY <2>1, <2>2, ColumnDrops
<1> HIDE DEF f
<1>4. \A k \in d.keys : k = Key("order_items", "period_id", k.rule) => <<k.table, k.column>> = x
  BY DEF Key
<1>5. Drops(d, f, {x})
  <2>1. f.keys = {k \in d.keys : <<k.table, k.column>> \notin {x}}
    <3>1. f.keys = {k \in e.keys : <<k.table, k.column>> \notin {x}}
      BY <1>3 DEF Drops
    <3> HIDE DEF x
    <3> QED
      BY <1>2, <1>4, <3>1
  <2> HIDE DEF x
  <2> QED
    BY <1>2, <1>3, <2>1 DEF Drops
<1>6. Added(14) = {x}
  BY DEF Added
<1> QED
  BY <1>1, <1>5, <1>6 DEF Lowers

\* A database without some tables.
DropsTables(d, e, T) ==
    /\ DOMAIN e = DbFields /\ e.ok = d.ok /\ e.labels = d.labels
    /\ e.columns = {c \in d.columns : c[1] \notin T}
    /\ e.keys = {k \in d.keys : k.table \notin T}
    /\ e.unique = {u \in d.unique : u[1] \notin T}

\* A table goes with its columns, keys and indexes.
LEMMA TableDrops ==
    ASSUME NEW d, NEW t, DOMAIN d = DbFields, d.ok
    PROVE  DropsTables(d, Step(d, DropTable(t)), {t})
<1> DEFINE s == DropTable(t)
           e == WithoutTable(d, t)
<1>1. s.op = "dropTable" /\ s.table = t
  BY DEF DropTable
<1> HIDE DEF s
<1>2. Step(d, s) = e
  <2>1. Step(d, s) = Do(d, s)
    BY DEF Step
  <2>2. Do(d, s) = WithoutTable(d, s.table)
    BY <1>1 DEF Do
  <2> QED
    BY <1>1, <2>1, <2>2
<1>3. DropsTables(d, e, {t})
  BY DEF DropsTables, WithoutTable, DbFields
<1> QED
  BY <1>2, <1>3 DEF s

LEMMA TablesDropTwice ==
    ASSUME NEW d, NEW e, NEW f, NEW T, NEW t, DropsTables(d, e, T), DropsTables(e, f, {t})
    PROVE  DropsTables(d, f, T \cup {t})
BY DEF DropsTables

BasketTables ==
    {"basket_schedule_config", "basket_schedule_votes", "basket_schedule_assignments"}

TablesOf(i) ==
    CASE i = 3 -> {"system_config"}
      [] i = 22 -> BasketTables
      [] OTHER -> {"period_user_payments"}

\* The migrations that make tables.
LEMMA TablesLowered ==
    ASSUME NEW d, NEW e, NEW f, NEW i \in {3, 22, 24}, SchemaAt(d, i),
           DropsTables(d, f, TablesOf(i)),
           e.columns = f.columns, e.keys = f.keys, e.unique = f.unique,
           e.labels = IF i = 24 THEN d.labels \ LabelsOf(24) ELSE d.labels
    PROVE  SchemaAt(e, i - 1)
<1>0. \A c \in KnownColumns : c = <<c[1], c[2]>> /\ (c[1] \in TablesOf(i) <=> c \in Added(i))
  BY OwnTables DEF TablesOf, BasketTables
<1>1. d.columns \subseteq KnownColumns
  BY DEF SchemaAt, ColumnsAt
<1>2. e.columns = d.columns \ Added(i)
  BY <1>0, <1>1 DEF DropsTables
<1>3. ColumnsAt(e, i - 1)
  BY <1>2, ColumnsLowered DEF SchemaAt
<1>4. d.unique \ e.unique \subseteq IndexesOf(i)
  <2>1. ASSUME NEW u \in d.unique, u[1] \in TablesOf(i) PROVE u \in IndexesOf(i)
    BY <2>1 DEF SchemaAt, UniqueAt, InitialUnique, MemberIndex, IndexesOf, TablesOf, BasketTables
  <2> QED
    BY <2>1 DEF DropsTables
<1>5. UniqueAt(e, i - 1)
  <2>1. e.unique \subseteq d.unique
    BY DEF DropsTables
  <2>2. i \in 2..24 /\ UniqueAt(d, i)
    BY DEF SchemaAt
  <2> QED
    BY <1>4, <2>1, <2>2, UniqueLowered
<1>6. LabelsAt(e, i - 1)
  <2>1. i \in (2..24) \ {20} /\ LabelsAt(d, i)
    BY DEF SchemaAt
  <2> QED
    BY <2>1, LabelsLowered
<1>7. KeysAt(e, i - 1)
  <2>1. \A x \in d.keys \ e.keys : <<x.table, x.column>> \in Added(i) \cup {SaleUser}
    BY <1>0, <1>1 DEF DropsTables, SchemaAt, KeysAt
  <2>2. \A x \in e.keys : <<x.table, x.column>> \in e.columns
    BY DEF DropsTables, SchemaAt, KeysAt
  <2>3. e.keys \subseteq d.keys
    BY DEF DropsTables
  <2>4. KeysAt(d, i) /\ i \in (2..24) \ {7}
    BY DEF SchemaAt
  <2> QED
    BY <2>1, <2>2, <2>3, <2>4, KeysLowered
<1> QED
  BY <1>3, <1>5, <1>6, <1>7 DEF SchemaAt

LEMMA ConfigLowered ==
    ASSUME NEW d, DOMAIN d = DbFields, d.ok, SchemaAt(d, 3)
    PROVE  SchemaAt(Run(d, Sequence[3].down), 2)
<1> DEFINE e == Run(d, Sequence[3].down)
<1>1. e = Step(d, DropTable("system_config"))
  BY RunOne, SequenceParts DEF AddSystemConfig, Migration
<1>2. DropsTables(d, Step(d, DropTable("system_config")), {"system_config"})
  BY TableDrops
<1>3. DropsTables(d, e, TablesOf(3))
  BY <1>1, <1>2 DEF TablesOf
<1> HIDE DEF e
<1>4. e.labels = IF 3 = 24 THEN d.labels \ LabelsOf(24) ELSE d.labels
  BY <1>3 DEF DropsTables
<1>5. 3 \in {3, 22, 24} /\ 3 - 1 = 2
  OBVIOUS
<1>6. SchemaAt(e, 3 - 1)
  BY <1>3, <1>4, <1>5, TablesLowered
<1> QED
  BY <1>5, <1>6 DEF e

LEMMA BasketsLowered ==
    ASSUME NEW d, DOMAIN d = DbFields, d.ok, SchemaAt(d, 22)
    PROVE  SchemaAt(Run(d, Sequence[22].down), 21)
<1> DEFINE e1 == Step(d, DropTable("basket_schedule_assignments"))
           e2 == Step(e1, DropTable("basket_schedule_votes"))
           e == Step(e2, DropTable("basket_schedule_config"))
<1>1. Run(d, Sequence[22].down) = e
  BY RunThree, SequenceParts DEF AddBasketScheduleTables, Migration
<1>2. DropsTables(d, e1, {"basket_schedule_assignments"})
  BY TableDrops
<1> HIDE DEF e1
<1>3. DropsTables(e1, e2, {"basket_schedule_votes"})
  <2>1. DOMAIN e1 = DbFields
    BY <1>2 DEF DropsTables
  <2>2. e1.ok
    BY <1>2 DEF DropsTables
  <2> QED
    BY <2>1, <2>2, TableDrops
<1> HIDE DEF e2
<1>4. DropsTables(e2, e, {"basket_schedule_config"})
  <2>1. DOMAIN e2 = DbFields
    BY <1>3 DEF DropsTables
  <2>2. e2.ok
    BY <1>2, <1>3 DEF DropsTables
  <2> QED
    BY <2>1, <2>2, TableDrops
<1> HIDE DEF e
<1>5. DropsTables(d, e, TablesOf(22))
  <2>1. TablesOf(22) = ({"basket_schedule_assignments"} \cup {"basket_schedule_votes"})
                       \cup {"basket_schedule_config"}
    BY DEF TablesOf, BasketTables
  <2>2. DropsTables(d, e2, {"basket_schedule_assignments"} \cup {"basket_schedule_votes"})
    BY <1>2, <1>3, TablesDropTwice
  <2>3. DropsTables(d, e, ({"basket_schedule_assignments"} \cup {"basket_schedule_votes"})
                          \cup {"basket_schedule_config"})
    BY <1>4, <2>2, TablesDropTwice
  <2> QED
    BY <2>1, <2>3
<1>6. e.labels = IF 22 = 24 THEN d.labels \ LabelsOf(24) ELSE d.labels
  BY <1>5 DEF DropsTables
<1>7. 22 \in {3, 22, 24} /\ 22 - 1 = 21
  OBVIOUS
<1>8. SchemaAt(e, 22 - 1)
  BY <1>5, <1>6, <1>7, TablesLowered
<1> QED
  BY <1>1, <1>7, <1>8

LEMMA PaymentsLowered ==
    ASSUME NEW d, DOMAIN d = DbFields, d.ok, SchemaAt(d, 24)
    PROVE  SchemaAt(Run(d, Sequence[24].down), 23)
<1> DEFINE p == "period_user_payments"
           s == DropEnum(PaymentEnum)
           f == Step(d, DropTable(p))
           e == Step(f, s)
<1>1. Run(d, Sequence[24].down) = e
  BY RunTwo, SequenceParts DEF CreatePeriodUserPayments, Migration, PaymentEnum
<1>2. DropsTables(d, f, {p})
  BY TableDrops
<1> HIDE DEF f
<1>3. DropsTables(d, f, TablesOf(24))
  BY <1>2 DEF TablesOf
<1>4. e = [f EXCEPT !.labels = @ \ Labels(f, PaymentEnum)]
  <2>1. s.op = "dropEnum" /\ s.enum = PaymentEnum
    BY DEF DropEnum
  <2> HIDE DEF s
  <2>2. e = Do(f, s)
    BY <1>2 DEF Step, DropsTables
  <2>3. Do(f, s) = [f EXCEPT !.labels = @ \ Labels(f, s.enum)]
    BY <2>1 DEF Do
  <2> QED
    BY <2>1, <2>2, <2>3
<1> HIDE DEF e
<1>5. /\ e.columns = f.columns /\ e.keys = f.keys /\ e.unique = f.unique
      /\ e.labels = f.labels \ Labels(f, PaymentEnum)
  BY <1>2, <1>4 DEF DropsTables, DbFields
<1>6. \A l \in d.labels : l[1] = PaymentEnum <=> l \in LabelsOf(24)
  <2>1. \A t \in EnumStatements : \A l \in Cols(t.enum, t.labels) : l[1] # PaymentEnum
    BY OldEnums DEF Cols
  <2>2. \A l \in LabelsOf(4) \cup LabelsOf(13) : l[1] # PaymentEnum
    BY DEF LabelsOf, PaymentEnum
  <2>3. \A l \in LabelsOf(24) : l[1] = PaymentEnum
    BY NewLabels
  <2> QED
    BY <2>1, <2>2, <2>3 DEF SchemaAt, LabelsAt
<1>7. e.labels = IF 24 = 24 THEN d.labels \ LabelsOf(24) ELSE d.labels
  BY <1>3, <1>5, <1>6 DEF DropsTables, Labels
<1>8. 24 \in {3, 22, 24} /\ 24 - 1 = 23
  OBVIOUS
<1>9. SchemaAt(e, 24 - 1)
  BY <1>3, <1>5, <1>7, <1>8, TablesLowered
<1> QED
  BY <1>1, <1>8, <1>9

\* The five that do more than drop.
LEMMA SalesLowered ==
    ASSUME NEW d, DOMAIN d = DbFields, d.ok, SchemaAt(d, 5)
    PROVE  SchemaAt(Run(d, Sequence[5].down), 4)
<1> DEFINE r == Run(d, Sequence[5].down)
           s == Statement("unfixSales")
<1>1. r = UnfixSales(d)
  <2>1. r = Step(d, s)
    BY RunOne, SequenceParts DEF FixSalesUserEmailType, Migration
  <2>2. s.op = "unfixSales"
    BY DEF Statement
  <2> HIDE DEF s
  <2>3. Step(d, s) = Do(d, s)
    BY DEF Step
  <2>4. Do(d, s) = UnfixSales(d)
    BY <2>2 DEF Do
  <2> HIDE DEF r
  <2> QED
    BY <2>1, <2>3, <2>4
<1> HIDE DEF r
<1>2. /\ r.columns = d.columns /\ r.unique = d.unique /\ r.labels = d.labels
      /\ r.keys \subseteq d.keys
      /\ \A x \in d.keys \ r.keys : x = Key("sales", "user_email", x.rule)
  BY <1>1 DEF UnfixSales, Fail, DbFields
<1>3. Added(5) = {} /\ IndexesOf(5) = {}
  BY NothingElse DEF Added
<1>4. 5 \in (2..24) \ {7, 15, 20, 21} /\ 5 - 1 = 4 /\ 5 # 24
  OBVIOUS
<1>5. ColumnsAt(r, 5 - 1)
  <2>1. ColumnsAt(d, 5) /\ r.columns = d.columns \ Added(5)
    BY <1>2, <1>3 DEF SchemaAt
  <2> QED
    BY <1>4, <2>1, ColumnsLowered
<1>6. UniqueAt(r, 5 - 1)
  <2>1. UniqueAt(d, 5) /\ r.unique \subseteq d.unique /\ d.unique \ r.unique \subseteq IndexesOf(5)
    BY <1>2 DEF SchemaAt
  <2> QED
    BY <1>4, <2>1, UniqueLowered
<1>7. LabelsAt(r, 5 - 1)
  <2>1. LabelsAt(d, 5) /\ r.labels = IF 5 = 24 THEN d.labels \ LabelsOf(24) ELSE d.labels
    BY <1>2, <1>4 DEF SchemaAt
  <2> QED
    BY <1>4, <2>1, LabelsLowered
<1>8. KeysAt(r, 5 - 1)
  <2>1. \A x \in d.keys \ r.keys : <<x.table, x.column>> \in Added(5) \cup {SaleUser}
    BY <1>2 DEF Key, SaleUser
  <2>2. \A x \in r.keys : <<x.table, x.column>> \in r.columns
    BY <1>2 DEF SchemaAt, KeysAt
  <2>3. r.keys \subseteq d.keys /\ KeysAt(d, 5)
    BY <1>2 DEF SchemaAt
  <2> QED
    BY <1>4, <2>1, <2>2, <2>3, KeysLowered
<1> QED
  BY <1>4, <1>5, <1>6, <1>7, <1>8 DEF SchemaAt, r

LEMMA DeletionLowered ==
    ASSUME NEW d, DOMAIN d = DbFields, d.ok, SchemaAt(d, 7)
    PROVE  LET r == Run(d, Sequence[7].down) IN r.ok => SchemaAt(r, 6)
<1> DEFINE r == Run(d, Sequence[7].down)
           s == Statement("forbidArticleDeletion")
<1>1. r = ForbidArticleDeletion(d)
  <2>1. r = Step(d, s)
    BY RunOne, SequenceParts DEF AllowArticleDeletionInOrders, Migration
  <2>2. s.op = "forbidArticleDeletion"
    BY DEF Statement
  <2> HIDE DEF s
  <2>3. Step(d, s) = Do(d, s)
    BY DEF Step
  <2>4. Do(d, s) = ForbidArticleDeletion(d)
    BY <2>2 DEF Do
  <2> HIDE DEF r
  <2> QED
    BY <2>1, <2>3, <2>4
<1> HIDE DEF r
<1>0. ForbidArticleDeletion(d) =
          IF d.line = "unlinked" THEN [d EXCEPT !.ok = FALSE]
          ELSE [d EXCEPT !.optional = FALSE, !.keys = ArticleKeysKept(d, "RESTRICT")]
  BY DEF ForbidArticleDeletion, ArticleKeysKept, Fail
<1> SUFFICES ASSUME r.ok PROVE SchemaAt(r, 6)
  BY DEF r
<1>2. /\ r.columns = d.columns /\ r.unique = d.unique /\ r.labels = d.labels
      /\ r.keys = ArticleKeysKept(d, "RESTRICT")
  BY <1>0, <1>1 DEF DbFields
<1>3. Added(7) = {} /\ IndexesOf(7) = {}
  BY NothingElse DEF Added
<1>4. 7 \in (2..24) \ {15, 20, 21} /\ 7 - 1 = 6 /\ 7 # 24
  OBVIOUS
<1>5. ColumnsAt(r, 7 - 1)
  <2>1. ColumnsAt(d, 7) /\ r.columns = d.columns \ Added(7)
    BY <1>2, <1>3 DEF SchemaAt
  <2> QED
    BY <1>4, <2>1, ColumnsLowered
<1>6. UniqueAt(r, 7 - 1)
  <2>1. UniqueAt(d, 7) /\ r.unique \subseteq d.unique /\ d.unique \ r.unique \subseteq IndexesOf(7)
    BY <1>2 DEF SchemaAt
  <2> QED
    BY <1>4, <2>1, UniqueLowered
<1>7. LabelsAt(r, 7 - 1)
  <2>1. LabelsAt(d, 7) /\ r.labels = IF 7 = 24 THEN d.labels \ LabelsOf(24) ELSE d.labels
    BY <1>2, <1>4 DEF SchemaAt
  <2> QED
    BY <1>4, <2>1, LabelsLowered
<1>8. KeysAt(r, 6)
  <2>1. KeysAt(d, 7)
    BY DEF SchemaAt
  <2>2. r.keys = ArticleKeysKept(d, IF 6 = 7 THEN SetNull ELSE "RESTRICT")
    BY <1>2
  <2>3. 7 \in {6, 7} /\ 6 \in {6, 7} /\ 6 # 7
    OBVIOUS
  <2> QED
    BY <1>2, <2>1, <2>2, <2>3, ArticleKeys
<1> QED
  BY <1>4, <1>5, <1>6, <1>7, <1>8 DEF SchemaAt

LEMMA CifLowered ==
    ASSUME NEW d, DOMAIN d = DbFields, d.ok, SchemaAt(d, 15)
    PROVE  SchemaAt(Run(d, Sequence[15].down), 14)
<1> DEFINE r == Run(d, Sequence[15].down)
           s == RenameColumn("suppliers", "cif", "tax_id")
<1>1. r = IF Cif \in d.columns /\ TaxId \notin d.columns
          THEN [d EXCEPT !.columns = (@ \ {Cif}) \cup {TaxId}] ELSE d
  <2>1. r = Step(d, s)
    BY RunOne, SequenceParts DEF RenameTaxIdToCif, Migration
  <2>2. s.op = "rename" /\ s.from = Cif /\ s.to = TaxId
    BY DEF RenameColumn, TaxId, Cif
  <2> HIDE DEF s
  <2>3. Step(d, s) = Do(d, s)
    BY DEF Step
  <2>4. Do(d, s) = IF Cif \in d.columns /\ TaxId \notin d.columns
                   THEN [d EXCEPT !.columns = (@ \ {Cif}) \cup {TaxId}] ELSE d
    BY <2>2 DEF Do
  <2> HIDE DEF r
  <2> QED
    BY <2>1, <2>3, <2>4
<1> HIDE DEF r
<1>2. /\ r.unique = d.unique /\ r.labels = d.labels /\ r.keys = d.keys
      /\ Cif \in d.columns /\ TaxId \notin d.columns
      /\ r.columns = (d.columns \ {Cif}) \cup {TaxId}
  BY <1>1 DEF DbFields, SchemaAt, ColumnsAt
<1>3. Added(15) = {} /\ IndexesOf(15) = {}
  BY NothingElse DEF Added
<1>4. 15 \in (2..24) \ {7, 20, 21} /\ 15 - 1 = 14 /\ 15 # 24
  OBVIOUS
<1>5. ColumnsAt(r, 14)
  <2>1. r.columns \subseteq KnownColumns
    <3>1. \E t \in TableStatements : TaxId \in Cols(t.table, t.columns)
      <4>1. InitialCatalogue[4] \in TableStatements
        BY DEF TableStatements
      <4>2. TaxId \in Cols(InitialCatalogue[4].table, InitialCatalogue[4].columns)
        BY DEF InitialCatalogue, CreateTableIfNotExists, TaxId, Cols
      <4> QED
        BY <4>1, <4>2
    <3> QED
      BY <1>2, <3>1, ColumnOrigin DEF SchemaAt, ColumnsAt
  <2>2. \A t \in TableStatements : Lasting(t) \subseteq r.columns
    <3>1. \A t \in TableStatements : Cif \notin Cols(t.table, t.columns)
      <4>1. \A j \in 1..8 : Cif \notin Cols(InitialCatalogue[j].table, InitialCatalogue[j].columns)
        BY DEF InitialCatalogue, CreateTableIfNotExists, Cif, Cols
      <4>2. \A j \in 1..9 : Cif \notin Cols(InitialOrders[j].table, InitialOrders[j].columns)
        BY DEF InitialOrders, CreateTableIfNotExists, Cif, Cols
      <4> QED
        BY <4>1, <4>2 DEF TableStatements
    <3> QED
      BY <1>2, <3>1, LastingIs DEF SchemaAt, ColumnsAt
  <2>3. \A j \in 2..14 : Added(j) \subseteq r.columns
    <3>1. ASSUME NEW j \in 2..14 PROVE Added(j) \subseteq r.columns
      <4>1. j \in 2..24 /\ j \in 2..15
        OBVIOUS
      <4>2. Added(j) \subseteq d.columns
        BY <4>1 DEF SchemaAt, ColumnsAt
      <4>3. Cif \notin Added(j)
        BY <4>1, Specials
      <4> QED
        BY <1>2, <4>2, <4>3
    <3> QED
      BY <3>1
  <2>4. \A j \in Strict : j > 14 => Added(j) \cap r.columns = {}
    <3>1. ASSUME NEW j \in Strict, j > 14 PROVE Added(j) \cap r.columns = {}
      <4>1. j \in 2..24 /\ j > 15
        BY <3>1 DEF Strict
      <4>2. Added(j) \cap d.columns = {} /\ TaxId \notin Added(j)
        BY <4>1, Specials DEF SchemaAt, ColumnsAt
      <4> QED
        BY <1>2, <4>2
    <3> QED
      BY <3>1
  <2> QED
    BY <1>2, <2>1, <2>2, <2>3, <2>4, Literals DEF ColumnsAt
<1>6. UniqueAt(r, 15 - 1)
  <2>1. /\ UniqueAt(d, 15) /\ r.unique \subseteq d.unique
        /\ d.unique \ r.unique \subseteq IndexesOf(15)
    BY <1>2 DEF SchemaAt
  <2> QED
    BY <1>4, <2>1, UniqueLowered
<1>7. LabelsAt(r, 15 - 1)
  <2>1. LabelsAt(d, 15) /\ r.labels = IF 15 = 24 THEN d.labels \ LabelsOf(24) ELSE d.labels
    BY <1>2, <1>4 DEF SchemaAt
  <2> QED
    BY <1>4, <2>1, LabelsLowered
<1>8. KeysAt(r, 15 - 1)
  <2>1. \A x \in d.keys \ r.keys : <<x.table, x.column>> \in Added(15) \cup {SaleUser}
    BY <1>2
  <2>2. \A x \in r.keys : <<x.table, x.column>> \in r.columns
    BY <1>2, Literals DEF SchemaAt, KeysAt, KeyAt
  <2>3. r.keys \subseteq d.keys /\ KeysAt(d, 15)
    BY <1>2 DEF SchemaAt
  <2> QED
    BY <1>4, <2>1, <2>2, <2>3, KeysLowered
<1> QED
  BY <1>4, <1>5, <1>6, <1>7, <1>8 DEF SchemaAt, r

LEMMA PartialLowered ==
    ASSUME NEW d, DOMAIN d = DbFields, d.ok
    PROVE  ~Run(d, Sequence[20].down).ok
<1> DEFINE s == Statement("restorePartial")
<1>1. Run(d, Sequence[20].down) = Step(d, s)
  BY RunOne, SequenceParts DEF RemovePartialPaymentStatus, Migration
<1>2. s.op = "restorePartial"
  BY DEF Statement
<1> HIDE DEF s
<1>3. Step(d, s) = Do(d, s)
  BY DEF Step
<1>4. Do(d, s) = [d EXCEPT !.ok = FALSE]
  BY <1>2 DEF Do, RestorePartial, Fail
<1> QED
  BY <1>1, <1>3, <1>4 DEF DbFields

LEMMA PaidLowered ==
    ASSUME NEW d, DOMAIN d = DbFields, RowsTyped(d), d.ok, SchemaAt(d, 21)
    PROVE  SchemaAt(Run(d, Sequence[21].down), 20)
<1> DEFINE r == Run(d, Sequence[21].down)
<1>0. PaidAmount = <<"order_items", "paid_amount">>
  BY DEF PaidAmount
<1>1. Grows(d, r, {PaidAmount}, {}, {}, {})
  <2>1. r = Step(d, AddColumn("order_items", "paid_amount"))
    BY RunOne, SequenceParts DEF RemovePaidAmountFromOrderItems, Migration
  <2>2. <<"order_items", "paid_amount">> \notin d.columns
    BY <1>0 DEF SchemaAt, ColumnsAt
  <2>3. Grows(d, Step(d, AddColumn("order_items", "paid_amount")),
              {<<"order_items", "paid_amount">>}, {}, {}, {})
    BY <2>2, AddGrows
  <2> HIDE DEF r
  <2> QED
    BY <1>0, <2>1, <2>3
<1> HIDE DEF r
<1>2. /\ r.columns = d.columns \cup {PaidAmount} /\ r.unique = d.unique /\ r.labels = d.labels
      /\ r.keys = d.keys
  BY <1>1 DEF Grows
<1>3. Added(21) = {} /\ IndexesOf(21) = {}
  BY NothingElse DEF Added
<1>4. 21 \in (2..24) \ {7, 20} /\ 21 - 1 = 20 /\ 21 # 24
  OBVIOUS
<1>5. ColumnsAt(r, 20)
  <2>1. r.columns \subseteq KnownColumns
    <3>1. \E t \in TableStatements : PaidAmount \in Cols(t.table, t.columns)
      <4>1. InitialOrders[4] \in TableStatements
        BY DEF TableStatements
      <4>2. PaidAmount \in Cols(InitialOrders[4].table, InitialOrders[4].columns)
        BY DEF InitialOrders, CreateTableIfNotExists, PaidAmount, Cols
      <4> QED
        BY <4>1, <4>2
    <3> QED
      BY <1>2, <3>1, ColumnOrigin DEF SchemaAt, ColumnsAt
  <2>2. \A t \in TableStatements : Lasting(t) \subseteq r.columns
    BY <1>2 DEF SchemaAt, ColumnsAt
  <2>3. \A j \in 2..20 : Added(j) \subseteq r.columns
    BY <1>2 DEF SchemaAt, ColumnsAt
  <2>4. \A j \in Strict : j > 20 => Added(j) \cap r.columns = {}
    <3>1. ASSUME NEW j \in Strict, j > 20 PROVE Added(j) \cap r.columns = {}
      <4>1. j \in 2..24 /\ j > 21
        BY <3>1 DEF Strict
      <4>2. Added(j) \cap d.columns = {} /\ PaidAmount \notin Added(j)
        BY <4>1, Specials DEF SchemaAt, ColumnsAt
      <4> QED
        BY <1>2, <4>2
    <3> QED
      BY <3>1
  <2>5. Cif \in r.columns /\ TaxId \notin r.columns
    BY <1>2, Literals DEF SchemaAt, ColumnsAt
  <2> QED
    BY <2>1, <2>2, <2>3, <2>4, <2>5 DEF ColumnsAt
<1>6. UniqueAt(r, 21 - 1)
  <2>1. /\ UniqueAt(d, 21) /\ r.unique \subseteq d.unique
        /\ d.unique \ r.unique \subseteq IndexesOf(21)
    BY <1>2 DEF SchemaAt
  <2> QED
    BY <1>4, <2>1, UniqueLowered
<1>7. LabelsAt(r, 21 - 1)
  <2>1. LabelsAt(d, 21) /\ r.labels = IF 21 = 24 THEN d.labels \ LabelsOf(24) ELSE d.labels
    BY <1>2, <1>4 DEF SchemaAt
  <2> QED
    BY <1>4, <2>1, LabelsLowered
<1>8. KeysAt(r, 21 - 1)
  <2>1. \A x \in d.keys \ r.keys : <<x.table, x.column>> \in Added(21) \cup {SaleUser}
    BY <1>2
  <2>2. \A x \in r.keys : <<x.table, x.column>> \in r.columns
    BY <1>2 DEF SchemaAt, KeysAt
  <2>3. r.keys \subseteq d.keys /\ KeysAt(d, 21)
    BY <1>2 DEF SchemaAt
  <2> QED
    BY <1>4, <2>1, <2>2, <2>3, KeysLowered
<1> QED
  BY <1>4, <1>5, <1>6, <1>7, <1>8 DEF SchemaAt, r

\* All of them: a revert that succeeds leaves the schema of the migration before.
LEMMA Lowered ==
    ASSUME NEW d, NEW i \in 2..24, RowsTyped(d), d.ok, SchemaAt(d, i)
    PROVE  LET r == Run(d, Sequence[i].down) IN r.ok => SchemaAt(r, i - 1)
<1>1. DOMAIN d = DbFields
  BY DEF RowsTyped
<1>2. CASE i \in (2..24) \ {3, 5, 7, 15, 20, 21, 22, 24}
  <2>1. Lowers(d, i)
    BY <1>1, <1>2, OneLowers, TwoLower, NoneLower, PeriodLowers
  <2> QED
    BY <1>2, <2>1, LoweredBy DEF Lowers
<1>3. CASE i \in {3, 22, 24}
  BY <1>1, <1>3, ConfigLowered, BasketsLowered, PaymentsLowered
<1>4. CASE i \in {5, 7, 15, 20, 21}
  BY <1>1, <1>4, SalesLowered, DeletionLowered, CifLowered, PartialLowered, PaidLowered
<1> QED
  BY <1>2, <1>3, <1>4

-----------------------------------------------------------------------------
(* The first migration *)

\* The names of the enumerated types and tables of InitialSchema are all different.
LEMMA EnumNames ==
    \A s \in EnumStatements : s.op = "enum" /\ \A t \in EnumStatements : s.enum = t.enum => s = t
<1>1. /\ InitialEnums[1].enum = "users_roles_enum"
      /\ InitialEnums[2].enum = "articles_unit_measure_enum"
      /\ InitialEnums[3].enum = "orders_payment_status_enum"
      /\ InitialEnums[4].enum = "sales_payment_status_enum"
      /\ InitialEnums[5].enum = "periods_recurrence_enum"
  BY DEF InitialEnums, CreateEnumIfNotExists
<1>2. \A i \in 1..5, j \in 1..5 : InitialEnums[i].enum = InitialEnums[j].enum => i = j
  BY <1>1
<1>3. \A i \in 1..5 : InitialEnums[i].op = "enum"
  BY DEF InitialEnums, CreateEnumIfNotExists
<1> QED
  BY <1>2, <1>3 DEF EnumStatements

TableNumber(t) ==
    CASE t = "users" -> 1
      [] t = "consumer_groups" -> 2
      [] t = "refresh_tokens" -> 3
      [] t = "suppliers" -> 4
      [] t = "producers" -> 5
      [] t = "articles" -> 6
      [] t = "article_price_history" -> 7
      [] t = "categories" -> 8
      [] t = "periods" -> 9
      [] t = "period_articles" -> 10
      [] t = "orders" -> 11
      [] t = "order_items" -> 12
      [] t = "sales" -> 13
      [] t = "sale_items" -> 14
      [] t = "notices" -> 15
      [] t = "user_consumer_groups" -> 16
      [] t = "group_invitations" -> 17
      [] OTHER -> 0

\* Each table of InitialSchema has its number.
LEMMA TableNumbers ==
    /\ \A j \in 1..8 : TableNumber(InitialCatalogue[j].table) = j
    /\ \A j \in 1..9 : TableNumber(InitialOrders[j].table) = 8 + j
<1>1. /\ InitialCatalogue[1].table = "users"
      /\ InitialCatalogue[2].table = "consumer_groups"
      /\ InitialCatalogue[3].table = "refresh_tokens"
      /\ InitialCatalogue[4].table = "suppliers"
      /\ InitialCatalogue[5].table = "producers"
      /\ InitialCatalogue[6].table = "articles"
      /\ InitialCatalogue[7].table = "article_price_history"
      /\ InitialCatalogue[8].table = "categories"
  BY DEF InitialCatalogue, CreateTableIfNotExists
<1>2. /\ InitialOrders[1].table = "periods"
      /\ InitialOrders[2].table = "period_articles"
      /\ InitialOrders[3].table = "orders"
      /\ InitialOrders[4].table = "order_items"
      /\ InitialOrders[5].table = "sales"
      /\ InitialOrders[6].table = "sale_items"
      /\ InitialOrders[7].table = "notices"
      /\ InitialOrders[8].table = "user_consumer_groups"
      /\ InitialOrders[9].table = "group_invitations"
  BY DEF InitialOrders, CreateTableIfNotExists
<1>3. \A j \in 1..8 : TableNumber(InitialCatalogue[j].table) = j
  BY <1>1 DEF TableNumber
<1>4. \A j \in 1..9 : TableNumber(InitialOrders[j].table) = 8 + j
  BY <1>2 DEF TableNumber
<1> QED
  BY <1>3, <1>4

LEMMA TableNames ==
    \A s \in TableStatements, t \in TableStatements : s.table = t.table => s = t
<1>1. \A s \in TableStatements : \/ \E i \in 1..8 : s = InitialCatalogue[i]
                                 \/ \E i \in 1..9 : s = InitialOrders[i]
  BY DEF TableStatements
<1> SUFFICES ASSUME NEW s \in TableStatements, NEW t \in TableStatements, s.table = t.table
             PROVE  s = t
  OBVIOUS
<1>2. TableNumber(s.table) = TableNumber(t.table)
  OBVIOUS
<1> QED
  BY <1>1, <1>2, TableNumbers

\* What these tables have.
LEMMA TableParts ==
    \A s \in TableStatements :
        /\ s.op = "createMissing"
        /\ Cif \notin Cols(s.table, s.columns)
        /\ TaxId \in Cols(s.table, s.columns) <=> s.table = "suppliers"
        /\ {s.table} \X s.unique \subseteq InitialUnique
        /\ s.columns # {}
<1> DEFINE G(s) == /\ s.op = "createMissing"
                   /\ Cif \notin Cols(s.table, s.columns)
                   /\ TaxId \in Cols(s.table, s.columns) <=> s.table = "suppliers"
                   /\ {s.table} \X s.unique \subseteq InitialUnique
                   /\ s.columns # {}
<1>1. G(InitialCatalogue[1]) /\ G(InitialCatalogue[2]) /\ G(InitialCatalogue[3])
  BY DEF InitialCatalogue, CreateTableIfNotExists, Cif, TaxId, Cols, InitialUnique
<1>2. G(InitialCatalogue[4]) /\ G(InitialCatalogue[5]) /\ G(InitialCatalogue[6])
  BY DEF InitialCatalogue, CreateTableIfNotExists, Cif, TaxId, Cols, InitialUnique
<1>3. G(InitialCatalogue[7]) /\ G(InitialCatalogue[8])
  BY DEF InitialCatalogue, CreateTableIfNotExists, Cif, TaxId, Cols, InitialUnique
<1>4. G(InitialOrders[1]) /\ G(InitialOrders[2]) /\ G(InitialOrders[3])
  BY DEF InitialOrders, CreateTableIfNotExists, Cif, TaxId, Cols, InitialUnique
<1>5. G(InitialOrders[4]) /\ G(InitialOrders[5]) /\ G(InitialOrders[6])
  BY DEF InitialOrders, CreateTableIfNotExists, Cif, TaxId, Cols, InitialUnique
<1>6. G(InitialOrders[7]) /\ G(InitialOrders[8]) /\ G(InitialOrders[9])
  BY DEF InitialOrders, CreateTableIfNotExists, Cif, TaxId, Cols, InitialUnique
<1> HIDE DEF G
<1>7. \A s \in TableStatements : G(s)
  <2>1. \A j \in 1..8 : G(InitialCatalogue[j])
    BY <1>1, <1>2, <1>3
  <2>2. \A j \in 1..9 : G(InitialOrders[j])
    BY <1>4, <1>5, <1>6
  <2> QED
    BY <2>1, <2>2 DEF TableStatements
<1> QED
  <2> SUFFICES \A s \in TableStatements : G(s)
    BY DEF G
  <2> QED
    BY <1>7

\* Columns that must be absent before their migrations are in none of them.
LEMMA TablesBeforeStrict ==
    \A s \in TableStatements, i \in Strict : Added(i) \cap Cols(s.table, s.columns) = {}
<1> DEFINE G(s) == /\ s.table = "articles" => "customization_options" \notin s.columns
                   /\ s.table = "order_items" => {"period_id", "selected_options", "is_prepared"}
                                                 \cap s.columns = {}
<1>1. \A j \in 1..8 : G(InitialCatalogue[j])
  BY DEF InitialCatalogue, CreateTableIfNotExists
<1>2. \A j \in 1..9 : G(InitialOrders[j])
  BY DEF InitialOrders, CreateTableIfNotExists
<1>3. \A s \in TableStatements : G(s)
  BY <1>1, <1>2 DEF TableStatements
<1>4. ASSUME NEW s \in TableStatements, NEW i \in {14, 19, 23}
      PROVE  Added(i) \cap Cols(s.table, s.columns) = {}
  <2>1. \A c \in Added(i) : \/ c = <<"order_items", "period_id">>
                            \/ c = <<"articles", "customization_options">>
                            \/ c = <<"order_items", "selected_options">>
                            \/ c = <<"order_items", "is_prepared">>
    BY DEF Added
  <2>2. ASSUME NEW c \in Cols(s.table, s.columns)
        PROVE  c[1] = s.table /\ c[2] \in s.columns
    BY <2>2 DEF Cols
  <2>3. ASSUME NEW c \in Added(i), c[1] = s.table, c[2] \in s.columns PROVE FALSE
    <3>1. G(s)
      BY <1>3
    <3> QED
      BY <2>1, <2>3, <3>1
  <2> QED
    BY <2>2, <2>3
<1>5. ASSUME NEW s \in TableStatements, NEW i \in {3, 22, 24}
      PROVE  Added(i) \cap Cols(s.table, s.columns) = {}
  <2>1. \A c \in Added(i) : c[1] \in {"system_config", "basket_schedule_config",
            "basket_schedule_votes", "basket_schedule_assignments", "period_user_payments"}
    BY OwnTables, ColumnOrigin
  <2> QED
    BY <2>1, InitialTables DEF Cols
<1> QED
  BY <1>4, <1>5 DEF Strict

\* The keys of InitialSchema.
KeyStatement(s, t, c, r) == s = AddForeignKeyIfNotExists(t, c, r)

\* The keys of InitialSchema, one by one.
LEMMA KeyList ==
    /\ KeyStatement(InitialKeys[1], "refresh_tokens", "user_email", "CASCADE")
    /\ KeyStatement(InitialKeys[2], "suppliers", "consumer_group_id", "CASCADE")
    /\ KeyStatement(InitialKeys[3], "producers", "supplier_id", "SET NULL")
    /\ KeyStatement(InitialKeys[4], "producers", "consumer_group_id", "CASCADE")
    /\ KeyStatement(InitialKeys[5], "articles", "producer_id", "SET NULL")
    /\ KeyStatement(InitialKeys[6], "articles", "consumer_group_id", "CASCADE")
    /\ KeyStatement(InitialKeys[7], "article_price_history", "article_id", "CASCADE")
    /\ KeyStatement(InitialKeys[8], "categories", "consumer_group_id", "CASCADE")
    /\ KeyStatement(InitialKeys[9], "periods", "supplier_id", "CASCADE")
    /\ KeyStatement(InitialKeys[10], "period_articles", "period_id", "CASCADE")
    /\ KeyStatement(InitialKeys[11], "period_articles", "article_id", "CASCADE")
    /\ KeyStatement(InitialKeys[12], "orders", "user_id", "CASCADE")
    /\ KeyStatement(InitialKeys[13], "orders", "consumer_group_id", "CASCADE")
    /\ KeyStatement(InitialKeys[14], "order_items", "order_id", "CASCADE")
    /\ KeyStatement(InitialKeys[15], "order_items", "article_id", "RESTRICT")
    /\ KeyStatement(InitialKeys[16], "sales", "user_email", "CASCADE")
    /\ KeyStatement(InitialKeys[17], "sales", "consumer_group_id", "CASCADE")
    /\ KeyStatement(InitialKeys[18], "sale_items", "sale_id", "CASCADE")
    /\ KeyStatement(InitialKeys[19], "sale_items", "article_id", "RESTRICT")
    /\ KeyStatement(InitialKeys[20], "notices", "groupId", "CASCADE")
    /\ KeyStatement(InitialKeys[21], "user_consumer_groups", "user_email", "CASCADE")
    /\ KeyStatement(InitialKeys[22], "user_consumer_groups", "consumer_group_id", "CASCADE")
BY DEF InitialKeys, KeyStatement

\* A key of InitialSchema: its column is one of the old ones, and refers.
OldKey(s) ==
    LET c == <<s.key.table, s.key.column>>
    IN  /\ s.op = "keyMissing" /\ s.key = Key(s.key.table, s.key.column, s.key.rule)
        /\ ~s.key.auto
        /\ c \in RefersFrom(1) \cup {SaleUser}
        /\ s.key.rule = IF c = LineArticle THEN "RESTRICT" ELSE RuleOf(c)

\* So all its keys are.
LEMMA KeyIsOld ==
    ASSUME NEW s, NEW t, NEW c, NEW r, KeyStatement(s, t, c, r),
           <<t, c>> \in RefersFrom(1) \cup {SaleUser},
           r = IF <<t, c>> = LineArticle THEN "RESTRICT" ELSE RuleOf(<<t, c>>)
    PROVE  OldKey(s)
<1>1. s.op = "keyMissing" /\ s.key = Key(t, c, r)
  BY DEF KeyStatement, AddForeignKeyIfNotExists
<1>2. s.key.table = t /\ s.key.column = c /\ s.key.rule = r /\ s.key.auto = FALSE
  BY <1>1 DEF Key
<1>3. ~s.key.auto
  BY <1>2
<1> QED
  BY <1>1, <1>2, <1>3 DEF OldKey

LEMMA OldKeys == \A j \in 1..22 : OldKey(InitialKeys[j])
<1>1. SaleUser = <<"sales", "user_email">> /\ LineArticle = <<"order_items", "article_id">>
  BY DEF SaleUser, LineArticle
<1>2. ASSUME NEW t, NEW c,
             <<t, c>> \notin {<<"producers", "supplier_id">>, <<"articles", "producer_id">>,
                             <<"order_items", "period_id">>, <<"sale_items", "article_id">>}
      PROVE  RuleOf(<<t, c>>) = "CASCADE"
  BY <1>2 DEF RuleOf
<1>3. /\ RuleOf(<<"producers", "supplier_id">>) = SetNull
      /\ RuleOf(<<"articles", "producer_id">>) = SetNull
      /\ RuleOf(<<"sale_items", "article_id">>) = "RESTRICT"
  BY DEF RuleOf
<1>4. /\ KeyStatement(InitialKeys[3], "producers", "supplier_id", SetNull)
      /\ KeyStatement(InitialKeys[5], "articles", "producer_id", SetNull)
  BY KeyList, Zenon DEF SetNull
<1>5. RefersFrom(1) = {<<"refresh_tokens", "user_email">>, <<"suppliers", "consumer_group_id">>,
                       <<"producers", "supplier_id">>, <<"producers", "consumer_group_id">>,
                       <<"articles", "producer_id">>, <<"articles", "consumer_group_id">>,
                       <<"article_price_history", "article_id">>,
                       <<"categories", "consumer_group_id">>,
                       <<"periods", "supplier_id">>, <<"period_articles", "period_id">>,
                       <<"period_articles", "article_id">>, <<"orders", "user_id">>,
                       <<"orders", "consumer_group_id">>, <<"order_items", "order_id">>,
                       <<"order_items", "article_id">>, <<"sales", "consumer_group_id">>,
                       <<"sale_items", "sale_id">>, <<"sale_items", "article_id">>,
                       <<"notices", "groupId">>, <<"user_consumer_groups", "user_email">>,
                       <<"user_consumer_groups", "consumer_group_id">>}
  BY DEF RefersFrom
<1>6. OldKey(InitialKeys[1])
  <2> DEFINE x == <<"refresh_tokens", "user_email">>
  <2>1. KeyStatement(InitialKeys[1], "refresh_tokens", "user_email", "CASCADE")
    BY KeyList
  <2>2. x \in RefersFrom(1) \cup {SaleUser}
    BY <1>1, <1>5
  <2>3. "CASCADE" = IF x = LineArticle THEN "RESTRICT" ELSE RuleOf(x)
    BY <1>1, <1>2, <1>3
  <2> QED
    BY <2>1, <2>2, <2>3, KeyIsOld
<1>7. OldKey(InitialKeys[2])
  <2> DEFINE x == <<"suppliers", "consumer_group_id">>
  <2>1. KeyStatement(InitialKeys[2], "suppliers", "consumer_group_id", "CASCADE")
    BY KeyList
  <2>2. x \in RefersFrom(1) \cup {SaleUser}
    BY <1>1, <1>5
  <2>3. "CASCADE" = IF x = LineArticle THEN "RESTRICT" ELSE RuleOf(x)
    BY <1>1, <1>2, <1>3
  <2> QED
    BY <2>1, <2>2, <2>3, KeyIsOld
<1>8. OldKey(InitialKeys[3])
  <2> DEFINE x == <<"producers", "supplier_id">>
  <2>1. KeyStatement(InitialKeys[3], "producers", "supplier_id", SetNull)
    BY <1>4
  <2>2. x \in RefersFrom(1) \cup {SaleUser}
    BY <1>1, <1>5
  <2>3. SetNull = IF x = LineArticle THEN "RESTRICT" ELSE RuleOf(x)
    BY <1>1, <1>2, <1>3
  <2> QED
    BY <2>1, <2>2, <2>3, KeyIsOld
<1>9. OldKey(InitialKeys[4])
  <2> DEFINE x == <<"producers", "consumer_group_id">>
  <2>1. KeyStatement(InitialKeys[4], "producers", "consumer_group_id", "CASCADE")
    BY KeyList
  <2>2. x \in RefersFrom(1) \cup {SaleUser}
    BY <1>1, <1>5
  <2>3. "CASCADE" = IF x = LineArticle THEN "RESTRICT" ELSE RuleOf(x)
    BY <1>1, <1>2, <1>3
  <2> QED
    BY <2>1, <2>2, <2>3, KeyIsOld
<1>10. OldKey(InitialKeys[5])
  <2> DEFINE x == <<"articles", "producer_id">>
  <2>1. KeyStatement(InitialKeys[5], "articles", "producer_id", SetNull)
    BY <1>4
  <2>2. x \in RefersFrom(1) \cup {SaleUser}
    BY <1>1, <1>5
  <2>3. SetNull = IF x = LineArticle THEN "RESTRICT" ELSE RuleOf(x)
    BY <1>1, <1>2, <1>3
  <2> QED
    BY <2>1, <2>2, <2>3, KeyIsOld
<1>11. OldKey(InitialKeys[6])
  <2> DEFINE x == <<"articles", "consumer_group_id">>
  <2>1. KeyStatement(InitialKeys[6], "articles", "consumer_group_id", "CASCADE")
    BY KeyList
  <2>2. x \in RefersFrom(1) \cup {SaleUser}
    BY <1>1, <1>5
  <2>3. "CASCADE" = IF x = LineArticle THEN "RESTRICT" ELSE RuleOf(x)
    BY <1>1, <1>2, <1>3
  <2> QED
    BY <2>1, <2>2, <2>3, KeyIsOld
<1>12. OldKey(InitialKeys[7])
  <2> DEFINE x == <<"article_price_history", "article_id">>
  <2>1. KeyStatement(InitialKeys[7], "article_price_history", "article_id", "CASCADE")
    BY KeyList
  <2>2. x \in RefersFrom(1) \cup {SaleUser}
    BY <1>1, <1>5
  <2>3. "CASCADE" = IF x = LineArticle THEN "RESTRICT" ELSE RuleOf(x)
    BY <1>1, <1>2, <1>3
  <2> QED
    BY <2>1, <2>2, <2>3, KeyIsOld
<1>13. OldKey(InitialKeys[8])
  <2> DEFINE x == <<"categories", "consumer_group_id">>
  <2>1. KeyStatement(InitialKeys[8], "categories", "consumer_group_id", "CASCADE")
    BY KeyList
  <2>2. x \in RefersFrom(1) \cup {SaleUser}
    BY <1>1, <1>5
  <2>3. "CASCADE" = IF x = LineArticle THEN "RESTRICT" ELSE RuleOf(x)
    BY <1>1, <1>2, <1>3
  <2> QED
    BY <2>1, <2>2, <2>3, KeyIsOld
<1>14. OldKey(InitialKeys[9])
  <2> DEFINE x == <<"periods", "supplier_id">>
  <2>1. KeyStatement(InitialKeys[9], "periods", "supplier_id", "CASCADE")
    BY KeyList
  <2>2. x \in RefersFrom(1) \cup {SaleUser}
    BY <1>1, <1>5
  <2>3. "CASCADE" = IF x = LineArticle THEN "RESTRICT" ELSE RuleOf(x)
    BY <1>1, <1>2, <1>3
  <2> QED
    BY <2>1, <2>2, <2>3, KeyIsOld
<1>15. OldKey(InitialKeys[10])
  <2> DEFINE x == <<"period_articles", "period_id">>
  <2>1. KeyStatement(InitialKeys[10], "period_articles", "period_id", "CASCADE")
    BY KeyList
  <2>2. x \in RefersFrom(1) \cup {SaleUser}
    BY <1>1, <1>5
  <2>3. "CASCADE" = IF x = LineArticle THEN "RESTRICT" ELSE RuleOf(x)
    BY <1>1, <1>2, <1>3
  <2> QED
    BY <2>1, <2>2, <2>3, KeyIsOld
<1>16. OldKey(InitialKeys[11])
  <2> DEFINE x == <<"period_articles", "article_id">>
  <2>1. KeyStatement(InitialKeys[11], "period_articles", "article_id", "CASCADE")
    BY KeyList
  <2>2. x \in RefersFrom(1) \cup {SaleUser}
    BY <1>1, <1>5
  <2>3. "CASCADE" = IF x = LineArticle THEN "RESTRICT" ELSE RuleOf(x)
    BY <1>1, <1>2, <1>3
  <2> QED
    BY <2>1, <2>2, <2>3, KeyIsOld
<1>17. OldKey(InitialKeys[12])
  <2> DEFINE x == <<"orders", "user_id">>
  <2>1. KeyStatement(InitialKeys[12], "orders", "user_id", "CASCADE")
    BY KeyList
  <2>2. x \in RefersFrom(1) \cup {SaleUser}
    BY <1>1, <1>5
  <2>3. "CASCADE" = IF x = LineArticle THEN "RESTRICT" ELSE RuleOf(x)
    BY <1>1, <1>2, <1>3
  <2> QED
    BY <2>1, <2>2, <2>3, KeyIsOld
<1>18. OldKey(InitialKeys[13])
  <2> DEFINE x == <<"orders", "consumer_group_id">>
  <2>1. KeyStatement(InitialKeys[13], "orders", "consumer_group_id", "CASCADE")
    BY KeyList
  <2>2. x \in RefersFrom(1) \cup {SaleUser}
    BY <1>1, <1>5
  <2>3. "CASCADE" = IF x = LineArticle THEN "RESTRICT" ELSE RuleOf(x)
    BY <1>1, <1>2, <1>3
  <2> QED
    BY <2>1, <2>2, <2>3, KeyIsOld
<1>19. OldKey(InitialKeys[14])
  <2> DEFINE x == <<"order_items", "order_id">>
  <2>1. KeyStatement(InitialKeys[14], "order_items", "order_id", "CASCADE")
    BY KeyList
  <2>2. x \in RefersFrom(1) \cup {SaleUser}
    BY <1>1, <1>5
  <2>3. "CASCADE" = IF x = LineArticle THEN "RESTRICT" ELSE RuleOf(x)
    BY <1>1, <1>2, <1>3
  <2> QED
    BY <2>1, <2>2, <2>3, KeyIsOld
<1>20. OldKey(InitialKeys[15])
  <2> DEFINE x == <<"order_items", "article_id">>
  <2>1. KeyStatement(InitialKeys[15], "order_items", "article_id", "RESTRICT")
    BY KeyList
  <2>2. x \in RefersFrom(1) \cup {SaleUser}
    BY <1>1, <1>5
  <2>3. "RESTRICT" = IF x = LineArticle THEN "RESTRICT" ELSE RuleOf(x)
    BY <1>1, <1>2, <1>3
  <2> QED
    BY <2>1, <2>2, <2>3, KeyIsOld
<1>21. OldKey(InitialKeys[16])
  <2> DEFINE x == <<"sales", "user_email">>
  <2>1. KeyStatement(InitialKeys[16], "sales", "user_email", "CASCADE")
    BY KeyList
  <2>2. x \in RefersFrom(1) \cup {SaleUser}
    BY <1>1, <1>5
  <2>3. "CASCADE" = IF x = LineArticle THEN "RESTRICT" ELSE RuleOf(x)
    BY <1>1, <1>2, <1>3
  <2> QED
    BY <2>1, <2>2, <2>3, KeyIsOld
<1>22. OldKey(InitialKeys[17])
  <2> DEFINE x == <<"sales", "consumer_group_id">>
  <2>1. KeyStatement(InitialKeys[17], "sales", "consumer_group_id", "CASCADE")
    BY KeyList
  <2>2. x \in RefersFrom(1) \cup {SaleUser}
    BY <1>1, <1>5
  <2>3. "CASCADE" = IF x = LineArticle THEN "RESTRICT" ELSE RuleOf(x)
    BY <1>1, <1>2, <1>3
  <2> QED
    BY <2>1, <2>2, <2>3, KeyIsOld
<1>23. OldKey(InitialKeys[18])
  <2> DEFINE x == <<"sale_items", "sale_id">>
  <2>1. KeyStatement(InitialKeys[18], "sale_items", "sale_id", "CASCADE")
    BY KeyList
  <2>2. x \in RefersFrom(1) \cup {SaleUser}
    BY <1>1, <1>5
  <2>3. "CASCADE" = IF x = LineArticle THEN "RESTRICT" ELSE RuleOf(x)
    BY <1>1, <1>2, <1>3
  <2> QED
    BY <2>1, <2>2, <2>3, KeyIsOld
<1>24. OldKey(InitialKeys[19])
  <2> DEFINE x == <<"sale_items", "article_id">>
  <2>1. KeyStatement(InitialKeys[19], "sale_items", "article_id", "RESTRICT")
    BY KeyList
  <2>2. x \in RefersFrom(1) \cup {SaleUser}
    BY <1>1, <1>5
  <2>3. "RESTRICT" = IF x = LineArticle THEN "RESTRICT" ELSE RuleOf(x)
    BY <1>1, <1>2, <1>3
  <2> QED
    BY <2>1, <2>2, <2>3, KeyIsOld
<1>25. OldKey(InitialKeys[20])
  <2> DEFINE x == <<"notices", "groupId">>
  <2>1. KeyStatement(InitialKeys[20], "notices", "groupId", "CASCADE")
    BY KeyList
  <2>2. x \in RefersFrom(1) \cup {SaleUser}
    BY <1>1, <1>5
  <2>3. "CASCADE" = IF x = LineArticle THEN "RESTRICT" ELSE RuleOf(x)
    BY <1>1, <1>2, <1>3
  <2> QED
    BY <2>1, <2>2, <2>3, KeyIsOld
<1>26. OldKey(InitialKeys[21])
  <2> DEFINE x == <<"user_consumer_groups", "user_email">>
  <2>1. KeyStatement(InitialKeys[21], "user_consumer_groups", "user_email", "CASCADE")
    BY KeyList
  <2>2. x \in RefersFrom(1) \cup {SaleUser}
    BY <1>1, <1>5
  <2>3. "CASCADE" = IF x = LineArticle THEN "RESTRICT" ELSE RuleOf(x)
    BY <1>1, <1>2, <1>3
  <2> QED
    BY <2>1, <2>2, <2>3, KeyIsOld
<1>27. OldKey(InitialKeys[22])
  <2> DEFINE x == <<"user_consumer_groups", "consumer_group_id">>
  <2>1. KeyStatement(InitialKeys[22], "user_consumer_groups", "consumer_group_id", "CASCADE")
    BY KeyList
  <2>2. x \in RefersFrom(1) \cup {SaleUser}
    BY <1>1, <1>5
  <2>3. "CASCADE" = IF x = LineArticle THEN "RESTRICT" ELSE RuleOf(x)
    BY <1>1, <1>2, <1>3
  <2> QED
    BY <2>1, <2>2, <2>3, KeyIsOld
<1> QED
  BY <1>6, <1>7, <1>8, <1>9, <1>10, <1>11, <1>12, <1>13,
     <1>14, <1>15, <1>16, <1>17, <1>18, <1>19, <1>20, <1>21,
     <1>22, <1>23, <1>24, <1>25, <1>26, <1>27

\* Each column that refers to a table of InitialSchema has its statement there.
LEMMA KeyForColumn ==
    \A c \in RefersFrom(1) :
        \E j \in 1..22 : c = <<InitialKeys[j].key.table, InitialKeys[j].key.column>>
<1> DEFINE G(c) == \E j \in 1..22 : c = <<InitialKeys[j].key.table, InitialKeys[j].key.column>>
<1>1. ASSUME NEW j \in 1..22, NEW t, NEW c, NEW r, KeyStatement(InitialKeys[j], t, c, r)
      PROVE  G(<<t, c>>)
  <2>1. InitialKeys[j].key.table = t /\ InitialKeys[j].key.column = c
    BY <1>1 DEF KeyStatement, AddForeignKeyIfNotExists, Key
  <2> QED
    BY <2>1
<1> HIDE DEF G
<1>2. G(<<"refresh_tokens", "user_email">>)
  <2>1. \E r : KeyStatement(InitialKeys[1], "refresh_tokens", "user_email", r)
    BY KeyList, Zenon
  <2>2. 1 \in 1..22
    OBVIOUS
  <2> QED
    BY <1>1, <2>1, <2>2
<1>3. G(<<"suppliers", "consumer_group_id">>)
  <2>1. \E r : KeyStatement(InitialKeys[2], "suppliers", "consumer_group_id", r)
    BY KeyList, Zenon
  <2>2. 2 \in 1..22
    OBVIOUS
  <2> QED
    BY <1>1, <2>1, <2>2
<1>4. G(<<"producers", "supplier_id">>)
  <2>1. \E r : KeyStatement(InitialKeys[3], "producers", "supplier_id", r)
    BY KeyList, Zenon
  <2>2. 3 \in 1..22
    OBVIOUS
  <2> QED
    BY <1>1, <2>1, <2>2
<1>5. G(<<"producers", "consumer_group_id">>)
  <2>1. \E r : KeyStatement(InitialKeys[4], "producers", "consumer_group_id", r)
    BY KeyList, Zenon
  <2>2. 4 \in 1..22
    OBVIOUS
  <2> QED
    BY <1>1, <2>1, <2>2
<1>6. G(<<"articles", "producer_id">>)
  <2>1. \E r : KeyStatement(InitialKeys[5], "articles", "producer_id", r)
    BY KeyList, Zenon
  <2>2. 5 \in 1..22
    OBVIOUS
  <2> QED
    BY <1>1, <2>1, <2>2
<1>7. G(<<"articles", "consumer_group_id">>)
  <2>1. \E r : KeyStatement(InitialKeys[6], "articles", "consumer_group_id", r)
    BY KeyList, Zenon
  <2>2. 6 \in 1..22
    OBVIOUS
  <2> QED
    BY <1>1, <2>1, <2>2
<1>8. G(<<"article_price_history", "article_id">>)
  <2>1. \E r : KeyStatement(InitialKeys[7], "article_price_history", "article_id", r)
    BY KeyList, Zenon
  <2>2. 7 \in 1..22
    OBVIOUS
  <2> QED
    BY <1>1, <2>1, <2>2
<1>9. G(<<"categories", "consumer_group_id">>)
  <2>1. \E r : KeyStatement(InitialKeys[8], "categories", "consumer_group_id", r)
    BY KeyList, Zenon
  <2>2. 8 \in 1..22
    OBVIOUS
  <2> QED
    BY <1>1, <2>1, <2>2
<1>10. G(<<"periods", "supplier_id">>)
  <2>1. \E r : KeyStatement(InitialKeys[9], "periods", "supplier_id", r)
    BY KeyList, Zenon
  <2>2. 9 \in 1..22
    OBVIOUS
  <2> QED
    BY <1>1, <2>1, <2>2
<1>11. G(<<"period_articles", "period_id">>)
  <2>1. \E r : KeyStatement(InitialKeys[10], "period_articles", "period_id", r)
    BY KeyList, Zenon
  <2>2. 10 \in 1..22
    OBVIOUS
  <2> QED
    BY <1>1, <2>1, <2>2
<1>12. G(<<"period_articles", "article_id">>)
  <2>1. \E r : KeyStatement(InitialKeys[11], "period_articles", "article_id", r)
    BY KeyList, Zenon
  <2>2. 11 \in 1..22
    OBVIOUS
  <2> QED
    BY <1>1, <2>1, <2>2
<1>13. G(<<"orders", "user_id">>)
  <2>1. \E r : KeyStatement(InitialKeys[12], "orders", "user_id", r)
    BY KeyList, Zenon
  <2>2. 12 \in 1..22
    OBVIOUS
  <2> QED
    BY <1>1, <2>1, <2>2
<1>14. G(<<"orders", "consumer_group_id">>)
  <2>1. \E r : KeyStatement(InitialKeys[13], "orders", "consumer_group_id", r)
    BY KeyList, Zenon
  <2>2. 13 \in 1..22
    OBVIOUS
  <2> QED
    BY <1>1, <2>1, <2>2
<1>15. G(<<"order_items", "order_id">>)
  <2>1. \E r : KeyStatement(InitialKeys[14], "order_items", "order_id", r)
    BY KeyList, Zenon
  <2>2. 14 \in 1..22
    OBVIOUS
  <2> QED
    BY <1>1, <2>1, <2>2
<1>16. G(<<"order_items", "article_id">>)
  <2>1. \E r : KeyStatement(InitialKeys[15], "order_items", "article_id", r)
    BY KeyList, Zenon
  <2>2. 15 \in 1..22
    OBVIOUS
  <2> QED
    BY <1>1, <2>1, <2>2
<1>17. G(<<"sales", "consumer_group_id">>)
  <2>1. \E r : KeyStatement(InitialKeys[17], "sales", "consumer_group_id", r)
    BY KeyList, Zenon
  <2>2. 17 \in 1..22
    OBVIOUS
  <2> QED
    BY <1>1, <2>1, <2>2
<1>18. G(<<"sale_items", "sale_id">>)
  <2>1. \E r : KeyStatement(InitialKeys[18], "sale_items", "sale_id", r)
    BY KeyList, Zenon
  <2>2. 18 \in 1..22
    OBVIOUS
  <2> QED
    BY <1>1, <2>1, <2>2
<1>19. G(<<"sale_items", "article_id">>)
  <2>1. \E r : KeyStatement(InitialKeys[19], "sale_items", "article_id", r)
    BY KeyList, Zenon
  <2>2. 19 \in 1..22
    OBVIOUS
  <2> QED
    BY <1>1, <2>1, <2>2
<1>20. G(<<"notices", "groupId">>)
  <2>1. \E r : KeyStatement(InitialKeys[20], "notices", "groupId", r)
    BY KeyList, Zenon
  <2>2. 20 \in 1..22
    OBVIOUS
  <2> QED
    BY <1>1, <2>1, <2>2
<1>21. G(<<"user_consumer_groups", "user_email">>)
  <2>1. \E r : KeyStatement(InitialKeys[21], "user_consumer_groups", "user_email", r)
    BY KeyList, Zenon
  <2>2. 21 \in 1..22
    OBVIOUS
  <2> QED
    BY <1>1, <2>1, <2>2
<1>22. G(<<"user_consumer_groups", "consumer_group_id">>)
  <2>1. \E r : KeyStatement(InitialKeys[22], "user_consumer_groups", "consumer_group_id", r)
    BY KeyList, Zenon
  <2>2. 22 \in 1..22
    OBVIOUS
  <2> QED
    BY <1>1, <2>1, <2>2
<1>23. \A c \in RefersFrom(1) : G(c)
  BY <1>2, <1>3, <1>4, <1>5, <1>6, <1>7, <1>8, <1>9,
     <1>10, <1>11, <1>12, <1>13, <1>14, <1>15, <1>16, <1>17,
     <1>18, <1>19, <1>20, <1>21, <1>22 DEF RefersFrom
<1> QED
  BY <1>23 DEF G

\* And stays in a table of InitialSchema.
LEMMA KeyHomes ==
    \A c \in RefersFrom(1) \cup {SaleUser} : \E s \in TableStatements : c \in Lasting(s)
<1> DEFINE G(c) == \E s \in TableStatements : c \in Cols(s.table, s.columns)
<1>1. ASSUME NEW s \in TableStatements, NEW c, c \in s.columns
      PROVE  G(<<s.table, c>>)
  BY <1>1 DEF Cols
<1>2. /\ \A j \in 1..8 : InitialCatalogue[j] \in TableStatements
      /\ \A j \in 1..9 : InitialOrders[j] \in TableStatements
  BY DEF TableStatements
<1> HIDE DEF G
<1>3. G(<<"refresh_tokens", "user_email">>)
  <2>1. InitialCatalogue[3].table = "refresh_tokens" /\ "user_email" \in InitialCatalogue[3].columns
    BY DEF InitialCatalogue, CreateTableIfNotExists
  <2>2. InitialCatalogue[3] \in TableStatements
    BY <1>2
  <2> QED
    BY <1>1, <2>1, <2>2
<1>4. G(<<"suppliers", "consumer_group_id">>)
  <2>1. /\ InitialCatalogue[4].table = "suppliers"
        /\ "consumer_group_id" \in InitialCatalogue[4].columns
    BY DEF InitialCatalogue, CreateTableIfNotExists
  <2>2. InitialCatalogue[4] \in TableStatements
    BY <1>2
  <2> QED
    BY <1>1, <2>1, <2>2
<1>5. G(<<"producers", "supplier_id">>)
  <2>1. InitialCatalogue[5].table = "producers" /\ "supplier_id" \in InitialCatalogue[5].columns
    BY DEF InitialCatalogue, CreateTableIfNotExists
  <2>2. InitialCatalogue[5] \in TableStatements
    BY <1>2
  <2> QED
    BY <1>1, <2>1, <2>2
<1>6. G(<<"producers", "consumer_group_id">>)
  <2>1. /\ InitialCatalogue[5].table = "producers"
        /\ "consumer_group_id" \in InitialCatalogue[5].columns
    BY DEF InitialCatalogue, CreateTableIfNotExists
  <2>2. InitialCatalogue[5] \in TableStatements
    BY <1>2
  <2> QED
    BY <1>1, <2>1, <2>2
<1>7. G(<<"articles", "producer_id">>)
  <2>1. InitialCatalogue[6].table = "articles" /\ "producer_id" \in InitialCatalogue[6].columns
    BY DEF InitialCatalogue, CreateTableIfNotExists
  <2>2. InitialCatalogue[6] \in TableStatements
    BY <1>2
  <2> QED
    BY <1>1, <2>1, <2>2
<1>8. G(<<"articles", "consumer_group_id">>)
  <2>1. /\ InitialCatalogue[6].table = "articles"
        /\ "consumer_group_id" \in InitialCatalogue[6].columns
    BY DEF InitialCatalogue, CreateTableIfNotExists
  <2>2. InitialCatalogue[6] \in TableStatements
    BY <1>2
  <2> QED
    BY <1>1, <2>1, <2>2
<1>9. G(<<"article_price_history", "article_id">>)
  <2>1. /\ InitialCatalogue[7].table = "article_price_history"
        /\ "article_id" \in InitialCatalogue[7].columns
    BY DEF InitialCatalogue, CreateTableIfNotExists
  <2>2. InitialCatalogue[7] \in TableStatements
    BY <1>2
  <2> QED
    BY <1>1, <2>1, <2>2
<1>10. G(<<"categories", "consumer_group_id">>)
  <2>1. /\ InitialCatalogue[8].table = "categories"
        /\ "consumer_group_id" \in InitialCatalogue[8].columns
    BY DEF InitialCatalogue, CreateTableIfNotExists
  <2>2. InitialCatalogue[8] \in TableStatements
    BY <1>2
  <2> QED
    BY <1>1, <2>1, <2>2
<1>11. G(<<"periods", "supplier_id">>)
  <2>1. InitialOrders[1].table = "periods" /\ "supplier_id" \in InitialOrders[1].columns
    BY DEF InitialOrders, CreateTableIfNotExists
  <2>2. InitialOrders[1] \in TableStatements
    BY <1>2
  <2> QED
    BY <1>1, <2>1, <2>2
<1>12. G(<<"period_articles", "period_id">>)
  <2>1. InitialOrders[2].table = "period_articles" /\ "period_id" \in InitialOrders[2].columns
    BY DEF InitialOrders, CreateTableIfNotExists
  <2>2. InitialOrders[2] \in TableStatements
    BY <1>2
  <2> QED
    BY <1>1, <2>1, <2>2
<1>13. G(<<"period_articles", "article_id">>)
  <2>1. InitialOrders[2].table = "period_articles" /\ "article_id" \in InitialOrders[2].columns
    BY DEF InitialOrders, CreateTableIfNotExists
  <2>2. InitialOrders[2] \in TableStatements
    BY <1>2
  <2> QED
    BY <1>1, <2>1, <2>2
<1>14. G(<<"orders", "user_id">>)
  <2>1. InitialOrders[3].table = "orders" /\ "user_id" \in InitialOrders[3].columns
    BY DEF InitialOrders, CreateTableIfNotExists
  <2>2. InitialOrders[3] \in TableStatements
    BY <1>2
  <2> QED
    BY <1>1, <2>1, <2>2
<1>15. G(<<"orders", "consumer_group_id">>)
  <2>1. InitialOrders[3].table = "orders" /\ "consumer_group_id" \in InitialOrders[3].columns
    BY DEF InitialOrders, CreateTableIfNotExists
  <2>2. InitialOrders[3] \in TableStatements
    BY <1>2
  <2> QED
    BY <1>1, <2>1, <2>2
<1>16. G(<<"order_items", "order_id">>)
  <2>1. InitialOrders[4].table = "order_items" /\ "order_id" \in InitialOrders[4].columns
    BY DEF InitialOrders, CreateTableIfNotExists
  <2>2. InitialOrders[4] \in TableStatements
    BY <1>2
  <2> QED
    BY <1>1, <2>1, <2>2
<1>17. G(<<"order_items", "article_id">>)
  <2>1. InitialOrders[4].table = "order_items" /\ "article_id" \in InitialOrders[4].columns
    BY DEF InitialOrders, CreateTableIfNotExists
  <2>2. InitialOrders[4] \in TableStatements
    BY <1>2
  <2> QED
    BY <1>1, <2>1, <2>2
<1>18. G(<<"sales", "user_email">>)
  <2>1. InitialOrders[5].table = "sales" /\ "user_email" \in InitialOrders[5].columns
    BY DEF InitialOrders, CreateTableIfNotExists
  <2>2. InitialOrders[5] \in TableStatements
    BY <1>2
  <2> QED
    BY <1>1, <2>1, <2>2
<1>19. G(<<"sales", "consumer_group_id">>)
  <2>1. InitialOrders[5].table = "sales" /\ "consumer_group_id" \in InitialOrders[5].columns
    BY DEF InitialOrders, CreateTableIfNotExists
  <2>2. InitialOrders[5] \in TableStatements
    BY <1>2
  <2> QED
    BY <1>1, <2>1, <2>2
<1>20. G(<<"sale_items", "sale_id">>)
  <2>1. InitialOrders[6].table = "sale_items" /\ "sale_id" \in InitialOrders[6].columns
    BY DEF InitialOrders, CreateTableIfNotExists
  <2>2. InitialOrders[6] \in TableStatements
    BY <1>2
  <2> QED
    BY <1>1, <2>1, <2>2
<1>21. G(<<"sale_items", "article_id">>)
  <2>1. InitialOrders[6].table = "sale_items" /\ "article_id" \in InitialOrders[6].columns
    BY DEF InitialOrders, CreateTableIfNotExists
  <2>2. InitialOrders[6] \in TableStatements
    BY <1>2
  <2> QED
    BY <1>1, <2>1, <2>2
<1>22. G(<<"notices", "groupId">>)
  <2>1. InitialOrders[7].table = "notices" /\ "groupId" \in InitialOrders[7].columns
    BY DEF InitialOrders, CreateTableIfNotExists
  <2>2. InitialOrders[7] \in TableStatements
    BY <1>2
  <2> QED
    BY <1>1, <2>1, <2>2
<1>23. G(<<"user_consumer_groups", "user_email">>)
  <2>1. InitialOrders[8].table = "user_consumer_groups" /\ "user_email" \in InitialOrders[8].columns
    BY DEF InitialOrders, CreateTableIfNotExists
  <2>2. InitialOrders[8] \in TableStatements
    BY <1>2
  <2> QED
    BY <1>1, <2>1, <2>2
<1>24. G(<<"user_consumer_groups", "consumer_group_id">>)
  <2>1. /\ InitialOrders[8].table = "user_consumer_groups"
        /\ "consumer_group_id" \in InitialOrders[8].columns
    BY DEF InitialOrders, CreateTableIfNotExists
  <2>2. InitialOrders[8] \in TableStatements
    BY <1>2
  <2> QED
    BY <1>1, <2>1, <2>2
<1>25. \A c \in RefersFrom(1) \cup {SaleUser} : G(c)
  BY <1>3, <1>4, <1>5, <1>6, <1>7, <1>8, <1>9, <1>10,
     <1>11, <1>12, <1>13, <1>14, <1>15, <1>16, <1>17, <1>18,
     <1>19, <1>20, <1>21, <1>22, <1>23, <1>24 DEF RefersFrom, SaleUser
<1> SUFFICES ASSUME NEW c \in RefersFrom(1) \cup {SaleUser}
             PROVE  \E s \in TableStatements : c \in Lasting(s)
  OBVIOUS
<1>26. PICK s \in TableStatements : c \in Cols(s.table, s.columns)
  BY <1>25 DEF G
<1>27. c \notin {TaxId, PaidAmount} /\ \A i \in 2..24 : c \notin Added(i)
  <2>1. c \in ReferringColumns
    BY DEF ReferringColumns
  <2> QED
    BY <2>1, Literals, OldReferences, Specials
<1> QED
  BY <1>26, <1>27, LastingIs

\* What InitialSchema may leave: more than there was, and still one of its databases.
Stands(d, e) ==
    /\ RowsTyped(e) /\ e.ok /\ SchemaAt(e, 0)
    /\ d.columns \subseteq e.columns /\ d.labels \subseteq e.labels
    /\ d.keys \subseteq e.keys /\ d.unique \subseteq e.unique

\* What a statement of InitialSchema has seen to.
Done(e, s) ==
    /\ s.op = "enum" => Labels(e, s.enum) # {}
    /\ s.op = "createMissing" => s.table \in Tables(e)
    /\ s.op = "keyMissing" => \/ NamedKey(e, s.key.table, s.key.column)
                              \/ <<s.key.table, s.key.column>> = SaleUser
    /\ s.op = "unique" => s.index \in e.unique

\* A key needs its column.
Ready(d, s) == s.op = "keyMissing" => <<s.key.table, s.key.column>> \in d.columns

\* One statement after the other, and none.
LEMMA StandsTwice ==
    ASSUME NEW d, NEW e, NEW f, NEW s, Stands(d, e), Stands(e, f)
    PROVE  Stands(d, f) /\ (Done(e, s) => Done(f, s)) /\ (Ready(d, s) => Ready(e, s))
<1>1. Stands(d, f) /\ (Ready(d, s) => Ready(e, s))
  BY DEF Stands, Ready
<1>2. Done(e, s) => Done(f, s)
  BY DEF Stands, Done, Labels, Tables, NamedKey, KeysOf
<1> QED
  BY <1>1, <1>2

LEMMA StandsStill ==
    ASSUME NEW d, RowsTyped(d), d.ok, SchemaAt(d, 0)
    PROVE  Stands(d, d)
BY DEF Stands

\* A type, a table, a key and an index that is made if it is not there.
LEMMA EnumStands ==
    ASSUME NEW d, RowsTyped(d), d.ok, SchemaAt(d, 0), NEW s \in EnumStatements, s.labels # {}
    PROVE  Stands(d, Step(d, s)) /\ Done(Step(d, s), s)
<1> DEFINE e == Step(d, s)
           X == Cols(s.enum, s.labels)
<1>1. s.op = "enum"
  BY EnumNames
<1>2. RowsTyped(Do(d, s))
  BY <1>1, DoTyped DEF Ops
<1>3. DOMAIN d = DbFields
  BY DEF RowsTyped
<1>4. e = Do(d, s)
  BY DEF Step
<1>5. Do(d, s) = IF Labels(d, s.enum) # {} THEN d ELSE [d EXCEPT !.labels = @ \cup X]
  BY <1>1 DEF Do
<1>a. X # {} /\ \A l \in X : l[1] = s.enum
  <2>1. PICK l \in s.labels : TRUE
    OBVIOUS
  <2>2. <<s.enum, l>> \in X
    BY DEF Cols
  <2>3. \A m \in X : m[1] = s.enum
    BY DEF Cols
  <2> QED
    BY <2>2, <2>3
<1> HIDE DEF e, X
<1>6. /\ e.ok /\ e.columns = d.columns /\ e.unique = d.unique /\ e.keys = d.keys
      /\ e.labels = IF Labels(d, s.enum) # {} THEN d.labels ELSE d.labels \cup X
  BY <1>3, <1>4, <1>5 DEF DbFields
<1>7. LabelsAt(e, 0)
  <2>1. e.labels \subseteq (UNION {Cols(t.enum, t.labels) : t \in EnumStatements})
                           \cup LabelsOf(4) \cup LabelsOf(13) \cup LabelsOf(24)
    BY <1>6 DEF SchemaAt, LabelsAt, X
  <2>2. ASSUME NEW t \in EnumStatements, Labels(e, t.enum) # {}
        PROVE  LastingLabels(t) \subseteq e.labels
    <3>1. CASE Labels(d, t.enum) # {}
      BY <1>6, <3>1 DEF SchemaAt, LabelsAt
    <3>2. CASE Labels(d, t.enum) = {}
      <4>1. s.enum = t.enum /\ e.labels = d.labels \cup X
        BY <1>6, <1>a, <2>2, <3>2 DEF Labels
      <4>2. s = t
        BY <4>1, EnumNames
      <4> QED
        BY <4>1, <4>2 DEF LastingLabels, X
    <3> QED
      BY <3>1, <3>2
  <2>3. LabelsOf(24) \cap e.labels = {}
    <3>1. \A l \in X : l[1] # PaymentEnum
      BY <1>a, OldEnums
    <3>2. LabelsOf(24) \cap d.labels = {} /\ \A l \in LabelsOf(24) : l[1] = PaymentEnum
      BY NewLabels DEF SchemaAt, LabelsAt
    <3> QED
      BY <1>6, <3>1, <3>2
  <2> QED
    BY <2>1, <2>2, <2>3 DEF LabelsAt
<1>8. SchemaAt(e, 0)
  <2>1. ColumnsAt(e, 0) /\ UniqueAt(e, 0) /\ KeysAt(e, 0)
    BY <1>6 DEF SchemaAt, ColumnsAt, UniqueAt, KeysAt, Tables, NamedKey, KeysOf
  <2> QED
    BY <1>7, <2>1 DEF SchemaAt
<1>9. Stands(d, e)
  BY <1>2, <1>4, <1>6, <1>8 DEF Stands
<1>10. Done(e, s)
  BY <1>1, <1>6, <1>a DEF Done, Labels
<1> QED
  BY <1>9, <1>10 DEF e

LEMMA TableStands ==
    ASSUME NEW d, RowsTyped(d), d.ok, SchemaAt(d, 0), NEW s \in TableStatements
    PROVE  Stands(d, Step(d, s)) /\ Done(Step(d, s), s)
<1> DEFINE e == Step(d, s)
           X == Cols(s.table, s.columns)
           V == {s.table} \X s.unique
<1>1. s.op = "createMissing"
  BY TableParts
<1>2. RowsTyped(Do(d, s))
  BY <1>1, DoTyped DEF Ops
<1>3. DOMAIN d = DbFields
  BY DEF RowsTyped
<1>4. e = Do(d, s)
  BY DEF Step
<1>5. Do(d, s) = IF s.table \in Tables(d) THEN d ELSE WithTable(d, s)
  BY <1>1 DEF Do
<1>a. X # {} /\ \A c \in X : c[1] = s.table
  <2>1. PICK c \in s.columns : TRUE
    BY TableParts
  <2>2. <<s.table, c>> \in X
    BY DEF Cols
  <2>3. \A x \in X : x[1] = s.table
    BY DEF Cols
  <2> QED
    BY <2>2, <2>3
<1>b. WithTable(d, s) = [d EXCEPT !.columns = @ \cup X, !.unique = @ \cup V]
  BY DEF WithTable
<1>c. CASE s.table \in Tables(d)
  <2>1. e = d
    BY <1>4, <1>5, <1>c
  <2>2. Stands(d, d) /\ Done(d, s)
    BY <1>1, <1>c, StandsStill DEF Done
  <2> QED
    BY <2>1, <2>2
<1>d. CASE s.table \notin Tables(d)
  <2> HIDE DEF e, X, V
  <2>1. /\ e.ok /\ e.columns = d.columns \cup X /\ e.unique = d.unique \cup V
        /\ e.keys = d.keys /\ e.labels = d.labels
    BY <1>3, <1>4, <1>5, <1>b, <1>d DEF DbFields
  <2>2. Tables(e) = Tables(d) \cup {s.table}
    BY <1>a, <2>1 DEF Tables
  <2>3. ColumnsAt(e, 0)
    <3>1. e.columns \subseteq KnownColumns
      BY <2>1, ColumnOrigin DEF SchemaAt, ColumnsAt, X
    <3>2. ASSUME NEW t \in TableStatements, t.table \in Tables(e)
          PROVE  Lasting(t) \subseteq e.columns
      <4>1. CASE t.table \in Tables(d)
        BY <2>1, <4>1 DEF SchemaAt, ColumnsAt
      <4>2. CASE t.table \notin Tables(d)
        <5>1. t = s
          BY <2>2, <3>2, <4>2, TableNames
        <5> QED
          BY <2>1, <5>1, LastingIs DEF X
      <4> QED
        BY <4>1, <4>2
    <3>3. ASSUME NEW i \in Strict PROVE Added(i) \cap e.columns = {}
      <4>1. Added(i) \cap d.columns = {}
        <5>1. i > 0
          BY DEF Strict
        <5> QED
          BY <5>1 DEF SchemaAt, ColumnsAt
      <4>2. Added(i) \cap X = {}
        BY TablesBeforeStrict DEF X
      <4> QED
        BY <2>1, <4>1, <4>2
    <3>4. "suppliers" \in Tables(e) => (TaxId \in e.columns <=> Cif \notin e.columns)
      <4>1. Cif \notin X /\ (TaxId \in X <=> s.table = "suppliers")
        BY TableParts DEF X
      <4>2. CASE s.table = "suppliers"
        <5>1. Cif \notin d.columns
          BY <1>d, <4>2 DEF Tables, Cif
        <5> QED
          BY <2>1, <4>1, <4>2, <5>1
      <4>3. CASE s.table # "suppliers"
        <5>1. "suppliers" \in Tables(e) => "suppliers" \in Tables(d)
          BY <2>2, <4>3
        <5> QED
          BY <2>1, <4>1, <4>3, <5>1 DEF SchemaAt, ColumnsAt
      <4> QED
        BY <4>2, <4>3
    <3> QED
      BY <3>1, <3>2, <3>3, <3>4 DEF ColumnsAt
  <2>4. UniqueAt(e, 0)
    <3>1. e.unique \subseteq InitialUnique \cup {MemberIndex} \cup IndexesOf(22) \cup IndexesOf(24)
      <4>1. V \subseteq InitialUnique
        BY TableParts DEF V
      <4> QED
        BY <2>1, <4>1 DEF SchemaAt, UniqueAt
    <3>2. ASSUME NEW t \in TableStatements, t.table \in Tables(e)
          PROVE  {t.table} \X t.unique \subseteq e.unique
      <4>1. CASE t.table \in Tables(d)
        BY <2>1, <4>1 DEF SchemaAt, UniqueAt
      <4>2. CASE t.table \notin Tables(d)
        <5>1. t = s
          BY <2>2, <3>2, <4>2, TableNames
        <5> QED
          BY <2>1, <5>1 DEF V
      <4> QED
        BY <4>1, <4>2
    <3> QED
      BY <3>1, <3>2 DEF UniqueAt
  <2>5. LabelsAt(e, 0)
    BY <2>1 DEF SchemaAt, LabelsAt, Labels
  <2>6. KeysAt(e, 0)
    BY <2>1 DEF SchemaAt, KeysAt, NamedKey, KeysOf
  <2>7. Stands(d, e)
    BY <1>2, <1>4, <2>1, <2>3, <2>4, <2>5, <2>6 DEF Stands, SchemaAt
  <2>8. Done(e, s)
    BY <1>1, <2>2 DEF Done
  <2> QED
    BY <2>7, <2>8 DEF e
<1> QED
  BY <1>c, <1>d

LEMMA KeyStands ==
    ASSUME NEW d, RowsTyped(d), d.ok, SchemaAt(d, 0), NEW s, OldKey(s), Ready(d, s)
    PROVE  Stands(d, Step(d, s)) /\ Done(Step(d, s), s)
<1> DEFINE e == Step(d, s)
           x == s.key
           c == <<x.table, x.column>>
<1>1. s.op = "keyMissing"
  BY DEF OldKey
<1>2. RowsTyped(Do(d, s))
  BY <1>1, DoTyped DEF Ops
<1>3. DOMAIN d = DbFields
  BY DEF RowsTyped
<1>4. e = Do(d, s)
  BY DEF Step
<1>5. Do(d, s) = IF \/ NamedKey(d, s.key.table, s.key.column)
                    \/ s.key.table = "sales" /\ s.key.column = "user_email" /\ d.uuid
                 THEN d ELSE [d EXCEPT !.keys = @ \cup {s.key}]
  BY <1>1 DEF Do
<1>6. KeyAt(x, 0)
  <2>1. x.auto = FALSE /\ x = [Key(x.table, x.column, x.rule) EXCEPT !.auto = x.auto]
    BY DEF OldKey, Key
  <2>2. c \in ReferringColumns
    BY DEF OldKey, ReferringColumns
  <2>3. /\ c = LineArticle => x.rule = "RESTRICT"
        /\ c # LineArticle => x.rule = RuleOf(c)
    BY DEF OldKey
  <2>4. ~(0 >= 7)
    OBVIOUS
  <2> HIDE DEF x
  <2> QED
    BY <2>1, <2>2, <2>3, <2>4 DEF KeyAt
<1>7. CASE e = d
  <2>1. Done(d, s)
    <3>1. \/ NamedKey(d, x.table, x.column)
          \/ x.table = "sales" /\ x.column = "user_email"
          \/ x \in d.keys
      <4>1. \/ \/ NamedKey(d, s.key.table, s.key.column)
               \/ s.key.table = "sales" /\ s.key.column = "user_email" /\ d.uuid
            \/ d = [d EXCEPT !.keys = @ \cup {s.key}]
        BY <1>4, <1>5, <1>7
      <4>2. ASSUME d = [d EXCEPT !.keys = @ \cup {s.key}] PROVE x \in d.keys
        <5>1. d.keys = d.keys \cup {s.key}
          BY <1>3, <4>2 DEF DbFields
        <5> QED
          BY <5>1
      <4> QED
        BY <4>1, <4>2
    <3>2. x \in d.keys => NamedKey(d, x.table, x.column)
      BY DEF NamedKey, KeysOf, OldKey
    <3>3. x.table = "sales" /\ x.column = "user_email" => c = SaleUser
      BY DEF SaleUser
    <3> QED
      BY <1>1, <3>1, <3>2, <3>3 DEF Done
  <2>2. Stands(d, d)
    BY StandsStill
  <2> QED
    BY <1>7, <2>1, <2>2
<1>8. CASE e # d
  <2>1. e = [d EXCEPT !.keys = @ \cup {x}]
    BY <1>4, <1>5, <1>8
  <2>2. x.auto = FALSE /\ c \in d.columns
    BY <1>1 DEF OldKey, Key, Ready
  <2> HIDE DEF e, x
  <2>3. /\ e.ok /\ e.columns = d.columns /\ e.unique = d.unique /\ e.labels = d.labels
        /\ e.keys = d.keys \cup {x}
    BY <1>3, <2>1 DEF DbFields
  <2>4. ColumnsAt(e, 0) /\ UniqueAt(e, 0) /\ LabelsAt(e, 0)
    BY <2>3 DEF SchemaAt, ColumnsAt, UniqueAt, LabelsAt, Tables, Labels
  <2>5. KeysAt(e, 0)
    BY <1>6, <2>2, <2>3 DEF SchemaAt, KeysAt
  <2>6. Stands(d, e)
    BY <1>2, <1>4, <2>3, <2>4, <2>5 DEF Stands, SchemaAt
  <2>7. NamedKey(e, x.table, x.column)
    BY <2>2, <2>3 DEF NamedKey, KeysOf
  <2>8. Done(e, s)
    BY <1>1, <2>7 DEF Done, x
  <2> QED
    BY <2>6, <2>8 DEF e
<1> QED
  BY <1>7, <1>8

LEMMA IndexStands ==
    ASSUME NEW d, RowsTyped(d), d.ok, SchemaAt(d, 0), NEW j \in 1..2
    PROVE  /\ Stands(d, Step(d, InitialIndexes[j])) 
           /\ Done(Step(d, InitialIndexes[j]), InitialIndexes[j])
<1> DEFINE s == InitialIndexes[j]
           e == Step(d, s)
<1>1. s.op = "unique" /\ s.index \in InitialUnique \cup {MemberIndex}
  BY DEF InitialIndexes, CreateUniqueIndex, InitialUnique, MemberIndex
<1> HIDE DEF s
<1>2. RowsTyped(Do(d, s))
  BY <1>1, DoTyped DEF Ops
<1>3. DOMAIN d = DbFields
  BY DEF RowsTyped
<1>4. e = Do(d, s)
  BY DEF Step
<1>5. Do(d, s) = [d EXCEPT !.unique = @ \cup {s.index}]
  BY <1>1 DEF Do
<1> HIDE DEF e
<1>6. /\ e.ok /\ e.columns = d.columns /\ e.labels = d.labels /\ e.keys = d.keys
      /\ e.unique = d.unique \cup {s.index}
  BY <1>3, <1>4, <1>5 DEF DbFields
<1>7. UniqueAt(e, 0)
  BY <1>1, <1>6 DEF SchemaAt, UniqueAt, Tables
<1>8. ColumnsAt(e, 0) /\ LabelsAt(e, 0) /\ KeysAt(e, 0)
  BY <1>6 DEF SchemaAt, ColumnsAt, LabelsAt, KeysAt, Tables, Labels, NamedKey, KeysOf
<1>9. Stands(d, e)
  BY <1>2, <1>4, <1>6, <1>7, <1>8 DEF Stands, SchemaAt
<1>10. Done(e, s)
  BY <1>1, <1>6 DEF Done
<1> QED
  BY <1>9, <1>10 DEF e, s

LEMMA EnumsHaveLabels == \A s \in EnumStatements : s.labels # {}
<1>1. \A j \in 1..5 : InitialEnums[j].labels # {}
  BY DEF InitialEnums, CreateEnumIfNotExists
<1> QED
  BY <1>1 DEF EnumStatements

\* Any statement of the first migration, and a run of them.
LEMMA StatementStands ==
    ASSUME NEW d, RowsTyped(d), d.ok, SchemaAt(d, 0), NEW s \in InitialStatement, Ready(d, s)
    PROVE  Stands(d, Step(d, s)) /\ Done(Step(d, s), s)
<1>1. \/ s \in EnumStatements \/ s \in TableStatements
      \/ \E j \in 1..22 : s = InitialKeys[j]
      \/ \E j \in 1..2 : s = InitialIndexes[j]
  BY DEF InitialStatement, EnumStatements, TableStatements
<1>2. CASE s \in EnumStatements
  BY <1>2, EnumsHaveLabels, EnumStands
<1>3. CASE s \in TableStatements
  BY <1>3, TableStands
<1>4. CASE \E j \in 1..22 : s = InitialKeys[j]
  <2>1. OldKey(s)
    BY <1>4, OldKeys
  <2> QED
    BY <2>1, KeyStands
<1>5. CASE \E j \in 1..2 : s = InitialIndexes[j]
  <2>1. PICK j \in 1..2 : s = InitialIndexes[j]
    BY <1>5
  <2>2. /\ Stands(d, Step(d, InitialIndexes[j]))
        /\ Done(Step(d, InitialIndexes[j]), InitialIndexes[j])
    BY IndexStands
  <2> QED
    BY <2>1, <2>2
<1> QED
  BY <1>1, <1>2, <1>3, <1>4, <1>5

LEMMA RunStands ==
    ASSUME NEW d, RowsTyped(d), d.ok, SchemaAt(d, 0), NEW ss \in Seq(InitialStatement),
           \A i \in 1..Len(ss) : Ready(d, ss[i])
    PROVE  Stands(d, Run(d, ss)) /\ \A i \in 1..Len(ss) : Done(Run(d, ss), ss[i])
<1> DEFINE n == Len(ss)
<1>1. PICK state : /\ state[0] = d
                   /\ \A i \in 1..n : state[i] = Step(state[i - 1], ss[i])
                   /\ Run(d, ss) = state[n]
  <2>1. Len(ss) \in Nat
    OBVIOUS
  <2> QED
    BY <2>1, RunStates
<1>2. n \in Nat /\ \A i \in 1..n : ss[i] \in InitialStatement
  OBVIOUS
<1> DEFINE Good == {i \in 0..n : /\ Stands(d, state[i])
                                 /\ \A j \in 1..i : Done(state[i], ss[j])}
<1> HIDE DEF n
<1>3. 0 \in Good
  BY <1>1, <1>2, StandsStill
<1>4. ASSUME NEW i \in 1..n, i - 1 \in Good PROVE i \in Good
  <2>1. /\ Stands(d, state[i - 1]) /\ \A j \in 1..(i - 1) : Done(state[i - 1], ss[j])
        /\ i \in 0..n
    BY <1>2, <1>4
  <2>2. PICK s : s = ss[i]
    OBVIOUS
  <2>3. PICK e : e = state[i - 1]
    OBVIOUS
  <2>4. PICK f : f = Step(e, s)
    OBVIOUS
  <2>5. state[i] = f
    BY <1>1, <2>2, <2>3, <2>4
  <2>6. s \in InitialStatement /\ Ready(d, s)
    BY <1>2, <2>2 DEF n
  <2>7. Ready(e, s) /\ RowsTyped(e) /\ e.ok /\ SchemaAt(e, 0)
    BY <2>1, <2>3, <2>6 DEF Stands, Ready
  <2>8. Stands(e, f) /\ Done(f, s)
    BY <2>4, <2>6, <2>7, StatementStands
  <2>9. Stands(d, f)
    BY <2>1, <2>3, <2>8, StandsTwice
  <2>10. \A j \in 1..(i - 1) : Done(f, ss[j])
    BY <2>1, <2>3, <2>8, StandsTwice
  <2>11. \A j \in 1..i : Done(f, ss[j])
    <3>1. \A j \in 1..i : j = i \/ j \in 1..(i - 1)
      BY <1>2
    <3> QED
      BY <2>2, <2>8, <2>10, <3>1
  <2> QED
    BY <2>1, <2>5, <2>9, <2>11
<1> HIDE DEF Good
<1>5. n \in Good
  <2>1. n \in Nat
    BY <1>2
  <2> QED
    BY <1>3, <1>4, <2>1, UpTo
<1> QED
  BY <1>1, <1>5 DEF Good, n

\* The five parts of the first migration.
LEMMA InitialLengths ==
    /\ Len(InitialEnums) = 5 /\ Len(InitialCatalogue) = 8 /\ Len(InitialOrders) = 9
    /\ Len(InitialKeys) = 22 /\ Len(InitialIndexes) = 2
BY DEF InitialEnums, InitialCatalogue, InitialOrders, InitialKeys, InitialIndexes

\* Only keys need anything.
LEMMA OthersReady ==
    ASSUME NEW d
    PROVE  /\ \A j \in 1..5 : Ready(d, InitialEnums[j])
           /\ \A j \in 1..8 : Ready(d, InitialCatalogue[j])
           /\ \A j \in 1..9 : Ready(d, InitialOrders[j])
           /\ \A j \in 1..2 : Ready(d, InitialIndexes[j])
<1>1. \A j \in 1..5 : InitialEnums[j].op = "enum"
  BY EnumNames DEF EnumStatements
<1>2. /\ \A j \in 1..8 : InitialCatalogue[j].op = "createMissing"
      /\ \A j \in 1..9 : InitialOrders[j].op = "createMissing"
  BY TableParts DEF TableStatements
<1>3. \A j \in 1..2 : InitialIndexes[j].op = "unique"
  BY DEF InitialIndexes, CreateUniqueIndex
<1> QED
  BY <1>1, <1>2, <1>3 DEF Ready

\* The first migration runs its parts one after the other.
LEMMA FirstRun ==
    ASSUME NEW d
    PROVE  Run(d, Sequence[1].up) =
               Run(Run(Run(Run(Run(d, InitialEnums), InitialCatalogue), InitialOrders),
                       InitialKeys), InitialIndexes)
<1> DEFINE E == InitialEnums
           C == InitialCatalogue
           O == InitialOrders
           K == InitialKeys
           I == InitialIndexes
           S == InitialStatement
<1>1. Sequence[1].up = E \o C \o O \o K \o I
  <2>1. \A up, down : Migration(up, down).up = up
    BY DEF Migration
  <2>2. InitialSchema = Migration(InitialEnums \o InitialCatalogue \o InitialOrders
                                  \o InitialKeys \o InitialIndexes, InitialDown)
    BY Zenon DEF InitialSchema
  <2>3. InitialSchema.up = InitialEnums \o InitialCatalogue \o InitialOrders
                           \o InitialKeys \o InitialIndexes
    BY <2>1, <2>2
  <2> QED
    BY <2>3, SequenceParts
<1>2. E \in Seq(S) /\ C \in Seq(S) /\ O \in Seq(S) /\ K \in Seq(S) /\ I \in Seq(S)
  BY InitialStatements
<1> HIDE DEF E, C, O, K, I, S
<1>3. E \o C \in Seq(S) /\ E \o C \o O \in Seq(S) /\ E \o C \o O \o K \in Seq(S)
  BY <1>2
<1>a. PICK P : P = E \o C
  OBVIOUS
<1>b. PICK Q : Q = P \o O
  OBVIOUS
<1>c. PICK R : R = Q \o K
  OBVIOUS
<1>d. P \in Seq(S) /\ Q \in Seq(S) /\ R \in Seq(S)
  BY <1>3, <1>a, <1>b, <1>c
<1>4. Run(d, P) = Run(Run(d, E), C)
  BY <1>2, <1>a, RunJoined
<1>5. Run(d, Q) = Run(Run(d, P), O)
  BY <1>2, <1>b, <1>d, RunJoined
<1>6. Run(d, R) = Run(Run(d, Q), K)
  BY <1>2, <1>c, <1>d, RunJoined
<1>7. Run(d, R \o I) = Run(Run(d, R), I)
  BY <1>2, <1>d, RunJoined
<1>8. Sequence[1].up = R \o I
  BY <1>1, <1>a, <1>b, <1>c
<1> QED
  BY <1>4, <1>5, <1>6, <1>7, <1>8 DEF E, C, O, K, I

\* The columns that the keys need are there when the tables are.
LEMMA KeysReady ==
    ASSUME NEW d, SchemaAt(d, 0), \A s \in TableStatements : s.table \in Tables(d)
    PROVE  \A j \in 1..22 : Ready(d, InitialKeys[j])
<1> SUFFICES ASSUME NEW j \in 1..22 PROVE Ready(d, InitialKeys[j])
  OBVIOUS
<1> DEFINE s == InitialKeys[j]
           c == <<s.key.table, s.key.column>>
<1>1. c \in RefersFrom(1) \cup {SaleUser}
  BY OldKeys DEF OldKey
<1>2. PICK t \in TableStatements : c \in Lasting(t)
  BY <1>1, KeyHomes
<1> HIDE DEF s, c
<1>3. Lasting(t) \subseteq d.columns
  BY DEF SchemaAt, ColumnsAt
<1>4. c \in d.columns
  BY <1>2, <1>3
<1> QED
  BY <1>4 DEF Ready, c, s

\* When all is done, the schema is that of the first migration.
LEMMA AllDone ==
    ASSUME NEW d, SchemaAt(d, 0),
           \A s \in EnumStatements : Labels(d, s.enum) # {},
           \A s \in TableStatements : s.table \in Tables(d),
           \A j \in 1..22 : Done(d, InitialKeys[j]),
           MemberIndex \in d.unique
    PROVE  SchemaAt(d, 1)
<1>1. ColumnsAt(d, 1)
  <2>1. "suppliers" \in Tables(d)
    <3>1. InitialCatalogue[4] \in TableStatements
      BY DEF TableStatements
    <3>2. InitialCatalogue[4].table = "suppliers"
      BY DEF InitialCatalogue, CreateTableIfNotExists
    <3> QED
      BY <3>1, <3>2
  <2>2. \A i \in Strict : i > 0
    BY DEF Strict
  <2> QED
    BY <2>1, <2>2 DEF SchemaAt, ColumnsAt
<1>2. UniqueAt(d, 1)
  BY DEF SchemaAt, UniqueAt
<1>3. LabelsAt(d, 1)
  BY DEF SchemaAt, LabelsAt
<1>4. KeysAt(d, 1)
  <2>1. \A x : KeyAt(x, 0) <=> KeyAt(x, 1)
    <3>1. ~(0 >= 7) /\ ~(1 >= 7)
      OBVIOUS
    <3> QED
      BY <3>1 DEF KeyAt
  <2>2. ASSUME NEW c \in RefersFrom(1) PROVE NamedKey(d, c[1], c[2])
    <3>1. PICK j \in 1..22 : c = <<InitialKeys[j].key.table, InitialKeys[j].key.column>>
      BY KeyForColumn
    <3>2. InitialKeys[j].op = "keyMissing"
      BY OldKeys DEF OldKey
    <3>3. c # SaleUser
      BY OldReferences
    <3> QED
      BY <3>1, <3>2, <3>3 DEF Done
  <2> QED
    BY <2>1, <2>2 DEF SchemaAt, KeysAt
<1> QED
  BY <1>1, <1>2, <1>3, <1>4 DEF SchemaAt

\* The first migration fails on no such database, and brings it to its schema.
LEMMA FirstRaised ==
    ASSUME NEW d, RowsTyped(d), d.ok, SchemaAt(d, 0)
    PROVE  LET r == Run(d, Sequence[1].up) IN r.ok /\ SchemaAt(r, 1)
<1> DEFINE r1 == Run(d, InitialEnums)
           r2 == Run(r1, InitialCatalogue)
           r3 == Run(r2, InitialOrders)
           r4 == Run(r3, InitialKeys)
           r5 == Run(r4, InitialIndexes)
<1>1. Run(d, Sequence[1].up) = r5
  BY FirstRun
<1>2. Stands(d, r1) /\ \A j \in 1..5 : Done(r1, InitialEnums[j])
  BY InitialStatements, InitialLengths, OthersReady, RunStands
<1> HIDE DEF r1
<1>3. Stands(r1, r2) /\ \A j \in 1..8 : Done(r2, InitialCatalogue[j])
  <2>1. RowsTyped(r1)
    BY <1>2 DEF Stands
  <2>2. r1.ok
    BY <1>2 DEF Stands
  <2>3. SchemaAt(r1, 0)
    BY <1>2 DEF Stands
  <2> QED
    BY <2>1, <2>2, <2>3, InitialStatements, InitialLengths, OthersReady, RunStands
<1> HIDE DEF r2
<1>4. Stands(r2, r3) /\ \A j \in 1..9 : Done(r3, InitialOrders[j])
  <2>1. RowsTyped(r2)
    BY <1>3 DEF Stands
  <2>2. r2.ok
    BY <1>3 DEF Stands
  <2>3. SchemaAt(r2, 0)
    BY <1>3 DEF Stands
  <2> QED
    BY <2>1, <2>2, <2>3, InitialStatements, InitialLengths, OthersReady, RunStands
<1> HIDE DEF r3
<1>a. Stands(r1, r3)
  BY <1>3, <1>4, StandsTwice
<1>5. \A s \in TableStatements : s.table \in Tables(r3)
  <2>1. \A j \in 1..8 : Done(r3, InitialCatalogue[j])
    BY <1>3, <1>4, StandsTwice
  <2> QED
    BY <1>4, <2>1, TableParts DEF TableStatements, Done
<1>6. SchemaAt(r3, 0)
  BY <1>4 DEF Stands
<1>7. \A j \in 1..22 : Ready(r3, InitialKeys[j])
  BY <1>5, <1>6, KeysReady
<1>8. Stands(r3, r4) /\ \A j \in 1..22 : Done(r4, InitialKeys[j])
  <2>1. RowsTyped(r3)
    BY <1>4 DEF Stands
  <2>2. r3.ok
    BY <1>4 DEF Stands
  <2> QED
    BY <1>6, <1>7, <2>1, <2>2, InitialStatements, InitialLengths, RunStands
<1> HIDE DEF r4
<1>9. Stands(r4, r5) /\ \A j \in 1..2 : Done(r5, InitialIndexes[j])
  <2>1. RowsTyped(r4)
    BY <1>8 DEF Stands
  <2>2. r4.ok
    BY <1>8 DEF Stands
  <2>3. SchemaAt(r4, 0)
    BY <1>8 DEF Stands
  <2> QED
    BY <2>1, <2>2, <2>3, InitialStatements, InitialLengths, OthersReady, RunStands
<1> HIDE DEF r5
<1>b. Stands(r3, r5)
  BY <1>8, <1>9, StandsTwice
<1>c. Stands(r1, r5)
  BY <1>a, <1>b, StandsTwice
<1>10. \A s \in EnumStatements : Labels(r5, s.enum) # {}
  <2>1. \A j \in 1..5 : Done(r5, InitialEnums[j])
    BY <1>2, <1>c, StandsTwice
  <2> QED
    BY <2>1, EnumNames DEF EnumStatements, Done
<1>11. \A s \in TableStatements : s.table \in Tables(r5)
  BY <1>5, <1>b DEF Stands, Tables
<1>12. \A j \in 1..22 : Done(r5, InitialKeys[j])
  BY <1>8, <1>9, StandsTwice
<1>13. MemberIndex \in r5.unique
  <2>1. InitialIndexes[1].op = "unique" /\ InitialIndexes[1].index = MemberIndex
    BY DEF InitialIndexes, CreateUniqueIndex, MemberIndex
  <2> QED
    BY <1>9, <2>1 DEF Done
<1>14. SchemaAt(r5, 0) /\ r5.ok
  BY <1>9 DEF Stands
<1>15. SchemaAt(r5, 1)
  BY <1>10, <1>11, <1>12, <1>13, <1>14, AllDone
<1> QED
  BY <1>1, <1>14, <1>15

\* Reverting it: the schema may then be anything that the first migration starts from.
LEMMA Floor ==
    ASSUME NEW d, SchemaAt(d, 1)
    PROVE  SchemaAt(d, 0)
<1>1. ColumnsAt(d, 0)
  <2>1. \A i \in Strict : i > 1
    BY DEF Strict
  <2> QED
    BY <2>1 DEF SchemaAt, ColumnsAt
<1>2. UniqueAt(d, 0) /\ LabelsAt(d, 0)
  BY DEF SchemaAt, UniqueAt, LabelsAt
<1>3. KeysAt(d, 0)
  <2>1. \A x : KeyAt(x, 0) <=> KeyAt(x, 1)
    <3>1. ~(0 >= 7) /\ ~(1 >= 7)
      OBVIOUS
    <3> QED
      BY <3>1 DEF KeyAt
  <2> QED
    BY <2>1 DEF SchemaAt, KeysAt
<1> QED
  BY <1>1, <1>2, <1>3 DEF SchemaAt

\* Dropping a table or a type leaves what the first migration may start from.
LEMMA FloorKept ==
    ASSUME NEW d, DOMAIN d = DbFields, d.ok, SchemaAt(d, 0), NEW t, NEW s,
           s \in {DropTable(t), DropEnum(t)}
    PROVE  LET e == Step(d, s) IN DOMAIN e = DbFields /\ e.ok /\ SchemaAt(e, 0)
<1> DEFINE e == Step(d, s)
<1>1. CASE s = DropTable(t)
  <2>1. DropsTables(d, e, {t})
    BY <1>1, TableDrops
  <2> HIDE DEF e
  <2>2. Tables(e) = Tables(d) \ {t}
    BY <2>1 DEF DropsTables, Tables
  <2>3. ColumnsAt(e, 0)
    <3>1. ASSUME NEW u \in TableStatements, u.table \in Tables(e)
          PROVE  Lasting(u) \subseteq e.columns
      <4>1. Lasting(u) \subseteq d.columns
        BY <2>2, <3>1 DEF SchemaAt, ColumnsAt
      <4>2. \A c \in Lasting(u) : c[1] = u.table
        BY LastingIs DEF Cols
      <4> QED
        BY <2>1, <2>2, <3>1, <4>1, <4>2 DEF DropsTables
    <3>2. "suppliers" \in Tables(e) => (TaxId \in e.columns <=> Cif \notin e.columns)
      <4>1. TaxId[1] = "suppliers" /\ Cif[1] = "suppliers"
        BY DEF TaxId, Cif
      <4> QED
        BY <2>1, <2>2, <4>1 DEF SchemaAt, ColumnsAt, DropsTables
    <3>3. e.columns \subseteq d.columns
      BY <2>1 DEF DropsTables
    <3> QED
      BY <3>1, <3>2, <3>3 DEF SchemaAt, ColumnsAt
  <2>4. UniqueAt(e, 0)
    BY <2>1, <2>2 DEF SchemaAt, UniqueAt, DropsTables
  <2>5. LabelsAt(e, 0)
    BY <2>1 DEF SchemaAt, LabelsAt, Labels, DropsTables
  <2>6. KeysAt(e, 0)
    BY <2>1 DEF SchemaAt, KeysAt, DropsTables
  <2> QED
    BY <2>1, <2>3, <2>4, <2>5, <2>6 DEF SchemaAt, DropsTables, e
<1>2. CASE s = DropEnum(t)
  <2>1. s.op = "dropEnum" /\ s.enum = t
    BY <1>2 DEF DropEnum
  <2>2. e = Do(d, s)
    BY DEF Step
  <2>3. Do(d, s) = [d EXCEPT !.labels = @ \ Labels(d, s.enum)]
    BY <2>1 DEF Do
  <2> HIDE DEF e
  <2>4. /\ DOMAIN e = DbFields /\ e.ok /\ e.columns = d.columns /\ e.unique = d.unique
        /\ e.keys = d.keys /\ e.labels = {l \in d.labels : l[1] # t}
    BY <2>1, <2>2, <2>3 DEF DbFields, Labels
  <2>5. ColumnsAt(e, 0) /\ UniqueAt(e, 0) /\ KeysAt(e, 0)
    BY <2>4 DEF SchemaAt, ColumnsAt, UniqueAt, KeysAt, Tables, NamedKey, KeysOf
  <2>6. LabelsAt(e, 0)
    <3>1. ASSUME NEW u \in EnumStatements, Labels(e, u.enum) # {}
          PROVE  LastingLabels(u) \subseteq e.labels
      <4>1. u.enum # t /\ Labels(d, u.enum) # {}
        BY <2>4, <3>1 DEF Labels
      <4>2. \A l \in LastingLabels(u) : l[1] = u.enum
        BY DEF LastingLabels, Cols
      <4> QED
        BY <2>4, <4>1, <4>2 DEF SchemaAt, LabelsAt
    <3>2. e.labels \subseteq d.labels
      BY <2>4
    <3> QED
      BY <3>1, <3>2 DEF SchemaAt, LabelsAt
  <2> QED
    BY <2>4, <2>5, <2>6 DEF SchemaAt, e
<1> QED
  BY <1>1, <1>2

\* Which is all that its revert does.
LEMMA InitialDownParts ==
    /\ Len(InitialDown) = 22
    /\ \A j \in 1..22 : \E t : InitialDown[j] \in {DropTable(t), DropEnum(t)}
BY DEF InitialDown

LEMMA FirstLowered ==
    ASSUME NEW d, DOMAIN d = DbFields, d.ok, SchemaAt(d, 1)
    PROVE  SchemaAt(Run(d, Sequence[1].down), 0)
<1> DEFINE ss == InitialDown
<1>1. Run(d, Sequence[1].down) = Run(d, ss)
  BY SequenceParts DEF InitialSchema, Migration
<1>2. Len(ss) = 22 /\ \A j \in 1..22 : \E t : ss[j] \in {DropTable(t), DropEnum(t)}
  BY InitialDownParts
<1> HIDE DEF ss
<1>3. Len(ss) \in Nat
  BY <1>2
<1>4. PICK state : /\ state[0] = d
                   /\ \A i \in 1..Len(ss) : state[i] = Step(state[i - 1], ss[i])
                   /\ Run(d, ss) = state[Len(ss)]
  BY <1>3, RunStates
<1> DEFINE Good == {i \in 0..22 : /\ DOMAIN state[i] = DbFields /\ state[i].ok
                                  /\ SchemaAt(state[i], 0)}
<1>5. 0 \in Good
  BY <1>4, Floor
<1>6. ASSUME NEW i \in 1..22, i - 1 \in Good PROVE i \in Good
  <2>1. PICK e : e = state[i - 1]
    OBVIOUS
  <2>2. PICK s : s = ss[i]
    OBVIOUS
  <2>3. state[i] = Step(e, s)
    BY <1>2, <1>4, <2>1, <2>2
  <2>4. PICK t : s \in {DropTable(t), DropEnum(t)}
    BY <1>2, <2>2
  <2>5. DOMAIN e = DbFields
    BY <1>6, <2>1
  <2>6. e.ok
    BY <1>6, <2>1
  <2>7. SchemaAt(e, 0)
    BY <1>6, <2>1
  <2>8. LET f == Step(e, s) IN DOMAIN f = DbFields /\ f.ok /\ SchemaAt(f, 0)
    BY <2>4, <2>5, <2>6, <2>7, FloorKept
  <2> QED
    BY <2>3, <2>8
<1> HIDE DEF Good
<1>7. 22 \in Good
  <2>1. 22 \in Nat
    OBVIOUS
  <2> QED
    BY <1>5, <1>6, <2>1, UpTo
<1> QED
  BY <1>1, <1>2, <1>4, <1>7 DEF Good

-----------------------------------------------------------------------------
(* Old databases *)

\* An empty database is one that the first migration starts from.
LEMMA NewReady == SchemaAt(NewDatabase, 0)
<1> DEFINE d == NewDatabase
<1>1. d.columns = {} /\ d.labels = {} /\ d.unique = {} /\ d.keys = {}
  BY DEF NewDatabase
<1> HIDE DEF d
<1>2. Tables(d) = {} /\ \A e : Labels(d, e) = {}
  BY <1>1 DEF Tables, Labels
<1>3. ColumnsAt(d, 0)
  BY <1>1, <1>2 DEF ColumnsAt
<1>4. UniqueAt(d, 0) /\ LabelsAt(d, 0)
  BY <1>1, <1>2 DEF UniqueAt, LabelsAt
<1>5. KeysAt(d, 0)
  BY <1>1 DEF KeysAt
<1> QED
  BY <1>3, <1>4, <1>5 DEF SchemaAt, d

\* The columns that an old database may lack.
Gaps == {TaxId} \cup Cols("articles", {"is_eco", "tax_rate"})
                \cup Cols("orders", {"total_amount", "paid_amount", "payment_status",
                                     "is_delivered"})
                \cup {<<"sales", "payment_status">>}

\* Later migrations add these columns, or look for the other name; nothing refers to them.
LEMMA GapsLater ==
    /\ \A c \in Gaps : c = TaxId \/ \E i \in 2..24 : c \in Added(i)
    /\ \A s \in TableStatements : Gaps \cap Lasting(s) = {}
    /\ Gaps \cap ReferringColumns = {}
    /\ Cif \notin Gaps
<1>1. \A c \in Gaps : c = TaxId \/ c \in Added(6) \cup Added(8) \cup Added(9) \cup Added(10)
                                        \cup Added(11) \cup Added(12)
  BY DEF Gaps, Added, Cols
<1>2. \A c \in Gaps : c = TaxId \/ \E i \in 2..24 : c \in Added(i)
  BY <1>1
<1>3. \A s \in TableStatements : Gaps \cap Lasting(s) = {}
  BY <1>2 DEF Lasting
<1>4. SaleUser \notin Gaps
  BY DEF SaleUser, Gaps, Cols, TaxId
<1>5. Gaps \cap RefersFrom(1) = {}
  BY <1>2, OldReferences
<1>6. \A i \in {14, 22, 24} : RefersFrom(i) \subseteq Added(i)
  BY NewReferences
<1>7. \A i \in {14, 22, 24} : Gaps \cap RefersFrom(i) = {}
  <2>1. TaxId \notin Added(14) /\ TaxId \notin Added(22) /\ TaxId \notin Added(24)
    BY Specials
  <2>2. \A i \in {6, 8, 9, 10, 11, 12} : \A j \in {14, 22, 24} : Added(i) \cap Added(j) = {}
    BY AddedApart
  <2> QED
    BY <1>1, <1>6, <2>1, <2>2
<1>8. Gaps \cap ReferringColumns = {}
  BY <1>4, <1>5, <1>7 DEF ReferringColumns
<1>9. Cif \notin Gaps
  <2>1. Cif # TaxId
    BY DEF Cif, TaxId
  <2> QED
    BY <1>2, <2>1, Specials
<1> QED
  BY <1>2, <1>3, <1>8, <1>9

\* The keys that synchronize made, for those of the first migration.
AutoKey(k, rule) == [k EXCEPT !.auto = TRUE, !.rule = IF k.table = "notices" THEN rule ELSE @]

\* Such a key is one that a database may have at the start.
LEMMA AutoKeys ==
    ASSUME NEW k, NEW rule, KeyAt(k, 0)
    PROVE  /\ KeyAt(AutoKey(k, rule), 0)
           /\ AutoKey(k, rule).table = k.table /\ AutoKey(k, rule).column = k.column
<1> DEFINE x == AutoKey(k, rule)
           c == <<k.table, k.column>>
<1>1. /\ k = [Key(k.table, k.column, k.rule) EXCEPT !.auto = k.auto]
      /\ c \in ReferringColumns
      /\ c = LineArticle => k.rule = "RESTRICT"
      /\ c \notin {LineArticle, NoticeGroup} => k.rule = RuleOf(c)
  BY DEF KeyAt
<1>2. DOMAIN k = {"table", "column", "rule", "auto"}
  BY <1>1 DEF Key
<1>3. /\ x.table = k.table /\ x.column = k.column /\ x.auto = TRUE
      /\ x.rule = IF k.table = "notices" THEN rule ELSE k.rule
  BY <1>2 DEF AutoKey
<1>4. x = [Key(x.table, x.column, x.rule) EXCEPT !.auto = x.auto]
  <2> DEFINE y == [table |-> x.table, column |-> x.column, rule |-> x.rule, auto |-> x.auto]
             D == {"table", "column", "rule", "auto"}
  <2>1. x = [f \in D |-> x[f]]
    BY <1>2 DEF AutoKey
  <2>2. y = [f \in D |-> y[f]]
    OBVIOUS
  <2> HIDE DEF x
  <2>3. \A f \in D : x[f] = y[f]
    OBVIOUS
  <2>4. x = y
    <3> HIDE DEF y, D
    <3> QED
      BY <2>1, <2>2, <2>3
  <2>5. y = [Key(x.table, x.column, x.rule) EXCEPT !.auto = x.auto]
    BY DEF Key
  <2> QED
    BY <2>4, <2>5
<1>5. c \in ReferringColumns /\ k.table = "notices" => c = NoticeGroup
  <2>1. SaleUser[1] # "notices" /\ \A b \in RefersFrom(1) : b[1] = "notices" => b = NoticeGroup
    BY DEF SaleUser, RefersFrom, NoticeGroup
  <2>2. \A b \in RefersFrom(14) \cup RefersFrom(22) \cup RefersFrom(24) : b[1] # "notices"
    BY DEF RefersFrom
  <2> QED
    BY <2>1, <2>2 DEF ReferringColumns
<1>6. NoticeGroup # LineArticle
  BY DEF NoticeGroup, LineArticle
<1> HIDE DEF x
<1>7. <<x.table, x.column>> = c
  BY <1>3
<1>8. c = LineArticle => x.rule = "RESTRICT"
  BY <1>1, <1>3, <1>5, <1>6
<1>9. c \notin {LineArticle, NoticeGroup} => x.rule = RuleOf(c)
  BY <1>1, <1>3, <1>5
<1> HIDE DEF c
<1>10. KeyAt(x, 0)
  <2>1. c \in ReferringColumns
    BY <1>1
  <2>2. x.auto \in BOOLEAN
    BY <1>3
  <2>3. ~(0 >= 7)
    OBVIOUS
  <2> QED
    BY <1>4, <1>7, <1>8, <1>9, <2>1, <2>2, <2>3 DEF KeyAt
<1> QED
  BY <1>3, <1>10 DEF x

\* An old database is one that the first migration starts from.
LEMMA OldReady ==
    ASSUME NEW o \in Origins
    PROVE  SchemaAt(OldDatabase(o), 0)
<1> DEFINE r == Run(NewDatabase, InitialSchema.up)
           e == OldDatabase(o)
<1>1. SchemaAt(r, 1) /\ DOMAIN r = DbFields
  <2>1. RowsTyped(NewDatabase) /\ NewDatabase.ok
    BY DEF NewDatabase, RowsTyped, DbFields
  <2>2. SchemaAt(Run(NewDatabase, Sequence[1].up), 1)
    BY <2>1, NewReady, FirstRaised
  <2>3. RowsTyped(Run(NewDatabase, Sequence[1].up))
    BY <2>1, RunTyped, UpsKnown
  <2> QED
    BY <2>2, <2>3, SequenceParts DEF RowsTyped
<1> HIDE DEF r
<1>2. \E rule, S : /\ S \subseteq r.keys
                    /\ e = [r EXCEPT !.columns = (@ \ o.gaps) \cup o.extra,
                                     !.keys = {AutoKey(k, rule) : k \in S},
                                     !.uuid = o.uuid]
  <2> DEFINE T == {x \in r.keys : ~(x.table = "sales" /\ x.column = "user_email" /\ ~o.checked)}
  <2>1. e = [r EXCEPT !.columns = (@ \ o.gaps) \cup o.extra,
                      !.keys = {AutoKey(k, "NO ACTION") : k \in T},
                      !.uuid = o.uuid]
    BY Zenon DEF OldDatabase, AutoKey, r
  <2> HIDE DEF e
  <2>2. T \subseteq r.keys
    OBVIOUS
  <2> HIDE DEF T
  <2> QED
    BY <2>1, <2>2, Zenon
<1> HIDE DEF e
<1>3. PICK rule, S : /\ S \subseteq r.keys
                     /\ e = [r EXCEPT !.columns = (@ \ o.gaps) \cup o.extra,
                                      !.keys = {AutoKey(k, rule) : k \in S},
                                      !.uuid = o.uuid]
  BY <1>2
<1>4. /\ e.columns = (r.columns \ o.gaps) \cup o.extra /\ e.labels = r.labels
      /\ e.unique = r.unique /\ e.keys = {AutoKey(k, rule) : k \in S}
  BY <1>1, <1>3 DEF DbFields
<1>5. /\ o.gaps \subseteq Gaps /\ o.extra \subseteq {Cif}
      /\ TaxId \in o.gaps <=> Cif \in o.extra
  BY MigrationsAssumption DEF Gaps, TaxId, Cif
<1>6. ColumnsAt(e, 0)
  <2>1. Cif \in KnownColumns
    BY DEF KnownColumns
  <2>2. ASSUME NEW s \in TableStatements PROVE Lasting(s) \subseteq e.columns
    BY <1>1, <1>4, <1>5, GapsLater DEF SchemaAt, ColumnsAt
  <2>3. ASSUME NEW i \in Strict PROVE Added(i) \cap e.columns = {}
    <3>1. i \in 2..24 /\ i > 1
      BY DEF Strict
    <3>2. Cif \notin Added(i)
      BY <3>1, Specials
    <3>3. Added(i) \cap r.columns = {}
      BY <1>1, <3>1 DEF SchemaAt, ColumnsAt
    <3> QED
      BY <1>4, <1>5, <3>2, <3>3
  <2>4. TaxId \in e.columns <=> Cif \notin e.columns
    <3>1. TaxId \in r.columns <=> Cif \notin r.columns
      BY <1>1 DEF SchemaAt, ColumnsAt
    <3>2. TaxId # Cif /\ Cif \notin o.gaps
      BY <1>5, GapsLater DEF TaxId, Cif
    <3> QED
      BY <1>4, <1>5, <3>1, <3>2
  <2>5. e.columns \subseteq KnownColumns
    BY <1>1, <1>4, <1>5, <2>1 DEF SchemaAt, ColumnsAt
  <2> QED
    BY <2>2, <2>3, <2>4, <2>5 DEF ColumnsAt
<1>7. UniqueAt(e, 0) /\ LabelsAt(e, 0)
  BY <1>1, <1>4, Floor DEF SchemaAt, UniqueAt, LabelsAt, Labels
<1>8. KeysAt(e, 0)
  <2> SUFFICES ASSUME NEW x \in e.keys
               PROVE  <<x.table, x.column>> \in e.columns /\ KeyAt(x, 0)
    BY DEF KeysAt
  <2>1. PICK k \in S : x = AutoKey(k, rule)
    BY <1>4
  <2>2. <<k.table, k.column>> \in r.columns /\ KeyAt(k, 0)
    BY <1>1, <1>3, Floor DEF SchemaAt, KeysAt
  <2>3. <<k.table, k.column>> \in ReferringColumns
    BY <2>2 DEF KeyAt
  <2>4. KeyAt(x, 0) /\ x.table = k.table /\ x.column = k.column
    BY <2>1, <2>2, AutoKeys
  <2> QED
    BY <1>4, <1>5, <2>2, <2>3, <2>4, GapsLater
<1> QED
  BY <1>6, <1>7, <1>8 DEF SchemaAt, e

-----------------------------------------------------------------------------
(* The schema, after a run and after a revert *)

\* Of the migrations, only the conversion of sales may fail, and it leaves the schema of its
\* number otherwise.
LEMMA MigrationRaises ==
    ASSUME NEW d, NEW i \in 1..24, RowsTyped(d), d.ok, SchemaAt(d, i - 1)
    PROVE  LET r == Run(d, Sequence[i].up)
           IN  (d.sale # "stray" => r.ok) /\ (r.ok => SchemaAt(r, i))
<1>1. CASE i = 1
  BY <1>1, FirstRaised
<1>2. CASE i = 5
  BY <1>2, SalesRaised
<1>3. CASE i = 7
  BY <1>3, DeletionRaised
<1>4. CASE i = 15
  BY <1>4, CifRaised
<1>5. CASE i = 20
  BY <1>5, PartialRaised
<1>6. CASE i = 21
  BY <1>6, PaidRaised
<1>7. CASE i \in (2..24) \ {5, 7, 15, 20, 21}
  BY <1>7, Raised
<1> QED
  BY <1>1, <1>2, <1>3, <1>4, <1>5, <1>6, <1>7

\* Whatever revert succeeds leaves the schema of the migration before it.
LEMMA MigrationLowers ==
    ASSUME NEW d, NEW i \in 1..24, RowsTyped(d), d.ok, SchemaAt(d, i)
    PROVE  LET r == Run(d, Sequence[i].down) IN r.ok => SchemaAt(r, i - 1)
<1>1. CASE i = 1
  BY <1>1, FirstLowered DEF RowsTyped
<1>2. CASE i \in 2..24
  BY <1>2, Lowered
<1> QED
  BY <1>1, <1>2

\* What failed stays so.
LEMMA StaysFailed ==
    ASSUME NEW d, NEW ss, Len(ss) \in Nat, ~d.ok
    PROVE  ~Run(d, ss).ok
<1> DEFINE n == Len(ss)
<1>1. PICK state : /\ state[0] = d
                   /\ \A i \in 1..n : state[i] = Step(state[i - 1], ss[i])
                   /\ Run(d, ss) = state[n]
  BY RunStates
<1> DEFINE Good == {i \in 0..n : ~state[i].ok}
<1>2. 0 \in Good
  BY <1>1
<1>3. ASSUME NEW i \in 1..n, i - 1 \in Good PROVE i \in Good
  <2>1. state[i] = state[i - 1] /\ ~state[i - 1].ok
    BY <1>1, <1>3 DEF Step
  <2> QED
    BY <2>1
<1> HIDE DEF Good
<1>4. n \in Good
  BY <1>2, <1>3, UpTo
<1> QED
  BY <1>1, <1>4 DEF Good

\* The pending migrations bring a database to the schema of the last of them, or fail on a
\* sale of an unknown user.
LEMMA SchemaForwarded ==
    ASSUME NEW d, NEW m \in 0..24, NEW n \in 0..24, m <= n,
           RowsTyped(d), d.ok, SchemaAt(d, m), m >= 16 => Filled(d)
    PROVE  LET r == Forward(d, m, n)
           IN  (d.sale # "stray" => r.ok) /\ (r.ok => SchemaAt(r, n))
<1>1. PICK state : /\ \A i \in 0..n :
                         state[i] = IF i <= m THEN d ELSE Run(state[i - 1], Sequence[i].up)
                   /\ Forward(d, m, n) = state[n]
  <2>1. m \in Nat /\ n \in Nat
    OBVIOUS
  <2>2. PICK state : /\ \A i \in 0..n :
                           state[i] = IF i <= m THEN d ELSE Run(state[i - 1], Sequence[i].up)
                     /\ Forward(d, m, n) = state[n]
    BY <2>1, ForwardStates
  <2> QED
    BY <2>2
<1> DEFINE Well(e, i) == /\ RowsTyped(e)
                         /\ i >= 16 /\ e.ok => Filled(e)
                         /\ e.ok => SchemaAt(e, i)
                         /\ d.sale # "stray" => e.sale # "stray" /\ e.ok
           Good == {i \in 0..n : i >= m => Well(state[i], i)}
<1>2. Well(d, m)
  OBVIOUS
<1>3. ASSUME NEW i \in 0..n, i <= m PROVE i \in Good
  <2>1. state[i] = d
    BY <1>1, <1>3
  <2>2. i >= m => i = m
    BY <1>3
  <2> HIDE DEF Well
  <2> QED
    BY <1>2, <2>1, <2>2
<1>4. ASSUME NEW i \in 1..24, NEW e, Well(e, i - 1) PROVE Well(Run(e, Sequence[i].up), i)
  <2> DEFINE r == Run(e, Sequence[i].up)
  <2>1. RowsTyped(e)
    BY <1>4
  <2>2. i > 16 /\ e.ok => Filled(e)
    BY <1>4
  <2>3. RowsTyped(r) /\ Kept(e, r) /\ (i >= 16 /\ r.ok => Filled(r))
    BY <2>1, <2>2, Applied
  <2>4. e.ok => (e.sale # "stray" => r.ok) /\ (r.ok => SchemaAt(r, i))
    <3> SUFFICES ASSUME e.ok PROVE (e.sale # "stray" => r.ok) /\ (r.ok => SchemaAt(r, i))
      OBVIOUS
    <3>1. SchemaAt(e, i - 1)
      BY <1>4
    <3> QED
      BY <2>1, <3>1, MigrationRaises
  <2>5. ~e.ok => ~r.ok
    <3>1. Len(Sequence[i].up) \in Nat
      BY UpsKnown DEF AllKnown
    <3> QED
      BY <3>1, StaysFailed
  <2> HIDE DEF r
  <2>6. e.sale # "stray" => r.sale # "stray"
    BY <2>3 DEF Kept
  <2>7. Well(r, i)
    BY <1>4, <2>3, <2>4, <2>5, <2>6
  <2> QED
    BY <2>7 DEF r
<1> HIDE DEF Well
<1>5. ASSUME NEW i \in 1..n, i - 1 \in Good PROVE i \in Good
  <2>1. i \in 1..24 /\ i \in 0..n
    OBVIOUS
  <2>2. CASE i <= m
    BY <1>3, <2>1, <2>2
  <2>3. CASE ~(i <= m)
    <3>1. state[i] = Run(state[i - 1], Sequence[i].up)
      BY <1>1, <2>1, <2>3
    <3>2. Well(state[i - 1], i - 1)
      BY <1>5, <2>3
    <3> QED
      BY <1>4, <2>1, <3>1, <3>2
  <2> QED
    BY <2>2, <2>3
<1>6. 0 \in Good
  BY <1>3
<1> HIDE DEF Good
<1>7. n \in Good
  BY <1>5, <1>6, UpTo
<1>8. Well(state[n], n)
  BY <1>7 DEF Good
<1> QED
  BY <1>1, <1>8 DEF Well

-----------------------------------------------------------------------------
(* The schema after the last migration *)

\* The columns of an entity, and those that a statement makes.
Declared(e) == Cols(e.table, e.columns)
Made(s) == Cols(s.table, s.columns)

\* The tables of InitialSchema, one by one.
LEMMA StatementList ==
    ASSUME NEW s
    PROVE  s \in TableStatements <=>
               \/ s = InitialCatalogue[1] \/ s = InitialCatalogue[2] \/ s = InitialCatalogue[3]
               \/ s = InitialCatalogue[4] \/ s = InitialCatalogue[5] \/ s = InitialCatalogue[6]
               \/ s = InitialCatalogue[7] \/ s = InitialCatalogue[8] \/ s = InitialOrders[1]
               \/ s = InitialOrders[2] \/ s = InitialOrders[3] \/ s = InitialOrders[4]
               \/ s = InitialOrders[5] \/ s = InitialOrders[6] \/ s = InitialOrders[7]
               \/ s = InitialOrders[8] \/ s = InitialOrders[9]
BY DEF TableStatements

\* The columns that each entity declares, by what made them.
LEMMA EntitiesMade ==
    /\ Declared(User) = Made(InitialCatalogue[1])
    /\ Declared(ConsumerGroup) = Made(InitialCatalogue[2])
    /\ Declared(RefreshToken) = Made(InitialCatalogue[3])
    /\ Declared(Producer) = Made(InitialCatalogue[5])
    /\ Declared(ArticlePriceHistory) = Made(InitialCatalogue[7])
    /\ Declared(Category) = Made(InitialCatalogue[8])
    /\ Declared(PeriodArticle) = Made(InitialOrders[2])
    /\ Declared(Order) = Made(InitialOrders[3])
    /\ Declared(Sale) = Made(InitialOrders[5])
    /\ Declared(SaleItem) = Made(InitialOrders[6])
    /\ Declared(Notice) = Made(InitialOrders[7])
    /\ Declared(Supplier) = (Made(InitialCatalogue[4]) \ {TaxId}) \cup {Cif}
    /\ Declared(Article) = Made(InitialCatalogue[6]) \cup Added(16)
                               \cup {<<"articles", "customization_options">>}
    /\ Declared(Period) = Made(InitialOrders[1]) \cup Added(17) \cup Added(18)
    /\ Declared(OrderItem) = (Made(InitialOrders[4]) \ {PaidAmount}) \cup Added(14) \cup Added(23)
                                 \cup {<<"order_items", "selected_options">>}
    /\ Declared(UserConsumerGroup) = Made(InitialOrders[8])
                                         \cup {<<"user_consumer_groups", "is_preparer">>}
    /\ Declared(GroupInvitation) = Made(InitialOrders[9])
                                       \cup {<<"group_invitations", "is_preparer">>}
    /\ Declared(SystemConfig) = Added(3)
    /\ Declared(BasketScheduleConfig) \cup Declared(BasketScheduleVote)
           \cup Declared(BasketScheduleAssignment) = Added(22)
    /\ Declared(PeriodUserPayment) = Added(24)
<1> USE DEF Declared, Made, Entity, CreateTableIfNotExists
<1>1. Declared(User) = Made(InitialCatalogue[1])
  BY DEF User, InitialCatalogue
<1>2. Declared(ConsumerGroup) = Made(InitialCatalogue[2])
  BY DEF ConsumerGroup, InitialCatalogue
<1>3. Declared(RefreshToken) = Made(InitialCatalogue[3])
  BY DEF RefreshToken, InitialCatalogue
<1>4. Declared(Producer) = Made(InitialCatalogue[5])
  BY DEF Producer, InitialCatalogue
<1>5. Declared(ArticlePriceHistory) = Made(InitialCatalogue[7])
  BY DEF ArticlePriceHistory, InitialCatalogue
<1>6. Declared(Category) = Made(InitialCatalogue[8])
  BY DEF Category, InitialCatalogue
<1>7. Declared(PeriodArticle) = Made(InitialOrders[2])
  BY DEF PeriodArticle, InitialOrders
<1>8. Declared(Order) = Made(InitialOrders[3])
  BY DEF Order, InitialOrders
<1>9. Declared(Sale) = Made(InitialOrders[5])
  BY DEF Sale, InitialOrders
<1>10. Declared(SaleItem) = Made(InitialOrders[6])
  BY DEF SaleItem, InitialOrders
<1>11. Declared(Notice) = Made(InitialOrders[7])
  BY DEF Notice, InitialOrders
<1>12. Declared(Supplier) = (Made(InitialCatalogue[4]) \ {TaxId}) \cup {Cif}
  BY DEF Supplier, InitialCatalogue, Cols, TaxId, Cif
<1>13. Declared(Article) = Made(InitialCatalogue[6]) \cup Added(16)
                                \cup {<<"articles", "customization_options">>}
  BY DEF Article, InitialCatalogue, Cols, Added
<1>14. Declared(Period) = Made(InitialOrders[1]) \cup Added(17) \cup Added(18)
  BY DEF Period, InitialOrders, Cols, Added
<1>15. Declared(OrderItem) = (Made(InitialOrders[4]) \ {PaidAmount}) \cup Added(14) \cup Added(23)
                                  \cup {<<"order_items", "selected_options">>}
  BY DEF OrderItem, InitialOrders, Cols, Added, PaidAmount
<1>16. Declared(UserConsumerGroup) = Made(InitialOrders[8])
                                          \cup {<<"user_consumer_groups", "is_preparer">>}
  BY DEF UserConsumerGroup, InitialOrders, Cols
<1>17. Declared(GroupInvitation) = Made(InitialOrders[9])
                                        \cup {<<"group_invitations", "is_preparer">>}
  BY DEF GroupInvitation, InitialOrders, Cols
<1>18. Declared(SystemConfig) = Added(3)
  BY DEF SystemConfig, Added
<1>19. Declared(BasketScheduleConfig) \cup Declared(BasketScheduleVote)
            \cup Declared(BasketScheduleAssignment) = Added(22)
  BY DEF BasketScheduleConfig, BasketScheduleVote, BasketScheduleAssignment, Added
<1>20. Declared(PeriodUserPayment) = Added(24)
  BY DEF PeriodUserPayment, Added
<1> HIDE DEF Declared, Made, Entity, CreateTableIfNotExists
<1> QED
  BY <1>1, <1>2, <1>3, <1>4, <1>5, <1>6, <1>7, <1>8, <1>9, <1>10, <1>11, <1>12, <1>13, <1>14,
     <1>15, <1>16, <1>17, <1>18, <1>19, <1>20

\* The columns of each migration that adds some.
LEMMA AddedAll ==
    /\ Added(2) = {<<"user_consumer_groups", "is_preparer">>,
                   <<"group_invitations", "is_preparer">>}
    /\ Added(19) = {<<"articles", "customization_options">>,
                    <<"order_items", "selected_options">>}
    /\ Added(6) \subseteq Made(InitialOrders[3]) \cup Made(InitialOrders[5])
    /\ Added(8) \cup Added(9) \subseteq Made(InitialCatalogue[6])
    /\ Added(10) \cup Added(11) \cup Added(12) \subseteq Made(InitialOrders[3])
    /\ \A i \in {4, 5, 7, 13, 15, 20, 21} : Added(i) = {}
<1>1. /\ Added(2) = {<<"user_consumer_groups", "is_preparer">>,
                     <<"group_invitations", "is_preparer">>}
      /\ Added(19) = {<<"articles", "customization_options">>,
                      <<"order_items", "selected_options">>}
      /\ \A i \in {4, 5, 7, 13, 15, 20, 21} : Added(i) = {}
  BY DEF Added
<1>2. Added(6) \subseteq Made(InitialOrders[3]) \cup Made(InitialOrders[5])
  BY DEF Added, Made, InitialOrders, CreateTableIfNotExists, Cols
<1>3. Added(8) \cup Added(9) \subseteq Made(InitialCatalogue[6])
  BY DEF Added, Made, InitialCatalogue, CreateTableIfNotExists, Cols
<1>4. Added(10) \cup Added(11) \cup Added(12) \subseteq Made(InitialOrders[3])
  BY DEF Added, Made, InitialOrders, CreateTableIfNotExists, Cols
<1> QED
  BY <1>1, <1>2, <1>3, <1>4

\* No entity declares what was renamed or dropped.
LEMMA NoneGone == \A e \in Schema : TaxId \notin Declared(e) /\ PaidAmount \notin Declared(e)
<1> DEFINE G(e) == TaxId \notin Declared(e) /\ PaidAmount \notin Declared(e)
<1> USE DEF Declared, Entity, TaxId, PaidAmount, Cols
<1>1. G(User) /\ G(RefreshToken) /\ G(ConsumerGroup)
  BY DEF User, RefreshToken, ConsumerGroup
<1>2. G(UserConsumerGroup) /\ G(GroupInvitation) /\ G(BasketScheduleConfig)
  BY DEF UserConsumerGroup, GroupInvitation, BasketScheduleConfig
<1>3. G(BasketScheduleVote) /\ G(BasketScheduleAssignment) /\ G(Supplier)
  BY DEF BasketScheduleVote, BasketScheduleAssignment, Supplier
<1>4. G(Producer) /\ G(Category) /\ G(Article) /\ G(ArticlePriceHistory)
  BY DEF Producer, Category, Article, ArticlePriceHistory
<1>5. G(Period) /\ G(PeriodArticle) /\ G(Order) /\ G(OrderItem) /\ G(PeriodUserPayment)
  BY DEF Period, PeriodArticle, Order, OrderItem, PeriodUserPayment
<1>6. G(Sale) /\ G(SaleItem) /\ G(Notice) /\ G(SystemConfig)
  BY DEF Sale, SaleItem, Notice, SystemConfig
<1> HIDE DEF G
<1>7. \A e \in Schema : G(e)
  BY <1>1, <1>2, <1>3, <1>4, <1>5, <1>6 DEF Schema
<1> QED
  BY <1>7 DEF G

\* What the entities declare is what the migrations have made and neither renamed nor dropped.
LEMMA DeclaredColumns ==
    UNION {Declared(e) : e \in Schema} = KnownColumns \ {TaxId, PaidAmount}
<1>1. ASSUME NEW e \in Schema, NEW c \in Declared(e) PROVE c \in KnownColumns
  <2>1. \A s \in TableStatements : Made(s) \subseteq KnownColumns
    BY DEF KnownColumns, Made
  <2>2. \A i \in 2..24 : Added(i) \subseteq KnownColumns
    BY DEF KnownColumns
  <2>3. Cif \in KnownColumns
    BY DEF KnownColumns
  <2>4. /\ \A j \in 1..8 : Made(InitialCatalogue[j]) \subseteq KnownColumns
        /\ \A j \in 1..9 : Made(InitialOrders[j]) \subseteq KnownColumns
    BY <2>1 DEF TableStatements
  <2>5. /\ <<"articles", "customization_options">> \in KnownColumns
        /\ <<"order_items", "selected_options">> \in KnownColumns
        /\ <<"user_consumer_groups", "is_preparer">> \in KnownColumns
        /\ <<"group_invitations", "is_preparer">> \in KnownColumns
    BY <2>2, AddedAll
  <2> DEFINE G(x) == Declared(x) \subseteq KnownColumns
  <2>6. /\ G(User) /\ G(ConsumerGroup) /\ G(RefreshToken) /\ G(Producer)
        /\ G(ArticlePriceHistory) /\ G(Category) /\ G(PeriodArticle) /\ G(Order) /\ G(Sale)
        /\ G(SaleItem) /\ G(Notice)
    BY <2>4, EntitiesMade
  <2>7. G(Supplier) /\ G(Article) /\ G(Period) /\ G(OrderItem)
    BY <2>2, <2>3, <2>4, <2>5, EntitiesMade
  <2>8. /\ G(UserConsumerGroup) /\ G(GroupInvitation) /\ G(SystemConfig)
        /\ G(BasketScheduleConfig) /\ G(BasketScheduleVote) /\ G(BasketScheduleAssignment)
        /\ G(PeriodUserPayment)
    BY <2>2, <2>4, <2>5, EntitiesMade
  <2> HIDE DEF G
  <2>9. G(e)
    BY <2>6, <2>7, <2>8 DEF Schema
  <2> QED
    BY <1>1, <2>9 DEF G
<1>2. ASSUME NEW c \in KnownColumns, c \notin {TaxId, PaidAmount}
      PROVE  \E e \in Schema : c \in Declared(e)
  <2> DEFINE Has == \E e \in Schema : c \in Declared(e)
  <2>1. /\ c \in Declared(User) \/ c \in Declared(ConsumerGroup) \/ c \in Declared(RefreshToken)
              => Has
        /\ c \in Declared(Supplier) \/ c \in Declared(Producer) \/ c \in Declared(Article)
              => Has
        /\ c \in Declared(ArticlePriceHistory) \/ c \in Declared(Category)
              \/ c \in Declared(Period) \/ c \in Declared(PeriodArticle) => Has
        /\ c \in Declared(Order) \/ c \in Declared(OrderItem) \/ c \in Declared(Sale)
              \/ c \in Declared(SaleItem) \/ c \in Declared(Notice) => Has
        /\ c \in Declared(UserConsumerGroup) \/ c \in Declared(GroupInvitation)
              \/ c \in Declared(SystemConfig) \/ c \in Declared(PeriodUserPayment) => Has
        /\ c \in Declared(BasketScheduleConfig) \/ c \in Declared(BasketScheduleVote)
              \/ c \in Declared(BasketScheduleAssignment) => Has
    BY DEF Schema
  <2> HIDE DEF Has
  <2>2. ASSUME NEW s \in TableStatements, c \in Made(s) PROVE Has
    <3> DEFINE M(x) == c \in Made(x)
    <3>1. /\ \A j \in {1, 2, 3, 4} : M(InitialCatalogue[j]) => Has
          /\ \A j \in {5, 6, 7, 8} : M(InitialCatalogue[j]) => Has
      BY <1>2, <2>1, EntitiesMade
    <3>2. /\ \A j \in {1, 2, 3, 4} : M(InitialOrders[j]) => Has
          /\ \A j \in {5, 6, 7, 8, 9} : M(InitialOrders[j]) => Has
      BY <1>2, <2>1, EntitiesMade
    <3>3. M(s)
      BY <2>2
    <3> HIDE DEF M
    <3> QED
      BY <3>1, <3>2, <3>3, StatementList
  <2>3. c = Cif => Has
    BY <2>1, EntitiesMade
  <2>4. ASSUME NEW i \in 2..24, c \in Added(i) PROVE Has
    <3>1. \A j \in {3, 14, 16, 17, 18, 22, 23, 24} : c \in Added(j) => Has
      BY <2>1, EntitiesMade
    <3>2. \A j \in {2, 19} : c \in Added(j) => Has
      BY <2>1, EntitiesMade, AddedAll
    <3>3. \A j \in {6, 8, 9, 10, 11, 12} : c \in Added(j) => Has
      BY <2>1, EntitiesMade, AddedAll
    <3>4. \A j \in {4, 5, 7, 13, 15, 20, 21} : c \notin Added(j)
      BY AddedAll
    <3>5. i \in {3, 14, 16, 17, 18, 22, 23, 24} \cup {2, 19} \cup {6, 8, 9, 10, 11, 12}
                \cup {4, 5, 7, 13, 15, 20, 21}
      OBVIOUS
    <3> QED
      BY <2>4, <3>1, <3>2, <3>3, <3>4, <3>5
  <2> QED
    BY <1>2, <2>2, <2>3, <2>4, ColumnOrigin DEF Has, Made
<1> QED
  BY <1>1, <1>2, NoneGone

\* After the last migration, the columns are those.
LEMMA LastColumns ==
    ASSUME NEW d, SchemaAt(d, 24)
    PROVE  d.columns = UNION {Cols(e.table, e.columns) : e \in Schema}
<1>1. d.columns \subseteq KnownColumns
  BY DEF SchemaAt, ColumnsAt
<1>2. TaxId \notin d.columns /\ PaidAmount \notin d.columns /\ Cif \in d.columns
  BY DEF SchemaAt, ColumnsAt
<1>3. \A s \in TableStatements : Lasting(s) \subseteq d.columns
  BY DEF SchemaAt, ColumnsAt
<1>4. \A i \in 2..24 : Added(i) \subseteq d.columns
  BY DEF SchemaAt, ColumnsAt
<1>5. ASSUME NEW c \in KnownColumns, c \notin {TaxId, PaidAmount} PROVE c \in d.columns
  <2>1. ASSUME NEW s \in TableStatements, c \in Cols(s.table, s.columns) PROVE c \in d.columns
    <3>1. c \in Lasting(s) \/ \E i \in 2..24 : c \in Added(i)
      BY <1>5, <2>1 DEF Lasting
    <3> QED
      BY <1>3, <1>4, <3>1
  <2> QED
    BY <1>2, <1>4, <1>5, <2>1, ColumnOrigin
<1>6. d.columns = KnownColumns \ {TaxId, PaidAmount}
  BY <1>1, <1>2, <1>5
<1> QED
  BY <1>6, DeclaredColumns DEF Declared

\* After the last migration, the unique indexes are those of the entities.
LEMMA DeclaredUnique ==
    UNION {{e.table} \X e.unique : e \in Schema}
        = InitialUnique \cup {MemberIndex} \cup IndexesOf(22) \cup IndexesOf(24)
<1> DEFINE Q(e) == {e.table} \X e.unique
           All == InitialUnique \cup {MemberIndex} \cup IndexesOf(22) \cup IndexesOf(24)
           U == UNION {Q(e) : e \in Schema}
<1>1. /\ Q(Supplier) = {} /\ Q(Category) = {} /\ Q(ArticlePriceHistory) = {} /\ Q(Period) = {}
      /\ Q(PeriodArticle) = {} /\ Q(Order) = {} /\ Q(Sale) = {} /\ Q(SaleItem) = {}
      /\ Q(SystemConfig) = {} /\ Q(BasketScheduleConfig) = {}
  BY DEF Supplier, Category, ArticlePriceHistory, Period, PeriodArticle, Order, Sale, SaleItem,
         SystemConfig, BasketScheduleConfig, Entity
<1>2. /\ Producer.unique = {} /\ Article.unique = {} /\ OrderItem.unique = {}
      /\ Notice.unique = {}
  BY Zenon DEF Producer, Article, OrderItem, Notice, Entity
<1>3. Q(Producer) = {} /\ Q(Article) = {} /\ Q(OrderItem) = {} /\ Q(Notice) = {}
  BY <1>2
<1>4. /\ Q(User) = {<<"users", {"email"}>>}
      /\ Q(ConsumerGroup) = {<<"consumer_groups", {"email"}>>}
      /\ Q(RefreshToken) = {<<"refresh_tokens", {"token"}>>}
      /\ Q(GroupInvitation) = {<<"group_invitations", {"token"}>>}
      /\ Q(UserConsumerGroup) = {MemberIndex}
  BY DEF User, ConsumerGroup, RefreshToken, GroupInvitation, UserConsumerGroup, MemberIndex, Entity
<1>5. Q(BasketScheduleVote) \cup Q(BasketScheduleAssignment) = IndexesOf(22)
  BY DEF BasketScheduleVote, BasketScheduleAssignment, IndexesOf, Entity
<1>6. Q(PeriodUserPayment) = IndexesOf(24)
  BY DEF PeriodUserPayment, IndexesOf, Entity
<1> HIDE DEF Q
<1>7. InitialUnique = Q(User) \cup Q(ConsumerGroup) \cup Q(RefreshToken) \cup Q(GroupInvitation)
  BY <1>4 DEF InitialUnique
<1> HIDE DEF All
<1>8. All = Q(User) \cup Q(ConsumerGroup) \cup Q(RefreshToken) \cup Q(GroupInvitation)
            \cup Q(UserConsumerGroup) \cup Q(BasketScheduleVote) \cup Q(BasketScheduleAssignment)
            \cup Q(PeriodUserPayment)
  BY <1>4, <1>5, <1>6, <1>7 DEF All
<1>9. \A e \in Schema : Q(e) \subseteq All
  BY <1>1, <1>3, <1>8 DEF Schema
<1>10. /\ User \in Schema /\ ConsumerGroup \in Schema /\ RefreshToken \in Schema
       /\ GroupInvitation \in Schema /\ UserConsumerGroup \in Schema
       /\ BasketScheduleVote \in Schema /\ BasketScheduleAssignment \in Schema
       /\ PeriodUserPayment \in Schema
  BY DEF Schema
<1>11. U = All
  BY <1>8, <1>9, <1>10
<1> QED
  BY <1>11 DEF Q, All

\* So are they in the database.
LEMMA LastUnique ==
    ASSUME NEW d, SchemaAt(d, 24)
    PROVE  d.unique = UNION {{e.table} \X e.unique : e \in Schema}
<1>1. d.unique \subseteq InitialUnique \cup {MemberIndex} \cup IndexesOf(22) \cup IndexesOf(24)
  BY DEF SchemaAt, UniqueAt
<1>2. /\ MemberIndex \in d.unique
      /\ IndexesOf(22) \subseteq d.unique /\ IndexesOf(24) \subseteq d.unique
  BY DEF SchemaAt, UniqueAt
<1>3. \A s \in TableStatements : {s.table} \X s.unique \subseteq d.unique
  BY DEF SchemaAt, UniqueAt
<1>4. InitialUnique \subseteq d.unique
  <2>1. /\ InitialCatalogue[1].table = "users" /\ InitialCatalogue[1].unique = {{"email"}}
        /\ InitialCatalogue[2].table = "consumer_groups"
        /\ InitialCatalogue[2].unique = {{"email"}}
        /\ InitialCatalogue[3].table = "refresh_tokens"
        /\ InitialCatalogue[3].unique = {{"token"}}
    BY DEF InitialCatalogue, CreateTableIfNotExists
  <2>2. /\ InitialOrders[9].table = "group_invitations"
        /\ InitialOrders[9].unique = {{"token"}}
    BY DEF InitialOrders, CreateTableIfNotExists
  <2>3. /\ InitialCatalogue[1] \in TableStatements /\ InitialCatalogue[2] \in TableStatements
        /\ InitialCatalogue[3] \in TableStatements /\ InitialOrders[9] \in TableStatements
    BY DEF TableStatements
  <2>4. <<"users", {"email"}>> \in d.unique /\ <<"consumer_groups", {"email"}>> \in d.unique
    BY <1>3, <2>1, <2>3
  <2>5. <<"refresh_tokens", {"token"}>> \in d.unique
        /\ <<"group_invitations", {"token"}>> \in d.unique
    BY <1>3, <2>1, <2>2, <2>3
  <2> QED
    BY <2>4, <2>5 DEF InitialUnique
<1> QED
  BY <1>1, <1>2, <1>4, DeclaredUnique

\* After the last migration, the labels of the enumerated types are those of the code.
LEMMA LastLabels ==
    ASSUME NEW d, SchemaAt(d, 24)
    PROVE  d.labels = Cols("users_roles_enum", UserRole)
                      \cup Cols("articles_unit_measure_enum", UnitMeasure)
                      \cup Cols("orders_payment_status_enum", PaymentStatus)
                      \cup Cols("sales_payment_status_enum", PaymentStatus)
                      \cup Cols("period_user_payments_payment_status_enum", PaymentStatus)
                      \cup Cols("periods_recurrence_enum", PeriodRecurrence)
<1> DEFINE L(j) == Cols(InitialEnums[j].enum, InitialEnums[j].labels)
<1>1. /\ Cols("users_roles_enum", UserRole) = L(1) \cup LabelsOf(4)
      /\ Cols("articles_unit_measure_enum", UnitMeasure) = L(2) \cup LabelsOf(13)
      /\ Cols("orders_payment_status_enum", PaymentStatus) = L(3) \ PartialLabels
      /\ Cols("sales_payment_status_enum", PaymentStatus) = L(4) \ PartialLabels
      /\ Cols("periods_recurrence_enum", PeriodRecurrence) = L(5)
      /\ Cols("period_user_payments_payment_status_enum", PaymentStatus) = LabelsOf(24)
  <2> USE DEF InitialEnums, CreateEnumIfNotExists, Cols
  <2>1. Cols("users_roles_enum", UserRole) = L(1) \cup LabelsOf(4)
    BY DEF UserRole, LabelsOf
  <2>2. Cols("articles_unit_measure_enum", UnitMeasure) = L(2) \cup LabelsOf(13)
    BY DEF UnitMeasure, LabelsOf
  <2>3. Cols("orders_payment_status_enum", PaymentStatus) = L(3) \ PartialLabels
    BY DEF PaymentStatus, PartialLabels
  <2>4. Cols("sales_payment_status_enum", PaymentStatus) = L(4) \ PartialLabels
    BY DEF PaymentStatus, PartialLabels
  <2>5. Cols("periods_recurrence_enum", PeriodRecurrence) = L(5)
    BY DEF PeriodRecurrence
  <2>6. Cols("period_user_payments_payment_status_enum", PaymentStatus) = LabelsOf(24)
    BY DEF PaymentStatus, LabelsOf, PaymentEnum
  <2> QED
    BY <2>1, <2>2, <2>3, <2>4, <2>5, <2>6
<1>2. PartialLabels \cap (L(1) \cup L(2) \cup L(5)) = {}
  BY DEF PartialLabels, InitialEnums, CreateEnumIfNotExists, Cols
<1> HIDE DEF L
<1>3. \A j \in 1..5 : L(j) \ PartialLabels \subseteq d.labels
  <2>1. \A j \in 1..5 : InitialEnums[j] \in EnumStatements
    BY DEF EnumStatements
  <2>2. \A s \in EnumStatements : LastingLabels(s) \subseteq d.labels
    BY DEF SchemaAt, LabelsAt
  <2> QED
    BY <2>1, <2>2 DEF LastingLabels, L
<1>4. /\ LabelsOf(4) \subseteq d.labels /\ LabelsOf(13) \subseteq d.labels
      /\ LabelsOf(24) \subseteq d.labels /\ d.labels \cap PartialLabels = {}
  BY DEF SchemaAt, LabelsAt
<1>5. ASSUME NEW l \in d.labels
      PROVE  \/ \E j \in 1..5 : l \in L(j)
             \/ l \in LabelsOf(4) \cup LabelsOf(13) \cup LabelsOf(24)
  BY DEF SchemaAt, LabelsAt, EnumStatements, L
<1>6. d.labels \subseteq (L(1) \cup L(2) \cup L(3) \cup L(4) \cup L(5)
                          \cup LabelsOf(4) \cup LabelsOf(13) \cup LabelsOf(24)) \ PartialLabels
  <2>1. \A j \in 1..5 : j = 1 \/ j = 2 \/ j = 3 \/ j = 4 \/ j = 5
    OBVIOUS
  <2> QED
    BY <1>4, <1>5, <2>1
<1>7. /\ L(1) \subseteq d.labels /\ L(2) \subseteq d.labels /\ L(5) \subseteq d.labels
      /\ L(3) \ PartialLabels \subseteq d.labels /\ L(4) \ PartialLabels \subseteq d.labels
  BY <1>2, <1>3
<1> QED
  BY <1>1, <1>4, <1>6, <1>7

\* The columns that have a key after the last migration.
LastReferring == RefersFrom(1) \cup RefersFrom(14) \cup RefersFrom(22) \cup RefersFrom(24)

\* The rule of such a key that has the name that the migrations give.
LastRule(c) == IF c = LineArticle THEN SetNull ELSE RuleOf(c)

\* What an entity says of deletions, but where it diverges, is what the migrations made.
Agrees(e) ==
    \A r \in e.onDelete :
        LET c == <<e.table, r[1]>>
        IN  c \notin Divergent => c \in LastReferring /\ c # NoticeGroup /\ r[2] = LastRule(c)

\* They agree, all of them.
LEMMA EntitiesAgree == \A e \in Schema : Agrees(e)
<1> DEFINE Fits(t, rules) ==
              \A r \in rules :
                  LET c == <<t, r[1]>>
                  IN  c \notin Divergent =>
                          c \in LastReferring /\ c # NoticeGroup /\ r[2] = LastRule(c)
<1>a. ASSUME NEW e, NEW t, NEW rules, e.table = t, e.onDelete = rules, Fits(t, rules)
      PROVE  Agrees(e)
  BY <1>a DEF Agrees
<1>1. /\ Agrees(User) /\ Agrees(ConsumerGroup) /\ Agrees(GroupInvitation)
      /\ Agrees(SystemConfig)
  BY DEF Agrees, User, ConsumerGroup, GroupInvitation, SystemConfig, Entity
<1>2. Agrees(Notice)
  <2>1. Notice.table = "notices"
    BY Zenon DEF Notice, Entity
  <2>2. \E v : Notice.onDelete = {<<"groupId", v>>}
    BY Zenon DEF Notice, Entity
  <2> QED
    BY <2>1, <2>2 DEF Agrees, Divergent
<1> USE DEF LastReferring, LastRule, RefersFrom, RuleOf, NoticeGroup, LineArticle
<1>3. Fits("refresh_tokens", {<<"user_email", "CASCADE">>})
  OBVIOUS
<1>4. Fits("user_consumer_groups",
           {<<"user_email", "CASCADE">>, <<"consumer_group_id", "CASCADE">>})
  OBVIOUS
<1>5. /\ Fits("basket_schedule_config", {<<"consumer_group_id", "CASCADE">>})
      /\ Fits("basket_schedule_votes", {<<"consumer_group_id", "CASCADE">>})
      /\ Fits("basket_schedule_assignments", {<<"consumer_group_id", "CASCADE">>})
  OBVIOUS
<1>6. /\ Fits("suppliers", {<<"consumer_group_id", "CASCADE">>})
      /\ Fits("categories", {<<"consumer_group_id", "CASCADE">>})
  OBVIOUS
<1>7. /\ Fits("producers", {<<"supplier_id", SetNull>>, <<"consumer_group_id", "CASCADE">>})
      /\ Fits("articles", {<<"producer_id", SetNull>>, <<"consumer_group_id", "CASCADE">>})
  OBVIOUS
<1>8. /\ Fits("article_price_history", {<<"article_id", "CASCADE">>})
      /\ Fits("periods", {<<"supplier_id", "CASCADE">>})
  OBVIOUS
<1>9. Fits("period_articles", {<<"period_id", "CASCADE">>, <<"article_id", "CASCADE">>})
  OBVIOUS
<1>10. Fits("orders", {<<"user_id", "CASCADE">>, <<"consumer_group_id", "CASCADE">>})
  OBVIOUS
<1>11. Fits("order_items", {<<"order_id", "CASCADE">>, <<"article_id", SetNull>>,
                            <<"period_id", SetNull>>})
  OBVIOUS
<1>12. Fits("period_user_payments", {<<"period_id", "CASCADE">>, <<"user_id", "CASCADE">>,
                                     <<"consumer_group_id", "CASCADE">>})
  OBVIOUS
<1>13. Fits("sales", {<<"user_email", "CASCADE">>, <<"consumer_group_id", "CASCADE">>})
  BY DEF Divergent
<1>14. Fits("sale_items", {<<"sale_id", "CASCADE">>, <<"article_id", "RESTRICT">>})
  OBVIOUS
<1> HIDE DEF LastReferring, LastRule, RefersFrom, RuleOf, NoticeGroup, LineArticle, Fits
<1>15. /\ RefreshToken.table = "refresh_tokens"
       /\ RefreshToken.onDelete = {<<"user_email", "CASCADE">>}
       /\ UserConsumerGroup.table = "user_consumer_groups"
       /\ UserConsumerGroup.onDelete = {<<"user_email", "CASCADE">>,
                                        <<"consumer_group_id", "CASCADE">>}
  BY DEF RefreshToken, UserConsumerGroup, Entity
<1>16. /\ BasketScheduleConfig.table = "basket_schedule_config"
       /\ BasketScheduleConfig.onDelete = {<<"consumer_group_id", "CASCADE">>}
       /\ BasketScheduleVote.table = "basket_schedule_votes"
       /\ BasketScheduleVote.onDelete = {<<"consumer_group_id", "CASCADE">>}
       /\ BasketScheduleAssignment.table = "basket_schedule_assignments"
       /\ BasketScheduleAssignment.onDelete = {<<"consumer_group_id", "CASCADE">>}
  BY DEF BasketScheduleConfig, BasketScheduleVote, BasketScheduleAssignment, Entity
<1>17. /\ Supplier.table = "suppliers"
       /\ Supplier.onDelete = {<<"consumer_group_id", "CASCADE">>}
       /\ Category.table = "categories"
       /\ Category.onDelete = {<<"consumer_group_id", "CASCADE">>}
  BY DEF Supplier, Category, Entity
<1>18. /\ Producer.table = "producers"
       /\ Producer.onDelete = {<<"supplier_id", SetNull>>, <<"consumer_group_id", "CASCADE">>}
       /\ Article.table = "articles"
       /\ Article.onDelete = {<<"producer_id", SetNull>>, <<"consumer_group_id", "CASCADE">>}
       /\ OrderItem.table = "order_items"
       /\ OrderItem.onDelete = {<<"order_id", "CASCADE">>, <<"article_id", SetNull>>,
                                <<"period_id", SetNull>>}
  BY Zenon DEF Producer, Article, OrderItem, Entity, SetNull
<1>19. /\ ArticlePriceHistory.table = "article_price_history"
       /\ ArticlePriceHistory.onDelete = {<<"article_id", "CASCADE">>}
       /\ Period.table = "periods"
       /\ Period.onDelete = {<<"supplier_id", "CASCADE">>}
       /\ PeriodArticle.table = "period_articles"
       /\ PeriodArticle.onDelete = {<<"period_id", "CASCADE">>, <<"article_id", "CASCADE">>}
  BY DEF ArticlePriceHistory, Period, PeriodArticle, Entity
<1>20. /\ Order.table = "orders"
       /\ Order.onDelete = {<<"user_id", "CASCADE">>, <<"consumer_group_id", "CASCADE">>}
       /\ PeriodUserPayment.table = "period_user_payments"
       /\ PeriodUserPayment.onDelete = {<<"period_id", "CASCADE">>, <<"user_id", "CASCADE">>,
                                        <<"consumer_group_id", "CASCADE">>}
  BY DEF Order, PeriodUserPayment, Entity
<1>21. /\ Sale.table = "sales"
       /\ Sale.onDelete = {<<"user_email", "CASCADE">>, <<"consumer_group_id", "CASCADE">>}
       /\ SaleItem.table = "sale_items"
       /\ SaleItem.onDelete = {<<"sale_id", "CASCADE">>, <<"article_id", "RESTRICT">>}
  BY DEF Sale, SaleItem, Entity
<1>22. Agrees(RefreshToken) /\ Agrees(UserConsumerGroup)
  BY <1>a, <1>3, <1>4, <1>15
<1>23. /\ Agrees(BasketScheduleConfig) /\ Agrees(BasketScheduleVote)
       /\ Agrees(BasketScheduleAssignment)
  BY <1>a, <1>5, <1>16
<1>24. Agrees(Supplier) /\ Agrees(Category)
  BY <1>a, <1>6, <1>17
<1>25. Agrees(Producer) /\ Agrees(Article) /\ Agrees(OrderItem)
  BY <1>a, <1>7, <1>11, <1>18
<1>26. Agrees(ArticlePriceHistory) /\ Agrees(Period) /\ Agrees(PeriodArticle)
  BY <1>a, <1>8, <1>9, <1>19
<1>27. Agrees(Order) /\ Agrees(PeriodUserPayment)
  BY <1>a, <1>10, <1>12, <1>20
<1>28. Agrees(Sale) /\ Agrees(SaleItem)
  BY <1>a, <1>13, <1>14, <1>21
<1> QED
  BY <1>1, <1>2, <1>22, <1>23, <1>24, <1>25, <1>26, <1>27, <1>28 DEF Schema

\* After the last migration, the keys are those of the entities: a column that synchronize
\* gave a key of its own has it still.
LEMMA LastRules ==
    ASSUME NEW d, SchemaAt(d, 24), NEW e \in Schema, NEW r \in e.onDelete,
           <<e.table, r[1]>> \notin Divergent
    PROVE  LET rules == Rules(d, e.table, r[1])
           IN  IF \E k \in KeysOf(d, e.table, r[1]) : k.auto THEN r[2] \in rules ELSE rules = {r[2]}
<1> DEFINE c == <<e.table, r[1]>>
           keys == KeysOf(d, e.table, r[1])
<1>1. c \in LastReferring /\ c # NoticeGroup /\ r[2] = LastRule(c)
  BY EntitiesAgree DEF Agrees
<1>2. PICK k \in keys : ~k.auto
  <2>1. \A i \in {1, 14, 22, 24} : \A b \in RefersFrom(i) : NamedKey(d, b[1], b[2])
    BY DEF SchemaAt, KeysAt
  <2>2. c[1] = e.table /\ c[2] = r[1]
    OBVIOUS
  <2> HIDE DEF c
  <2>3. NamedKey(d, c[1], c[2])
    BY <1>1, <2>1 DEF LastReferring
  <2> QED
    BY <2>2, <2>3 DEF NamedKey
<1>3. ASSUME NEW x \in keys PROVE KeyAt(x, 24) /\ <<x.table, x.column>> = c
  BY DEF SchemaAt, KeysAt, KeysOf
<1>4. ASSUME NEW x \in keys, c = LineArticle PROVE ~x.auto => x.rule = LastRule(c)
  <2>1. x.rule = IF ~x.auto /\ 24 >= 7 THEN SetNull ELSE "RESTRICT"
    BY <1>3, <1>4 DEF KeyAt
  <2> QED
    BY <1>4, <2>1 DEF LastRule
<1>5. ASSUME NEW x \in keys, c # LineArticle PROVE x.rule = LastRule(c)
  <2> HIDE DEF c
  <2>1. x.rule = RuleOf(c)
    BY <1>1, <1>3, <1>5 DEF KeyAt
  <2> QED
    BY <1>5, <2>1 DEF LastRule
<1> HIDE DEF c
<1>6. Rules(d, e.table, r[1]) = {x.rule : x \in keys}
  BY DEF Rules
<1> HIDE DEF keys
<1>7. k.rule = LastRule(c)
  BY <1>2, <1>4, <1>5
<1>8. (\A x \in keys : ~x.auto) => \A x \in keys : x.rule = LastRule(c)
  BY <1>4, <1>5
<1> QED
  BY <1>1, <1>2, <1>6, <1>7, <1>8 DEF keys

-----------------------------------------------------------------------------
(* The deployment: the rows *)

\* The rows of the database, and the tables of the catalogue before the server starts.
RowsInv ==
    /\ RowsTyped(db) /\ db.ok
    /\ applied \in 0..InService
    /\ applied >= 16 /\ applied # InService => Filled(db)
    /\ kinds = {} => /\ applied # InService
                     /\ article = Empty /\ history = {} /\ period = Empty /\ listing = Empty
                     /\ used = {}
                     /\ handler = [h \in Handlers |-> Idle]
                     /\ loaded = [h \in Handlers |-> {}]

\* Databases that the migrations start with have rows of these values.
LEMMA NewTyped == RowsTyped(NewDatabase) /\ NewDatabase.ok
BY DEF NewDatabase, RowsTyped, DbFields

\* The first migration fails on no database.
LEMMA InitialSucceeds == \A d : RowsTyped(d) /\ d.ok => Run(d, InitialSchema.up).ok
<1> SUFFICES ASSUME NEW d, RowsTyped(d), d.ok PROVE Run(d, InitialSchema.up).ok
  OBVIOUS
<1> DEFINE ss == InitialSchema.up
           n == Len(ss)
<1>1. n \in Nat /\ \A i \in 1..n : ss[i] \in InitialStatement
  BY InitialUp
<1>2. PICK state : /\ state[0] = d
                   /\ \A i \in 1..n : state[i] = Step(state[i - 1], ss[i])
                   /\ Run(d, ss) = state[n]
  <2> HIDE DEF ss
  <2> QED
    BY <1>1, RunStates
<1> DEFINE Good == {i \in 0..n : RowsTyped(state[i]) /\ state[i].ok}
<1>3. ASSUME NEW i \in 1..n, i - 1 \in Good PROVE i \in Good
  <2>1. /\ RowsTyped(state[i - 1]) /\ state[i - 1].ok /\ i \in 0..n
        /\ ss[i].op \in {"enum", "createMissing", "keyMissing", "unique"}
    BY <1>1, <1>3, InitialOps
  <2> HIDE DEF n, ss
  <2> DEFINE e == state[i - 1]
  <2>2. DOMAIN e = DbFields
    BY <2>1 DEF RowsTyped
  <2>3. RowsTyped(Do(e, ss[i]))
    BY <2>1, DoTyped DEF Ops
  <2>4. Do(e, ss[i]).ok = e.ok
    <3> HIDE DEF e
    <3>1. CASE ss[i].op = "enum"
      BY <2>2, <3>1 DEF Do, DbFields
    <3>2. CASE ss[i].op = "createMissing"
      BY <2>2, <3>2 DEF Do, WithTable, DbFields
    <3>3. CASE ss[i].op \in {"keyMissing", "unique"}
      BY <2>2, <3>3 DEF Do, DbFields
    <3> QED
      BY <2>1, <3>1, <3>2, <3>3
  <2> QED
    BY <1>2, <2>1, <2>3, <2>4 DEF Step
<1>4. 0 \in Good /\ n \in Nat
  BY <1>1, <1>2
<1> HIDE DEF Good, n
<1>5. n \in Good
  BY <1>3, <1>4, UpTo
<1> QED
  BY <1>2, <1>5 DEF Good

LEMMA OldTyped == \A o : RowsTyped(OldDatabase(o)) /\ OldDatabase(o).ok
<1> SUFFICES ASSUME NEW o PROVE RowsTyped(OldDatabase(o)) /\ OldDatabase(o).ok
  OBVIOUS
<1> DEFINE r == Run(NewDatabase, InitialSchema.up)
           e == OldDatabase(o)
<1>1. RowsTyped(r) /\ r.ok
  BY NewTyped, InitialSucceeds, RunTyped, UpsKnown, SequenceParts
<1>2. DOMAIN r = DbFields
  BY <1>1 DEF RowsTyped
<1> HIDE DEF r
<1>3. /\ DOMAIN e = DOMAIN r /\ e.order = r.order /\ e.line = r.line /\ e.sale = r.sale
      /\ e.articles = r.articles /\ e.ok = r.ok
  BY <1>2 DEF OldDatabase, DbFields, r
<1> HIDE DEF e
<1>4. RowsTyped(e) /\ e.ok
  BY <1>1, <1>3, RowsKept
<1> QED
  BY <1>4 DEF e

\* The deployment starts so.
LEMMA RowsStart == Init => RowsInv
<1> SUFFICES ASSUME Init PROVE RowsInv
  OBVIOUS
<1>1. RowsTyped(db) /\ db.ok
  BY NewTyped, OldTyped DEF Init, MigrationsInit
<1> QED
  BY <1>1, SequenceParts DEF Init, MigrationsInit, RowsInv, InService

\* A step of the migrations.
LEMMA MigrateStep ==
    ASSUME RowsInv, kinds = {}, NEW n \in Releases, MigrateTo(n)
    PROVE  /\ RowsTyped(db') /\ db'.ok /\ Kept(db, db')
           /\ applied' \in 1..24 /\ applied' > applied
           /\ applied' >= 16 => Filled(db')
<1>1. /\ applied \in 0..24 /\ n \in 1..24 /\ applied < n /\ applied' = n
      /\ db' = Forward(db, applied, n) /\ db'.ok
  BY MigrationsAssumption, SequenceParts DEF RowsInv, MigrateTo, InService
<1>2. RowsTyped(db) /\ (applied >= 16 /\ db.ok => Filled(db))
  BY SequenceParts, <1>1 DEF RowsInv, InService
<1>3. n \in 0..24 /\ applied <= n
  BY <1>1
<1>4. /\ RowsTyped(db') /\ Kept(db, db') /\ (n >= 16 /\ db'.ok => Filled(db'))
  BY <1>1, <1>2, <1>3, Forwarded
<1> QED
  BY <1>1, <1>4

LEMMA RevertStep ==
    ASSUME RowsInv, kinds = {}, Revert
    PROVE  /\ RowsTyped(db') /\ db'.ok
           /\ applied' \in 0..23 /\ applied' < applied
           /\ applied' >= 16 => Filled(db')
<1>1. /\ applied \in 1..24 /\ applied' = applied - 1
      /\ db' = Run(db, Sequence[applied].down) /\ db'.ok
  BY SequenceParts DEF RowsInv, Revert, InService
<1>2. RowsTyped(db) /\ (applied > 16 /\ db.ok => Filled(db))
  BY SequenceParts, <1>1 DEF RowsInv, InService
<1>4. RowsTyped(db') /\ (applied > 16 /\ db'.ok => Filled(db'))
  BY <1>1, <1>2, Reverted
<1> QED
  BY <1>1, <1>4

LEMMA OlderStep ==
    ASSUME RowsInv, kinds = {}, OlderRelease
    PROVE  /\ RowsTyped(db') /\ db'.ok
           /\ applied' = applied
           /\ Filled(db) => Filled(db')
<1>0. DOMAIN db = DbFields /\ RowsTyped(db) /\ db.ok
  BY DEF RowsInv, RowsTyped
<1> DEFINE Goal == RowsTyped(db') /\ db'.ok /\ (Filled(db) => Filled(db'))
<1>1. ASSUME WriteOrder PROVE Goal
  <2>1. PICK v \in {"unset", "unpaid", "partial", "paid"} : db' = [db EXCEPT !.order = v]
    BY <1>1 DEF WriteOrder
  <2> QED
    BY <1>0, <2>1 DEF RowsTyped, DbFields, Filled
<1>2. ASSUME WriteLine \/ UnlinkLine PROVE Goal
  <2>1. PICK v \in {"linked", "unlinked"} : db' = [db EXCEPT !.line = v]
    BY <1>2 DEF WriteLine, UnlinkLine
  <2> QED
    BY <1>0, <2>1 DEF RowsTyped, DbFields, Filled
<1>3. ASSUME WriteSale PROVE Goal
  <2>1. PICK v \in {"known", "stray", "email"} : db' = [db EXCEPT !.sale = v]
    BY <1>3 DEF WriteSale
  <2> QED
    BY <1>0, <2>1 DEF RowsTyped, DbFields, Filled
<1>4. ASSUME WriteArticle PROVE Goal
  <2>1. PICK n \in OldArticles \ DOMAIN db.articles :
           LET hash == IF HashColumn \in db.columns THEN HashKey[n] ELSE NoHash
           IN  db' = [db EXCEPT !.articles = [m \in DOMAIN @ \cup {n} |->
                                                IF m = n THEN hash ELSE @[m]]]
    BY <1>4, Zenon DEF WriteArticle, HashColumn
  <2>2. PICK v : v = IF HashColumn \in db.columns THEN HashKey[n] ELSE NoHash
    OBVIOUS
  <2>3. n \in Names
    BY MigrationsAssumption
  <2>4. /\ db'.articles = [m \in DOMAIN db.articles \cup {n} |->
                              IF m = n THEN v ELSE db.articles[m]]
        /\ DOMAIN db' = DbFields /\ db'.ok /\ db'.columns = db.columns
        /\ db'.order = db.order /\ db'.line = db.line /\ db'.sale = db.sale
    BY <1>0, <2>1, <2>2 DEF DbFields
  <2>5. RowsTyped(db')
    BY <1>0, <2>2, <2>3, <2>4 DEF RowsTyped
  <2>6. Filled(db) => Filled(db')
    BY <2>2, <2>4 DEF Filled
  <2> QED
    BY <2>4, <2>5, <2>6
<1> HIDE DEF Goal
<1>5. Goal
  BY <1>1, <1>2, <1>3, <1>4 DEF OlderRelease
<1> QED
  BY <1>5 DEF OlderRelease, Goal

\* With no kind of requests, nothing happens in the catalogue.
LEMMA NoRequests ==
    ASSUME kinds = {}, handler = [h \in Handlers |-> Idle], CatalogueNext
    PROVE  FALSE
<1>1. ~Restart
  BY DEF Restart
<1>2. ASSUME NEW h \in Handlers PROVE handler[h].at = "idle"
  BY DEF Idle
<1>3. ASSUME NEW h \in Handlers PROVE ~ArticleRequest(h) /\ ~PeriodRequest(h)
  BY DEF ArticleRequest, PeriodRequest, Begins
<1>4. ASSUME NEW h \in Handlers, Goon(h) PROVE FALSE
  BY <1>2, <1>4, Stages DEF At
<1>5. ASSUME NEW h \in Handlers, Load(h) PROVE FALSE
  BY <1>2, <1>5 DEF Load, Saving
<1> QED
  BY <1>1, <1>3, <1>4, <1>5 DEF CatalogueNext, NextStatement

\* The server starts on tables as CatalogueStart says.
LEMMA StartStep ==
    ASSUME RowsInv, StartServer
    PROVE  CatalogueStart' /\ kinds = {} /\ kinds' # {} /\ applied' = InService
<1>0. kinds = {} /\ kinds' \in Workloads /\ applied = 24 /\ applied' = InService
  BY SequenceParts DEF StartServer, UpToDate
<1>1. Filled(db) /\ RowsTyped(db)
  BY <1>0, SequenceParts DEF RowsInv, InService
<1>2. /\ listing' = Empty /\ handler' = [h \in Handlers |-> Idle]
      /\ loaded' = [h \in Handlers |-> {}]
  BY <1>0 DEF RowsInv, StartServer
<1>a. PICK ids \in SUBSET ArticleIds : \E name \in [ids -> DOMAIN db.articles] :
         /\ article' = [a \in ids |-> [name |-> name[a], hash |-> db.articles[name[a]],
                                       price |-> OldPrice, shown |-> FALSE]]
         /\ history' = ids \X {OldPrice}
         /\ used' = ids \cup DOMAIN period'
  BY DEF StartServer
<1>3. PICK name \in [ids -> DOMAIN db.articles] :
         /\ article' = [a \in ids |-> [name |-> name[a], hash |-> db.articles[name[a]],
                                       price |-> OldPrice, shown |-> FALSE]]
         /\ history' = ids \X {OldPrice}
         /\ used' = ids \cup DOMAIN period'
  BY <1>a
<1>4. DOMAIN article' = ids
  BY <1>3
<1>5. ASSUME NEW a \in ids PROVE name[a] \in Names /\ db.articles[name[a]] = HashKey[name[a]]
  BY <1>1, <1>3 DEF Filled, RowsTyped
<1>6. name \in [ids -> Names]
  BY <1>5
<1>7. article' = [a \in ids |-> [name |-> name[a], hash |-> HashKey[name[a]],
                                 price |-> OldPrice, shown |-> FALSE]]
  BY <1>3, <1>5
<1>8. PeriodsOK(period', used')
  <2>1. period' \in PartialFunctions(PeriodIds, PeriodRow)
    BY DeploymentAssumption DEF StartServer
  <2> QED
    BY <1>3, <2>1 DEF PartialFunctions, PeriodsOK
<1>9. \E price \in Prices, names \in [ids -> Names] :
          /\ history' = ids \X {price}
          /\ article' = [a \in ids |-> [name |-> names[a], hash |-> HashKey[names[a]],
                                        price |-> price, shown |-> FALSE]]
  BY <1>3, <1>6, <1>7, DeploymentAssumption
<1>10. CatalogueStart'
  BY <1>0, <1>2, <1>3, <1>4, <1>8, <1>9 DEF CatalogueStart
<1> QED
  BY <1>0, <1>10, DeploymentAssumption

\* A step of the deployment is one of the catalogue, or the start of the server.
LEMMA CatalogueStep ==
    RowsInv /\ [Next]_vars =>
        \/ [CatalogueNext]_catalogueVars
        \/ CatalogueStart' /\ handler = [h \in Handlers |-> Idle]
<1> SUFFICES ASSUME RowsInv, [Next]_vars
             PROVE  \/ [CatalogueNext]_catalogueVars
                    \/ CatalogueStart' /\ handler = [h \in Handlers |-> Idle]
  OBVIOUS
<1>1. CASE Maintain \/ UNCHANGED vars
  BY <1>1 DEF Maintain, vars
<1>2. CASE StartServer
  BY <1>2, StartStep DEF RowsInv
<1>3. CASE Serve
  BY <1>3 DEF Serve
<1> QED
  BY <1>1, <1>2, <1>3 DEF Next

\* The kinds of requests stay what they are.
LEMMA KindsStay == CatalogueNext => kinds' = kinds
<1> SUFFICES ASSUME CatalogueNext PROVE kinds' = kinds
  OBVIOUS
<1>1. ASSUME NEW h \in Handlers, NextStatement(h) PROVE kinds' = kinds
  <2>1. NewRequest(h) \/ Goon(h)
    BY <1>1, ArticleRequestIsNew, PeriodRequestIsNew DEF NextStatement
  <2> QED
    BY <2>1, SameKinds DEF NewRequest
<1>2. \A h \in Handlers : Load(h) => kinds' = kinds
  BY DEF Load, NoChange
<1>3. Restart => kinds' = kinds
  BY DEF Restart, NoChange
<1> QED
  BY <1>1, <1>2, <1>3 DEF CatalogueNext

\* Every step of the deployment keeps RowsInv.
LEMMA RowsStep == RowsInv /\ [Next]_vars => RowsInv'
<1> SUFFICES ASSUME RowsInv, [Next]_vars PROVE RowsInv'
  OBVIOUS
<1>0. InService = 25 /\ Len(Sequence) = 24
  BY SequenceParts DEF InService
<1>1. CASE UNCHANGED vars
  BY <1>1 DEF vars, catalogueVars, RowsInv, RowsTyped, Filled, InService
<1>2. CASE Maintain
  <2>1. kinds = {} /\ UNCHANGED catalogueVars
    BY <1>2 DEF Maintain
  <2>2. /\ RowsTyped(db') /\ db'.ok /\ applied' \in 0..24
        /\ applied' >= 16 => Filled(db')
    <3> DEFINE Goal == /\ RowsTyped(db') /\ db'.ok /\ applied' \in 0..24
                       /\ applied' >= 16 => Filled(db')
    <3>1. ASSUME NEW n \in Releases, MigrateTo(n) PROVE Goal
      BY <2>1, <3>1, MigrateStep
    <3>2. ASSUME Revert PROVE Goal
      BY <2>1, <3>2, RevertStep
    <3>3. ASSUME OlderRelease PROVE Goal
      BY <1>0, <2>1, <3>3, OlderStep DEF RowsInv
    <3> HIDE DEF Goal
    <3>4. Goal
      BY <1>2, <3>1, <3>2, <3>3 DEF Maintain, MigrationsNext
    <3> QED
      BY <3>4 DEF Goal
  <2> QED
    BY <1>0, <2>1, <2>2 DEF RowsInv, catalogueVars
<1>3. CASE StartServer
  <2>1. db' = NewDatabase /\ kinds' # {} /\ applied' = InService
    BY <1>3, StartStep DEF StartServer
  <2> QED
    BY <1>0, <2>1, NewTyped DEF RowsInv
<1>4. CASE Serve
  <2>1. kinds # {}
    BY <1>4, NoRequests DEF Serve, RowsInv
  <2>2. kinds' = kinds
    BY <1>4, KindsStay DEF Serve
  <2> QED
    BY <1>4, <2>1, <2>2 DEF Serve, RowsInv, InService
<1> QED
  BY <1>1, <1>2, <1>3, <1>4 DEF Next

-----------------------------------------------------------------------------
(* The deployment: the schema *)

\* The schema is that of the migrations applied, until the server starts.
SchemaInv ==
    /\ applied # InService => SchemaAt(db, applied)
    /\ applied = InService => db = NewDatabase

\* Of a database, the rows do not matter to its schema.
LEMMA SchemaOnly ==
    ASSUME NEW d, NEW e, NEW k, SchemaAt(d, k), e.columns = d.columns, e.unique = d.unique,
           e.labels = d.labels, e.keys = d.keys
    PROVE  SchemaAt(e, k)
<1>1. Tables(e) = Tables(d) /\ \A x : Labels(e, x) = Labels(d, x)
  BY DEF Tables, Labels
<1>2. \A t, c : NamedKey(e, t, c) <=> NamedKey(d, t, c)
  BY DEF NamedKey, KeysOf
<1>3. ColumnsAt(e, k)
  BY <1>1 DEF SchemaAt, ColumnsAt
<1>4. UniqueAt(e, k)
  BY <1>1 DEF SchemaAt, UniqueAt
<1>5. LabelsAt(e, k)
  BY <1>1 DEF SchemaAt, LabelsAt
<1>6. KeysAt(e, k)
  BY <1>2 DEF SchemaAt, KeysAt
<1> QED
  BY <1>3, <1>4, <1>5, <1>6 DEF SchemaAt

\* Older releases write rows alone.
LEMMA OlderSchema ==
    ASSUME DOMAIN db = DbFields, OlderRelease
    PROVE  /\ db'.columns = db.columns /\ db'.unique = db.unique
           /\ db'.labels = db.labels /\ db'.keys = db.keys
<1> DEFINE Goal == /\ db'.columns = db.columns /\ db'.unique = db.unique
                   /\ db'.labels = db.labels /\ db'.keys = db.keys
<1>1. ASSUME WriteOrder PROVE Goal
  <2>1. PICK v : db' = [db EXCEPT !.order = v]
    BY <1>1 DEF WriteOrder
  <2> QED
    BY <2>1 DEF DbFields
<1>2. ASSUME WriteLine \/ UnlinkLine PROVE Goal
  <2>1. PICK v : db' = [db EXCEPT !.line = v]
    BY <1>2 DEF WriteLine, UnlinkLine
  <2> QED
    BY <2>1 DEF DbFields
<1>3. ASSUME WriteSale PROVE Goal
  <2>1. PICK v : db' = [db EXCEPT !.sale = v]
    BY <1>3 DEF WriteSale
  <2> QED
    BY <2>1 DEF DbFields
<1>4. ASSUME WriteArticle PROVE Goal
  <2>1. PICK n \in OldArticles \ DOMAIN db.articles :
           LET hash == IF HashColumn \in db.columns THEN HashKey[n] ELSE NoHash
           IN  db' = [db EXCEPT !.articles = [m \in DOMAIN @ \cup {n} |->
                                                IF m = n THEN hash ELSE @[m]]]
    BY <1>4, Zenon DEF WriteArticle, HashColumn
  <2> QED
    BY <2>1 DEF DbFields
<1> HIDE DEF Goal
<1>5. Goal
  BY <1>1, <1>2, <1>3, <1>4 DEF OlderRelease
<1> QED
  BY <1>5 DEF Goal

\* The schema is so at the start.
LEMMA SchemaStart == Init => SchemaInv
<1> SUFFICES ASSUME Init PROVE SchemaInv
  OBVIOUS
<1>1. applied = 0 /\ SchemaAt(db, 0)
  BY NewReady, OldReady DEF Init, MigrationsInit
<1>2. InService = 25
  BY SequenceParts DEF InService
<1> QED
  BY <1>1, <1>2 DEF SchemaInv

\* Every step of the deployment keeps it.
LEMMA SchemaStep == RowsInv /\ SchemaInv /\ [Next]_vars => SchemaInv'
<1> SUFFICES ASSUME RowsInv, SchemaInv, [Next]_vars PROVE SchemaInv'
  OBVIOUS
<1>0. InService = 25
  BY SequenceParts DEF InService
<1>1. CASE Serve \/ UNCHANGED vars
  <2>1. db' = db /\ applied' = applied
    BY <1>1 DEF Serve, vars
  <2> QED
    BY <1>0, <2>1 DEF SchemaInv
<1>2. CASE StartServer
  <2>1. db' = NewDatabase /\ applied' = InService
    BY <1>2 DEF StartServer
  <2> QED
    BY <2>1 DEF SchemaInv, InService
<1>3. CASE Maintain
  <2>1. kinds = {} /\ applied \in 0..24 /\ RowsTyped(db) /\ db.ok
    BY <1>0, <1>3 DEF Maintain, RowsInv
  <2>2. SchemaAt(db, applied)
    BY <1>0, <2>1 DEF SchemaInv
  <2>3. ASSUME NEW n \in Releases, MigrateTo(n)
        PROVE  applied' # InService /\ SchemaAt(db', applied')
    <3>1. /\ n \in 0..24 /\ applied <= n /\ applied' = n
          /\ db' = Forward(db, applied, n) /\ db'.ok
      BY <2>1, <2>3, MigrationsAssumption, SequenceParts DEF MigrateTo
    <3>2. applied >= 16 => Filled(db)
      BY <1>0, <2>1 DEF RowsInv
    <3> QED
      BY <1>0, <2>1, <2>2, <3>1, <3>2, SchemaForwarded
  <2>4. ASSUME Revert PROVE applied' # InService /\ SchemaAt(db', applied')
    <3>1. /\ applied \in 1..24 /\ applied' = applied - 1
          /\ db' = Run(db, Sequence[applied].down) /\ db'.ok
      BY <2>1, <2>4 DEF Revert
    <3> QED
      BY <1>0, <2>1, <2>2, <3>1, MigrationLowers
  <2>5. ASSUME OlderRelease PROVE applied' # InService /\ SchemaAt(db', applied')
    <3>1. applied' = applied
      BY <2>5 DEF OlderRelease
    <3>2. DOMAIN db = DbFields
      BY <2>1 DEF RowsTyped
    <3>3. SchemaAt(db', applied)
      BY <2>2, <2>5, <3>2, OlderSchema, SchemaOnly
    <3> QED
      BY <1>0, <2>1, <3>1, <3>3
  <2>6. applied' # InService /\ SchemaAt(db', applied')
    BY <1>3, <2>3, <2>4, <2>5 DEF Maintain, MigrationsNext
  <2> QED
    BY <1>0, <2>6 DEF SchemaInv, InService
<1> QED
  BY <1>1, <1>2, <1>3 DEF Next

-----------------------------------------------------------------------------
(* The theorems *)

\* What always holds of the deployment.
LEMMA AlwaysRows == Spec => []RowsInv
BY RowsStart, RowsStep, PTL DEF Spec

LEMMA AlwaysInv == Spec => [](Inv /\ Agreement)
<1>1. RowsInv /\ kinds = {} => Inv /\ Agreement
  <2> SUFFICES ASSUME RowsInv, kinds = {} PROVE Inv /\ Agreement
    OBVIOUS
  <2>1. /\ article = Empty /\ history = {} /\ period = Empty /\ listing = Empty
        /\ handler = [h \in Handlers |-> Idle] /\ loaded = [h \in Handlers |-> {}]
    BY DEF RowsInv
  <2>2. TablesOK
    BY <2>1, EmptyOK DEF TablesOK, ArticlesOK, PeriodsOK, ListingOK, Empty
  <2>3. Inv
    BY <2>1, <2>2, IdleOK DEF Inv
  <2>4. \A names : AllNames(names)
    BY <2>1 DEF AllNames, NamesAre, Empty
  <2>5. (\A h \in Handlers : Fresh(h)) /\ Alone
    BY <2>1 DEF Fresh, Alone, At, Idle
  <2> QED
    BY <2>1, <2>3, <2>4, <2>5 DEF Agreement, SameNames
<1>2. Init => kinds = {}
  BY DEF Init
<1>3. CatalogueStart' => (Inv /\ Agreement)'
  BY StartKeeps, StartAgrees, PTL
<1>4. Inv /\ Agreement /\ [CatalogueNext]_catalogueVars => (Inv /\ Agreement)'
  BY NextKeeps, NextAgrees
<1> QED
  BY <1>1, <1>2, <1>3, <1>4, RowsStart, AlwaysRows, CatalogueStep, PTL DEF Spec

LEMMA AlwaysUndisturbed == Spec => [](Tabular /\ Undisturbed)
<1>1. Init => Tabular /\ Undisturbed
  <2> SUFFICES ASSUME Init PROVE Tabular /\ Undisturbed
    OBVIOUS
  <2>1. article = Empty /\ listing = Empty /\ \A h \in Handlers : handler[h].was = {}
    BY DEF Init, Idle
  <2> QED
    BY <2>1 DEF Tabular, IsTabular, Empty, Undisturbed
<1> QED
  BY <1>1, AlwaysRows, AlwaysInv, CatalogueStep, StartUndisturbed, NextTabular, NextUndisturbed,
     PTL DEF Spec

LEMMA AlwaysNoted == Spec => []PricesInv
<1>1. Init => PricesInv
  BY DEF Init, PricesInv, PricesNoted, Empty, Idle
<1> QED
  BY <1>1, AlwaysRows, AlwaysInv, CatalogueStep, StartNoted, NextNotes, PTL DEF Spec

\* For every value of the constants, RunKeepsRows holds of every step: migration:run, from
\* any migration to the last one that a release knows, loses no order, line, sale, article or
\* hash, makes no order paid that was not and none unpaid that was, and changes the user of
\* a sale only to the e-mail of the user whose UUID it was, whatever was reverted before.
THEOREM RunsLoseNoRows == Spec => RunKeepsRows
<1>1. RowsInv /\ [Next]_vars =>
        [applied' > applied /\ applied' # InService =>
            /\ db'.order = "paid" <=> db.order = "paid"
            /\ db'.order = "none" <=> db.order = "none"
            /\ db'.line = db.line
            /\ db'.sale # db.sale => db.sale = "known" /\ db'.sale = "email"
            /\ DOMAIN db'.articles = DOMAIN db.articles
            /\ \A n \in DOMAIN db.articles :
                   db.articles[n] # NoHash => db'.articles[n] = db.articles[n]
        ]_<<db, applied>>
  <2> SUFFICES ASSUME RowsInv, [Next]_vars, applied' > applied, applied' # InService,
                      <<db, applied>>' # <<db, applied>>
               PROVE  Kept(db, db')
    BY DEF Kept
  <2>1. applied \in Int
    BY SequenceParts DEF RowsInv, InService
  <2>2. ~Revert /\ ~OlderRelease /\ ~Serve /\ ~UNCHANGED vars /\ ~StartServer
    BY <2>1 DEF Revert, OlderRelease, Serve, vars, StartServer
  <2>3. kinds = {} /\ \E n \in Releases : MigrateTo(n)
    BY <2>2 DEF Next, Maintain, MigrationsNext
  <2> QED
    BY <2>3, MigrateStep
<1> QED
  BY <1>1, AlwaysRows, PTL DEF Spec, RunKeepsRows

\* And of its schema.
LEMMA AlwaysSchema == Spec => [](RowsInv /\ SchemaInv)
<1>1. Init => RowsInv /\ SchemaInv
  BY RowsStart, SchemaStart
<1>2. RowsInv /\ SchemaInv /\ [Next]_vars => (RowsInv /\ SchemaInv)'
  BY RowsStep, SchemaStep
<1> QED
  BY <1>1, <1>2, PTL DEF Spec

\* For every value of the constants, MigrationsTypeOK holds in every reachable state: the
\* values of the rows are those that the schema of their time allows, articles have hashes
\* of their names or none, and every foreign key is of a column that is there, whatever was
\* applied and reverted.
THEOREM MigrationsKeepTypes == Spec => []MigrationsTypeOK
<1>1. RowsInv /\ SchemaInv => MigrationsTypeOK
  <2> SUFFICES ASSUME RowsInv, SchemaInv PROVE MigrationsTypeOK
    OBVIOUS
  <2>1. \A n \in DOMAIN db.articles : db.articles[n] \in Hashes
    BY DEF RowsInv, RowsTyped, Hashes
  <2>2. \A k \in db.keys : <<k.table, k.column>> \in db.columns
    <3>1. CASE applied = InService
      BY <3>1 DEF SchemaInv, NewDatabase
    <3>2. CASE applied # InService
      BY <3>2 DEF SchemaInv, SchemaAt, KeysAt
    <3> QED
      BY <3>1, <3>2
  <2> QED
    BY <2>1, <2>2 DEF RowsInv, RowsTyped, MigrationsTypeOK
<1> QED
  BY <1>1, AlwaysSchema, PTL

\* For every value of the constants, UpgradesSucceed holds in every reachable state: from any
\* database that the migrations start with, after any runs and reverts of any releases and
\* any rows that they write, the pending migrations can all be applied, unless a sale is of
\* an unknown user.
THEOREM UpgradesAlwaysSucceed == Spec => []UpgradesSucceed
<1>1. RowsInv /\ SchemaInv => UpgradesSucceed
  <2> SUFFICES ASSUME RowsInv, SchemaInv, db.sale # "stray"
               PROVE  Forward(db, applied, 24).ok
    BY SequenceParts DEF UpgradesSucceed
  <2>0. InService = 25
    BY SequenceParts DEF InService
  <2>1. CASE applied = InService
    <3>1. 25 \in Nat /\ 24 \in Nat
      OBVIOUS
    <3>2. PICK state : /\ \A i \in 0..24 : state[i] = IF i <= 25 THEN db
                                                     ELSE Run(state[i - 1], Sequence[i].up)
                       /\ Forward(db, 25, 24) = state[24]
      BY <3>1, ForwardStates
    <3>3. state[24] = db
      BY <3>2
    <3> QED
      BY <2>0, <2>1, <3>2, <3>3 DEF RowsInv
  <2>2. CASE applied # InService
    <3>1. applied \in 0..24 /\ RowsTyped(db) /\ db.ok /\ (applied >= 16 => Filled(db))
      BY <2>0, <2>2 DEF RowsInv
    <3>2. SchemaAt(db, applied)
      BY <2>2 DEF SchemaInv
    <3>3. 24 \in 0..24 /\ applied <= 24
      BY <3>1
    <3> QED
      BY <3>1, <3>2, <3>3, SchemaForwarded
  <2> QED
    BY <2>1, <2>2
<1> QED
  BY <1>1, AlwaysSchema, PTL

\* For every value of the constants, SchemaMatchesEntities holds in every reachable state:
\* whatever database the migrations started with and whatever was applied, reverted and
\* written in between, a database with all migrations has exactly the columns, the unique
\* indexes and the labels of enumerated types that the entities declare.
THEOREM SchemaAlwaysMatches == Spec => []SchemaMatchesEntities
<1>1. RowsInv /\ SchemaInv => SchemaMatchesEntities
  <2> SUFFICES ASSUME SchemaInv, UpToDate PROVE SchemaMatchesEntities
    BY DEF SchemaMatchesEntities
  <2>1. SchemaAt(db, 24)
    BY SequenceParts DEF SchemaInv, UpToDate, InService
  <2> QED
    BY <2>1, LastColumns, LastUnique, LastLabels DEF SchemaMatchesEntities
<1> QED
  BY <1>1, AlwaysSchema, PTL

\* For every value of the constants, DeletionRulesMatch holds in every reachable state: with
\* all migrations applied, the foreign keys delete, keep or refuse what the entities say,
\* but for the two columns on which they differ; keys that synchronize made stay beside them.
THEOREM DeletionRulesAlwaysMatch == Spec => []DeletionRulesMatch
<1>1. RowsInv /\ SchemaInv => DeletionRulesMatch
  <2> SUFFICES ASSUME SchemaInv, UpToDate PROVE DeletionRulesMatch
    BY DEF DeletionRulesMatch
  <2>1. SchemaAt(db, 24)
    BY SequenceParts DEF SchemaInv, UpToDate, InService
  <2> QED
    BY <2>1, LastRules DEF DeletionRulesMatch
<1> QED
  BY <1>1, AlwaysSchema, PTL

\* For every value of the constants, CatalogueTypeOK holds in every reachable state: prices
\* and offers are of articles that exist, and offers in periods that exist, whatever is
\* deleted while it is being offered, updated, flagged or normalised.
THEOREM CatalogueReferencesHold == Spec => []CatalogueTypeOK
BY InvTypes, AlwaysInv, PTL

\* For every value of the constants, HashOfSomeSpelling holds in every reachable state: every
\* article has the hash of some spelling of its name, through any interleaving of imports,
\* new prices, flags and normalisations, whose saves write only the columns that differ from
\* those they have selected, and through any sequence of those and renames, as long as no
\* request empties a variety.  The server starts on articles that AddHashToArticles gave
\* their hashes.
THEOREM ArticlesCanBeFound == Spec => []HashOfSomeSpelling
BY InvHashes, AlwaysInv, PTL

\* For every value of the constants, PricesAreRecorded holds in every reachable state: when
\* requests that ran at once are answered, no article has a price that its history lacks,
\* if none of them removed articles and the server was not restarted.
THEOREM PricesAlwaysRecorded == Spec => []PricesAreRecorded
BY NotedPrices, AlwaysInv, AlwaysNoted, PTL

\* Nobody ends a request while the server starts.
LEMMA NobodyEnds ==
    handler = [h \in Handlers |-> Idle] => \A h \in Handlers : \A kind : ~EndsAlone(h, kind)
BY DEF EndsAlone, At, Idle

\* For every value of the constants, NormalizeMerges holds of every step: a normalisation
\* that nobody has disturbed ends with one article of each normalised name, the oldest,
\* with its other columns as they were, however many spellings and articles there are.
THEOREM NormalizationMergesNames == Spec => NormalizeMerges
<1>1. ASSUME RowsInv, Inv, Agreement, Undisturbed, [Next]_vars
      PROVE  [\A h \in Handlers : EndsAlone(h, "normalize") =>
            LET was == Before(h).article
                oldest == {a \in DOMAIN was : \A b \in DOMAIN was :
                              Norm[was[b].name] = Norm[was[a].name] => a <= b}
            IN  article' = [a \in oldest |-> [was[a] EXCEPT !.name = Norm[@]]]
        ]_catalogueVars
  BY <1>1, CatalogueStep, NormalizationMerged, NobodyEnds
<1> QED
  BY <1>1, AlwaysRows, AlwaysInv, AlwaysUndisturbed, PTL DEF Spec, NormalizeMerges

\* For every value of the constants, ImportsFindArticles holds of every step: an import of
\* any number of lines that nobody has disturbed gives the articles that it finds the last
\* price of their lines, makes one article of the others, and records every price.
THEOREM ImportsFindTheirArticles == Spec => ImportsFindArticles
<1>1. ASSUME RowsInv, Inv, Agreement, Undisturbed, [Next]_vars
      PROVE  [\A h \in Handlers : EndsAlone(h, "import") =>
            LET lines == handler[h].request.lines
                key(i) == HashKey[lines[i].name]
                having(rows, hash) == {a \in DOMAIN rows : rows[a].hash = hash}
                was == Before(h).article
            IN  /\ \A i \in 1..Len(lines) :
                      LET now == having(article', key(i))
                          old == having(was, key(i))
                      IN  /\ IF old = {} THEN Cardinality(now) = 1 ELSE now = old
                          /\ \E a \in now : <<a, lines[i].price>> \in history'
                          /\ (\A j \in i + 1..Len(lines) : key(j) # key(i))
                                => \E a \in now : article'[a].price = lines[i].price
                /\ \A a \in DOMAIN was :
                      IF \E i \in 1..Len(lines) : was[a].hash = key(i)
                      THEN article'[a].name = was[a].name
                      ELSE article'[a] = was[a]
        ]_catalogueVars
  BY <1>1, CatalogueStep, ImportFound, NobodyEnds
<1> QED
  BY <1>1, AlwaysRows, AlwaysInv, AlwaysUndisturbed, PTL DEF Spec, ImportsFindArticles

\* For every value of the constants, UpdatesReachPeriod holds of every step: a new price of
\* an article, when nobody has disturbed the update, is in its row, in its history and, if
\* one period is the current one, in exactly one row of what that period offers.
THEOREM PricesReachPeriod == Spec => UpdatesReachPeriod
<1>1. ASSUME RowsInv, Inv, Agreement, Undisturbed, [Next]_vars
      PROVE  [\A h \in Handlers :
            EndsAlone(h, "update") /\ handler[h].request.price \in Prices =>
            LET r == handler[h].request
                was == Before(h)
                offered(p) == {x \in DOMAIN was.listing : x[1] = p /\ x[2] = r.id}
            IN  /\ article'[r.id].price = r.price
                /\ <<r.id, r.price>> \in history'
                /\ Open(period) = {} => listing' = was.listing
                /\ \A p \in PeriodIds : CurrentPeriods(period) = {p} =>
                      \E n \in 1..Copies :
                         /\ listing' = Over(Row(<<p, r.id, n>>, r.price), was.listing)
                         /\ offered(p) = {} \/ <<p, r.id, n>> \in offered(p)
        ]_catalogueVars
  BY <1>1, CatalogueStep, PriceReached, NobodyEnds
<1> QED
  BY <1>1, AlwaysRows, AlwaysInv, AlwaysUndisturbed, PTL DEF Spec, UpdatesReachPeriod

\* For every value of the constants, PeriodListsReplaced holds of every step: a period that
\* is created or updated with articles, undisturbed, offers exactly those afterwards, each
\* in one row, or none when one of them is gone; other periods keep their offers.
THEOREM PeriodsOfferWhatWasSent == Spec => PeriodListsReplaced
<1>1. ASSUME RowsInv, Inv, Agreement, Undisturbed, [Next]_vars
      PROVE  [\A h \in Handlers :
            EndsAlone(h, "period") /\ handler[h].at \in {"withdraw", "offer"} =>
            LET r == handler[h].request
                rows == {x \in DOMAIN listing' : x[1] = r.id}
                was == Before(h).listing
                all == DOMAIN r.offers \subseteq DOMAIN article'
            IN  /\ {<<x[2], listing'[x]>> : x \in rows}
                      = IF all THEN {<<a, r.offers[a]>> : a \in DOMAIN r.offers} ELSE {}
                /\ Cardinality(rows) = IF all THEN Cardinality(DOMAIN r.offers) ELSE 0
                /\ Without(listing', rows) = Without(was, {x \in DOMAIN was : x[1] = r.id})
        ]_catalogueVars
  BY <1>1, CatalogueStep, ListReplaced, NobodyEnds
<1> QED
  BY <1>1, AlwaysRows, AlwaysInv, AlwaysUndisturbed, PTL DEF Spec, PeriodListsReplaced

=============================================================================
