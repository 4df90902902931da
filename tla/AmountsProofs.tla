---------------------------- MODULE AmountsProofs ---------------------------
(***************************************************************************)
(* What the operators of Amounts return, for every value of the amounts.   *)
(***************************************************************************)
EXTENDS Amounts, FiniteSetTheorems, TLAPS

-----------------------------------------------------------------------------
(* Sums *)

Cents(f) == UNION {{x} \X (1..f[x]) : x \in DOMAIN f}

\* The cents of a finite table of amounts are finitely many.
LEMMA FiniteCents ==
    ASSUME NEW f, IsFiniteSet(DOMAIN f), \A x \in DOMAIN f : f[x] \in Nat
    PROVE  IsFiniteSet(Cents(f))
<1> DEFINE C == {{x} \X (1..f[x]) : x \in DOMAIN f}
<1> DEFINE g == [x \in DOMAIN f |-> {x} \X (1..f[x])]
<1>1. IsFiniteSet(C)
  <2>1. g \in Surjection(DOMAIN f, C)
    BY DEF Surjection
  <2> QED
    BY <2>1, FS_Surjection
<1>2. ASSUME NEW T \in C PROVE IsFiniteSet(T)
  <2>1. PICK x \in DOMAIN f : T = {x} \X (1..f[x])
    OBVIOUS
  <2>2. IsFiniteSet({x})
    BY FS_Singleton, Zenon
  <2>3. IsFiniteSet(1..f[x])
    <3>1. 1 \in Int /\ f[x] \in Int
      OBVIOUS
    <3> QED
      BY <3>1, FS_Interval
  <2> QED
    BY <2>1, <2>2, <2>3, FS_Product
<1>3. IsFiniteSet(UNION C)
  BY <1>1, <1>2, FS_UNION
<1> QED
  BY <1>3 DEF Cents

\* A sum of amounts is an amount.
LEMMA SumIsNat ==
    ASSUME NEW f, IsFiniteSet(DOMAIN f), \A x \in DOMAIN f : f[x] \in Nat
    PROVE  Sum(f) \in Nat
BY FiniteCents, FS_CardinalityType DEF Sum, Cents

\* Fewer or smaller amounts have a smaller sum.
LEMMA SumMonotone ==
    ASSUME NEW f, NEW g,
           IsFiniteSet(DOMAIN g), DOMAIN f \subseteq DOMAIN g,
           \A x \in DOMAIN f : f[x] \in Nat /\ f[x] <= g[x],
           \A x \in DOMAIN g : g[x] \in Nat
    PROVE  Sum(f) <= Sum(g)
<1>1. Cents(f) \subseteq Cents(g)
  <2> SUFFICES ASSUME NEW c \in Cents(f) PROVE c \in Cents(g)
    OBVIOUS
  <2>1. PICK x \in DOMAIN f : c \in {x} \X (1..f[x])
    BY DEF Cents
  <2>2. c \in {x} \X (1..g[x])
    <3>1. 1..f[x] \subseteq 1..g[x]
      OBVIOUS
    <3> QED
      BY <2>1, <3>1
  <2> QED
    BY <2>2 DEF Cents
<1>2. IsFiniteSet(Cents(g))
  BY FiniteCents
<1> QED
  BY <1>1, <1>2, FS_Subset DEF Sum, Cents

-----------------------------------------------------------------------------
(* Rounding *)

\* A rounded share of an amount is an amount, and not more than the amount.
LEMMA RoundedIsNat ==
    ASSUME NEW n \in Nat, NEW d \in Nat \ {0}
    PROVE  Rounded(n, d) \in Nat
BY DEF Rounded

LEMMA RoundedAtMost ==
    ASSUME NEW n \in Nat, NEW d \in Nat \ {0}
    PROVE  Rounded(n, d) <= n
BY DEF Rounded

-----------------------------------------------------------------------------
(* Edits *)

\* An edit sets the total, the payment and the status, and nothing else.  The payment
\* is capped by the total unless the edit leaves it alone, and the order is paid only
\* when the payment covers the total.
LEMMA EditedAmounts ==
    ASSUME NEW row, row.total \in Nat, row.paid \in Nat,
           NEW newTotal \in Nat, NEW err \in -1..1
    PROVE  \E newPaid \in Nat, newStatus \in {"unpaid", "paid"} :
             /\ Edited(row, newTotal, err) =
                  [row EXCEPT !.total = newTotal, !.paid = newPaid, !.status = newStatus]
             /\ newPaid <= newTotal \/ (newPaid = row.paid /\ row.total \in {0, newTotal})
             /\ newStatus = "paid" => newPaid >= newTotal
<1> DEFINE changed == row.total > 0 /\ (newTotal # row.total \/ err # 0)
           share == IF changed THEN Rounded(newTotal * row.paid, row.total)
                               ELSE row.paid
<1>1. row.total \in Nat /\ row.paid \in Nat
  OBVIOUS
<1>2. newTotal * row.paid \in Nat
  BY <1>1
<1>3. share \in Nat
  BY <1>1, <1>2, RoundedIsNat
<1> HIDE DEF share
<1>4. Least(share, newTotal) \in Nat /\ Least(share, newTotal) <= newTotal
  BY <1>3 DEF Least
<1> DEFINE covers == share > newTotal \/ (share = newTotal /\ err < 1)
           newPaid == IF changed THEN Least(share, newTotal) ELSE share
           newStatus == IF newTotal # 0 /\ share # 0 /\ covers
                        THEN "paid" ELSE "unpaid"
<1>5. Edited(row, newTotal, err) =
        [row EXCEPT !.total = newTotal, !.paid = newPaid, !.status = newStatus]
  BY DEF Edited, share
<1>6. ~changed => share = row.paid /\ row.total \in {0, newTotal}
  BY <1>1 DEF share
<1> HIDE DEF changed
<1>7. newStatus \in {"unpaid", "paid"} /\ newPaid \in Nat
  BY <1>3, <1>4
<1>8. newStatus = "paid" => newPaid >= newTotal
  BY <1>3, <1>4 DEF Least
<1>9. newPaid <= newTotal \/ (newPaid = row.paid /\ row.total \in {0, newTotal})
  BY <1>4, <1>6
<1> HIDE DEF newPaid, newStatus
<1> QED
  BY <1>5, <1>7, <1>8, <1>9
=============================================================================
