------------------------------ MODULE Amounts -------------------------------
(***************************************************************************)
(* Amounts of money, in cents, and what an edit makes of those of an       *)
(* order.  A price is rounded to cents and then a double; the total of an  *)
(* edited order is a sum of such doubles, and it is compared before it is  *)
(* rounded.  InexactTotals holds the totals some sum of doubles misses,    *)
(* such as the 30 cents of 0.1 + 0.2.                                      *)
(***************************************************************************)
EXTENDS Integers, FiniteSets

CONSTANT InexactTotals  \* the totals that a sum of doubles may miss

\* The sum of a function with values in Nat: its cents, counted.
Sum(f) == Cardinality(UNION {{x} \X (1..f[x]) : x \in DOMAIN f})

\* n / d, rounded to the nearest cent.
Rounded(n, d) == (2 * n + d) \div (2 * d)

Least(a, b) == IF a <= b THEN a ELSE b

\* Mutants of Edited: the payment is left alone; it has no cap; a payment of a part
\* gets a status that the enum of the column does not have.
EditedTotalOnly(row, newTotal, err) == [row EXCEPT !.total = newTotal]

EditedWithoutCap(row, newTotal, err) ==
    [row EXCEPT !.total = newTotal,
                !.paid = IF row.total = 0 THEN @
                         ELSE Rounded(newTotal * @, row.total)]

EditedPartial(row, newTotal, err) ==
    [row EXCEPT !.total = newTotal,
                !.status = IF row.paid \in 1..(newTotal - 1) THEN "partial" ELSE @]

(***************************************************************************)
(* An edit keeps the share of the order that was paid, rounds that payment *)
(* to cents and then compares it with the sum of doubles.  err is the sign *)
(* of the error of that sum: with an error it never equals the old total,  *)
(* and with a positive one it is above the same number of cents.           *)
(***************************************************************************)
Edited(row, newTotal, err) ==
    LET changed == row.total > 0 /\ (newTotal # row.total \/ err # 0)
        share   == IF changed THEN Rounded(newTotal * row.paid, row.total)
                              ELSE row.paid
        covers  == share > newTotal \/ (share = newTotal /\ err < 1)
    IN  [row EXCEPT !.total = newTotal,
                    !.paid = IF changed THEN Least(share, newTotal) ELSE share,
                    !.status = IF newTotal # 0 /\ share # 0 /\ covers
                               THEN "paid" ELSE "unpaid"]

\* The signs of the error of a sum of doubles.  Adding zeros to a double is exact.
Errors(price) ==
    {err \in -1..1 :
        err # 0 => /\ Sum(price) \in InexactTotals
                   /\ Cardinality({i \in DOMAIN price : price[i] > 0}) > 1}
=============================================================================
