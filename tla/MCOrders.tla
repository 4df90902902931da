------------------------------ MODULE MCOrders ------------------------------
(***************************************************************************)
(* Small instances of Orders for TLC.                                      *)
(***************************************************************************)
EXTENDS Orders, TLC

MCSymmetry ==
    UNION {Permutations(S) : S \in {Orders, Items, Users, Articles, Periods}}

\* At most one article or period at a time is hidden, over or gone, at most one period
\* has a transport to pay, and at most two payments are recorded.
MCBound ==
    /\ Cardinality({a \in Articles : article[a] # "shown"})
          + Cardinality({p \in Periods : period[p] # "open"}) <= 1
    /\ Cardinality({p \in Periods : transportCost[p] > 0}) <= 1
    /\ Cardinality(payment) <= 2
=============================================================================
