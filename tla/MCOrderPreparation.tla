------------------------- MODULE MCOrderPreparation -------------------------
(***************************************************************************)
(* Small instances of OrderPreparation for TLC.                            *)
(***************************************************************************)
EXTENDS OrderPreparation, TLC

CONSTANT Few  \* the rows there may be when requests of every kind arrive

TicksAndAll == {{"order", "period"}, AllKinds}

TicksOfItems == {{"item"}}

Used == DOMAIN order \cup DOMAIN item \cup gone

\* New rows take the first ids that are left, and the first item is of the first
\* period: the others would do as well.
InOrder ==
    /\ \A S \in {Orders, Items} : \A x, y \in S : x < y /\ y \in Used => x \in Used
    /\ \A i \in DOMAIN item : item[i].period > 1 => \E j \in Used \cap Items : j < i

\* Two saves at once may interleave, but not between what both load and write.
MCBound ==
    /\ InOrder
    /\ kinds = AllKinds =>
          /\ Used \subseteq Few
          /\ \A g, h \in Handlers :
                handler[g].at = "save" /\ handler[h].at = "save" => g = h
=============================================================================
