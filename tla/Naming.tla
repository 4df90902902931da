------------------------------- MODULE Naming -------------------------------
(***************************************************************************)
(* What the catalogue makes of the names of an article: its product, with  *)
(* the category, and its variety.  An article is stored under its names    *)
(* with capitals and single spaces, and is found again by a hash of its    *)
(* names trimmed and in upper case, inner spaces included.                 *)
(***************************************************************************)

CONSTANTS
    Products, Varieties,  \* words as requests and older releases spell them
    NoVariety,            \* what the column of an article without variety says
    Capitals,             \* normalizeString: the capitalised spelling of a word
    Upper                 \* what of a word goes into the hash

ASSUME NamingAssumption ==
    /\ NoVariety \in Varieties /\ Capitals[NoVariety] = NoVariety
    /\ \A w \in Products : Capitals[w] \in Products
    /\ \A w \in Varieties : Capitals[w] \in Varieties
    /\ \A w \in Products \cup Varieties : Capitals[Capitals[w]] = Capitals[w]

Names == Products \X Varieties

Norm == [n \in Names |-> <<Capitals[n[1]], Capitals[n[2]]>>]

\* generateArticleHash
HashKey == [n \in Names |-> <<Upper[n[1]], Upper[n[2]]>>]

\* A name without its variety.
Bare == [n \in Names |-> <<n[1], NoVariety>>]

\* The hash of an article that has none yet.
NoHash == <<>>

Hashes == {HashKey[n] : n \in Names} \cup {NoHash}

\* All hashes that an article of that name may have, however its name was spelt.
HashesOf(name) == {HashKey[n] : n \in {m \in Names : Norm[m] = Norm[name]}}
=============================================================================
