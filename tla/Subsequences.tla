---------------------------- MODULE Subsequences ----------------------------
(***************************************************************************)
(* Lists are filtered everywhere in the hooks (Vec::retain, filter and     *)
(* collect).  Kept says where the elements of a filtered list come from,   *)
(* which is what the proofs about these lists need; it is SelectSeq with a *)
(* set in place of a test.                                                 *)
(***************************************************************************)
EXTENDS Integers, Sequences, FiniteSets

\* The positions of s that hold an element of S.
Positions(s, S) == {i \in DOMAIN s : s[i] \in S}

\* How many of the positions P are not after i.
Rank(P, i) == Cardinality({j \in P : j <= i})

\* The k-th of the positions P.
Nth(P, k) == CHOOSE i \in P : Rank(P, i) = k

\* The elements of s that are in S, in their order.
Kept(s, S) ==
    LET P == Positions(s, S)
    IN  [k \in 1..Cardinality(P) |-> s[Nth(P, k)]]
=============================================================================
