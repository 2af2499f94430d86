------------------------------- MODULE Ordering -------------------------------
(***************************************************************************)
(* Sorting and filtering, by what they return: the elements of a set in    *)
(* the order of a relation, and the positions of a sequence that a test    *)
(* keeps.  They stand for the sorts, ORDER BY clauses and filters of the   *)
(* code; unlike SortSeq and SelectSeq they can be reasoned about.          *)
(***************************************************************************)
EXTENDS Integers, FiniteSets, Sequences

\* The k-th element is the one that k - 1 others come before.
InOrder(S, Less(_, _)) ==
    [k \in 1 .. Cardinality(S) |->
        CHOOSE x \in S : Cardinality({y \in S : Less(y, x)}) = k - 1]

\* A set of numbers, the lowest first.
Upward(S) == InOrder(S, LAMBDA i, j : i < j)

\* The elements of s at some of its positions, in their order.
AtPlaces(s, positions) ==
    [k \in 1 .. Cardinality(positions) |-> s[Upward(positions)[k]]]

\* The n first elements, or all there are.
First(s, n) == SubSeq(s, 1, IF n < Len(s) THEN n ELSE Len(s))

===============================================================================
