----------------------------- MODULE Subsequences -----------------------------
(***************************************************************************)
(* The part of a sequence that is left when some of its elements go: what  *)
(* Array.filter, Map.delete and the rewriting of a file leave behind.  It  *)
(* is said by positions, not by a predicate as SelectSeq says it, so that  *)
(* one set of lemmas about it does for every use.                          *)
(***************************************************************************)
EXTENDS Naturals, Sequences, FiniteSets

\* The elements of a finite set by how many are not after them.
Ranked(K, below) ==
    [ n \in 1 .. Cardinality(K) |-> CHOOSE i \in K : Cardinality(below[i]) = n ]

\* The numbers of a finite set, from the least on.
Ascending(K) == Ranked(K, [ i \in K |-> { j \in K : j <= i } ])

\* The positions of a sequence in the order of its numbers, those of equal
\* numbers as they are: Array.sort is stable.
Order(numbers) ==
    LET K == DOMAIN numbers
    IN  Ranked(K, [ i \in K |-> { j \in K : \/ numbers[j] < numbers[i]
                                            \/ numbers[j] = numbers[i] /\ j <= i } ])

\* The elements of s at the positions K, in their order.
Picked(s, K) ==
    LET at == Ascending(K)
    IN  [ n \in 1 .. Cardinality(K) |-> s[at[n]] ]
=============================================================================
