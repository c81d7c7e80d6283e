------------------------------- MODULE Numbers -------------------------------
(* Operators on numbers that several components share. *)
EXTENDS Integers, Sequences, FiniteSets

\* Python's round() of a quotient: to the nearest integer, halves to the even one.
RoundDiv(a, b) ==
    LET q == a \div b
        r == 2 * (a % b)
    IN  IF r > b \/ (r = b /\ q % 2 = 1) THEN q + 1 ELSE q

\* The numbers of a finite set in ascending order: the n-th has n of them up to it.
Ascending(S) ==
    [n \in 1 .. Cardinality(S) |-> CHOOSE x \in S : Cardinality({y \in S : y <= x}) = n]

\* The entries of s that are at the positions of a set, in their order.
EntriesAt(s, positions) ==
    LET chosen == Ascending(positions)
    IN  [n \in DOMAIN chosen |-> s[chosen[n]]]
=============================================================================
