---------------------------- MODULE Enumerations ----------------------------
(* A finite set in the order of a relation: what a stable sort, and a loop   *)
(* that skips some of its items, make of their input.                        *)
EXTENDS Naturals, FiniteSets, Sequences

Before(S, R, i) == {j \in S : <<j, i>> \in R}

(* The k-th element is the one with k - 1 elements before it.                *)
Enumerated(S, R) ==
    [k \in 1 .. Cardinality(S) |-> CHOOSE i \in S : Cardinality(Before(S, R, i)) = k - 1]

Ascending(P) == {p \in P \X P : p[1] < p[2]}

(* The elements of s at the positions in P, in the order they have there.    *)
Part(s, P) ==
    LET at == Enumerated(P, Ascending(P)) IN [k \in DOMAIN at |-> s[at[k]]]
=============================================================================
