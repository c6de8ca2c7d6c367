---------------------------- MODULE MCAcquisition ----------------------------
(* Two regions of one model and a release of another one. Two full versions  *)
(* share the AP of a release; both regions are served the same bytes for the *)
(* first of them, and the other model shares the second.                     *)
EXTENDS Acquisition, TLC

CONSTANTS p1, p2, m1, m2, r1, r2, r3, v1, v2, z1, z2

MCModelOf == r1 :> m1 @@ r2 :> m1 @@ r3 :> m2
MCServed ==
    r1 :> (v1 :> z1 @@ v2 :> z2) @@ r2 :> (v1 :> z1 @@ v2 :> z1)
        @@ r3 :> (v1 :> z2 @@ v2 :> z2)

(* One model with two regions. *)
MCModelOf2 == r1 :> m1 @@ r2 :> m1
MCServed2 == [r \in Releases |-> [v \in Versions |-> IF v = v1 THEN z1 ELSE z2]]

Symmetry == Permutations(Procs)
=============================================================================
