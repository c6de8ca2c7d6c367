----------------------------- MODULE MCRegistry -----------------------------
(* Two full versions of one AP, the second with a data part; the other target *)
(* is only served the first.                                                  *)
EXTENDS Registry, TLC

CONSTANTS p1, p2, t1, t2, s1, a1, c1, c2, d1, z1

MCVersions == {[ap |-> a1, tail |-> c1, data |-> None],
               [ap |-> a1, tail |-> c2, data |-> d1]}
MCAnswers == t1 :> MCVersions @@ t2 :> {[ap |-> a1, tail |-> c1, data |-> None]}
=============================================================================
