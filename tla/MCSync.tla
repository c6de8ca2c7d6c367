------------------------------- MODULE MCSync -------------------------------
(* Two regions of model ma and one of mb. The sources disagree on dates, tie *)
(* on some, and name records that are too old or have no date.               *)
EXTENDS Sync, TLC

CONSTANTS s1, s2, a1, a2, b1, ma, mb

MCRank == s1 :> 1 @@ s2 :> 2
MCModelOf == a1 :> ma @@ a2 :> ma @@ b1 :> mb

Rec(t, a) == [target |-> t, age |-> a]

MCAnswers ==
    s1 :> {<<Rec(b1, 1), Rec(a1, 0), Rec(a2, 1)>>}
 @@ s2 :> {<<Rec(a2, 0), Rec(b1, 3), Rec(a1, None)>>}
=============================================================================
