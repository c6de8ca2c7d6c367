---------------------------- MODULE MCModelIndex ----------------------------
(* Catalogs of a bounded number of models.                                   *)
EXTENDS ModelIndex, TLC

CONSTANTS MaxLength   \* bound: entries an editor writes

MCTexts == {t \in BoundedSeq(Models, MaxLength) : IsInjective(t)}

Symmetry == Permutations(Models) \cup Permutations(Inodes) \cup Permutations(Installs)
=============================================================================
