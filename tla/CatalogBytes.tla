---------------------------- MODULE CatalogBytes ----------------------------
(***************************************************************************)
(* The two passes of append_catalog_entry over the bytes of the catalog,   *)
(* one after the other in the code: the search for models, which refresh   *)
(* shares, and the search for the place of the new member. Neither uses    *)
(* what the other computed, so a behaviour here is one pass, and its       *)
(* bytes are any bytes. ModelIndex has the rest of append_catalog_entry    *)
(* and takes a member for one symbol.                                      *)
(***************************************************************************)
EXTENDS TokenScan, JsonBounds

Init == BoundsIdle /\ (ScanInit \/ ScanIdle)

Next ==
    \/ step # "idle" /\ ScanNext /\ UNCHANGED boundsVars
    \/ step = "idle" /\ BoundsNext /\ UNCHANGED scanVars

Spec == Init /\ [][Next]_<<scanVars, boundsVars>>

(* Every register of either pass keeps its type.                             *)
TypeOK == ScanTypeOK /\ BoundsTypeOK
=============================================================================
