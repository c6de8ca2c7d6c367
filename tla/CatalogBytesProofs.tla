------------------------- MODULE CatalogBytesProofs -------------------------
(***************************************************************************)
(* The specification the run checks, both passes over the catalog, for     *)
(* texts of any length. What the passes keep is proved in the modules      *)
(* extended here; a step of one leaves the registers of the other alone.   *)
(***************************************************************************)
EXTENDS CatalogBytes, TokenScanProofs, JsonBoundsProofs

BytesInv == ScanInv /\ BoundsInv

LEMMA PassesStart == Init => BytesInv
  BY ScanStarts, BoundsInvInit DEF Init, BytesInv

LEMMA PassesStep == BytesInv /\ [Next]_<<scanVars, boundsVars>> => BytesInv'
<1> SUFFICES ASSUME BytesInv, [Next]_<<scanVars, boundsVars>> PROVE BytesInv'
  OBVIOUS
<1>1. [ScanNext]_scanVars /\ [BoundsNext]_boundsVars
  BY DEF Next
<1> QED
  BY <1>1, ScanSteps, BoundsInvNext DEF BytesInv

(* Both passes keep the types of their registers: the 64 bytes refresh and   *)
(* _descriptor_contains_model carry over, the offsets and the parser state   *)
(* of _root_object_bounds.                                                   *)
THEOREM BytesTypeCorrect == Spec => []TypeOK
<1>1. BytesInv => TypeOK
  BY DEF BytesInv, TypeOK, ScanInv, BoundsInv
<1> QED
  BY <1>1, PassesStart, PassesStep, PTL DEF Spec

(* However refresh and _descriptor_contains_model cut the catalog into       *)
(* reads, and wherever a refresh resumes, no model of it is missed: for any  *)
(* text, growth and lengths, as long as windows share a whole token.         *)
THEOREM NoModelMissed == Spec => []EveryModelFound
<1>1. BytesInv => EveryModelFound
  BY ScanFindsAll DEF BytesInv
<1> QED
  BY <1>1, PassesStart, PassesStep, PTL DEF Spec

(* What these windows show is in the file, at the offset that is stored.     *)
THEOREM NothingMadeUp == Spec => []FoundWhereItStands
<1>1. BytesInv => FoundWhereItStands
  BY DEF BytesInv, ScanInv
<1> QED
  BY <1>1, PassesStart, PassesStep, PTL DEF Spec

(* _root_object_bounds accepts the one JSON object and nothing else, but for *)
(* a member that is too large.                                               *)
THEOREM BoundsAreExact == Spec => []AcceptsExactlyJson
<1>1. BytesInv => AcceptsExactlyJson
  BY DEF BytesInv, BoundsInv
<1> QED
  BY <1>1, PassesStart, PassesStep, PTL DEF Spec

(* What append_catalog_entry splices at these bounds is one JSON object.     *)
THEOREM AppendKeepsJson == Spec => []SpliceIsJson
<1>1. BytesInv => SpliceIsJson
  BY DEF BytesInv, BoundsInv
<1> QED
  BY <1>1, PassesStart, PassesStep, PTL DEF Spec
=============================================================================
