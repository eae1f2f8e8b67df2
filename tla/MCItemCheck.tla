---------------------------- MODULE MCItemCheck ----------------------------
(***************************************************************************)
(* Instances of ItemCheck for TLC.  At most two loads are on the lane, so  *)
(* three ids are enough for a handler always to find a free one.           *)
(***************************************************************************)
EXTENDS ItemCheck

MCKind == [r \in Requests |-> IF r \in Checks THEN "gameplay" ELSE "baseline"]
=============================================================================
