--------------------------- MODULE MCXApiProvider ---------------------------
(***************************************************************************)
(* An instance of XApiProvider for TLC: pages of 2 to 4 posts, so that a   *)
(* limit of 7 ends inside a page of the minimum size.                      *)
(***************************************************************************)
EXTENDS XApiProvider

NearAndFarReset == {0, 5, 6}
=============================================================================
