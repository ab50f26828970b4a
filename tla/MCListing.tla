----------------------------- MODULE MCListing -----------------------------
(***************************************************************************)
(* Instances of Listing for TLC: collections of up to five items, each of   *)
(* them small, large (two exceed MaxBytes) or larger than MaxBytes alone.  *)
(***************************************************************************)
EXTENDS Listing

Sizes == {1, 4, 9}
SomeCollections == UNION {[1..n -> Sizes] : n \in 0..5}
AllSurfaces     == {"list", "scim", "events", "api", "lookup"}
OnlyLists       == {"list"}
NoLimits        == {}
SomeLimits      == {1, 2, 6}
============================================================================
