------------------------------ MODULE MCConfig ------------------------------
(***************************************************************************)
(* An instance of Config for TLC.  A flag and a variable may name the same *)
(* tenant or another; groups are known, unknown and blank.                 *)
(***************************************************************************)
EXTENDS Config

TwoGroups   == {"core", "npa"}
SomeNames   == {"acme", "other", "malformed"}
SomeURLs    == {"https://acme", "https://other", "relative", "malformed"}
SomeLevels  == {"info", "debug", "loud"}
ShortLists  == UNION {[1..n -> {"core", "npa", "bogus", ""}] : n \in 1..3}
=============================================================================
