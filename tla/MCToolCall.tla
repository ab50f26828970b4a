----------------------------- MODULE MCToolCall -----------------------------
(***************************************************************************)
(* Instances of ToolCall for TLC: the whole table of tools, one tool call, *)
(* and a client that may have two effects (a retry).                       *)
(***************************************************************************)
EXTENDS ToolCall

AllVerbs    == Methods
NonIdempotent == {"POST", "PATCH"}

\* The default, all groups, and one that leaves out most.
SomeGroups  == {DefaultGroups, {}, {"npa", "ips"}}
=============================================================================
