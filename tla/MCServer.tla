------------------------------ MODULE MCServer ------------------------------
(***************************************************************************)
(* Instances of Server for TLC.                                            *)
(***************************************************************************)
EXTENDS Server

BothModes == {"http", "stdio"}
OnlyHTTP  == {"http"}
OnlyPost  == {"POST"}
OneEffect == {"applied"}
=============================================================================
