----------------------------- MODULE MCLimiter -----------------------------
(***************************************************************************)
(* Instances of Limiter for TLC.  Two callers are enough for a response to *)
(* be observed between another caller's look at the hold and its request,  *)
(* and for two responses to be observed out of order; LimiterProofs covers *)
(* any number.  The budget is smaller than what they ask for in a window.  *)
(***************************************************************************)
EXTENDS Limiter

TwoCallers == {"g1", "g2"}
============================================================================
