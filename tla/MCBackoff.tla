----------------------------- MODULE MCBackoff -----------------------------
(***************************************************************************)
(* Instances of Backoff for TLC: policies with nothing to draw from and    *)
(* policies that reach their Max, one of them a Max so large that the      *)
(* jitter wraps, and seconds that wrap to a negative, a small and a large  *)
(* Duration.                                                               *)
(***************************************************************************)
EXTENDS Backoff

AnyPolicies ==
    {[base |-> b, max |-> m] : b \in {-5, 0, 3, 8}, m \in {-1, 0, 20, 170, 250}}

AnyRetryAfters == {0, 1, 2, 3, 4, 7, 36, 40, 75}
============================================================================
