------------------------------- MODULE MCSend -------------------------------
(***************************************************************************)
(* Instances of Send for TLC.                                              *)
(***************************************************************************)
EXTENDS Send

OnlyPut    == {"PUT"}

\* A verb that is idempotent, and one that is not.
OneOfAKind == {"PUT", "PATCH"}

\* One status of each kind send tells apart: success, refusal, "not acted on,
\* try again", and a fault that may have been acted on.
AllStatuses == {200, 404, 429, 503}
NoRefusal   == {200, 429, 503}
=============================================================================
