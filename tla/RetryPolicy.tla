---------------------------- MODULE RetryPolicy ----------------------------
(***************************************************************************)
(* The decisions of internal/netskope/retry.go: which verbs may be sent    *)
(* again, and after which failures.  Nothing here has state; Send takes    *)
(* its control from these predicates and CallContract is stated over the   *)
(* same division of the verbs.                                             *)
(***************************************************************************)
EXTENDS Integers

CONSTANT
    MaxRetries     \* RetryPolicy.MaxRetries: attempts allowed after the first

ASSUME MaxRetriesAssumption == MaxRetries \in Nat

(***************************************************************************)
(* The verbs the tools send.  A write is a verb that changes an object of  *)
(* the tenant.                                                             *)
(***************************************************************************)
HTTPVerbs  == {"GET", "POST", "PUT", "PATCH", "DELETE"}
WriteVerbs == HTTPVerbs \ {"GET"}

\* The verbs RFC 9110 does not make idempotent: each time a tenant acts on one
\* is an effect of its own.
OnceVerbs  == {"POST", "PATCH"}

TooManyRequests == 429
ServerFaults    == {500, 502, 503, 504}

----------------------------------------------------------------------------
\* Mutants: plausible slips in the two decisions below.
PatchIsIdempotent(m)                   == m \in {"GET", "PUT", "DELETE", "PATCH"}
FaultRetriesAnyVerb(m, status, att)    == /\ att < MaxRetries
                                          /\ status \in ServerFaults \union {TooManyRequests}
LostAnswerRetriesAnyVerb(m, att)       == att < MaxRetries
----------------------------------------------------------------------------

idempotent(m) == m \in {"GET", "PUT", "DELETE"}

\* A response was received: 429 is retried whatever the verb, a server fault
\* only when repeating the verb is taken to be harmless.
retryStatus(m, status, att) ==
    /\ att < MaxRetries
    /\ \/ status = TooManyRequests
       \/ status \in ServerFaults /\ idempotent(m)

\* No response was seen, so the tenant may or may not have acted.
retryTransport(m, att) == att < MaxRetries /\ idempotent(m)
============================================================================
