-------------------------------- MODULE Send --------------------------------
(***************************************************************************)
(* Client.Do and Client.send (internal/netskope/client.go): concurrent     *)
(* calls on one shared client, each a loop of                              *)
(*                                                                         *)
(*    back off - pass the limiter - send - wait for the answer - decide    *)
(*                                                                         *)
(* against a tenant that may act on a request and lose the answer, answer  *)
(* without acting, or act on a request long after its caller gave up.      *)
(*                                                                         *)
(* Every step of the loop that can block is a value of pc, and the context *)
(* of the call may end at each of them.  Time is left out: a sleep ends    *)
(* when its action is taken, and the limiter is reduced to whether it is   *)
(* holding callers (Limiter has its clock and its budget).                 *)
(***************************************************************************)
EXTENDS RetryPolicy

CONSTANTS
    Calls,       \* calls of Client.Do, each made once
    Verbs,       \* the verbs they use
    Statuses,    \* the HTTP statuses the tenant answers with
    Timely,      \* the calls whose timers are known to fire
    NoCall       \* the writer of an object nobody wrote yet

ASSUME VerbsAssumption    == Verbs \subseteq HTTPVerbs
ASSUME StatusesAssumption == Statuses \subseteq 100..599
ASSUME TimelyAssumption   == Timely \subseteq Calls
ASSUME NoCallAssumption   == NoCall \notin Calls

VARIABLES
    pc,         \* where each call stands in send
    method,     \* the verb of each call
    attempt,    \* the loop counter of each call
    ctx,        \* the call's context: "live", or "done" once it is cancelled
    requests,   \* requests that left a caller and have not reached the tenant
    acted,      \* for each call, the attempts the tenant acted on
    object,     \* the call whose write the tenant applied last
    held,       \* now is before limiter.until
    result      \* what Do returned

vars == <<pc, method, attempt, ctx, requests, acted, object, held, result>>

Attempts == 0..MaxRetries
Request  == [call : Calls, attempt : Attempts]

(***************************************************************************)
(* What Do returns, by what a caller can conclude from it.                 *)
(*   ok         the decoded 2xx body                                       *)
(*   refused    an APIError below 500, or a 2xx carrying an error envelope *)
(*   faulted    an APIError of 500 or above                                *)
(*   garbled    a 2xx whose body does not decode                           *)
(*   lost       a transport or a read error                                *)
(*   cancelled  the context ended while the call was waiting its turn      *)
(***************************************************************************)
Results == {"ok", "refused", "faulted", "garbled", "lost", "cancelled"}
Bodies  == {"data", "envelope", "garbled"}
Success == 200..299

Waiting  == {"backoff", "holding", "tokens"}
Running  == Waiting \union {"awaiting"}

\* A call whose verb must not be repeated once the tenant may have acted.
Once(c) == method[c] \in OnceVerbs

TypeOK ==
    /\ pc       \in [Calls -> {"idle", "returned"} \union Running]
    /\ method   \in [Calls -> Verbs \union {"none"}]
    /\ attempt  \in [Calls -> Attempts]
    /\ ctx      \in [Calls -> {"live", "done"}]
    /\ requests \subseteq Request
    /\ acted    \in [Calls -> SUBSET Attempts]
    /\ object   \in Calls \union {NoCall}
    /\ held     \in BOOLEAN
    /\ result   \in [Calls -> Results \union {"none"}]

Init ==
    /\ pc       = [c \in Calls |-> "idle"]
    /\ method   = [c \in Calls |-> "none"]
    /\ attempt  = [c \in Calls |-> 0]
    /\ ctx      = [c \in Calls |-> "live"]
    /\ requests = {}
    /\ acted    = [c \in Calls |-> {}]
    /\ object   = NoCall
    /\ held     = FALSE
    /\ result   = [c \in Calls |-> "none"]

----------------------------------------------------------------------------
(***************************************************************************)
(* The pieces the actions share.                                           *)
(***************************************************************************)

CurrentRequest(c) == [call |-> c, attempt |-> attempt[c]]

\* limiter.wait reads until under its lock, once: a caller that finds the
\* limiter holding sleeps for the time it read, any other goes to the bucket.
EnterGate(c) == pc' = [pc EXCEPT ![c] = IF held THEN "holding" ELSE "tokens"]

\* Mutant: the loop counter is not advanced.
ForgetAttempt(c) == /\ pc' = [pc EXCEPT ![c] = "backoff"]
                    /\ UNCHANGED <<attempt, result>>

\* The continue of the loop; only ever reached below MaxRetries.
Continue(c) ==
    /\ pc'      = [pc EXCEPT ![c] = "backoff"]
    /\ attempt' = [attempt EXCEPT ![c] = @ + 1]
    /\ UNCHANGED result

Return(c, r) ==
    /\ pc'     = [pc EXCEPT ![c] = "returned"]
    /\ result' = [result EXCEPT ![c] = r]
    /\ UNCHANGED attempt

\* limiter.observe: a response that reports an empty budget holds everyone,
\* and no response shortens a hold.
observe(empty) == held' = (held \/ empty)

\* Mutant: the error envelope of a 2xx is handed over as data.
EnvelopeIsData(status, body) ==
    IF status \in Success THEN IF body = "garbled" THEN "garbled" ELSE "ok"
    ELSE IF status >= 500 THEN "faulted" ELSE "refused"

\* What Do makes of a response it does not retry.
Verdict(status, body) ==
    IF status \in Success
    THEN CASE body = "data"     -> "ok"
           [] body = "envelope" -> "refused"
           [] body = "garbled"  -> "garbled"
    ELSE IF status >= 500 THEN "faulted" ELSE "refused"

----------------------------------------------------------------------------
(***************************************************************************)
(* The loop of send.                                                       *)
(***************************************************************************)

\* The loop is entered with attempt 0: no backoff, straight to the limiter.
Start(c, m) ==
    /\ pc[c] = "idle"
    /\ method' = [method EXCEPT ![c] = m]
    /\ EnterGate(c)
    /\ UNCHANGED <<attempt, ctx, requests, acted, object, held, result>>

\* sleepCtx: the timer fires.  When the context ended as well, select takes
\* either branch.
BackoffEnds(c) ==
    /\ pc[c] = "backoff"
    /\ EnterGate(c)
    /\ UNCHANGED <<method, attempt, ctx, requests, acted, object, held, result>>

\* limiter.wait: the caller slept for as long as it had read, and does not
\* look again.
HoldSlept(c) ==
    /\ pc[c] = "holding"
    /\ pc' = [pc EXCEPT ![c] = "tokens"]
    /\ UNCHANGED <<method, attempt, ctx, requests, acted, object, held, result>>

\* rate.Limiter grants a token and the request is built and written.
Attempt(c) ==
    /\ pc[c] = "tokens"
    /\ ctx[c] = "live"
    /\ pc'       = [pc EXCEPT ![c] = "awaiting"]
    /\ requests' = requests \union {CurrentRequest(c)}
    /\ UNCHANGED <<method, attempt, ctx, acted, object, held, result>>

\* Mutant: only a call asleep in its backoff notices the end of its context.
DeafLimiter(c) ==
    /\ pc[c] = "backoff"
    /\ ctx[c] = "done"
    /\ Return(c, "cancelled")
    /\ UNCHANGED <<method, ctx, requests, acted, object, held>>

\* sleepCtx or rate.Limiter returns the context's error.
WaitCancelled(c) ==
    /\ pc[c] \in Waiting
    /\ ctx[c] = "done"
    /\ Return(c, "cancelled")
    /\ UNCHANGED <<method, ctx, requests, acted, object, held>>

\* The answer to the current attempt: it exists only once the tenant has the
\* request.  A tenant that acted says so, or faults; one that did not act
\* refuses, or faults.
Answered(c, status, body) ==
    /\ pc[c] = "awaiting"
    /\ CurrentRequest(c) \notin requests
    /\ status \in Success \/ body = "data"
    /\ IF attempt[c] \in acted[c]
       THEN status >= 500 \/ (status \in Success /\ body # "envelope")
       ELSE status \in Success => body = "envelope"

Receive(c, status, body, empty) ==
    /\ Answered(c, status, body)
    /\ observe(empty)
    /\ IF status \notin Success /\ retryStatus(method[c], status, attempt[c])
       THEN Continue(c)
       ELSE Return(c, Verdict(status, body))
    /\ UNCHANGED <<method, ctx, requests, acted, object>>

\* Mutant: a lost answer is reported like a refusal.
LostIsRefused(c, empty) ==
    /\ pc[c] = "awaiting"
    /\ empty => CurrentRequest(c) \notin requests
    /\ observe(empty)
    /\ IF retryTransport(method[c], attempt[c])
       THEN Continue(c)
       ELSE Return(c, "refused")
    /\ UNCHANGED <<method, ctx, requests, acted, object>>

\* hc.Do or the read of the body fails: connection refused or reset, timeout,
\* or the end of the context.  The request may still be on its way.  When it
\* is the body that fails the header has been observed.
AnswerLost(c, empty) ==
    /\ pc[c] = "awaiting"
    /\ empty => CurrentRequest(c) \notin requests
    /\ observe(empty)
    /\ IF retryTransport(method[c], attempt[c])
       THEN Continue(c)
       ELSE Return(c, "lost")
    /\ UNCHANGED <<method, ctx, requests, acted, object>>

\* The caller of the tool gives up, at any moment.
Cancel(c) ==
    /\ pc[c] \in Running
    /\ ctx[c] = "live"
    /\ ctx' = [ctx EXCEPT ![c] = "done"]
    /\ UNCHANGED <<pc, method, attempt, requests, acted, object, held, result>>

----------------------------------------------------------------------------
(***************************************************************************)
(* The tenant and its clock, as send relies on them.                       *)
(***************************************************************************)

\* The request arrives, whether or not its caller still waits, and the tenant
\* acts on it or turns it down.
TenantTakes(q, acts) ==
    /\ q \in requests
    /\ requests' = requests \ {q}
    /\ acted'  = IF acts
                 THEN [acted EXCEPT ![q.call] = @ \union {q.attempt}]
                 ELSE acted
    /\ object' = IF acts /\ method[q.call] \in WriteVerbs THEN q.call ELSE object
    /\ UNCHANGED <<pc, method, attempt, ctx, held, result>>

\* The window the limiter was holding for is over.
WindowResets ==
    /\ held
    /\ held' = FALSE
    /\ UNCHANGED <<pc, method, attempt, ctx, requests, acted, object, result>>

Step(c) ==
    \/ \E m \in Verbs : Start(c, m)
    \/ BackoffEnds(c)
    \/ HoldSlept(c)
    \/ Attempt(c)
    \/ WaitCancelled(c)
    \/ \E status \in Statuses, body \in Bodies, empty \in BOOLEAN :
          Receive(c, status, body, empty)
    \/ \E empty \in BOOLEAN : AnswerLost(c, empty)
    \/ Cancel(c)

Environment ==
    \/ \E q \in requests, acts \in BOOLEAN : TenantTakes(q, acts)
    \/ WindowResets

Next == Environment \/ \E c \in Calls : Step(c)

Spec == Init /\ [][Next]_vars

----------------------------------------------------------------------------
(***************************************************************************)
(* Safety.                                                                 *)
(***************************************************************************)

\* "Retrying a POST that did reach the tenant but whose response was lost
\* creates a second publisher" (retry.go): whatever is lost, delayed or
\* cancelled, and however often send retries, the tenant acts at most once
\* on a call of a verb that is not idempotent, also after the call returned.
AtMostOnce ==
    \A c \in Calls : Once(c) => \A a, b \in acted[c] : a = b

\* When Do returns no error the tenant acted: neither an error envelope in a
\* 2xx, nor the answer to an abandoned attempt, passes for success.
OkMeansApplied ==
    \A c \in Calls : result[c] = "ok" => attempt[c] \in acted[c]

\* An error that reads as "this did not happen" is true: a call of a verb
\* that is not idempotent, refused by the tenant or cancelled while it was
\* waiting its turn (after a 429, say), was not applied.
RefusedMeansUntouched ==
    \A c \in Calls :
        Once(c) /\ result[c] \in {"refused", "cancelled"} => acted[c] = {}

\* The only result that leaves the fate of a call of such a verb open is a
\* lost answer: after any other, nothing of the call is still on its way.
SettledUnlessLost ==
    \A c \in Calls :
        Once(c) /\ pc[c] = "returned" /\ result[c] # "lost" =>
            \A q \in requests : q.call # c

\* A refusal misleads about a verb that is idempotent in one case alone: an
\* earlier attempt was applied and its answer lost, so a DELETE that worked can
\* end in "not found" (resource.go sends it, send repeats it).  A first answer
\* is never such a refusal.
DoubtOnlyAfterARetry ==
    \A c \in Calls :
        result[c] = "refused" /\ acted[c] # {} => attempt[c] > 0 /\ ~Once(c)

\* "idempotent reports whether repeating the verb is harmless" (retry.go): a
\* call that was sent more than once and returned success does not undo, with an
\* attempt it left on the way, what another call wrote since and was told so.
RepeatIsHarmless ==
    [][\A c, d \in Calls :
          /\ result[c] = "ok" /\ acted'[c] # acted[c]
          /\ object = d /\ d # c /\ result[d] = "ok"
          => object' = object]_vars

(***************************************************************************)
(* What makes the four invariants inductive.  A call of a verb that must   *)
(* not be repeated only ever waits with a clean slate: it comes back to a  *)
(* wait after a 429 alone, so none of its requests is on its way and none  *)
(* was acted on; and the one request it may have travelling is the current *)
(* attempt, not acted on yet.                                              *)
(***************************************************************************)
InFlight(c) == {q \in requests : q.call = c}

CleanSlate(c) == acted[c] = {} /\ InFlight(c) = {}

\* For one call: how its position, its result and its requests agree.
Coherent(c) ==
    /\ pc[c] = "idle"     <=> method[c] = "none"
    /\ pc[c] = "returned" <=> result[c] # "none"
    /\ pc[c] = "idle" => CleanSlate(c)
    /\ result[c] \in {"ok", "garbled"} => attempt[c] \in acted[c]

OneShot(c) ==
    /\ pc[c] \in Waiting => CleanSlate(c)
    /\ acted[c] \subseteq {attempt[c]}
    /\ \A q \in InFlight(c) : q.attempt = attempt[c] /\ attempt[c] \notin acted[c]
    /\ result[c] \in {"refused", "cancelled"} => acted[c] = {}
    /\ pc[c] = "returned" /\ result[c] # "lost" => InFlight(c) = {}

\* The strengthening: every call is coherent, and every call of a verb that
\* is not idempotent has had its one shot or has it still before it.
CallInv(c) == Coherent(c) /\ (Once(c) => OneShot(c))

SendInv == \A c \in Calls : CallInv(c)

\* The contract of one call (CallContract): all of the above and when it may
\* be relied upon, as a specification that send implements.
Contract == INSTANCE CallContract WITH
                Effects <- Attempts,
                verb    <- method,
                effects <- acted,
                verdict <- result

ImplementsContract == Contract!Spec

----------------------------------------------------------------------------
(***************************************************************************)
(* Liveness.  The steps a call takes by itself are ended by timers: the    *)
(* backoff, the hold, the token bucket, and http.Client.Timeout, which     *)
(* turns a missing answer into an error.  Nothing is assumed of the        *)
(* tenant: neither that it takes a request nor that it answers.            *)
(***************************************************************************)
Answer(c) ==
    \/ \E status \in Statuses, body \in Bodies, empty \in BOOLEAN :
          Receive(c, status, body, empty)
    \/ \E empty \in BOOLEAN : AnswerLost(c, empty)

TimerFairness(c) ==
    /\ WF_vars(BackoffEnds(c) \/ WaitCancelled(c))
    /\ WF_vars(HoldSlept(c) \/ WaitCancelled(c))
    /\ WF_vars(Attempt(c) \/ WaitCancelled(c))
    /\ WF_vars(Answer(c))

\* With only the context to wake a caller up: no timer need ever fire, and
\* the transport gives up on a request when its context ends.
CancelFairness(c) ==
    /\ WF_vars(WaitCancelled(c))
    /\ WF_vars(ctx[c] = "done" /\ Answer(c))

\* The timers of the calls in Timely fire; those of the others need not.
FairSpec ==
    /\ Spec
    /\ \A c \in Timely : TimerFairness(c)
    /\ \A c \in Calls  : CancelFairness(c)

\* A call of Do returns, however the tenant behaves and whatever becomes of
\* the other calls: retries are finite and no wait is for ever.
EveryCallReturns ==
    \A c \in Timely : pc[c] \in Running ~> pc[c] = "returned"

\* A cancelled call returns, even when the limiter never lets it pass and its
\* backoff never ends: every wait of the loop also watches the context.
CancelledCallReturns ==
    \A c \in Calls : ctx[c] = "done" ~> pc[c] = "returned"
=============================================================================
