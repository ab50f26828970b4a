----------------------------- MODULE SendProofs -----------------------------
(***************************************************************************)
(* Theorems about Send, for every set of calls, verbs and statuses and     *)
(* every MaxRetries.                                                       *)
(***************************************************************************)
EXTENDS Send, TLAPS

(***************************************************************************)
(* Type correctness.                                                       *)
(***************************************************************************)

\* The first state has the right types: attempt 0 is within MaxRetries.
LEMMA InitTyped == Init => TypeOK
<1>1. 0 \in Attempts
  BY MaxRetriesAssumption DEF Attempts
<1>2. Init => held \in BOOLEAN
  BY DEF Init
<1> QED
  BY <1>1, <1>2 DEF Init, TypeOK

\* Every step keeps the types.  Only Continue could take the counter past
\* MaxRetries; it is taken below MaxRetries, because both retry predicates
\* say so.
LEMMA StepTyped == TypeOK /\ [Next]_vars => TypeOK'
<1> SUFFICES ASSUME TypeOK, [Next]_vars PROVE TypeOK'
  OBVIOUS
<1> USE DEF TypeOK, Running, Waiting
<1>1. ASSUME NEW c \in Calls, NEW m \in Verbs, Start(c, m) PROVE TypeOK'
  BY <1>1 DEF Start, EnterGate
<1>2. ASSUME NEW c \in Calls, BackoffEnds(c) PROVE TypeOK'
  BY <1>2 DEF BackoffEnds, EnterGate
<1>3. ASSUME NEW c \in Calls, HoldSlept(c) PROVE TypeOK'
  BY <1>3 DEF HoldSlept
<1>4. ASSUME NEW c \in Calls, Attempt(c) PROVE TypeOK'
  BY <1>4 DEF Attempt, CurrentRequest, Request
<1>5. ASSUME NEW c \in Calls, WaitCancelled(c) PROVE TypeOK'
  BY <1>5 DEF WaitCancelled, Return, Results
<1>6. ASSUME NEW c \in Calls, NEW status \in Statuses, NEW body \in Bodies,
             NEW empty \in BOOLEAN, Receive(c, status, body, empty)
      PROVE  TypeOK'
  <2>1. held' \in BOOLEAN
    BY <1>6 DEF Receive, observe
  <2>2. CASE Continue(c)
    <3>1. attempt[c] < MaxRetries
      BY <1>6, <2>2 DEF Receive, Continue, Return, retryStatus
    <3>2. attempt[c] + 1 \in Attempts
      BY <3>1, MaxRetriesAssumption DEF Attempts
    <3> QED
      BY <1>6, <2>1, <2>2, <3>2 DEF Receive, Continue
  <2>3. CASE Return(c, Verdict(status, body))
    <3>1. Verdict(status, body) \in Results
      BY DEF Verdict, Results, Bodies
    <3> QED
      BY <1>6, <2>1, <2>3, <3>1 DEF Receive, Return
  <2> QED
    BY <1>6, <2>2, <2>3 DEF Receive
<1>7. ASSUME NEW c \in Calls, NEW empty \in BOOLEAN, AnswerLost(c, empty)
      PROVE  TypeOK'
  <2>1. held' \in BOOLEAN
    BY <1>7 DEF AnswerLost, observe
  <2>2. CASE Continue(c)
    <3>1. attempt[c] < MaxRetries
      BY <1>7, <2>2 DEF AnswerLost, Continue, Return, retryTransport
    <3>2. attempt[c] + 1 \in Attempts
      BY <3>1, MaxRetriesAssumption DEF Attempts
    <3> QED
      BY <1>7, <2>1, <2>2, <3>2 DEF AnswerLost, Continue
  <2>3. CASE Return(c, "lost")
    BY <1>7, <2>1, <2>3 DEF AnswerLost, Return, Results
  <2> QED
    BY <1>7, <2>2, <2>3 DEF AnswerLost
<1>8. ASSUME NEW c \in Calls, Cancel(c) PROVE TypeOK'
  BY <1>8 DEF Cancel
<1>9. ASSUME NEW q \in requests, NEW acts \in BOOLEAN, TenantTakes(q, acts)
      PROVE  TypeOK'
  BY <1>9 DEF TenantTakes, Request
<1>10. CASE WindowResets
  BY <1>10 DEF WindowResets
<1>11. CASE UNCHANGED vars
  BY <1>11 DEF vars
<1> QED
  BY <1>1, <1>2, <1>3, <1>4, <1>5, <1>6, <1>7, <1>8, <1>9, <1>10, <1>11
     DEF Next, Environment, Step

\* Every variable of send keeps its type; in particular no call is ever on
\* an attempt past MaxRetries.
THEOREM TypeCorrect == Spec => []TypeOK
BY InitTyped, StepTyped, PTL DEF Spec

(***************************************************************************)
(* The inductive invariant.                                                *)
(***************************************************************************)

\* What a step of another call leaves alone.
Same(c) ==
    /\ pc'[c] = pc[c]
    /\ method'[c] = method[c]
    /\ attempt'[c] = attempt[c]
    /\ acted'[c] = acted[c]
    /\ result'[c] = result[c]
    /\ InFlight(c)' = InFlight(c)

LEMMA SameKeeps ==
  ASSUME NEW c \in Calls, CallInv(c), Same(c)
  PROVE  CallInv(c)'
<1>1. Once(c)' <=> Once(c)
  BY DEF Once, Same
<1>2. CleanSlate(c)' <=> CleanSlate(c)
  BY DEF CleanSlate, Same
<1>3. Coherent(c)'
  BY <1>2 DEF CallInv, Coherent, Same
<1>4. OneShot(c) => OneShot(c)'
  BY <1>2 DEF OneShot, Same
<1> QED
  BY <1>1, <1>3, <1>4 DEF CallInv

\* In the first state no call was made and nothing travels.
LEMMA InitInvariant == Init => SendInv
<1> SUFFICES ASSUME Init, NEW c \in Calls PROVE CallInv(c)
  BY DEF SendInv
<1>1. CleanSlate(c)
  BY DEF Init, CleanSlate, InFlight
<1>2. Coherent(c)
  BY <1>1 DEF Init, Coherent
<1>3. OneShot(c)
  BY <1>1 DEF Init, OneShot, CleanSlate
<1> QED
  BY <1>2, <1>3 DEF CallInv

\* The steps with which a call moves between its waits, and the steps it
\* takes to leave them.
LEMMA WaitingSteps ==
  ASSUME TypeOK, SendInv, NEW c \in Calls,
         \/ \E m \in Verbs : Start(c, m)
         \/ BackoffEnds(c)
         \/ HoldSlept(c)
         \/ Attempt(c)
         \/ WaitCancelled(c)
  PROVE  SendInv'
<1>1. ASSUME NEW d \in Calls, d # c PROVE Same(d)
  <2>1. InFlight(d)' = InFlight(d)
    BY <1>1 DEF Start, BackoffEnds, HoldSlept, Attempt, WaitCancelled,
                InFlight, CurrentRequest
  <2> QED
    BY <1>1, <2>1 DEF Start, BackoffEnds, HoldSlept, Attempt, WaitCancelled,
                      EnterGate, Return, Same, TypeOK
<1>2. CallInv(c)
  BY DEF SendInv
<1>3. CallInv(c)'
  <2>1. ASSUME NEW m \in Verbs, Start(c, m) PROVE CallInv(c)'
    <3>1. pc'[c] \in Waiting /\ method'[c] = m /\ result'[c] = "none"
      BY <1>2, <2>1 DEF Start, EnterGate, Waiting, TypeOK, CallInv, Coherent
    <3>2. CleanSlate(c)'
      BY <1>2, <2>1 DEF Start, CallInv, Coherent, CleanSlate, InFlight
    <3>3. m # "none"
      BY VerbsAssumption DEF HTTPVerbs
    <3> QED
      BY <3>1, <3>2, <3>3 DEF CallInv, Coherent, OneShot, CleanSlate, Waiting
  <2>2. CASE BackoffEnds(c) \/ HoldSlept(c)
    <3>1. pc[c] \in Waiting /\ pc'[c] \in Waiting
      BY <2>2 DEF BackoffEnds, HoldSlept, EnterGate, Waiting, TypeOK
    <3>2. UNCHANGED <<method, attempt, acted, result, requests>>
      BY <2>2 DEF BackoffEnds, HoldSlept
    <3> QED
      BY <1>2, <3>1, <3>2 DEF CallInv, Coherent, OneShot, Once, CleanSlate,
                              InFlight, Waiting
  <2>3. CASE Attempt(c)
    <3>1. pc[c] \in Waiting /\ pc'[c] = "awaiting"
      BY <2>3 DEF Attempt, Waiting, TypeOK
    <3>2. UNCHANGED <<method, attempt, acted, result>>
      BY <2>3 DEF Attempt
    <3>3. InFlight(c)' = InFlight(c) \union {CurrentRequest(c)}
      BY <2>3 DEF Attempt, InFlight, CurrentRequest
    <3>4. Coherent(c)'
      BY <1>2, <3>1, <3>2 DEF CallInv, Coherent, Waiting
    <3>5. Once(c) => OneShot(c)'
      BY <1>2, <3>1, <3>2, <3>3
         DEF CallInv, Coherent, OneShot, CleanSlate, CurrentRequest, Waiting
    <3> QED
      BY <3>2, <3>4, <3>5 DEF CallInv, Once
  <2>4. CASE WaitCancelled(c)
    <3>1. pc[c] \in Waiting /\ pc'[c] = "returned" /\ result'[c] = "cancelled"
      BY <2>4 DEF WaitCancelled, Return, TypeOK
    <3>2. UNCHANGED <<method, attempt, acted, requests>>
      BY <2>4 DEF WaitCancelled, Return
    <3> QED
      BY <1>2, <3>1, <3>2 DEF CallInv, Coherent, OneShot, Once, CleanSlate,
                              InFlight, Waiting
  <2> QED
    BY <2>1, <2>2, <2>3, <2>4
<1> QED
  BY <1>1, <1>3, SameKeeps DEF SendInv

\* The retry predicates know the verbs that must not be repeated.
LEMMA OnceIsNotIdempotent == \A c \in Calls : Once(c) => ~idempotent(method[c])
BY DEF Once, OnceVerbs, idempotent

\* The step that takes an answer.  A call of a verb that must not be repeated
\* goes on only after a 429, which answers a request nobody acted on.
LEMMA ReceiveStep ==
  ASSUME TypeOK, SendInv, NEW c \in Calls, NEW status \in Statuses,
         NEW body \in Bodies, NEW empty \in BOOLEAN,
         Receive(c, status, body, empty)
  PROVE  SendInv'
<1>1. UNCHANGED <<method, acted, requests>>
  BY DEF Receive
<1>2. ASSUME NEW d \in Calls, d # c PROVE Same(d)
  BY <1>1, <1>2 DEF Receive, Continue, Return, InFlight, Same, TypeOK
<1>3. CallInv(c) /\ pc[c] = "awaiting" /\ CurrentRequest(c) \notin requests
  BY DEF SendInv, Receive, Answered
<1>4. Once(c) => InFlight(c) = {}
  BY <1>3 DEF CallInv, OneShot, InFlight, CurrentRequest, TypeOK, Request
<1>5. CallInv(c)'
  <2>1. CASE Continue(c)
    <3>1. pc'[c] = "backoff" /\ UNCHANGED result
      BY <2>1 DEF Continue, TypeOK
    <3>2. Coherent(c)'
      BY <1>1, <1>3, <3>1 DEF CallInv, Coherent, TypeOK
    <3>3. ASSUME Once(c) PROVE CleanSlate(c)
      <4>1. status = TooManyRequests
        BY <1>3, <2>1, <3>3, OnceIsNotIdempotent
           DEF Receive, Continue, Return, retryStatus, TypeOK
      <4>2. attempt[c] \notin acted[c]
        BY <4>1 DEF Receive, Answered, TooManyRequests, Success
      <4> QED
        BY <1>3, <1>4, <3>3, <4>2 DEF CallInv, OneShot, CleanSlate
    <3>4. Once(c) => OneShot(c)'
      BY <1>1, <1>3, <3>1, <3>3
         DEF CallInv, Coherent, OneShot, CleanSlate, InFlight
    <3> QED
      BY <1>1, <3>2, <3>4 DEF CallInv, Once
  <2>2. CASE Return(c, Verdict(status, body))
    <3>1. /\ pc'[c] = "returned"
          /\ result'[c] = Verdict(status, body)
          /\ UNCHANGED attempt
      BY <2>2 DEF Return, TypeOK
    <3>2. Verdict(status, body) \in Results
      BY DEF Verdict, Results, Bodies
    <3>3. Verdict(status, body) \in {"ok", "garbled"} =>
              attempt[c] \in acted[c]
      BY DEF Receive, Answered, Verdict, Bodies
    <3>4. Verdict(status, body) \in {"refused", "cancelled"} =>
              attempt[c] \notin acted[c]
      BY StatusesAssumption DEF Receive, Answered, Verdict, Bodies, Success
    <3>5. Coherent(c)'
      BY <1>1, <1>3, <3>1, <3>2, <3>3 DEF CallInv, Coherent, Results
    <3>6. Once(c) => OneShot(c)'
      BY <1>1, <1>3, <1>4, <3>1, <3>4 DEF CallInv, OneShot, InFlight, Waiting
    <3> QED
      BY <1>1, <3>5, <3>6 DEF CallInv, Once
  <2> QED
    BY <2>1, <2>2 DEF Receive
<1> QED
  BY <1>2, <1>5, SameKeeps DEF SendInv

\* The step that gives up on an answer: a verb that must not be repeated
\* returns, and what is on its way stays its only shot.
LEMMA AnswerLostStep ==
  ASSUME TypeOK, SendInv, NEW c \in Calls, NEW empty \in BOOLEAN,
         AnswerLost(c, empty)
  PROVE  SendInv'
<1>1. UNCHANGED <<method, acted, requests>>
  BY DEF AnswerLost
<1>2. ASSUME NEW d \in Calls, d # c PROVE Same(d)
  BY <1>1, <1>2 DEF AnswerLost, Continue, Return, InFlight, Same, TypeOK
<1>3. CallInv(c) /\ pc[c] = "awaiting"
  BY DEF SendInv, AnswerLost
<1>4. CallInv(c)'
  <2>1. CASE Continue(c)
    <3>1. pc'[c] = "backoff" /\ UNCHANGED result
      BY <2>1 DEF Continue, TypeOK
    <3>2. ~Once(c)
      BY <1>3, <2>1, OnceIsNotIdempotent
         DEF AnswerLost, Continue, Return, retryTransport, TypeOK
    <3> QED
      BY <1>1, <1>3, <3>1, <3>2 DEF CallInv, Coherent, Once, TypeOK
  <2>2. CASE Return(c, "lost")
    <3>1. pc'[c] = "returned" /\ result'[c] = "lost" /\ UNCHANGED attempt
      BY <2>2 DEF Return, TypeOK
    <3> QED
      BY <1>1, <1>3, <3>1
         DEF CallInv, Coherent, OneShot, Once, InFlight, Waiting
  <2> QED
    BY <2>1, <2>2 DEF AnswerLost
<1> QED
  BY <1>2, <1>4, SameKeeps DEF SendInv

\* The step in which the tenant takes a request.  For a call of a verb that
\* must not be repeated it was the one request on its way.
LEMMA TenantStep ==
  ASSUME TypeOK, SendInv, NEW q \in requests, NEW acts \in BOOLEAN,
         TenantTakes(q, acts)
  PROVE  SendInv'
<1>1. q \in Request /\ q.call \in Calls
  BY DEF TypeOK, Request
<1>2. UNCHANGED <<pc, method, attempt, result>>
  BY DEF TenantTakes
<1>3. ASSUME NEW d \in Calls, d # q.call PROVE Same(d)
  BY <1>1, <1>2, <1>3 DEF TenantTakes, InFlight, Same, TypeOK
<1>4. CallInv(q.call)'
  <2> DEFINE c == q.call
  <2>1. CallInv(c) /\ q \in InFlight(c) /\ ~CleanSlate(c)
    BY <1>1 DEF SendInv, InFlight, CleanSlate
  <2>2. /\ InFlight(c)' = InFlight(c) \ {q}
        /\ acted'[c] \in {acted[c], acted[c] \union {q.attempt}}
    BY <1>1 DEF TenantTakes, InFlight, TypeOK
  <2>3. Coherent(c)'
    BY <1>2, <2>1, <2>2 DEF CallInv, Coherent
  <2>4. ASSUME Once(c) PROVE OneShot(c)'
    <3>1. /\ pc[c] \notin Waiting
          /\ q.attempt = attempt[c] /\ acted[c] = {}
          /\ result[c] \notin {"refused", "cancelled"} => TRUE
      BY <2>1, <2>4 DEF CallInv, OneShot
    <3>2. pc[c] = "returned" => result[c] = "lost"
      BY <2>1, <2>4 DEF CallInv, OneShot
    <3>3. result[c] \notin {"refused", "cancelled"}
      BY <2>1, <3>2 DEF CallInv, Coherent
    <3>4. InFlight(c)' = {}
      <4>1. ASSUME NEW r \in InFlight(c) PROVE r = q
        BY <1>1, <2>1, <2>4, <3>1, <4>1
           DEF CallInv, OneShot, InFlight, TypeOK, Request
      <4> QED
        BY <2>2, <4>1
    <3> QED
      BY <1>2, <2>2, <3>1, <3>2, <3>3, <3>4 DEF OneShot
  <2> QED
    BY <1>2, <2>3, <2>4 DEF CallInv, Once
<1> QED
  BY <1>3, <1>4, SameKeeps DEF SendInv

\* The steps that touch no call: a context ends, a hold is over.
LEMMA QuietSteps ==
  ASSUME TypeOK, SendInv,
         UNCHANGED <<pc, method, attempt, requests, acted, result>>
  PROVE  SendInv'
<1>1. ASSUME NEW c \in Calls PROVE Same(c)
  BY <1>1 DEF Same, InFlight
<1> QED
  BY <1>1, SameKeeps DEF SendInv

LEMMA StepInvariant == TypeOK /\ SendInv /\ [Next]_vars => SendInv'
<1> SUFFICES ASSUME TypeOK, SendInv, [Next]_vars PROVE SendInv'
  OBVIOUS
<1>1. ASSUME NEW c \in Calls, Step(c) PROVE SendInv'
  <2>1. CASE Cancel(c)
    BY <2>1, QuietSteps DEF Cancel
  <2> QED
    BY <1>1, <2>1, WaitingSteps, ReceiveStep, AnswerLostStep DEF Step
<1>2. CASE Environment
  <2>1. CASE WindowResets
    BY <2>1, QuietSteps DEF WindowResets
  <2> QED
    BY <1>2, <2>1, TenantStep DEF Environment
<1>3. CASE UNCHANGED vars
  BY <1>3, QuietSteps DEF vars
<1> QED
  BY <1>1, <1>2, <1>3 DEF Next

\* Every reachable state of send satisfies the strengthening.
THEOREM InvariantHolds == Spec => []SendInv
BY InitTyped, StepTyped, InitInvariant, StepInvariant, PTL DEF Spec

(***************************************************************************)
(* What the invariant is for.                                              *)
(***************************************************************************)

\* The tenant acts at most once on a call of a verb that is not idempotent.
THEOREM ActsAtMostOnce == Spec => []AtMostOnce
<1>1. SendInv => AtMostOnce
  BY DEF SendInv, CallInv, OneShot, AtMostOnce
<1> QED
  BY <1>1, InvariantHolds, PTL

\* Success means that the tenant acted on the attempt that was answered.
THEOREM SuccessIsApplied == Spec => []OkMeansApplied
<1>1. SendInv => OkMeansApplied
  BY DEF SendInv, CallInv, Coherent, OkMeansApplied
<1> QED
  BY <1>1, InvariantHolds, PTL

\* A refused or cancelled call of such a verb was not applied.
THEOREM RefusalIsTrue == Spec => []RefusedMeansUntouched
<1>1. SendInv => RefusedMeansUntouched
  BY DEF SendInv, CallInv, OneShot, RefusedMeansUntouched
<1> QED
  BY <1>1, InvariantHolds, PTL

\* After any result but a lost answer nothing of such a call travels.
THEOREM OnlyLostIsOpen == Spec => []SettledUnlessLost
<1>1. SendInv => SettledUnlessLost
  BY DEF SendInv, CallInv, OneShot, InFlight, SettledUnlessLost
<1> QED
  BY <1>1, InvariantHolds, PTL

(***************************************************************************)
(* Answers, of any verb: what was acted on in spite of a refusal, or is    *)
(* acted on after a success, is an earlier attempt.                        *)
(***************************************************************************)

\* The results of a call that was answered.
Answers == {"ok", "garbled", "faulted", "refused"}

\* The attempts of a call that travel or were acted on are no later than the
\* current one; an answered call's current one has arrived, and a refused one
\* was not acted on.
Refusal(c) ==
    /\ \A a \in acted[c] : a <= attempt[c]
    /\ \A q \in InFlight(c) : q.attempt <= attempt[c]
    /\ result[c] \in Answers => \A q \in InFlight(c) : q.attempt # attempt[c]
    /\ result[c] = "refused" => attempt[c] \notin acted[c]

RefusalInv == \A c \in Calls : Refusal(c)

\* No call was made in the first state.
LEMMA InitRefusal == Init => RefusalInv
BY DEF Init, RefusalInv, Refusal, InFlight, Answers

\* A step that touches neither the attempts nor the result of a call.
LEMMA RefusalSame ==
  ASSUME NEW c \in Calls, Refusal(c), attempt'[c] = attempt[c],
         acted'[c] = acted[c], result'[c] = result[c], InFlight(c)' = InFlight(c)
  PROVE  Refusal(c)'
BY DEF Refusal

\* Every step keeps it.
LEMMA StepRefusal == TypeOK /\ SendInv /\ RefusalInv /\ [Next]_vars => RefusalInv'
<1> SUFFICES ASSUME TypeOK, SendInv, RefusalInv, [Next]_vars, NEW d \in Calls
             PROVE  Refusal(d)'
  BY DEF RefusalInv
<1>0. /\ Refusal(d) /\ CallInv(d)
      /\ attempt[d] \in Nat /\ \A a \in acted[d] : a \in Nat
      /\ \A q \in InFlight(d) : q \in Request /\ q.attempt \in Nat /\ q.call = d
  BY MaxRetriesAssumption DEF RefusalInv, SendInv, TypeOK, Attempts, Request, InFlight
<1>1. ASSUME NEW c \in Calls,
             \/ \E m \in Verbs : Start(c, m)
             \/ BackoffEnds(c) \/ HoldSlept(c) \/ Cancel(c) \/ WindowResets
             \/ UNCHANGED vars
      PROVE  Refusal(d)'
  BY <1>0, <1>1, RefusalSame DEF Start, BackoffEnds, HoldSlept, Cancel, WindowResets,
                                 vars, InFlight
<1>2. ASSUME NEW c \in Calls, Attempt(c) PROVE Refusal(d)'
  <2>1. UNCHANGED <<attempt, acted, result>>
    BY <1>2 DEF Attempt
  <2>2. CASE c = d
    <3>1. InFlight(d)' = InFlight(d) \union {CurrentRequest(d)}
      BY <1>2, <2>2 DEF Attempt, InFlight, CurrentRequest
    <3>2. result[d] \notin Answers /\ result[d] # "refused"
      BY <1>0, <1>2, <2>2 DEF Attempt, CallInv, Coherent, Answers
    <3> QED
      BY <1>0, <2>1, <3>1, <3>2 DEF Refusal, CurrentRequest
  <2>3. CASE c # d
    <3>1. InFlight(d)' = InFlight(d)
      BY <1>2, <2>3 DEF Attempt, InFlight, CurrentRequest
    <3> QED
      BY <1>0, <2>1, <3>1, RefusalSame
  <2> QED
    BY <2>2, <2>3
<1>3. ASSUME NEW c \in Calls, Continue(c), UNCHANGED <<acted, requests>>
      PROVE  Refusal(d)'
  <2>1. InFlight(d)' = InFlight(d) /\ UNCHANGED result
    BY <1>3 DEF Continue, InFlight
  <2>2. CASE c = d /\ result[d] \notin Answers
    <3>1. attempt'[d] = attempt[d] + 1
      BY <1>3, <2>2 DEF Continue, TypeOK
    <3> QED
      BY <1>0, <1>3, <2>1, <2>2, <3>1 DEF Refusal, Answers
  <2>3. CASE c # d
    BY <1>0, <1>3, <2>1, <2>3, RefusalSame DEF Continue, TypeOK
  <2>4. CASE c = d /\ result[d] \in Answers
    <3>1. attempt'[d] = attempt[d] + 1
      BY <1>3, <2>4 DEF Continue, TypeOK
    <3>2. \A a \in acted[d] : a # attempt[d] + 1
      BY <1>0 DEF Refusal
    <3>3. \A q \in InFlight(d) : q.attempt # attempt[d] + 1
      BY <1>0 DEF Refusal
    <3> QED
      BY <1>0, <1>3, <2>1, <3>1, <3>2, <3>3 DEF Refusal
  <2> QED
    BY <2>2, <2>3, <2>4
<1>4. ASSUME NEW c \in Calls, NEW v \in Results, Return(c, v),
             UNCHANGED <<acted, requests>>,
             v \in Answers => CurrentRequest(c) \notin requests,
             v = "refused" => attempt[c] \notin acted[c]
      PROVE  Refusal(d)'
  <2>1. InFlight(d)' = InFlight(d) /\ UNCHANGED attempt
    BY <1>4 DEF Return, InFlight
  <2>2. CASE c = d
    <3>1. result'[d] = v
      BY <1>4, <2>2 DEF Return, TypeOK
    <3>2. v \in Answers => \A q \in InFlight(d) : q.attempt # attempt[d]
      BY <1>0, <1>4, <2>2 DEF InFlight, CurrentRequest, Request
    <3> QED
      BY <1>0, <1>4, <2>1, <2>2, <3>1, <3>2 DEF Refusal
  <2>3. CASE c # d
    BY <1>0, <1>4, <2>1, <2>3, RefusalSame DEF Return, TypeOK
  <2> QED
    BY <2>2, <2>3
<1>5. ASSUME NEW c \in Calls, NEW status \in Statuses, NEW body \in Bodies,
             NEW empty \in BOOLEAN, Receive(c, status, body, empty)
      PROVE  Refusal(d)'
  <2>1. Verdict(status, body) \in Results
    BY DEF Verdict, Results, Bodies
  <2>2. Verdict(status, body) = "refused" => attempt[c] \notin acted[c]
    BY <1>5, StatusesAssumption DEF Receive, Answered, Verdict, Bodies, Success
  <2>3. CurrentRequest(c) \notin requests /\ UNCHANGED <<acted, requests>>
    BY <1>5 DEF Receive, Answered
  <2> QED
    BY <1>3, <1>4, <1>5, <2>1, <2>2, <2>3 DEF Receive
<1>6. ASSUME NEW c \in Calls, NEW empty \in BOOLEAN, AnswerLost(c, empty)
      PROVE  Refusal(d)'
  BY <1>3, <1>4, <1>6 DEF AnswerLost, Results, Answers
<1>7. ASSUME NEW c \in Calls, WaitCancelled(c) PROVE Refusal(d)'
  BY <1>4, <1>7 DEF WaitCancelled, Results, Answers
<1>8. ASSUME NEW q \in requests, NEW acts \in BOOLEAN, TenantTakes(q, acts)
      PROVE  Refusal(d)'
  <2>1. UNCHANGED <<attempt, result>> /\ InFlight(d)' \subseteq InFlight(d)
    BY <1>8 DEF TenantTakes, InFlight
  <2>2. CASE q.call = d /\ acts
    <3>1. q \in InFlight(d) /\ acted'[d] = acted[d] \union {q.attempt}
      BY <1>8, <2>2 DEF TenantTakes, InFlight, TypeOK
    <3> QED
      BY <1>0, <2>1, <3>1 DEF Refusal, Answers
  <2>3. CASE ~(q.call = d /\ acts)
    <3>1. acted'[d] = acted[d]
      BY <1>8, <2>3 DEF TenantTakes, TypeOK
    <3> QED
      BY <1>0, <2>1, <3>1 DEF Refusal
  <2> QED
    BY <2>2, <2>3
<1> QED
  BY <1>1, <1>2, <1>5, <1>6, <1>7, <1>8 DEF Next, Step, Environment

\* A call that was refused after all, and applied, was retried: a first answer
\* that refuses is never about an object the call has changed.
THEOREM RefusalOfARetry == Spec => []DoubtOnlyAfterARetry
<1>1. TypeOK /\ SendInv /\ RefusalInv => DoubtOnlyAfterARetry
  <2> SUFFICES ASSUME TypeOK, SendInv, RefusalInv, NEW c \in Calls,
                      result[c] = "refused", acted[c] # {}
               PROVE  attempt[c] > 0 /\ ~Once(c)
    BY DEF DoubtOnlyAfterARetry
  <2>1. ~Once(c)
    BY DEF SendInv, CallInv, OneShot
  <2>2. PICK a \in acted[c] : a <= attempt[c] /\ a # attempt[c]
    BY DEF RefusalInv, Refusal
  <2>3. a \in Nat /\ attempt[c] \in Nat
    BY MaxRetriesAssumption DEF TypeOK, Attempts
  <2> QED
    BY <2>1, <2>2, <2>3
<1> QED
  BY <1>1, InitRefusal, StepRefusal, TypeCorrect, InvariantHolds, PTL DEF Spec

\* What RepeatIsHarmless comes down to: a call that returned success acts again
\* only when it was retried, and only with a verb that may be.
LateEffectsAreRetries ==
    [][\A c \in Calls :
          result[c] = "ok" /\ acted'[c] # acted[c] => attempt[c] > 0 /\ ~Once(c)]_vars

\* So a first attempt that succeeded settles its call, whatever its verb, and an
\* object written once by a POST or a PATCH is never written by it again.
THEOREM SuccessIsFinal == Spec => LateEffectsAreRetries
<1>1. ASSUME TypeOK, SendInv, RefusalInv, [Next]_vars, NEW c \in Calls,
             result[c] = "ok", acted'[c] # acted[c]
      PROVE  attempt[c] > 0 /\ ~Once(c)
  <2>1. PICK q \in requests, acts \in BOOLEAN : TenantTakes(q, acts)
    BY <1>1 DEF Next, Step, Environment, Start, BackoffEnds, HoldSlept, Attempt,
                WaitCancelled, Receive, AnswerLost, Cancel, WindowResets, vars
  <2>2. q \in InFlight(c) /\ q.attempt \in Nat /\ attempt[c] \in Nat
    BY <1>1, <2>1, MaxRetriesAssumption
       DEF TenantTakes, InFlight, TypeOK, Attempts, Request
  <2>3. q.attempt <= attempt[c] /\ q.attempt # attempt[c]
    BY <1>1, <2>2 DEF RefusalInv, Refusal, Answers
  <2>4. ~Once(c)
    BY <1>1, <2>2, <2>3 DEF SendInv, CallInv, OneShot
  <2> QED
    BY <2>2, <2>3, <2>4
<1>2. TypeOK /\ SendInv /\ RefusalInv /\ [Next]_vars =>
        [\A c \in Calls :
            result[c] = "ok" /\ acted'[c] # acted[c] => attempt[c] > 0 /\ ~Once(c)]_vars
  BY <1>1
<1> QED
  BY <1>2, InitRefusal, StepRefusal, TypeCorrect, InvariantHolds, PTL
     DEF Spec, LateEffectsAreRetries

(***************************************************************************)
(* Refinement: send implements the contract of a call.                     *)
(***************************************************************************)

LEMMA InitRefines == Init => Contract!Init
BY DEF Init, Contract!Init

\* A call that starts begins, an answer or an end of the context that makes
\* send return concludes, a request the tenant acts on takes effect; every
\* other step of send is invisible.
LEMMA StepRefines ==
  TypeOK /\ SendInv /\ [Next]_vars => [Contract!Next]_(Contract!vars)
<1> SUFFICES ASSUME TypeOK, SendInv, [Next]_vars
             PROVE  Contract!Next \/ UNCHANGED Contract!vars
  OBVIOUS
<1>1. ASSUME NEW c \in Calls, NEW m \in Verbs, Start(c, m)
      PROVE  Contract!Next
  <2>1. method[c] = "none"
    BY <1>1 DEF Start, SendInv, CallInv, Coherent
  <2>2. Contract!Begin(c, m)
    BY <1>1, <2>1 DEF Start, Contract!Begin
  <2> QED
    BY <2>2 DEF Contract!Next
<1>2. ASSUME NEW c \in Calls, NEW v \in Results, pc[c] \in Running, Return(c, v),
             UNCHANGED <<method, acted>>,
             v \in {"ok", "garbled"} => acted[c] # {},
             v \in {"refused", "cancelled"} /\ Once(c) => acted[c] = {}
      PROVE  Contract!Next
  <2>1. method[c] # "none" /\ result[c] = "none" /\ method[c] \in Verbs
    BY <1>2 DEF SendInv, CallInv, Coherent, Running, Waiting, TypeOK
  <2>2. Contract!Conclude(c, v)
    BY <1>2, <2>1 DEF Return, Once, Contract!Conclude, Contract!Denials
  <2>3. v \in Contract!Verdicts
    BY <1>2 DEF Results, Contract!Verdicts, Contract!Denials
  <2> QED
    BY <2>2, <2>3 DEF Contract!Next
<1>3. ASSUME NEW c \in Calls, WaitCancelled(c) PROVE Contract!Next
  <2>1. Once(c) => acted[c] = {}
    BY <1>3 DEF WaitCancelled, SendInv, CallInv, OneShot, CleanSlate
  <2> QED
    BY <1>2, <1>3, <2>1 DEF WaitCancelled, Running, Results
<1>4. ASSUME NEW c \in Calls, NEW status \in Statuses, NEW body \in Bodies,
             NEW empty \in BOOLEAN, Receive(c, status, body, empty)
      PROVE  Contract!Next \/ UNCHANGED Contract!vars
  <2> DEFINE v == Verdict(status, body)
  <2>1. CASE Continue(c)
    BY <1>4, <2>1 DEF Receive, Continue, Contract!vars
  <2>2. CASE Return(c, v)
    <3>1. v \in Results
      BY DEF Verdict, Results, Bodies
    <3>2. v \in {"ok", "garbled"} => acted[c] # {}
      BY <1>4 DEF Receive, Answered, Verdict, Bodies
    <3>3. v \in {"refused", "cancelled"} => attempt[c] \notin acted[c]
      BY <1>4, StatusesAssumption
         DEF Receive, Answered, Verdict, Bodies, Success
    <3>4. v \in {"refused", "cancelled"} /\ Once(c) => acted[c] = {}
      BY <3>3 DEF SendInv, CallInv, OneShot
    <3>5. pc[c] \in Running /\ UNCHANGED <<method, acted>>
      BY <1>4 DEF Receive, Answered, Running
    <3> HIDE DEF v
    <3> QED
      BY <1>2, <2>2, <3>1, <3>2, <3>4, <3>5
  <2> QED
    BY <1>4, <2>1, <2>2 DEF Receive
<1>5. ASSUME NEW c \in Calls, NEW empty \in BOOLEAN, AnswerLost(c, empty)
      PROVE  Contract!Next \/ UNCHANGED Contract!vars
  <2>1. CASE Continue(c)
    BY <1>5, <2>1 DEF AnswerLost, Continue, Contract!vars
  <2>2. CASE Return(c, "lost")
    BY <1>2, <1>5, <2>2 DEF AnswerLost, Running, Results
  <2> QED
    BY <1>5, <2>1, <2>2 DEF AnswerLost
<1>6. ASSUME NEW q \in requests, NEW acts \in BOOLEAN, TenantTakes(q, acts)
      PROVE  Contract!Next \/ UNCHANGED Contract!vars
  <2> DEFINE c == q.call
  <2>1. c \in Calls /\ q.attempt \in Attempts /\ q \in InFlight(c)
    BY DEF TypeOK, Request, InFlight
  <2>2. CASE ~acts
    BY <1>6, <2>2 DEF TenantTakes, Contract!vars
  <2>3. CASE acts
    <3>1. CallInv(c) /\ ~CleanSlate(c)
      BY <2>1 DEF SendInv, CleanSlate
    <3>2. method[c] # "none"
      BY <3>1 DEF CallInv, Coherent
    <3>3. ASSUME Once(c) PROVE acted[c] = {} /\ result[c] \in {"none", "lost"}
      BY <2>1, <3>1, <3>3 DEF CallInv, Coherent, OneShot
    <3>4. method[c] \in Verbs
      BY <2>1, <3>2 DEF TypeOK
    <3>5. Contract!TakeEffect(c, q.attempt)
      BY <1>6, <2>3, <3>2, <3>3, <3>4
         DEF TenantTakes, Once, Contract!TakeEffect
    <3> QED
      BY <2>1, <3>5 DEF Contract!Next
  <2> QED
    BY <2>2, <2>3
<1>7. ASSUME NEW c \in Calls, BackoffEnds(c) \/ HoldSlept(c) \/ Attempt(c) \/ Cancel(c)
      PROVE  UNCHANGED Contract!vars
  BY <1>7 DEF BackoffEnds, HoldSlept, Attempt, Cancel, Contract!vars
<1>8. CASE WindowResets \/ UNCHANGED vars
  BY <1>8 DEF WindowResets, vars, Contract!vars
<1> QED
  BY <1>1, <1>3, <1>4, <1>5, <1>6, <1>7, <1>8 DEF Next, Step, Environment

\* The retrying loop of send is, to a caller, one call that takes effect and
\* returns as CallContract says.
THEOREM SendImplementsContract == Spec => ImplementsContract
<1>1. Spec => Contract!Init /\ [][Contract!Next]_(Contract!vars)
  BY InitTyped, StepTyped, InitInvariant, StepInvariant, InitRefines,
     StepRefines, PTL DEF Spec
<1> QED
  BY <1>1 DEF ImplementsContract, Contract!Spec
=============================================================================
