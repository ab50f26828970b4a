------------------------------ MODULE Backoff ------------------------------
(***************************************************************************)
(* RetryPolicy.backoff (internal/netskope/retry.go): how long a call       *)
(* sleeps before each attempt after the first.  The length is computed on  *)
(* integers of a fixed width, drawn at random, and then fitted between the *)
(* tenant's Retry-After and the policy's Max.                              *)
(*                                                                         *)
(* One call fails again and again, each time with whatever Retry-After;    *)
(* its policy is any a caller of New may supply.                           *)
(***************************************************************************)
EXTENDS Integers

CONSTANTS
    MaxRetries,    \* RetryPolicy.MaxRetries
    Policies,      \* the policies, records of a base and a max
    RetryAfters,   \* what tenants ask for, in seconds
    Second,        \* time.Second
    Half           \* a time.Duration holds the integers from -Half to Half - 1

ASSUME MaxRetriesAssumption  == MaxRetries \in Nat
ASSUME HalfAssumption        == Half \in Nat \ {0}
ASSUME PoliciesAssumption    ==
    Policies \subseteq [base : (-Half)..(Half - 1), max : (-Half)..(Half - 1)]
ASSUME RetryAftersAssumption == RetryAfters \subseteq Nat
ASSUME SecondAssumption      == Second \in Nat \ {0}

VARIABLES
    policy,        \* the client's policy
    attempt,       \* the attempt the call is about to make
    asked,         \* the seconds in the Retry-After of the failure before it
    slept          \* how long it sleeps before that attempt

vars == <<policy, attempt, asked, slept>>

\* An integer as the machine keeps it, two's complement.
Wrap(n) == ((n + Half) % (2 * Half)) - Half

Smaller(a, b) == IF a < b THEN a ELSE b
Larger(a, b)  == IF a > b THEN a ELSE b

\* parseRetryAfter: seconds become a Duration, and wrap when there are many.
parseRetryAfter(secs) == Wrap(secs * Second)

\* Mutant: a timer set to a time that has passed.
SleepAsTold(d) == d

\* sleepCtx returns at once from a sleep that is not positive.
sleepCtx(d) == Larger(d, 0)

----------------------------------------------------------------------------
\* Shifting by n multiplies by a power of two.
Power[n \in 0..MaxRetries] == IF n = 0 THEN 1 ELSE 2 * Power[n - 1]

\* Base << (attempt - 1), no more than Max.
Nominal(p, att) == Smaller(Wrap(p.base * Power[att - 1]), p.max)

\* Mutant: no jitter.
Fixed(d) == IF d > 0 THEN {d} ELSE {}

\* What rand.Int64N(d) + d/2 may come to, from d/2 to 3d/2, and the sum can wrap;
\* rand panics on a bound that is not positive, and then there is no delay at all.
Jitter(d) == {Wrap(r + d \div 2) : r \in 0..(d - 1)}

\* Mutants: the guard of rand is gone; Max is applied before Retry-After only;
\* with nothing to draw from, the retry is immediate.
Unguarded(p, att, ra) ==
    {Smaller(Larger(d, ra), p.max) : d \in Jitter(Nominal(p, att))}

Uncapped(p, att, ra) ==
    IF Nominal(p, att) <= 0 THEN {ra}
    ELSE {Larger(d, ra) : d \in Jitter(Nominal(p, att))}

Impatient(p, att, ra) ==
    IF Nominal(p, att) <= 0 THEN {0}
    ELSE {Smaller(Larger(d, ra), p.max) : d \in Jitter(Nominal(p, att))}

\* The delays backoff may return.  With nothing to draw from it returns the
\* Retry-After as it is, before Max is looked at.
backoff(p, att, ra) ==
    IF Nominal(p, att) <= 0 THEN {ra}
    ELSE {Smaller(Larger(d, ra), p.max) : d \in Jitter(Nominal(p, att))}

----------------------------------------------------------------------------
Init ==
    /\ policy \in Policies
    /\ attempt = 0
    /\ asked   = 0
    /\ slept   = 0

\* An attempt failed in a way send retries, and the call goes to sleep.
Fail(secs) ==
    /\ attempt < MaxRetries
    /\ attempt' = attempt + 1
    /\ asked'   = secs
    /\ \E d \in backoff(policy, attempt + 1, parseRetryAfter(secs)) :
          slept' = sleepCtx(d)
    /\ UNCHANGED policy

Next == \E secs \in RetryAfters : Fail(secs)

Spec == Init /\ [][Next]_vars

----------------------------------------------------------------------------
TypeOK ==
    /\ policy  \in Policies
    /\ attempt \in 0..MaxRetries
    /\ asked   \in RetryAfters \union {0}
    /\ slept   \in Nat

\* Whatever the policy, the attempt, the wrapped shift and the wrapped
\* Retry-After, there is a delay: rand is never given a bound on which it
\* panics.
NeverPanics ==
    \A secs \in RetryAfters :
        attempt < MaxRetries =>
            backoff(policy, attempt + 1, parseRetryAfter(secs)) # {}

\* A sleep is longer than Max in one case only: there is nothing to draw from
\* (Base or Max is zero or negative, or the shift wrapped), and then it is the
\* tenant's Retry-After, uncapped.
WithinMax ==
    attempt > 0 =>
        \/ slept <= policy.max
        \/ /\ Nominal(policy, attempt) <= 0
           /\ slept = sleepCtx(parseRetryAfter(asked))

\* A Retry-After that a Duration can hold is waited for as far as Max allows,
\* whatever the policy; also the policy without a Base, for which the comment of
\* the code says "retry immediately".
AskedForIsHonoured ==
    attempt > 0 /\ asked * Second < Half =>
        slept >= Smaller(asked * Second, policy.max)

\* Calls that fail together need not retry in lockstep, which is what the jitter
\* is there for: as long as what the tenant asks for is less than the longest
\* draw and than Max, there are different delays to sleep.
NotInLockstep ==
    \A secs \in RetryAfters :
        LET next  == attempt + 1
            drawn == Nominal(policy, next)
            ra    == parseRetryAfter(secs)
            within == drawn > 1 /\ ra < drawn - 1 + drawn \div 2 /\ ra < policy.max
        IN  attempt < MaxRetries /\ within =>
                \E d, e \in backoff(policy, next, ra) : d # e
============================================================================
