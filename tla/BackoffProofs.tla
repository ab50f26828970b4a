--------------------------- MODULE BackoffProofs ---------------------------
(***************************************************************************)
(* Theorems about Backoff, for every policy, every Retry-After and every   *)
(* width of a Duration.                                                    *)
(***************************************************************************)
EXTENDS Backoff, WellFoundedInduction, TLAPS

(***************************************************************************)
(* Induction on the naturals, from the fact that < is well-founded.        *)
(***************************************************************************)

\* The pairs of naturals of which the first is smaller.
Below == {pair \in Nat \X Nat : pair[1] < pair[2]}

\* A set of naturals that is not empty has a least member.
LEMMA LeastNumber ==
  ASSUME NEW T, T \subseteq Nat, T # {}
  PROVE  \E x \in T : \A y \in T : x <= y
<1>1. IsWellFoundedOn(Below, Nat)
  BY NatLessThanWellFounded DEF OpToRel, Below
<1>2. PICK x \in T : \A y \in T : <<y, x>> \notin Below
  BY <1>1, WFMin
<1>3. ASSUME NEW y \in T PROVE x <= y
  <2>1. <<y, x>> \notin Below /\ x \in Nat /\ y \in Nat
    BY <1>2
  <2> QED
    BY <2>1 DEF Below
<1> QED
  BY <1>3

\* A set that has 0, and the successor of every natural it has, has them all.
LEMMA Induction ==
  ASSUME NEW G, 0 \in G, \A n \in Nat : n \in G => n + 1 \in G
  PROVE  Nat \subseteq G
<1> SUFFICES ASSUME Nat \ G # {} PROVE FALSE
  OBVIOUS
<1>1. PICK x \in Nat \ G : \A y \in Nat \ G : x <= y
  BY LeastNumber
<1>2. x - 1 \in Nat /\ x - 1 \notin G
  BY <1>1
<1> QED
  BY <1>1, <1>2

(***************************************************************************)
(* The arithmetic.                                                         *)
(***************************************************************************)

\* A power of two is a positive natural.
LEMMA PowersArePositive == \A n \in 0..MaxRetries : Power[n] \in Nat \ {0}
<1> DEFINE Shifts(f, m) == f = [n \in 0..m |-> IF n = 0 THEN 1 ELSE 2 * f[n - 1]]
<1>1. \E f : Shifts(f, MaxRetries)
  <2> DEFINE G == {m \in Nat : \E f : Shifts(f, m)}
  <2>1. 0 \in G
    <3>1. Shifts([n \in 0..0 |-> 1], 0)
      OBVIOUS
    <3> QED
      BY <3>1
  <2>2. ASSUME NEW m \in Nat, m \in G PROVE m + 1 \in G
    <3>1. PICK f : Shifts(f, m)
      BY <2>2
    <3> DEFINE g == [n \in 0..(m + 1) |-> IF n <= m THEN f[n] ELSE 2 * f[m]]
    <3>2. \A n \in 0..m : f[n] = IF n = 0 THEN 1 ELSE 2 * f[n - 1]
      BY <3>1
    <3>3. ASSUME NEW n \in 0..(m + 1)
          PROVE  g[n] = IF n = 0 THEN 1 ELSE 2 * g[n - 1]
      <4>1. CASE n <= m
        <5>1. g[n] = f[n] /\ (n # 0 => g[n - 1] = f[n - 1])
          BY <4>1
        <5> HIDE DEF g
        <5> QED
          BY <3>2, <4>1, <5>1
      <4>2. CASE n = m + 1
        <5>1. g[n] = 2 * f[m] /\ g[n - 1] = f[m] /\ n # 0
          BY <4>2
        <5> HIDE DEF g
        <5> QED
          BY <5>1
      <4> QED
        BY <4>1, <4>2
    <3>4. Shifts(g, m + 1)
      BY <3>3
    <3> HIDE DEF g, Shifts
    <3> QED
      BY <3>4
  <2> HIDE DEF G
  <2>3. Nat \subseteq G
    BY <2>1, <2>2, Induction
  <2> QED
    BY <2>3, MaxRetriesAssumption DEF G
<1>2. Shifts(Power, MaxRetries)
  BY <1>1 DEF Power
<1> DEFINE H == {n \in Nat : n <= MaxRetries => Power[n] \in Nat \ {0}}
<1>3. 0 \in H
  BY <1>2, MaxRetriesAssumption
<1>4. ASSUME NEW n \in Nat, n \in H PROVE n + 1 \in H
  <2>1. n + 1 <= MaxRetries => Power[n + 1] = 2 * Power[n]
    BY <1>2, MaxRetriesAssumption
  <2> QED
    BY <1>4, <2>1, MaxRetriesAssumption
<1>5. Nat \subseteq H
  <2> HIDE DEF H
  <2> QED
    BY <1>3, <1>4, Induction
<1> QED
  BY <1>5, MaxRetriesAssumption

\* What the machine keeps is a Duration, and a Duration is kept as it is.
LEMMA Wrapped ==
  ASSUME NEW n \in Int
  PROVE  /\ Wrap(n) \in (-Half)..(Half - 1)
         /\ n \in (-Half)..(Half - 1) => Wrap(n) = n
BY HalfAssumption DEF Wrap

\* A policy's fields, spelled out.
LEMMA PolicyTyped ==
  ASSUME NEW p \in Policies
  PROVE  p.base \in (-Half)..(Half - 1) /\ p.max \in (-Half)..(Half - 1)
BY PoliciesAssumption

\* The exponential is a Duration, at most Max; as long as the shift of a positive
\* Base fits it is the smaller of the two.
LEMMA NominalTyped ==
  ASSUME NEW p \in Policies, NEW att \in 1..MaxRetries
  PROVE  /\ Nominal(p, att) \in (-Half)..(Half - 1) /\ Nominal(p, att) <= p.max
         /\ p.base > 0 /\ p.base * Power[att - 1] < Half =>
               Nominal(p, att) = Smaller(p.base * Power[att - 1], p.max)
<1> DEFINE shifted == p.base * Power[att - 1]
<1>1. shifted \in Int /\ (p.base > 0 => shifted \in Nat)
  <2>1. Power[att - 1] \in Nat
    BY PowersArePositive, MaxRetriesAssumption
  <2> QED
    BY <2>1, PolicyTyped, HalfAssumption
<1>2. Nominal(p, att) = Smaller(Wrap(shifted), p.max)
  BY DEF Nominal
<1> HIDE DEF shifted
<1>3. /\ Wrap(shifted) \in (-Half)..(Half - 1)
      /\ p.base > 0 /\ shifted < Half => Wrap(shifted) = shifted
  BY <1>1, Wrapped, HalfAssumption
<1>4. Nominal(p, att) \in (-Half)..(Half - 1) /\ Nominal(p, att) <= p.max
  BY <1>2, <1>3, PolicyTyped, HalfAssumption DEF Smaller
<1>5. p.base > 0 /\ shifted < Half => Nominal(p, att) = Smaller(shifted, p.max)
  BY <1>2, <1>3
<1> QED
  BY <1>4, <1>5 DEF shifted

(***************************************************************************)
(* What backoff returns.                                                   *)
(***************************************************************************)

\* There is a delay, whatever the policy and the attempt: rand is never given a
\* bound on which it panics.
LEMMA SomeDelay ==
  ASSUME NEW p \in Policies, NEW att \in 1..MaxRetries, NEW ra \in Int
  PROVE  backoff(p, att, ra) # {}
<1>1. Nominal(p, att) \in Int
  BY NominalTyped
<1>2. CASE Nominal(p, att) <= 0
  BY <1>2 DEF backoff
<1>3. CASE Nominal(p, att) > 0
  <2>1. 0 \in 0..(Nominal(p, att) - 1)
    BY <1>1, <1>3
  <2>2. Jitter(Nominal(p, att)) # {}
    BY <2>1 DEF Jitter
  <2> QED
    BY <1>1, <1>3, <2>2 DEF backoff
<1> QED
  BY <1>1, <1>2, <1>3

\* A delay, whether or not there was something to draw from: the Retry-After as it
\* is, or a draw fitted between the Retry-After and Max.
LEMMA DelayBounds ==
  ASSUME NEW p \in Policies, NEW att \in 1..MaxRetries, NEW ra \in Int,
         NEW d \in backoff(p, att, ra)
  PROVE  /\ d \in Int
         /\ d >= Smaller(ra, p.max)
         /\ Nominal(p, att) <= 0 => d = ra
         /\ Nominal(p, att) > 0  => d <= p.max
<1> DEFINE nom == Nominal(p, att)
<1>1. /\ nom \in (-Half)..(Half - 1) /\ nom <= p.max
      /\ p.max \in (-Half)..(Half - 1) /\ Half \in Nat \ {0}
  BY NominalTyped, PolicyTyped, HalfAssumption
<1>2. CASE nom <= 0
  BY <1>1, <1>2 DEF backoff, Smaller
<1>3. CASE nom > 0
  <2>1. PICK r \in 0..(nom - 1) : d = Smaller(Larger(Wrap(r + nom \div 2), ra), p.max)
    BY <1>1, <1>3 DEF backoff, Jitter
  <2> HIDE DEF nom
  <2> DEFINE drawn == Wrap(r + nom \div 2)
  <2>2. drawn \in Int
    BY <1>1, <1>3, Wrapped
  <2>3. d = Smaller(Larger(drawn, ra), p.max)
    BY <2>1
  <2> HIDE DEF drawn
  <2>4. d \in Int /\ d <= p.max /\ d >= Smaller(ra, p.max)
    BY <1>1, <2>2, <2>3 DEF Smaller, Larger
  <2> QED
    BY <1>1, <1>3, <2>4 DEF nom
<1> QED
  BY <1>1, <1>2, <1>3

\* There are two delays when something can be drawn that is longer than what the
\* tenant asks for, and Max is: the longer of the shortest draw and the
\* Retry-After, and one more.
LEMMA TwoDelays ==
  ASSUME NEW p \in Policies, NEW att \in 1..MaxRetries, NEW ra \in Int,
         Nominal(p, att) > 1,
         ra < Nominal(p, att) - 1 + Nominal(p, att) \div 2, ra < p.max
  PROVE  \E d, e \in backoff(p, att, ra) : d # e
<1> DEFINE nom == Nominal(p, att)
<1> DEFINE low == Larger(nom \div 2, ra)
<1>1. /\ nom \in (-Half)..(Half - 1) /\ nom <= p.max /\ nom > 1
      /\ p.max \in (-Half)..(Half - 1) /\ Half \in Nat \ {0}
      /\ ra < nom - 1 + nom \div 2
  BY NominalTyped, PolicyTyped, HalfAssumption
<1>2. backoff(p, att, ra) = {Smaller(Larger(d, ra), p.max) : d \in Jitter(nom)}
  BY <1>1 DEF backoff
<1>3. Jitter(nom) = {Wrap(r + nom \div 2) : r \in 0..(nom - 1)}
  BY DEF Jitter
<1> HIDE DEF nom
<1>4. nom \div 2 \in 1..(nom - 1)
  BY <1>1
<1>5. low \in Int /\ low >= ra /\ low < p.max /\ low >= nom \div 2 /\ low < nom - 1 + nom \div 2
  BY <1>1, <1>4 DEF Larger
<1> HIDE DEF low
<1>6. ASSUME NEW x \in {low, low + 1}
      PROVE  x \in Jitter(nom) /\ Smaller(Larger(x, ra), p.max) = x
  <2>1. x \in (-Half)..(Half - 1) /\ x - nom \div 2 \in 0..(nom - 1)
    BY <1>1, <1>4, <1>5, <1>6
  <2>2. Wrap((x - nom \div 2) + nom \div 2) = x
    <3>1. (x - nom \div 2) + nom \div 2 = x
      BY <1>4, <2>1, <1>1
    <3> QED
      BY <2>1, <3>1, <1>1, Wrapped
  <2>3. Smaller(Larger(x, ra), p.max) = x
    BY <1>1, <1>5, <1>6, <2>1 DEF Smaller, Larger
  <2> QED
    BY <1>3, <2>1, <2>2, <2>3
<1>7. low \in backoff(p, att, ra) /\ low + 1 \in backoff(p, att, ra)
  BY <1>2, <1>6
<1> QED
  BY <1>5, <1>7

\* Seconds become a Duration, the same number of nanoseconds if it fits.
LEMMA RetryAfterTyped ==
  ASSUME NEW secs \in RetryAfters \union {0}
  PROVE  /\ parseRetryAfter(secs) \in Int
         /\ secs * Second \in Nat
         /\ secs * Second < Half => parseRetryAfter(secs) = secs * Second
<1>1. secs * Second \in Nat
  BY RetryAftersAssumption, SecondAssumption
<1> DEFINE nanos == secs * Second
<1>2. parseRetryAfter(secs) = Wrap(nanos)
  BY DEF parseRetryAfter
<1> HIDE DEF nanos
<1>3. nanos \in Nat
  BY <1>1 DEF nanos
<1>4. Wrap(nanos) \in Int /\ (nanos < Half => Wrap(nanos) = nanos)
  BY <1>3, Wrapped, HalfAssumption
<1> QED
  BY <1>2, <1>3, <1>4 DEF nanos

(***************************************************************************)
(* The inductive invariant: the last sleep is one that backoff returned    *)
(* for this attempt and the Retry-After before it.                         *)
(***************************************************************************)
BackoffInv ==
    /\ TypeOK
    /\ attempt > 0 =>
          \E d \in backoff(policy, attempt, parseRetryAfter(asked)) : slept = sleepCtx(d)

\* It holds at first, and a failure gives it a new last sleep.
THEOREM Invariant == Spec => []BackoffInv
<1>1. Init => BackoffInv
  BY MaxRetriesAssumption DEF Init, BackoffInv, TypeOK
<1>2. ASSUME BackoffInv, [Next]_vars PROVE BackoffInv'
  <2>1. CASE UNCHANGED vars
    BY <1>2, <2>1 DEF BackoffInv, TypeOK, vars
  <2>2. ASSUME NEW secs \in RetryAfters, Fail(secs) PROVE BackoffInv'
    <3>1. /\ policy \in Policies /\ policy' = policy
          /\ attempt' = attempt + 1 /\ attempt' \in 1..MaxRetries /\ asked' = secs
      BY <1>2, <2>2, MaxRetriesAssumption DEF BackoffInv, TypeOK, Fail
    <3>2. PICK d \in backoff(policy', attempt', parseRetryAfter(asked')) :
              slept' = sleepCtx(d)
      BY <2>2, <3>1 DEF Fail
    <3>3. parseRetryAfter(asked') \in Int
      BY <3>1, RetryAfterTyped
    <3>4. d \in Int
      BY <3>1, <3>2, <3>3, DelayBounds
    <3>5. slept' \in Nat
      BY <3>2, <3>4 DEF sleepCtx, Larger
    <3> QED
      BY <3>1, <3>2, <3>5 DEF BackoffInv, TypeOK
  <2> QED
    BY <1>2, <2>1, <2>2 DEF Next
<1> QED
  BY <1>1, <1>2, PTL DEF Spec

(***************************************************************************)
(* What follows.                                                           *)
(***************************************************************************)

\* What is known of the last sleep.
LEMMA LastSleep ==
  ASSUME BackoffInv, attempt > 0
  PROVE  /\ slept >= Smaller(parseRetryAfter(asked), policy.max)
         /\ \/ slept <= policy.max
            \/ /\ Nominal(policy, attempt) <= 0
               /\ slept = sleepCtx(parseRetryAfter(asked))
<1>1. /\ policy \in Policies /\ attempt \in 1..MaxRetries /\ policy.max \in Int
      /\ asked \in RetryAfters \union {0}
  BY MaxRetriesAssumption, PolicyTyped, HalfAssumption DEF BackoffInv, TypeOK
<1> DEFINE ra == parseRetryAfter(asked)
<1>2. ra \in Int
  BY <1>1, RetryAfterTyped
<1>3. PICK d \in backoff(policy, attempt, ra) : slept = sleepCtx(d)
  BY <1>1 DEF BackoffInv
<1> HIDE DEF ra
<1>4. /\ d \in Int /\ d >= Smaller(ra, policy.max)
      /\ Nominal(policy, attempt) <= 0 => d = ra
      /\ Nominal(policy, attempt) > 0  => d <= policy.max
  BY <1>1, <1>2, <1>3, DelayBounds
<1>5. slept \in Int /\ slept >= d /\ (d >= 0 => slept = d)
  BY <1>3, <1>4 DEF sleepCtx, Larger
<1>6. slept >= Smaller(ra, policy.max)
  BY <1>1, <1>2, <1>4, <1>5 DEF Smaller
<1>7. CASE Nominal(policy, attempt) <= 0
  BY <1>3, <1>4, <1>6, <1>7 DEF ra
<1>8. CASE Nominal(policy, attempt) > 0
  <2>1. Nominal(policy, attempt) \in Int /\ Nominal(policy, attempt) <= policy.max
    BY <1>1, NominalTyped, HalfAssumption
  <2>2. slept <= policy.max
    BY <1>1, <1>3, <1>4, <1>8, <2>1 DEF sleepCtx, Larger
  <2> QED
    BY <1>6, <2>2 DEF ra
<1>9. Nominal(policy, attempt) \in Int
  BY <1>1, NominalTyped, HalfAssumption
<1> QED
  BY <1>7, <1>8, <1>9

\* Every variable keeps its type; a sleep is never negative.
THEOREM TypeCorrect == Spec => []TypeOK
<1>1. BackoffInv => TypeOK
  BY DEF BackoffInv
<1> QED
  BY <1>1, Invariant, PTL

\* Whatever the policy, however the shift and the Retry-After overflow: rand is
\* never given a bound on which it panics.
THEOREM AlwaysADelay == Spec => []NeverPanics
<1>1. ASSUME BackoffInv PROVE NeverPanics
  <2> SUFFICES ASSUME NEW secs \in RetryAfters, attempt < MaxRetries
               PROVE  backoff(policy, attempt + 1, parseRetryAfter(secs)) # {}
    BY DEF NeverPanics
  <2>1. policy \in Policies /\ attempt + 1 \in 1..MaxRetries
    BY <1>1, MaxRetriesAssumption DEF BackoffInv, TypeOK
  <2>2. parseRetryAfter(secs) \in Int
    BY RetryAfterTyped
  <2> QED
    BY <2>1, <2>2, SomeDelay
<1> QED
  BY <1>1, Invariant, PTL

\* However long the tenant asks for, a sleep is longer than Max only when there is
\* nothing to draw from, and then it is what the tenant asks for.
THEOREM BeyondMaxOnlyWithoutADraw == Spec => []WithinMax
<1>1. BackoffInv => WithinMax
  BY LastSleep DEF WithinMax
<1> QED
  BY <1>1, Invariant, PTL

\* A Retry-After that a Duration can hold is waited for, as far as Max allows.
THEOREM RetryAfterHonoured == Spec => []AskedForIsHonoured
<1>1. ASSUME BackoffInv PROVE AskedForIsHonoured
  <2>1. asked \in RetryAfters \union {0}
    BY <1>1 DEF BackoffInv, TypeOK
  <2> QED
    BY <1>1, <2>1, LastSleep, RetryAfterTyped DEF AskedForIsHonoured
<1> QED
  BY <1>1, Invariant, PTL

\* Below the longest draw and below Max, calls that fail together may part.
THEOREM ApartInTime == Spec => []NotInLockstep
<1>1. ASSUME BackoffInv PROVE NotInLockstep
  <2> SUFFICES ASSUME NEW secs \in RetryAfters, attempt < MaxRetries,
                      Nominal(policy, attempt + 1) > 1,
                      parseRetryAfter(secs) < Nominal(policy, attempt + 1) - 1
                                                + Nominal(policy, attempt + 1) \div 2,
                      parseRetryAfter(secs) < policy.max
               PROVE  \E d, e \in backoff(policy, attempt + 1, parseRetryAfter(secs)) : d # e
    BY DEF NotInLockstep
  <2>1. policy \in Policies /\ attempt + 1 \in 1..MaxRetries
    BY <1>1, MaxRetriesAssumption DEF BackoffInv, TypeOK
  <2>2. parseRetryAfter(secs) \in Int
    BY RetryAfterTyped
  <2> QED
    BY <2>1, <2>2, TwoDelays
<1> QED
  BY <1>1, Invariant, PTL
=============================================================================
