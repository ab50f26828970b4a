--------------------------- MODULE LimiterProofs ---------------------------
(***************************************************************************)
(* Theorems about Limiter, for any number of callers, any burst, budget    *)
(* and length of the window.                                               *)
(***************************************************************************)
EXTENDS Limiter, TLAPS

\* The helpers stay within the range of their arguments.
LEMMA CountDownRange ==
  ASSUME NEW n \in Nat
  PROVE  CountDown(n) \in Nat /\ CountDown(n) <= n /\ CountDown(n) >= n - 1
BY DEF CountDown, Larger

\* What a response says to wait for is within a window, and not negative.
LEMMA ParsedRange ==
  ASSUME NEW h \in Headers
  PROVE  /\ parseRetryAfter(h) \in 0..Window
         /\ Reset(h) \in 1..Window
         /\ Reset(h) >= parseRetryAfter(h)
<1>1. h.retryAfter \in Absent..Window /\ h.reset \in Absent..Window
  BY DEF Headers
<1>2. parseRetryAfter(h) \in 0..Window
  BY <1>1, WindowAssumption DEF parseRetryAfter, Absent
<1> QED
  BY <1>2, WindowAssumption DEF Reset

(***************************************************************************)
(* Type correctness.                                                       *)
(***************************************************************************)
LEMMA InitTyped == Init => TypeOK
<1> SUFFICES ASSUME Init PROVE TypeOK
  OBVIOUS
<1>1. NoReply \in Headers
  BY BudgetAssumption, WindowAssumption DEF NoReply, Headers, Absent
<1>2. learnt \in BOOLEAN
  BY DEF Init
<1> QED
  BY <1>1, <1>2, BurstAssumption, BudgetAssumption, WindowAssumption
     DEF Init, TypeOK, Phases

LEMMA StepTyped == TypeOK /\ [Next]_vars => TypeOK'
<1> SUFFICES ASSUME TypeOK, [Next]_vars PROVE TypeOK'
  OBVIOUS
<1>0. NoReply \in Headers
  BY BudgetAssumption, WindowAssumption DEF NoReply, Headers, Absent
<1>1. ASSUME NEW c \in Callers, Enter(c) PROVE TypeOK'
  BY <1>1 DEF Enter, TypeOK, Phases
<1>2. ASSUME NEW c \in Callers, Reserve(c) PROVE TypeOK'
  <2>1. Larger(1 - tokens, 0) \in Nat
    BY DEF Larger, TypeOK
  <2>2. tokens' \in Int /\ tokens' <= Burst
    BY <1>2, BurstAssumption DEF Reserve, TypeOK
  <2> QED
    BY <1>2, <2>1, <2>2 DEF Reserve, TypeOK, Phases
<1>3. ASSUME NEW c \in Callers, Send(c) PROVE TypeOK'
  BY <1>3 DEF Send, TypeOK, Phases
<1>4. ASSUME NEW c \in Callers, Receive(c) PROVE TypeOK'
  <2>1. hold' \in 0..Window
    BY <1>4, ParsedRange, WindowAssumption DEF Receive, observe, Larger, TypeOK
  <2>2. learnt' \in BOOLEAN
    BY <1>4 DEF Receive
  <2> QED
    BY <1>0, <1>4, <2>1, <2>2 DEF Receive, TypeOK, Phases
<1>5. ASSUME NEW c \in Callers, Lose(c) PROVE TypeOK'
  BY <1>0, <1>5 DEF Lose, TypeOK, Phases
<1>6. ASSUME NEW c \in Callers, NEW remaining \in Absent..Budget,
             NEW reset \in Absent..Window, NEW retryAfter \in Absent..Window,
             Answer(c, remaining, reset, retryAfter)
      PROVE  TypeOK'
  <2>1. CountDown(left) \in 0..(Budget - 1)
    BY BudgetAssumption DEF CountDown, Larger, TypeOK
  <2>2. remaining \in Absent..(Budget - 1)
    BY <1>6, <2>1, BudgetAssumption DEF Answer, Absent
  <2>3. [remaining |-> remaining, reset |-> reset, retryAfter |-> retryAfter,
         fresh |-> TRUE] \in Headers
    BY <2>2 DEF Headers
  <2>4. left' \in 0..Budget
    BY <1>6, <2>1, BudgetAssumption DEF Answer
  <2> QED
    BY <1>6, <2>3, <2>4 DEF Answer, TypeOK, Phases
<1>7. CASE OthersSpend
  BY <1>7, BudgetAssumption DEF OthersSpend, TypeOK
<1>8. CASE Tick
  <2>1. nap' \in [Callers -> Nat]
    BY <1>8, CountDownRange DEF Tick, TypeOK
  <2>2. hold' \in 0..Window
    BY <1>8, WindowAssumption DEF Tick, TypeOK, CountDown, Larger
  <2>3. tokens' \in Int /\ tokens' <= Burst
    BY <1>8, BurstAssumption DEF Tick, TypeOK, Smaller
  <2>4. left' \in 0..Budget /\ windowLeft' \in 1..Window
    BY <1>8, BudgetAssumption, WindowAssumption DEF Tick, TypeOK
  <2>5. reply' \in [Callers -> Headers]
    <3>1. ASSUME NEW h \in Headers PROVE [h EXCEPT !.fresh = FALSE] \in Headers
      BY <3>1 DEF Headers
    <3>2. CASE windowLeft = 1
      BY <1>8, <3>1, <3>2 DEF Tick, TypeOK
    <3>3. CASE windowLeft # 1
      BY <1>8, <3>3 DEF Tick, TypeOK
    <3> QED
      BY <3>2, <3>3
  <2>6. learnt' \in BOOLEAN
    BY <1>8 DEF Tick, TypeOK
  <2>7. late' \in [Callers -> Nat] /\ UNCHANGED phase
    BY <1>8 DEF Tick, TypeOK
  <2> QED
    BY <2>1, <2>2, <2>3, <2>4, <2>5, <2>6, <2>7 DEF TypeOK
<1>9. CASE UNCHANGED vars
  BY <1>9 DEF vars, TypeOK
<1> QED
  BY <1>1, <1>2, <1>3, <1>4, <1>5, <1>6, <1>7, <1>8, <1>9
     DEF Next, AnswerSome

\* The limiter keeps its types: a hold is never negative nor longer than the
\* window a tenant can name, and the bucket never holds more than its burst.
THEOREM TypeCorrect == Spec => []TypeOK
BY InitTyped, StepTyped, PTL DEF Spec

(***************************************************************************)
(* The invariant: what a hold covers, and what a caller may still send.    *)
(***************************************************************************)
LEMMA InitInvariant == Init => LimiterInv
<1> SUFFICES ASSUME Init PROVE LimiterInv
  OBVIOUS
<1>1. FreshIsTrue
  BY DEF Init, FreshIsTrue, NoReply
<1>2. HoldCoversWindow
  BY DEF Init, HoldCoversWindow
<1>3. LateCallerIsHeld /\ AtMostOneLateRequest
  BY DEF Init, LateCallerIsHeld, AtMostOneLateRequest
<1> QED
  BY <1>1, <1>2, <1>3 DEF LimiterInv

\* A caller that enters reads the hold, which covers the window whenever
\* there is a late request to be held for; one that reserves had slept it
\* off, so it has sent no late request yet.
LEMMA WaitSteps ==
  ASSUME TypeOK, LimiterInv, NEW c \in Callers,
         Enter(c) \/ Reserve(c) \/ Send(c)
  PROVE  LimiterInv'
<1>1. UNCHANGED <<hold, windowLeft, reply, learnt>>
  BY DEF Enter, Reserve, Send
<1>2. FreshIsTrue' /\ HoldCoversWindow'
  BY <1>1 DEF LimiterInv, FreshIsTrue, HoldCoversWindow
<1>3. CASE Enter(c)
  BY <1>1, <1>2, <1>3
     DEF Enter, LimiterInv, HoldCoversWindow, LateCallerIsHeld,
         AtMostOneLateRequest, TypeOK
<1>4. CASE Reserve(c)
  <2>1. late[c] = 0
    BY <1>4 DEF Reserve, LimiterInv, LateCallerIsHeld, TypeOK
  <2> QED
    BY <1>1, <1>2, <1>4, <2>1
       DEF Reserve, LimiterInv, LateCallerIsHeld, AtMostOneLateRequest, TypeOK
<1>5. CASE Send(c)
  <2>1. late[c] = 0
    BY <1>5 DEF Send, LimiterInv, LateCallerIsHeld, TypeOK
  <2>2. \A d \in Callers : late'[d] <= 1
    BY <1>5, <2>1 DEF Send, LimiterInv, AtMostOneLateRequest, TypeOK
  <2>3. \A d \in Callers : late'[d] > 0 => learnt
    BY <1>5, <2>1 DEF Send, LimiterInv, LateCallerIsHeld, TypeOK
  <2>4. \A d \in Callers : d # c =>
           phase'[d] = phase[d] /\ nap'[d] = nap[d] /\ late'[d] = late[d]
    BY <1>5 DEF Send, TypeOK
  <2>5. phase'[c] = "awaiting"
    BY <1>5 DEF Send, TypeOK
  <2>6. LateCallerIsHeld'
    BY <1>1, <2>3, <2>4, <2>5 DEF LimiterInv, LateCallerIsHeld
  <2> QED
    BY <1>2, <2>2, <2>6 DEF LimiterInv, AtMostOneLateRequest
<1> QED
  BY <1>3, <1>4, <1>5

\* A response of the open window that says the budget is spent makes the hold
\* cover the window; no other response makes it shorter.
LEMMA ReceiveStep ==
  ASSUME TypeOK, LimiterInv, NEW c \in Callers, Receive(c)
  PROVE  LimiterInv'
<1> DEFINE h == reply[c]
<1>1. h \in Headers
  BY DEF TypeOK
<1>2. UNCHANGED <<nap, windowLeft, late>>
  BY DEF Receive
<1>3. FreshIsTrue'
  BY <1>2 DEF Receive, LimiterInv, FreshIsTrue, NoReply, TypeOK
<1>4. hold' >= hold
  BY <1>1, ParsedRange, WindowAssumption DEF Receive, observe, Larger, TypeOK
<1>5. HoldCoversWindow'
  <2>1. CASE learnt
    <3>1. hold' \in Int
      BY <1>1, ParsedRange, WindowAssumption DEF Receive, observe, Larger, TypeOK
    <3>2. hold >= windowLeft /\ windowLeft' = windowLeft
      BY <1>2, <2>1 DEF LimiterInv, HoldCoversWindow
    <3>3. hold' >= windowLeft'
      BY <1>4, <3>1, <3>2, WindowAssumption DEF TypeOK
    <3> QED
      BY <3>3 DEF HoldCoversWindow
  <2>2. CASE h.fresh /\ h.remaining = 0 /\ parseRetryAfter(h) > 0
    <3>1. parseRetryAfter(h) >= windowLeft
      BY <1>1, <2>2
         DEF LimiterInv, FreshIsTrue, parseRetryAfter, Headers, TypeOK
    <3>2. hold' >= Reset(h)
      BY <1>1, <2>2, ParsedRange DEF Receive, observe, Larger, TypeOK
    <3>3. Reset(h) >= parseRetryAfter(h) /\ parseRetryAfter(h) \in Int /\ Reset(h) \in Int
      BY <1>1, ParsedRange, WindowAssumption
    <3>4. hold' \in Int
      BY <3>3 DEF Receive, observe, Larger, TypeOK
    <3>5. windowLeft' \in Int /\ windowLeft' = windowLeft
      BY <1>2, WindowAssumption DEF TypeOK
    <3>6. hold' >= windowLeft'
      BY <3>1, <3>2, <3>3, <3>4, <3>5
    <3> QED
      BY <3>6 DEF HoldCoversWindow
  <2>3. CASE ~learnt'
    BY <2>3 DEF HoldCoversWindow
  <2> QED
    BY <2>1, <2>2, <2>3 DEF Receive
<1>6. LateCallerIsHeld'
  <2>1. learnt => learnt'
    BY DEF Receive
  <2>2. \A d \in Callers : phase'[d] = phase[d] \/ phase'[d] = "idle"
    BY DEF Receive, TypeOK
  <2> QED
    BY <1>2, <2>1, <2>2 DEF LimiterInv, LateCallerIsHeld
<1>7. AtMostOneLateRequest'
  BY <1>2 DEF LimiterInv, AtMostOneLateRequest
<1> QED
  BY <1>3, <1>5, <1>6, <1>7 DEF LimiterInv

\* Losing and answering touch neither the hold nor what was sent.
LEMMA AnswerSteps ==
  ASSUME TypeOK, LimiterInv, NEW c \in Callers, Lose(c) \/ AnswerSome(c)
  PROVE  LimiterInv'
<1>1. UNCHANGED <<nap, hold, windowLeft, learnt, late>>
  BY DEF Lose, AnswerSome, Answer
<1>2. FreshIsTrue'
  <2>1. CASE Lose(c)
    BY <1>1, <2>1 DEF Lose, LimiterInv, FreshIsTrue, NoReply, TypeOK
  <2>2. ASSUME NEW remaining \in Absent..Budget, NEW reset \in Absent..Window,
               NEW retryAfter \in Absent..Window,
               Answer(c, remaining, reset, retryAfter)
        PROVE  FreshIsTrue'
    <3>1. reset \in {Absent, windowLeft} /\ retryAfter \in {Absent, windowLeft}
      BY <2>2 DEF Answer
    <3> QED
      BY <1>1, <2>2, <3>1 DEF Answer, LimiterInv, FreshIsTrue, TypeOK
  <2> QED
    BY <2>1, <2>2 DEF AnswerSome
<1>3. \A d \in Callers :
         phase'[d] = phase[d] \/ phase'[d] \in {"idle", "answered"}
  BY DEF Lose, AnswerSome, Answer, TypeOK
<1> QED
  BY <1>1, <1>2, <1>3
     DEF LimiterInv, HoldCoversWindow, LateCallerIsHeld, AtMostOneLateRequest

\* Every clock moves at once, so what covers the window goes on covering it;
\* and with a new window everything is forgotten.
LEMMA TickStep == ASSUME TypeOK, LimiterInv, Tick PROVE LimiterInv'
<1>1. CASE windowLeft = 1
  BY <1>1 DEF Tick, LimiterInv, FreshIsTrue, HoldCoversWindow, LateCallerIsHeld,
              AtMostOneLateRequest, TypeOK, Headers
<1>2. CASE windowLeft # 1
  <2>1. windowLeft' = windowLeft - 1 /\ UNCHANGED <<reply, learnt, late, phase>>
    BY <1>2 DEF Tick
  <2>2. FreshIsTrue'
    BY <2>1 DEF LimiterInv, FreshIsTrue, TypeOK, Headers, Absent
  <2>3. HoldCoversWindow'
    BY <2>1 DEF Tick, LimiterInv, HoldCoversWindow, CountDown, Larger, TypeOK
  <2>4. \A d \in Callers : nap'[d] >= nap[d] - 1
    BY CountDownRange DEF Tick, TypeOK
  <2>5. LateCallerIsHeld'
    BY <2>1, <2>4, StepTyped DEF Next, LimiterInv, LateCallerIsHeld, TypeOK
  <2> QED
    BY <2>1, <2>2, <2>3, <2>5 DEF LimiterInv, AtMostOneLateRequest
<1> QED
  BY <1>1, <1>2

LEMMA StepInvariant == TypeOK /\ LimiterInv /\ [Next]_vars => LimiterInv'
<1> SUFFICES ASSUME TypeOK, LimiterInv, [Next]_vars PROVE LimiterInv'
  OBVIOUS
<1>1. CASE OthersSpend \/ UNCHANGED vars
  BY <1>1 DEF OthersSpend, vars, LimiterInv, FreshIsTrue, HoldCoversWindow,
              LateCallerIsHeld, AtMostOneLateRequest
<1> QED
  BY <1>1, WaitSteps, ReceiveStep, AnswerSteps, TickStep DEF Next

\* Every reachable state satisfies the strengthening.
THEOREM InvariantHolds == Spec => []LimiterInv
BY InitTyped, StepTyped, InitInvariant, StepInvariant, PTL DEF Spec

\* Once the limiter has learnt that the budget of a window is spent, it holds
\* until the window is over.
THEOREM HoldLastsTheWindow == Spec => []HoldCoversWindow
<1>1. LimiterInv => HoldCoversWindow
  BY DEF LimiterInv
<1> QED
  BY <1>1, InvariantHolds, PTL

\* After that, each caller sends at most one more request in the window.
THEOREM OneLateRequestEach == Spec => []AtMostOneLateRequest
<1>1. LimiterInv => AtMostOneLateRequest
  BY DEF LimiterInv
<1> QED
  BY <1>1, InvariantHolds, PTL
============================================================================
