------------------------------ MODULE Limiter ------------------------------
(***************************************************************************)
(* The limiter every call of a client passes (internal/netskope/retry.go): *)
(* a token bucket, and a hold that lasts until the tenant's rate window    *)
(* resets.  wait and observe run concurrently: observe extends the hold    *)
(* while callers are somewhere between reading it and sending.             *)
(*                                                                         *)
(* Time is discrete and every clock counts down: hold is limiter.until     *)
(* minus now, nap what is left of a caller's sleep, windowLeft what is     *)
(* left of the tenant's window.  Tick moves all of them.  One tick is the  *)
(* second in which the tenant counts, and the bucket refills by one token  *)
(* a tick.                                                                 *)
(***************************************************************************)
EXTENDS Integers

CONSTANTS
    Callers,     \* goroutines sharing the client, each calling it repeatedly
    Burst,       \* tokens the bucket holds
    Budget,      \* requests the tenant allows in a window
    Window       \* ticks a window lasts

ASSUME BurstAssumption  == Burst  \in Nat \ {0}
ASSUME BudgetAssumption == Budget \in Nat \ {0}
ASSUME WindowAssumption == Window \in Nat \ {0}

VARIABLES
    phase,       \* where each caller is
    nap,         \* ticks each caller still sleeps
    hold,        \* ticks until limiter.until, 0 when it has passed
    tokens,      \* tokens in the bucket, negative when some are promised
    left,        \* what the tenant still allows in this window
    windowLeft,  \* ticks until the tenant's window resets
    reply,       \* the headers on their way to each caller
    learnt,      \* a response of this window said: none left, reset then
    late         \* requests each caller sent in this window since then

vars == <<phase, nap, hold, tokens, left, windowLeft, reply, learnt, late>>

(***************************************************************************)
(* The RateLimit-* and Retry-After headers of a response.  fresh is not a  *)
(* header: it says the window the response speaks of is still open.        *)
(***************************************************************************)
Absent  == -1
Headers == [remaining : Absent..(Budget - 1), reset : Absent..Window,
            retryAfter : Absent..Window, fresh : BOOLEAN]
NoReply == [remaining |-> Absent, reset |-> Absent, retryAfter |-> Absent,
            fresh |-> FALSE]

\*   idle      not in a call      asleep    in wait, for the time it read
\*   bucket    in rate.Limiter    awaiting  its request was sent
\*   answered  the response is on its way
Phases == {"idle", "asleep", "bucket", "awaiting", "answered"}

TypeOK ==
    /\ phase      \in [Callers -> Phases]
    /\ nap        \in [Callers -> Nat]
    /\ hold       \in 0..Window
    /\ tokens     \in Int /\ tokens <= Burst
    /\ left       \in 0..Budget
    /\ windowLeft \in 1..Window
    /\ reply      \in [Callers -> Headers]
    /\ learnt     \in BOOLEAN
    /\ late       \in [Callers -> Nat]

Init ==
    /\ phase      = [c \in Callers |-> "idle"]
    /\ nap        = [c \in Callers |-> 0]
    /\ hold       = 0
    /\ tokens     = Burst
    /\ left       = Budget
    /\ windowLeft = Window
    /\ reply      = [c \in Callers |-> NoReply]
    /\ learnt     = FALSE
    /\ late       = [c \in Callers |-> 0]

Larger(a, b)  == IF a > b THEN a ELSE b
Smaller(a, b) == IF a < b THEN a ELSE b
CountDown(n)  == Larger(n - 1, 0)

----------------------------------------------------------------------------
(***************************************************************************)
(* limiter.wait                                                            *)
(***************************************************************************)

\* Mutant: the hold is ignored by a caller that finds tokens in the bucket.
EnterOnTokens(c) ==
    /\ phase[c] = "idle"
    /\ phase' = [phase EXCEPT ![c] = "asleep"]
    /\ nap'   = [nap EXCEPT ![c] = IF tokens > 0 THEN 0 ELSE hold]
    /\ UNCHANGED <<hold, tokens, left, windowLeft, reply, learnt, late>>

\* until is read under the lock, once, and slept for.
Enter(c) ==
    /\ phase[c] = "idle"
    /\ phase' = [phase EXCEPT ![c] = "asleep"]
    /\ nap'   = [nap EXCEPT ![c] = hold]
    /\ UNCHANGED <<hold, tokens, left, windowLeft, reply, learnt, late>>

\* Mutant: a caller looks at the hold again before it takes a token.
ReserveUnlessHeld(c) ==
    /\ phase[c] = "asleep"
    /\ nap[c] = 0
    /\ hold = 0
    /\ phase'  = [phase EXCEPT ![c] = "bucket"]
    /\ tokens' = tokens - 1
    /\ nap'    = [nap EXCEPT ![c] = Larger(1 - tokens, 0)]
    /\ UNCHANGED <<hold, left, windowLeft, reply, learnt, late>>

\* rate.Limiter.Wait promises the next token and sleeps until it is there.
Reserve(c) ==
    /\ phase[c] = "asleep"
    /\ nap[c] = 0
    /\ phase'  = [phase EXCEPT ![c] = "bucket"]
    /\ tokens' = tokens - 1
    /\ nap'    = [nap EXCEPT ![c] = Larger(1 - tokens, 0)]
    /\ UNCHANGED <<hold, left, windowLeft, reply, learnt, late>>

\* wait returns and the request is sent.
Send(c) ==
    /\ phase[c] = "bucket"
    /\ nap[c] = 0
    /\ phase' = [phase EXCEPT ![c] = "awaiting"]
    /\ late'  = [late EXCEPT ![c] = IF learnt THEN @ + 1 ELSE @]
    /\ UNCHANGED <<nap, hold, tokens, left, windowLeft, reply, learnt>>

----------------------------------------------------------------------------
(***************************************************************************)
(* limiter.observe                                                         *)
(***************************************************************************)

\* Retry-After wins over RateLimit-Reset; 0 when there is neither.
parseRetryAfter(h) ==
    IF h.retryAfter # Absent THEN h.retryAfter
    ELSE IF h.reset # Absent THEN h.reset ELSE 0

\* An empty budget without a reset holds for a second.
Reset(h) == IF parseRetryAfter(h) > 0 THEN parseRetryAfter(h) ELSE 1

\* Mutant: the last response decides, whatever an earlier one had said.
ObserveLast(h) ==
    hold' = IF h.remaining = 0 THEN Reset(h) ELSE hold

\* Only a hold that lasts longer replaces the one in force.
observe(h) ==
    hold' = IF h.remaining = 0 THEN Larger(hold, Reset(h)) ELSE hold

Receive(c) ==
    /\ phase[c] = "answered"
    /\ observe(reply[c])
    /\ learnt' = (learnt \/ (/\ reply[c].fresh
                             /\ reply[c].remaining = 0
                             /\ parseRetryAfter(reply[c]) > 0))
    /\ phase'  = [phase EXCEPT ![c] = "idle"]
    /\ reply'  = [reply EXCEPT ![c] = NoReply]
    /\ UNCHANGED <<nap, tokens, left, windowLeft, late>>

\* A transport error or a timeout: there is nothing to observe.
Lose(c) ==
    /\ phase[c] \in {"awaiting", "answered"}
    /\ phase' = [phase EXCEPT ![c] = "idle"]
    /\ reply' = [reply EXCEPT ![c] = NoReply]
    /\ UNCHANGED <<nap, hold, tokens, left, windowLeft, learnt, late>>

----------------------------------------------------------------------------
(***************************************************************************)
(* The tenant, and time.                                                   *)
(***************************************************************************)

\* A request is served or, with no budget left, answered with a 429.  The
\* tenant may leave any header out; those it sends are true when sent.
Answer(c, remaining, reset, retryAfter) ==
    /\ phase[c] = "awaiting"
    /\ remaining  \in {Absent, CountDown(left)}
    /\ reset      \in {Absent, windowLeft}
    /\ retryAfter \in {Absent} \union (IF left = 0 THEN {windowLeft} ELSE {})
    /\ left'  = CountDown(left)
    /\ phase' = [phase EXCEPT ![c] = "answered"]
    /\ reply' = [reply EXCEPT ![c] =
                    [remaining |-> remaining, reset |-> reset,
                     retryAfter |-> retryAfter, fresh |-> TRUE]]
    /\ UNCHANGED <<nap, hold, tokens, windowLeft, learnt, late>>

\* The budget is also spent by other clients of the tenant, and by requests
\* whose callers gave up on them.
OthersSpend ==
    /\ left > 0
    /\ left' = left - 1
    /\ UNCHANGED <<phase, nap, hold, tokens, windowLeft, reply, learnt, late>>

Tick ==
    /\ nap'    = [c \in Callers |-> CountDown(nap[c])]
    /\ hold'   = CountDown(hold)
    /\ tokens' = Smaller(tokens + 1, Burst)
    /\ IF windowLeft = 1
       THEN /\ windowLeft' = Window
            /\ left'   = Budget
            /\ reply'  = [c \in Callers |-> [reply[c] EXCEPT !.fresh = FALSE]]
            /\ learnt' = FALSE
            /\ late'   = [c \in Callers |-> 0]
       ELSE /\ windowLeft' = windowLeft - 1
            /\ UNCHANGED <<left, reply, learnt, late>>
    /\ UNCHANGED phase

AnswerSome(c) ==
    \E remaining \in Absent..Budget, reset \in Absent..Window,
       retryAfter \in Absent..Window : Answer(c, remaining, reset, retryAfter)

Next ==
    \/ \E c \in Callers :
          \/ Enter(c)
          \/ Reserve(c)
          \/ Send(c)
          \/ AnswerSome(c)
          \/ Receive(c)
          \/ Lose(c)
    \/ OthersSpend
    \/ Tick

Spec == Init /\ [][Next]_vars

----------------------------------------------------------------------------
(***************************************************************************)
(* Properties.                                                             *)
(***************************************************************************)

\* "At zero we hold every caller until the window resets" (retry.go), as far
\* as observe is concerned: once a response said that the budget of this
\* window is spent, the hold lasts until the window is over, also when older
\* or slower responses are observed after it.
HoldCoversWindow == learnt => hold >= windowLeft

\* "... rather than spending the next N requests collecting 429s": once the
\* limiter has learnt that the budget is spent, a caller sends at most one
\* more request in that window, the one it was already past the check with.
AtMostOneLateRequest == \A c \in Callers : late[c] <= 1

(***************************************************************************)
(* What makes the two inductive.  A response of the open window names a    *)
(* reset that is not before its end, because the window only gets shorter  *)
(* while the response travels.  A caller that has sent its late request is *)
(* still at it, or not in a call, or asleep until the window ends.         *)
(***************************************************************************)
FreshIsTrue ==
    \A c \in Callers :
        reply[c].fresh =>
            /\ reply[c].reset      # Absent => reply[c].reset >= windowLeft
            /\ reply[c].retryAfter # Absent => reply[c].retryAfter >= windowLeft

LateCallerIsHeld ==
    \A c \in Callers :
        late[c] > 0 =>
            /\ learnt
            /\ \/ phase[c] \in {"idle", "awaiting", "answered"}
               \/ phase[c] = "asleep" /\ nap[c] >= windowLeft

LimiterInv ==
    FreshIsTrue /\ HoldCoversWindow /\ LateCallerIsHeld /\ AtMostOneLateRequest

(***************************************************************************)
(* The scheduler runs a goroutine whose timer fired, and time goes on.     *)
(* Nothing is assumed of the tenant, the network or the other callers.     *)
(***************************************************************************)
Fairness ==
    /\ WF_vars(Tick)
    /\ \A c \in Callers : WF_vars(Reserve(c)) /\ WF_vars(Send(c))

FairSpec == Spec /\ Fairness

\* However often the other callers' responses extend the hold, a caller in
\* wait gets to send.
NobodyStarves ==
    \A c \in Callers : phase[c] = "asleep" ~> phase[c] = "awaiting"
=============================================================================
