---------------------------- MODULE CallContract ----------------------------
(***************************************************************************)
(* What internal/netskope promises a tool about one call, with no retries, *)
(* messages, limiter or clock in sight: the call may take effect on the    *)
(* tenant, and it returns a verdict that can be relied upon.  A call of a  *)
(* verb that must not be repeated takes effect at most once, and never     *)
(* after a verdict that says it did not or that it already has.            *)
(*                                                                         *)
(* Send implements this with one possible effect for each attempt.         *)
(***************************************************************************)
CONSTANTS
    Calls,       \* the calls
    Verbs,       \* the verbs they use
    OnceVerbs,   \* the verbs of which one call must not take effect twice
    Effects      \* names for the effects of one call

VARIABLES
    verb,        \* the verb of each call, "none" before it is made
    effects,     \* the effects each call has had on the tenant
    verdict      \* what each call was told, "none" before it returns

vars == <<verb, effects, verdict>>

\* The verdicts that claim the call did not take effect.
Denials  == {"refused", "cancelled"}
Verdicts == Denials \union {"ok", "faulted", "garbled", "lost"}

Init ==
    /\ verb    = [c \in Calls |-> "none"]
    /\ effects = [c \in Calls |-> {}]
    /\ verdict = [c \in Calls |-> "none"]

Begin(c, v) ==
    /\ verb[c] = "none"
    /\ verb' = [verb EXCEPT ![c] = v]
    /\ UNCHANGED <<effects, verdict>>

\* The call takes effect, perhaps after it returned.
TakeEffect(c, e) ==
    /\ verb[c] # "none"
    /\ verb[c] \in OnceVerbs =>
          effects[c] = {} /\ verdict[c] \in {"none", "lost"}
    /\ effects' = [effects EXCEPT ![c] = @ \union {e}]
    /\ UNCHANGED <<verb, verdict>>

Conclude(c, v) ==
    /\ verb[c] # "none"
    /\ verdict[c] = "none"
    /\ v \in {"ok", "garbled"} => effects[c] # {}
    /\ v \in Denials /\ verb[c] \in OnceVerbs => effects[c] = {}
    /\ verdict' = [verdict EXCEPT ![c] = v]
    /\ UNCHANGED <<verb, effects>>

Next ==
    \E c \in Calls :
        \/ \E v \in Verbs : Begin(c, v)
        \/ \E e \in Effects : TakeEffect(c, e)
        \/ \E v \in Verdicts : Conclude(c, v)

Spec == Init /\ [][Next]_vars
=============================================================================
