----------------------------- MODULE Lifecycle -----------------------------
(***************************************************************************)
(* What one netskope-mcp process promises to whoever runs it, with no      *)
(* listener, goroutine or request in sight: it comes up or it fails, it    *)
(* winds down once, and the status it exits with can be acted upon.  A     *)
(* clean status after it came up means that it was asked to end, by a      *)
(* signal or by the client at the other end of stdio: the unit restarts    *)
(* on failure only, so a server that dies with a clean status stays dead.  *)
(*                                                                         *)
(* Server implements this; Service restarts processes that behave so.      *)
(***************************************************************************)
VARIABLES
    phase,    \* "starting", "up", "stopping", "gone"
    asked,    \* somebody asked it to end
    status    \* "none" until it is gone, then "clean", "failed" or "killed"

vars == <<phase, asked, status>>

Init ==
    /\ phase  = "starting"
    /\ asked  = FALSE
    /\ status = "none"

ComeUp ==
    /\ phase = "starting"
    /\ phase' = "up"
    /\ UNCHANGED <<asked, status>>

BeAsked ==
    /\ phase # "gone"
    /\ asked' = TRUE
    /\ UNCHANGED <<phase, status>>

\* It stops serving, because it was asked to or because it has to.
WindDown ==
    /\ phase \in {"starting", "up"}
    /\ phase' = "stopping"
    /\ UNCHANGED <<asked, status>>

\* Before it came up it may be done (--version); a signal that no handler is
\* installed for yet kills it.
Exit(s) ==
    /\ phase # "gone"
    /\ phase'  = "gone"
    /\ status' = s
    /\ s = "clean"  => asked \/ phase = "starting"
    /\ s = "killed" => phase = "starting"
    /\ asked' = (asked \/ s = "killed")

Next ==
    \/ ComeUp \/ BeAsked \/ WindDown
    \/ \E s \in {"clean", "failed", "killed"} : Exit(s)

Spec == Init /\ [][Next]_vars
============================================================================
