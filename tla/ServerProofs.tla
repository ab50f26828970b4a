---------------------------- MODULE ServerProofs ----------------------------
(***************************************************************************)
(* Theorems about Server, for every set of requests and verbs, either      *)
(* transport or both, and every grace.                                     *)
(***************************************************************************)
EXTENDS Server, TLAPS

(***************************************************************************)
(* Type correctness.                                                       *)
(***************************************************************************)

\* The mux: the MCP handler is behind the gate on both of its routes, and on no
\* other; nothing else is refused.
LEMMA HandlerRight ==
  ASSUME TypeOK, NEW rt \in Routes, NEW good \in BOOLEAN
  PROVE  /\ Handler[rt][good] \in {"handling", "refused", "healthy", "notfound"}
         /\ Handler[rt][good] = "handling" =>
               rt \in {"path", "below"} /\ (gate => good)
         /\ Handler[rt][good] = "refused" => gate /\ ~good
         /\ rt = "health" => Handler[rt][good] = "healthy"
<1> DEFINE h == IF gate THEN RequireBearerToken(StreamableHTTP) ELSE StreamableHTTP
<1>1. h[good] = IF gate /\ ~good THEN "refused" ELSE "handling"
  BY DEF RequireBearerToken, StreamableHTTP, TypeOK
<1>2. Handler[rt] = IF rt \in {"path", "below"} THEN h
                    ELSE IF rt = "health" THEN Healthz ELSE NotFound
  BY DEF Handler, Routes
<1>3. Healthz[good] = "healthy" /\ NotFound[good] = "notfound"
  BY DEF Healthz, NotFound
<1> HIDE DEF h
<1> QED
  BY <1>1, <1>2, <1>3

\* The first state has the right types.
LEMMA InitTyped == Init => TypeOK
<1>1. Init => gate \in BOOLEAN /\ eof \in BOOLEAN /\ down \in BOOLEAN
  BY DEF Init
<1>2. Init => grace \in 0..Grace
  BY GraceAssumption DEF Init
<1> QED
  BY <1>1, <1>2 DEF Init, TypeOK, Client!Init

\* The end of the process keeps the types.
LEMMA ExitTyped ==
  ASSUME TypeOK, NEW s \in {"clean", "failed", "killed"}, Exit(s)
  PROVE  TypeOK'
<1>1. gate' \in BOOLEAN /\ eof' \in BOOLEAN /\ down' \in BOOLEAN
  BY DEF TypeOK, Exit
<1>2. stage' \in [Requests -> {"away"} \union Open \union Ended]
  BY DEF TypeOK, Exit, Ended
<1>3. UNCHANGED <<mode, ctx, listener, errc, grace, route, kind, bearer, verb>>
  BY DEF Exit, calls
<1> QED
  BY <1>1, <1>2, <1>3 DEF TypeOK, Exit

\* Every step keeps the types; Tick stops at an empty grace.
LEMMA StepTyped == TypeOK /\ [Next]_vars => TypeOK'
<1> SUFFICES ASSUME TypeOK, [Next]_vars PROVE TypeOK'
  OBVIOUS
<1> USE DEF process, requests, calls
<1>1. CASE Main
  <2>1. ASSUME NEW s \in {"failed", "clean"}, SetupEnds(s) \/ StdioEnds(s)
        PROVE  TypeOK'
    BY <2>1, ExitTyped DEF SetupEnds, StdioEnds
  <2>2. CASE Serve
    BY <2>2 DEF Serve, TypeOK
  <2>3. CASE ListenerReported \/ GraceOver \/ Collect
    BY <2>3, ExitTyped DEF ListenerReported, GraceOver, Collect, Outcome
  <2>4. CASE StartShutdown
    BY <2>4 DEF StartShutdown, TypeOK
  <2>5. CASE Drained
    BY <2>5 DEF Drained, TypeOK
  <2>6. CASE Tick
    <3>1. grace' \in 0..Grace
      BY <2>6, GraceAssumption DEF Tick, TypeOK
    <3> QED
      BY <2>6, <3>1 DEF Tick, TypeOK
  <2> QED
    BY <1>1, <2>1, <2>2, <2>3, <2>4, <2>5, <2>6 DEF Main
<1>2. CASE Listener
  <2>1. CASE ListenerStarts
    BY <2>1 DEF ListenerStarts, Report, TypeOK
  <2>2. ASSUME NEW ok \in BOOLEAN, Binds(ok) PROVE TypeOK'
    BY <2>2 DEF Binds, Report, TypeOK
  <2>3. CASE AcceptFails
    BY <2>3 DEF AcceptFails, Report, TypeOK
  <2> QED
    BY <1>2, <2>1, <2>2, <2>3 DEF Listener
<1>3. CASE Signal
  BY <1>3, ExitTyped DEF Signal, TypeOK
<1>4. CASE HangUp
  <2>1. eof' \in BOOLEAN
    BY <1>4 DEF HangUp
  <2> QED
    BY <1>4, <2>1 DEF HangUp, TypeOK
<1>5. ASSUME NEW r \in Requests, Request(r) PROVE TypeOK'
  <2> USE DEF Move, Open, Ended, Kinds
  <2>1. CASE Connect(r) \/ Leave(r) \/ GoUnheard(r) \/ GiveUp(r) \/ Respond(r)
    BY <2>1 DEF Connect, Leave, GoUnheard, GiveUp, Respond, TypeOK
  <2>2. ASSUME NEW rt \in Routes, NEW good \in BOOLEAN, Receive(r, rt, good)
        PROVE  TypeOK'
    <3>1. bearer' \in [Requests -> BOOLEAN]
      BY <2>2 DEF Receive, TypeOK
    <3>2. stage' \in [Requests -> {"away"} \union Open \union Ended]
      BY <2>2, HandlerRight DEF Receive, TypeOK
    <3>3. route' \in [Requests -> Routes \union {"none"}]
      BY <2>2 DEF Receive, TypeOK
    <3>4. kind' \in [Requests -> Kinds \union {"none"}]
      BY <2>2 DEF Receive, TypeOK
    <3> QED
      BY <2>2, <3>1, <3>2, <3>3, <3>4 DEF Receive, TypeOK
  <2>3. CASE ReceiveStdio(r)
    BY <2>3 DEF ReceiveStdio, TypeOK
  <2>4. ASSUME NEW v \in Verbs, CallTenant(r, v) PROVE TypeOK'
    BY <2>4 DEF CallTenant, Client!Begin, TypeOK
  <2>5. CASE CallGoesOn(r)
    BY <2>5 DEF CallGoesOn, Client!TakeEffect, Client!Conclude, TypeOK
  <2> QED
    BY <1>5, <2>1, <2>2, <2>3, <2>4, <2>5 DEF Request
<1>6. CASE UNCHANGED vars
  BY <1>6 DEF vars, TypeOK
<1> QED
  BY <1>1, <1>2, <1>3, <1>4, <1>5, <1>6 DEF Next

\* Every variable of the process keeps its type; in particular the grace of a
\* shutdown is never counted below zero.
THEOREM TypeCorrect == Spec => []TypeOK
BY InitTyped, StepTyped, PTL DEF Spec

(***************************************************************************)
(* The inductive invariant: what the errc of the goroutine, the flag of    *)
(* Shutdown and the position of main tell of each other and of requests.   *)
(***************************************************************************)

\* Nothing has begun before the transport is chosen.
Untouched ==
    main = "setup" =>
        /\ ctx = "live" /\ ~eof
        /\ listener = "none"
        /\ \A r \in Requests : stage[r] = "away"

\* main is past its select exactly when it called Shutdown, for a signal; the
\* goroutine reports an orderly end only after that.
Orderly ==
    /\ main \in {"setup", "serving"} => ~down
    /\ main \in {"draining", "collecting"} => down /\ mode = "http"
    /\ down => ctx = "done"
    /\ errc = "nil" => down

\* Only the end of the process cuts connections, and main waits for the
\* goroutine with none left.
Spared ==
    /\ main # "exited" =>
          status = "none" /\ \A r \in Requests : stage[r] # "cut"
    /\ main = "collecting" => Active = {}
    /\ CleanExitCutsNobody

\* A request has a tool call, and a route, only once its header was read.
LetIn ==
    \A r \in Requests :
        /\ stage[r] \in {"away", "connected"} => verb[r] = "none"
        /\ mode = "http" /\ stage[r] \in {"away", "connected"} => route[r] = "none"

ServerInv == Untouched /\ Orderly /\ Spared /\ LetIn /\ GateIsExact

\* In the first state nothing was asked for.
LEMMA InitInvariant == Init => ServerInv
BY DEF Init, ServerInv, Untouched, Orderly, Spared, LetIn, GateIsExact,
       CleanExitCutsNobody, Client!Init

\* main may leave, with a status that is clean only if nobody is cut by it.
LEMMA ExitKeeps ==
  ASSUME TypeOK, ServerInv, NEW s \in {"clean", "failed", "killed"}, Exit(s),
         main # "exited",
         mode = "http" /\ s = "clean" => Active = {}
  PROVE  ServerInv'
<1> USE DEF Exit, calls
<1>1. Untouched' /\ Orderly'
  BY DEF ServerInv, Untouched, Orderly
<1>2. Spared'
  BY DEF ServerInv, Spared, CleanExitCutsNobody, TypeOK
<1>3. LetIn' /\ GateIsExact'
  BY DEF ServerInv, LetIn, GateIsExact, Active, Open, TypeOK
<1> QED
  BY <1>1, <1>2, <1>3 DEF ServerInv

\* So may a step of main or of the goroutine that leaves requests alone.
LEMMA RequestsAlone ==
  ASSUME ServerInv, UNCHANGED <<mode, gate, status, requests, calls>>,
         main' # "exited", main # "exited",
         main' = "collecting" => Active = {},
         Untouched', Orderly'
  PROVE  ServerInv'
<1> USE DEF requests, calls
<1>1. Spared'
  BY DEF ServerInv, Spared, CleanExitCutsNobody, Active
<1>2. LetIn' /\ GateIsExact'
  BY DEF ServerInv, LetIn, GateIsExact
<1> QED
  BY <1>1, <1>2 DEF ServerInv

\* main keeps the invariant.  The one way to a clean exit of a server on HTTP
\* that came up leads through collecting, where no request is left.
LEMMA MainKeeps == TypeOK /\ ServerInv /\ Main => ServerInv'
<1> SUFFICES ASSUME TypeOK, ServerInv, Main PROVE ServerInv'
  OBVIOUS
<1>1. ASSUME NEW s \in {"failed", "clean"}, SetupEnds(s) PROVE ServerInv'
  <2>1. Active = {}
    BY <1>1 DEF SetupEnds, ServerInv, Untouched, Active, Open
  <2> QED
    BY <1>1, <2>1, ExitKeeps DEF SetupEnds
<1>2. ASSUME NEW s \in {"failed", "clean"}, StdioEnds(s) PROVE ServerInv'
  BY <1>2, ExitKeeps DEF StdioEnds
<1>3. CASE ListenerReported
  <2>1. Outcome = "failed"
    BY <1>3 DEF ListenerReported, Outcome, ServerInv, Orderly, TypeOK
  <2> QED
    BY <1>3, <2>1, ExitKeeps DEF ListenerReported
<1>4. CASE GraceOver
  BY <1>4, ExitKeeps DEF GraceOver
<1>5. CASE Collect
  <2>1. Active = {}
    BY <1>5 DEF Collect, ServerInv, Spared
  <2>2. Outcome \in {"clean", "failed", "killed"}
    BY DEF Outcome
  <2> QED
    BY <1>5, <2>1, <2>2, ExitKeeps DEF Collect
<1>6. CASE Serve
  BY <1>6, RequestsAlone DEF Serve, ServerInv, Untouched, Orderly
<1>7. CASE StartShutdown
  BY <1>7, RequestsAlone DEF StartShutdown, ServerInv, Untouched, Orderly
<1>8. CASE Drained
  BY <1>8, RequestsAlone DEF Drained, ServerInv, Untouched, Orderly
<1>9. CASE Tick
  BY <1>9, RequestsAlone DEF Tick, ServerInv, Untouched, Orderly
<1> QED
  BY <1>1, <1>2, <1>3, <1>4, <1>5, <1>6, <1>7, <1>8, <1>9 DEF Main

\* The goroutine keeps the invariant: it reports nil for a Shutdown alone.
LEMMA ListenerKeeps == TypeOK /\ ServerInv /\ Listener => ServerInv'
<1> SUFFICES ASSUME TypeOK, ServerInv, Listener PROVE ServerInv'
  OBVIOUS
<1>1. /\ UNCHANGED <<mode, gate, main, status, ctx, eof, down, requests, calls>>
      /\ main # "exited" /\ listener # "none"
      /\ errc' = "nil" => errc = "nil" \/ down
  BY DEF Listener, ListenerStarts, Binds, AcceptFails, Report
<1>2. Untouched'
  BY <1>1 DEF ServerInv, Untouched
<1>3. Orderly'
  BY <1>1 DEF ServerInv, Orderly
<1>4. main = "collecting" => Active = {}
  BY DEF ServerInv, Spared
<1> QED
  BY <1>1, <1>2, <1>3, <1>4, RequestsAlone

\* A request keeps the invariant: the gate stands between its header and its
\* handler, and once Shutdown was called no new one is accepted.
LEMMA RequestKeeps ==
  ASSUME TypeOK, ServerInv, NEW r \in Requests, Request(r)
  PROVE  ServerInv'
<1> USE DEF process, calls, Move, TypeOK
<1>1. ASSUME NEW to \in {"connected", "refused", "healthy", "notfound", "answered",
                         "handling", "dropped", "left", "unheard"},
             UNCHANGED process, main # "exited",
             stage' = [stage EXCEPT ![r] = to],
             stage[r] \in Open \/ (main = "serving" /\ ~down)
      PROVE  Untouched' /\ Orderly' /\ Spared'
  <2>1. Untouched'
    BY <1>1 DEF ServerInv, Untouched, Open
  <2>2. Orderly'
    BY <1>1 DEF ServerInv, Orderly
  <2>3. main = "collecting" => Active' = {}
    BY <1>1 DEF ServerInv, Spared, Active
  <2>4. Spared'
    BY <1>1, <2>3 DEF ServerInv, Spared, CleanExitCutsNobody
  <2> QED
    BY <2>1, <2>2, <2>4
<1>2. CASE Connect(r)
  <2>1. main = "serving"
    BY <1>2 DEF Connect, ServerInv, Untouched, Orderly
  <2>2. LetIn' /\ GateIsExact'
    BY <1>2 DEF Connect, ServerInv, LetIn, GateIsExact
  <2> QED
    BY <1>1, <1>2, <2>1, <2>2 DEF Connect, ServerInv
<1>3. CASE Leave(r) \/ GoUnheard(r) \/ GiveUp(r) \/ Respond(r)
  <2>1. PICK to \in {"left", "unheard", "dropped", "answered"} :
            stage' = [stage EXCEPT ![r] = to]
    BY <1>3 DEF Leave, GoUnheard, GiveUp, Respond
  <2>2. UNCHANGED <<process, route, kind, bearer, calls>> /\ main # "exited"
    BY <1>3 DEF Leave, GoUnheard, GiveUp, Respond
  <2>3. stage[r] \in Open
    BY <1>3 DEF Leave, GoUnheard, GiveUp, Respond, Open
  <2>4. LetIn'
    BY <2>1, <2>2 DEF ServerInv, LetIn
  <2>5. mode = "http" => route[r] # "health"
    BY <2>3 DEF ServerInv, LetIn, GateIsExact, Open
  <2>6. GateIsExact'
    BY <2>1, <2>2, <2>5 DEF ServerInv, GateIsExact
  <2> QED
    BY <1>1, <2>1, <2>2, <2>3, <2>4, <2>6 DEF ServerInv
<1>4. ASSUME NEW rt \in Routes, NEW good \in BOOLEAN, Receive(r, rt, good)
      PROVE  ServerInv'
  <2>1. PICK to \in {"refused", "healthy", "notfound", "handling"} :
            /\ stage' = [stage EXCEPT ![r] = to]
            /\ to = "handling" => rt \in {"path", "below"} /\ (gate => good)
            /\ to = "refused" => gate /\ ~good
            /\ rt = "health" => to = "healthy"
    <3> DEFINE to == Handler[rt][good]
    <3>1. stage' = [stage EXCEPT ![r] = to]
      BY <1>4 DEF Receive
    <3>2. /\ to \in {"refused", "healthy", "notfound", "handling"}
          /\ to = "handling" => rt \in {"path", "below"} /\ (gate => good)
          /\ to = "refused" => gate /\ ~good
          /\ rt = "health" => to = "healthy"
      BY HandlerRight
    <3> QED
      BY <3>1, <3>2
  <2>2. LetIn'
    BY <1>4, <2>1 DEF Receive, ServerInv, LetIn
  <2>3. GateIsExact'
    BY <1>4, <2>1 DEF Receive, ServerInv, LetIn, GateIsExact
  <2> QED
    BY <1>1, <1>4, <2>1, <2>2, <2>3 DEF Receive, ServerInv, Open
<1>5. CASE ReceiveStdio(r)
  <2>1. LetIn' /\ GateIsExact'
    BY <1>5 DEF ReceiveStdio, ServerInv, LetIn, GateIsExact
  <2>2. ~down
    BY <1>5 DEF ReceiveStdio, ServerInv, Orderly
  <2> QED
    BY <1>1, <1>5, <2>1, <2>2 DEF ReceiveStdio, ServerInv
<1>6. ASSUME NEW v \in Verbs, CallTenant(r, v) PROVE ServerInv'
  <2>1. Untouched' /\ Orderly' /\ Spared'
    BY <1>6 DEF CallTenant, requests, ServerInv, Untouched, Orderly, Spared,
                CleanExitCutsNobody, Active
  <2>2. LetIn' /\ GateIsExact'
    BY <1>6 DEF CallTenant, Client!Begin, requests, ServerInv, LetIn, GateIsExact
  <2> QED
    BY <2>1, <2>2 DEF ServerInv
<1>7. CASE CallGoesOn(r)
  <2>1. UNCHANGED <<process, requests, verb>>
    BY <1>7 DEF CallGoesOn, Client!TakeEffect, Client!Conclude
  <2> QED
    BY <2>1 DEF requests, ServerInv, Untouched, Orderly, Spared, LetIn, GateIsExact,
                CleanExitCutsNobody, Active
<1> QED
  BY <1>2, <1>3, <1>4, <1>5, <1>6, <1>7 DEF Request

\* Every step keeps the invariant.
LEMMA StepInvariant == TypeOK /\ ServerInv /\ [Next]_vars => ServerInv'
<1> SUFFICES ASSUME TypeOK, ServerInv, [Next]_vars PROVE ServerInv'
  OBVIOUS
<1>1. CASE Signal
  <2>1. CASE main = "setup"
    <3>1. Active = {}
      BY <2>1 DEF ServerInv, Untouched, Active, Open
    <3> QED
      BY <1>1, <2>1, <3>1, ExitKeeps DEF Signal
  <2>2. CASE main # "setup"
    BY <1>1, <2>2, RequestsAlone DEF Signal, ServerInv, Untouched, Orderly, Spared
  <2> QED
    BY <2>1, <2>2
<1>2. CASE HangUp
  BY <1>2, RequestsAlone DEF HangUp, ServerInv, Untouched, Orderly
<1>3. CASE UNCHANGED vars
  BY <1>3 DEF vars, process, requests, calls, ServerInv, Untouched, Orderly, Spared,
              LetIn, GateIsExact, CleanExitCutsNobody, Active
<1> QED
  BY <1>1, <1>2, <1>3, MainKeeps, ListenerKeeps, RequestKeeps DEF Next

\* Each part of the invariant holds in every reachable state.
THEOREM Invariant == Spec => []ServerInv
<1>1. TypeOK /\ ServerInv /\ [Next]_vars => ServerInv'
  BY StepInvariant
<1> QED
  BY <1>1, InitInvariant, TypeCorrect, PTL DEF Spec

\* Whatever the timing of a request, and before, during and after a shutdown:
\* behind both mounts of the MCP handler the gate lets in those who carry the
\* token and nobody else, and no other route leads to a tool.
THEOREM TheGateIsExact == Spec => []GateIsExact
<1>1. ServerInv => GateIsExact
  BY DEF ServerInv
<1> QED
  BY <1>1, Invariant, PTL

\* However many requests there are and however long the grace is, a clean exit
\* of a server that came up on HTTP has cut no connection.
THEOREM CleanExitIsClean == Spec => []CleanExitCutsNobody
<1>1. ServerInv => CleanExitCutsNobody
  BY DEF ServerInv, Spared
<1> QED
  BY <1>1, Invariant, PTL

(***************************************************************************)
(* The process implements Lifecycle.                                       *)
(***************************************************************************)

\* The process starts as Lifecycle says.
LEMMA InitImplements == Init => Process!Init
BY DEF Init, Process!Init, Phase

\* A step that moves neither the phase, nor the asking, nor the status.
LEMMA Stutters ==
  ASSUME UNCHANGED <<Phase, ctx, eof, status>>
  PROVE  UNCHANGED Process!vars
BY DEF Process!vars

\* The process exits in a phase and with a status that Lifecycle allows: a
\* clean status needs somebody who asked, once the process has come up.
LEMMA ExitImplements ==
  ASSUME NEW s \in {"clean", "failed", "killed"}, Exit(s),
         main # "exited", TypeOK, ServerInv,
         s = "clean" => ctx = "done" \/ eof \/ main = "setup",
         s = "killed" => main = "setup"
  PROVE  Process!Next
<1>1. Phase # "gone" /\ Phase' = "gone"
  BY DEF Exit, Phase, TypeOK
<1>2. main = "setup" => Phase = "starting"
  BY DEF Phase
<1>3. status = "none"
  BY DEF ServerInv, Spared
<1>4. Process!Exit(s)
  BY <1>1, <1>2, <1>3 DEF Exit, Process!Exit
<1> QED
  BY <1>4 DEF Process!Next

\* Every step of main is a step of Lifecycle, or none.
LEMMA MainImplements ==
  TypeOK /\ ServerInv /\ Main => [Process!Next]_Process!vars
<1> SUFFICES ASSUME TypeOK, ServerInv, Main PROVE [Process!Next]_Process!vars
  OBVIOUS
<1>1. ASSUME NEW s \in {"failed", "clean"}, SetupEnds(s) PROVE Process!Next
  BY <1>1, ExitImplements DEF SetupEnds
<1>2. ASSUME NEW s \in {"failed", "clean"}, StdioEnds(s) PROVE Process!Next
  BY <1>2, ExitImplements DEF StdioEnds
<1>3. CASE ListenerReported
  <2>1. Outcome = "failed"
    BY <1>3 DEF ListenerReported, Outcome, ServerInv, Orderly, TypeOK
  <2> QED
    BY <1>3, <2>1, ExitImplements DEF ListenerReported
<1>4. CASE GraceOver
  BY <1>4, ExitImplements DEF GraceOver
<1>5. CASE Collect
  <2>1. ctx = "done"
    BY <1>5 DEF Collect, ServerInv, Orderly
  <2>2. Outcome \in {"clean", "failed", "killed"} /\ Outcome # "killed"
    BY DEF Outcome
  <2> QED
    BY <1>5, <2>1, <2>2, ExitImplements DEF Collect
<1>6. CASE Serve
  <2>1. Phase = "starting"
    BY <1>6 DEF Serve, Phase
  <2>2. Phase' = IF mode = "http" THEN "starting" ELSE "up"
    BY <1>6, ModesAssumption DEF Serve, Phase, TypeOK
  <2> QED
    BY <1>6, <2>1, <2>2 DEF Serve, Process!Next, Process!ComeUp, Process!vars
<1>7. CASE StartShutdown
  <2>1. Phase \in {"starting", "up", "stopping"} /\ Phase' = "stopping"
    BY <1>7 DEF StartShutdown, Phase
  <2> QED
    BY <1>7, <2>1 DEF StartShutdown, Process!Next, Process!WindDown, Process!vars
<1>8. CASE Drained
  <2>1. UNCHANGED Phase
    BY <1>8 DEF Drained, Phase
  <2> QED
    BY <1>8, <2>1, Stutters DEF Drained
<1>9. CASE Tick
  <2>1. UNCHANGED Phase
    BY <1>9 DEF Tick, Phase
  <2> QED
    BY <1>9, <2>1, Stutters DEF Tick
<1> QED
  BY <1>1, <1>2, <1>3, <1>4, <1>5, <1>6, <1>7, <1>8, <1>9 DEF Main

\* Every step of the goroutine is a step of Lifecycle, or none: the process
\* comes up, or winds down, while main is in its select, and once main is past
\* it the goroutine is not heard of.
LEMMA ListenerImplements ==
  TypeOK /\ ServerInv /\ Listener => [Process!Next]_Process!vars
<1> SUFFICES ASSUME TypeOK, ServerInv, Listener PROVE [Process!Next]_Process!vars
  OBVIOUS
<1>1. /\ UNCHANGED <<mode, main, status, ctx, eof>>
      /\ main # "exited"
      /\ listener \in {"starting", "binding", "open"}
      /\ listener = "starting" => listener' = "binding" \/ down
      /\ listener = "binding"  => listener' \in {"open", "closed"}
      /\ listener = "open"     => listener' = "closed"
  BY DEF Listener, ListenerStarts, Binds, AcceptFails, Report
<1>2. main \in {"serving", "draining", "collecting"}
  BY <1>1 DEF ServerInv, Untouched, TypeOK
<1>3. CASE main # "serving"
  <2>1. UNCHANGED Phase
    BY <1>1, <1>2, <1>3 DEF Phase
  <2> QED
    BY <1>1, <2>1, Stutters
<1>4. CASE main = "serving" /\ mode = "stdio"
  <2>1. UNCHANGED Phase
    BY <1>1, <1>4 DEF Phase
  <2> QED
    BY <1>1, <2>1, Stutters
<1>5. CASE main = "serving" /\ mode # "stdio"
  <2>1. ~down
    BY <1>5 DEF ServerInv, Orderly
  <2>2. Phase = IF listener = "open" THEN "up" ELSE "starting"
    BY <1>1, <1>5 DEF Phase
  <2>3. Phase' = CASE listener' = "open"   -> "up"
                   [] listener' = "closed" -> "stopping"
                   [] OTHER                -> "starting"
    BY <1>1, <1>5 DEF Phase
  <2> QED
    BY <1>1, <2>1, <2>2, <2>3
       DEF Process!Next, Process!ComeUp, Process!WindDown, Process!vars
<1> QED
  BY <1>3, <1>4, <1>5

\* No step of a request is one of the process.
LEMMA RequestImplements ==
  ASSUME NEW r \in Requests, Request(r)
  PROVE  UNCHANGED Process!vars
<1>1. UNCHANGED process
  BY DEF Request, Connect, Receive, ReceiveStdio, CallTenant, CallGoesOn, Respond,
         GiveUp, Leave, GoUnheard
<1>2. UNCHANGED Phase
  BY <1>1 DEF process, Phase
<1> QED
  BY <1>1, <1>2, Stutters DEF process

\* Every step of the server is a step of Lifecycle, or none.
LEMMA StepImplements ==
  TypeOK /\ ServerInv /\ [Next]_vars => [Process!Next]_Process!vars
<1> SUFFICES ASSUME TypeOK, ServerInv, [Next]_vars
             PROVE  [Process!Next]_Process!vars
  OBVIOUS
<1>1. CASE Signal
  <2>1. CASE main = "setup"
    BY <1>1, <2>1, ExitImplements DEF Signal
  <2>2. CASE main # "setup"
    <3>1. UNCHANGED Phase /\ Phase # "gone"
      BY <1>1, <2>2 DEF Signal, Phase, TypeOK
    <3>2. Process!BeAsked
      BY <1>1, <2>2, <3>1 DEF Signal, Process!BeAsked
    <3> QED
      BY <3>2 DEF Process!Next
  <2> QED
    BY <2>1, <2>2
<1>2. CASE HangUp
  <2>1. UNCHANGED Phase /\ Phase # "gone"
    BY <1>2 DEF HangUp, Phase
  <2>2. Process!BeAsked
    BY <1>2, <2>1 DEF HangUp, Process!BeAsked
  <2> QED
    BY <2>2 DEF Process!Next
<1>3. CASE UNCHANGED vars
  <2>1. UNCHANGED Phase
    BY <1>3 DEF vars, process, Phase
  <2> QED
    BY <1>3, <2>1, Stutters DEF vars, process
<1> QED
  BY <1>1, <1>2, <1>3, MainImplements, ListenerImplements, RequestImplements DEF Next

\* A server is a process as Lifecycle promises it to the unit: it winds down
\* once, and it exits with a clean status, after it came up, only when it was
\* asked to end.
THEOREM Implements == Spec => ImplementsLifecycle
BY InitImplements, StepImplements, TypeCorrect, Invariant, PTL
   DEF Spec, ImplementsLifecycle, Process!Spec
=============================================================================
