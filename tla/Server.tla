------------------------------- MODULE Server -------------------------------
(***************************************************************************)
(* One process serving MCP: main (cmd/netskope-mcp), Handler and ServeHTTP *)
(* or ServeStdio (internal/server).  Three actors share it: main, waiting  *)
(* in select for the listener or for a signal; the goroutine of the        *)
(* listener, which reports to main once, through errc; and the requests,   *)
(* each with its connection.                                               *)
(*                                                                         *)
(* net/http and the MCP SDK are outside src and are modelled as the code   *)
(* relies on them.  A tool call runs over CallContract; the SDK may leave  *)
(* it running when its request is gone.  Time is the grace of a shutdown.  *)
(***************************************************************************)
EXTENDS Integers

CONSTANTS
    Requests,     \* HTTP connections, each with one request, or calls on stdio
    Modes,        \* the transports, of {"http", "stdio"}
    Verbs,        \* the verbs of the tool calls
    OnceVerbs,    \* the verbs that must not be repeated
    Effects,      \* the effects a call may have
    Grace         \* shutdownGrace, in ticks

ASSUME ModesAssumption == Modes \subseteq {"http", "stdio"}
ASSUME GraceAssumption == Grace \in Nat
ASSUME VerbsAssumption == "none" \notin Verbs

VARIABLES
    mode,         \* cfg.Mode
    gate,         \* cfg.HTTPAuthToken is set
    main,         \* where main stands
    status,       \* the status the process exited with
    ctx,          \* the context of signal.NotifyContext: "live" or "done"
    eof,          \* the client closed stdin
    listener,     \* the goroutine of ServeHTTP
    errc,         \* what it sent: "empty", "nil" or "error"
    down,         \* srv.Shutdown was called
    grace,        \* what is left of the grace
    stage,        \* where each request stands
    route,        \* where in the mux it goes
    kind,         \* what it asks the MCP handler for
    bearer,       \* whether it carries the right token
    verb, effects, verdict      \* the tool call of each request: CallContract

process == <<mode, gate, main, status, ctx, eof, listener, errc, down, grace>>
requests == <<stage, route, kind, bearer>>
calls == <<verb, effects, verdict>>
vars == <<process, requests, calls>>

Client == INSTANCE CallContract WITH Calls <- Requests

(***************************************************************************)
(* A request: its connection is accepted (connected), its header is read   *)
(* and the mux takes it to a handler, which answers, refuses or gives up;  *)
(* the client leaves, or never sends its header in time (unheard), or the  *)
(* process ends under it (cut).                                            *)
(***************************************************************************)
Ended  == {"refused", "healthy", "notfound", "answered", "dropped", "left",
           "unheard", "cut"}
Open   == {"connected", "handling"}
Kinds  == {"call", "stream"}

\* What the mux tells apart: cfg.Path, what is below cfg.Path/, GET /healthz,
\* and everything that matches no pattern.
Routes == {"path", "below", "health", "elsewhere"}
Active == {r \in Requests : stage[r] \in Open}

TypeOK ==
    /\ mode     \in Modes
    /\ gate     \in BOOLEAN
    /\ main     \in {"setup", "serving", "draining", "collecting", "exited"}
    /\ status   \in {"none", "clean", "failed", "killed"}
    /\ ctx      \in {"live", "done"}
    /\ eof      \in BOOLEAN
    /\ listener \in {"none", "starting", "binding", "open", "closed"}
    /\ errc     \in {"empty", "nil", "error"}
    /\ down     \in BOOLEAN
    /\ grace    \in 0..Grace
    /\ stage    \in [Requests -> {"away"} \union Open \union Ended]
    /\ route    \in [Requests -> Routes \union {"none"}]
    /\ kind     \in [Requests -> Kinds \union {"none"}]
    /\ bearer   \in [Requests -> BOOLEAN]
    /\ verb     \in [Requests -> Verbs \union {"none"}]

Init ==
    /\ mode \in Modes
    /\ gate \in BOOLEAN
    /\ main     = "setup"
    /\ status   = "none"
    /\ ctx      = "live"
    /\ eof      = FALSE
    /\ listener = "none"
    /\ errc     = "empty"
    /\ down     = FALSE
    /\ grace    = Grace
    /\ stage    = [r \in Requests |-> "away"]
    /\ route    = [r \in Requests |-> "none"]
    /\ kind     = [r \in Requests |-> "none"]
    /\ bearer   = [r \in Requests |-> FALSE]
    /\ Client!Init

----------------------------------------------------------------------------
(***************************************************************************)
(* main.                                                                   *)
(***************************************************************************)

\* run returns: the process ends, and with it every connection.
Exit(s) ==
    /\ main'   = "exited"
    /\ status' = s
    /\ stage'  = [r \in Requests |-> IF r \in Active THEN "cut" ELSE stage[r]]
    /\ UNCHANGED <<mode, gate, ctx, eof, listener, errc, down, grace,
                   route, kind, bearer, calls>>

\* Load, New or Register fails, or --version is all that was asked for.
SetupEnds(s) ==
    /\ main = "setup"
    /\ s \in {"failed", "clean"}
    /\ Exit(s)

\* NotifyContext, then the transport: ServeHTTP starts its goroutine.
Serve ==
    /\ main = "setup"
    /\ main' = "serving"
    /\ listener' = IF mode = "http" THEN "starting" ELSE "none"
    /\ UNCHANGED <<mode, gate, status, ctx, eof, errc, down, grace, requests, calls>>

Outcome == IF errc = "error" THEN "failed" ELSE "clean"

\* select: the goroutine reported before any signal, or main read it first.
ListenerReported ==
    /\ main = "serving"
    /\ errc # "empty"
    /\ Exit(Outcome)

\* Mutant: the server is closed, not shut down.
CloseAtOnce ==
    /\ main = "serving" /\ mode = "http"
    /\ ctx = "done"
    /\ main' = "collecting"
    /\ down' = TRUE
    /\ stage' = [r \in Requests |-> IF r \in Active THEN "cut" ELSE stage[r]]
    /\ UNCHANGED <<mode, gate, status, ctx, eof, listener, errc, grace, route, kind,
                   bearer, calls>>

\* select: the context is done.  Shutdown closes the listener, and looks at
\* the connections before it waits.
StartShutdown ==
    /\ main = "serving" /\ mode = "http"
    /\ ctx = "done"
    /\ down' = TRUE
    /\ main' = IF Active = {} THEN "collecting" ELSE "draining"
    /\ UNCHANGED <<mode, gate, status, ctx, eof, listener, errc, grace, requests, calls>>

\* Shutdown polls the connections until none is in use.
Drained ==
    /\ main = "draining"
    /\ Active = {}
    /\ main' = "collecting"
    /\ UNCHANGED <<mode, gate, status, ctx, eof, listener, errc, down, grace,
                   requests, calls>>

Tick ==
    /\ main = "draining"
    /\ grace > 0
    /\ grace' = grace - 1
    /\ UNCHANGED <<mode, gate, main, status, ctx, eof, listener, errc, down,
                   requests, calls>>

\* Mutant: Shutdown is given a context that never ends.
NoGrace == main = "draining" /\ Active = {} /\ grace = 0 /\ Exit("failed")

\* Shutdown returns the error of its context, and so does ServeHTTP.
GraceOver ==
    /\ main = "draining"
    /\ grace = 0
    /\ Exit("failed")

\* Shutdown returned nil: main waits for the goroutine.
Collect ==
    /\ main = "collecting"
    /\ errc # "empty"
    /\ Exit(Outcome)

\* ServeStdio returns when the client hung up, or when the context is done:
\* with the error of the context or without.
StdioEnds(s) ==
    /\ main = "serving" /\ mode = "stdio"
    /\ eof \/ ctx = "done"
    /\ s \in {"clean", "failed"}
    /\ Exit(s)

----------------------------------------------------------------------------
(***************************************************************************)
(* The goroutine of the listener: ListenAndServe, then one send to errc.   *)
(***************************************************************************)
\* Mutant: a failure to listen is not told from an orderly end.
NoEndIsAnError(e) == listener' = "closed" /\ errc' = "nil"

\* ListenAndServe returns; ErrServerClosed counts as no error.
Report(e) == listener' = "closed" /\ errc' = e

\* ListenAndServe looks whether Shutdown was called before it listens.
ListenerStarts ==
    /\ listener = "starting"
    /\ main # "exited"
    /\ IF down THEN Report("nil") ELSE listener' = "binding" /\ UNCHANGED errc
    /\ UNCHANGED <<mode, gate, main, status, ctx, eof, down, grace, requests, calls>>

\* net.Listen fails (the port is taken, the address is no address), or Serve
\* registers the listener, unless Shutdown came in between.
Binds(ok) ==
    /\ listener = "binding"
    /\ main # "exited"
    /\ IF ~ok THEN Report("error")
       ELSE IF down THEN Report("nil")
       ELSE listener' = "open" /\ UNCHANGED errc
    /\ UNCHANGED <<mode, gate, main, status, ctx, eof, down, grace, requests, calls>>

\* Accept fails: Shutdown closed the listener, or something else is wrong.
AcceptFails ==
    /\ listener = "open"
    /\ main # "exited"
    /\ Report(IF down THEN "nil" ELSE "error")
    /\ UNCHANGED <<mode, gate, main, status, ctx, eof, down, grace, requests, calls>>

----------------------------------------------------------------------------
(***************************************************************************)
(* Requests.                                                               *)
(***************************************************************************)
Move(r, to) == stage' = [stage EXCEPT ![r] = to]

\* The listener accepts a connection.
Connect(r) ==
    /\ stage[r] = "away"
    /\ listener = "open" /\ ~down
    /\ main # "exited"
    /\ Move(r, "connected")
    /\ UNCHANGED <<process, route, kind, bearer, calls>>

\* A handler takes a request to its next stage; good says whether the request
\* carries the token that staticVerifier wants.
StreamableHTTP == [good \in BOOLEAN |-> "handling"]
Healthz        == [good \in BOOLEAN |-> "healthy"]
NotFound       == [good \in BOOLEAN |-> "notfound"]

RequireBearerToken(h) == [good \in BOOLEAN |-> IF good THEN h[good] ELSE "refused"]

\* Mutant: what is below the path is mounted before the handler is wrapped.
SubtreeUnwrapped ==
    LET h == IF gate THEN RequireBearerToken(StreamableHTTP) ELSE StreamableHTTP
    IN  [rt \in Routes |-> CASE rt = "path"   -> h
                            [] rt = "below"  -> StreamableHTTP
                            [] rt = "health" -> Healthz
                            [] OTHER         -> NotFound]

\* The mux of Handler: the MCP handler, wrapped if there is a token to ask for,
\* is mounted twice.
Handler ==
    LET h == IF gate THEN RequireBearerToken(StreamableHTTP) ELSE StreamableHTTP
    IN  [rt \in Routes |-> CASE rt \in {"path", "below"} -> h
                            [] rt = "health"           -> Healthz
                            [] OTHER                   -> NotFound]

\* The header is read, also during a shutdown, and the mux takes the request to
\* its handler; only the MCP handler looks at what it asks for.
Receive(r, rt, good) ==
    /\ stage[r] = "connected"
    /\ main # "exited"
    /\ LET to == Handler[rt][good]
       IN  /\ Move(r, to)
           /\ \E k \in Kinds \union {"none"} :
                 /\ (k = "none") = (to # "handling")
                 /\ kind' = [kind EXCEPT ![r] = k]
    /\ route'  = [route EXCEPT ![r] = rt]
    /\ bearer' = [bearer EXCEPT ![r] = good]
    /\ UNCHANGED <<process, calls>>

\* A call on stdio, where there is no gate: the client started the process.
ReceiveStdio(r) ==
    /\ stage[r] = "away"
    /\ main = "serving" /\ mode = "stdio" /\ ~eof
    /\ kind' = [kind EXCEPT ![r] = "call"]
    /\ Move(r, "handling")
    /\ UNCHANGED <<process, route, bearer, calls>>

\* The handler calls the client.
CallTenant(r, v) ==
    /\ main # "exited"
    /\ stage[r] = "handling" /\ kind[r] = "call"
    /\ Client!Begin(r, v)
    /\ UNCHANGED <<process, requests>>

\* The call goes on by itself, and what it sent may reach the tenant after the
\* process is gone.
CallGoesOn(r) ==
    /\ \/ \E e \in Effects : Client!TakeEffect(r, e)
       \/ main # "exited" /\ \E v \in Client!Verdicts : Client!Conclude(r, v)
    /\ UNCHANGED <<process, requests>>

\* The handler has the result of the call, or nothing to call the tenant for.
Respond(r) ==
    /\ main # "exited"
    /\ stage[r] = "handling" /\ kind[r] = "call"
    /\ verb[r] = "none" \/ verdict[r] # "none"
    /\ Move(r, "answered")
    /\ UNCHANGED <<process, route, kind, bearer, calls>>

\* BaseContext gives every request the context that the signal ends: a handler
\* that watches it (an open stream, or one waiting for its call) gives up.
GiveUp(r) ==
    /\ main # "exited"
    /\ stage[r] = "handling"
    /\ ctx = "done"
    /\ Move(r, "dropped")
    /\ UNCHANGED <<process, route, kind, bearer, calls>>

\* The client closes its connection.
Leave(r) ==
    /\ main # "exited" /\ mode = "http"
    /\ stage[r] \in Open
    /\ Move(r, "left")
    /\ UNCHANGED <<process, route, kind, bearer, calls>>

\* The header did not come: the connection is closed after ReadHeaderTimeout,
\* or by a Shutdown that takes a connection still new after a while for idle.
GoUnheard(r) ==
    /\ main # "exited"
    /\ stage[r] = "connected"
    /\ Move(r, "unheard")
    /\ UNCHANGED <<process, route, kind, bearer, calls>>

----------------------------------------------------------------------------
\* SIGINT or SIGTERM.  Before NotifyContext it kills; a second one is
\* swallowed.
Signal ==
    /\ main # "exited"
    /\ IF main = "setup"
       THEN Exit("killed")
       ELSE /\ ctx = "live"
            /\ ctx' = "done"
            /\ UNCHANGED <<mode, gate, main, status, eof, listener, errc, down, grace,
                           requests, calls>>

\* The client at the other end of stdio hangs up.
HangUp ==
    /\ mode = "stdio" /\ main = "serving" /\ ~eof
    /\ eof' = TRUE
    /\ UNCHANGED <<mode, gate, main, status, ctx, listener, errc, down, grace,
                   requests, calls>>

Main ==
    \/ \E s \in {"failed", "clean"} : SetupEnds(s) \/ StdioEnds(s)
    \/ Serve \/ ListenerReported \/ StartShutdown \/ Drained \/ Tick \/ GraceOver
    \/ Collect

Listener == ListenerStarts \/ (\E ok \in BOOLEAN : Binds(ok)) \/ AcceptFails

Request(r) ==
    \/ Connect(r)
    \/ \E rt \in Routes, good \in BOOLEAN : Receive(r, rt, good)
    \/ ReceiveStdio(r)
    \/ \E v \in Verbs : CallTenant(r, v)
    \/ CallGoesOn(r) \/ Respond(r) \/ GiveUp(r)
    \/ Leave(r) \/ GoUnheard(r)

Next == Main \/ Listener \/ Signal \/ HangUp \/ \E r \in Requests : Request(r)

Spec == Init /\ [][Next]_vars

\* The scheduler runs main and the goroutine, and time passes.  Nothing is
\* assumed of requests: neither that they are sent, nor that they end.
FairSpec ==
    /\ Spec
    /\ WF_vars(ListenerReported \/ StartShutdown \/ Drained \/ Tick \/ GraceOver \/ Collect)
    /\ WF_vars(\E s \in {"clean", "failed"} : StdioEnds(s))
    /\ WF_vars(ListenerStarts \/ (\E ok \in BOOLEAN : Binds(ok)) \/ (down /\ AcceptFails))

----------------------------------------------------------------------------
\* While the gate is up, a request without the bearer token reaches no tool and
\* opens no stream, by whichever route of the mux and whenever it arrives; who
\* probes the health endpoint needs no token and reaches no tool either way;
\* and without a gate nobody is refused.
GateIsExact ==
    mode = "http" =>
        \A r \in Requests :
            /\ stage[r] = "handling" \/ verb[r] # "none" =>
                  route[r] \in {"path", "below"} /\ (gate => bearer[r])
            /\ stage[r] = "refused" => gate /\ ~bearer[r]
            /\ route[r] = "health" /\ stage[r] # "cut" => stage[r] = "healthy"

\* A clean status after a signal is the truth about the shutdown: no
\* connection was cut, so every request that was read was answered, was given
\* up by its handler, or was left by its client.
CleanExitCutsNobody ==
    mode = "http" /\ status = "clean" => \A r \in Requests : stage[r] # "cut"

\* "shutdownGrace bounds how long in-flight requests get to finish" (http.go):
\* taken at its word, a tool call that waits for the tenant's answer is not
\* dropped before the grace is over.
InFlightGetsTheGrace ==
    [][\A r \in Requests :
          /\ stage[r] = "handling" /\ stage'[r] = "dropped"
          /\ kind[r] = "call" /\ verb[r] # "none" /\ verdict[r] = "none"
          => grace = 0]_vars

\* A server that was told to stop stops, whoever is connected and whatever
\* becomes of their requests: a silent client, an open stream and a call that
\* never returns hold it for the grace and no longer.
StopsWhenTold == ctx = "done" ~> main = "exited"

(***************************************************************************)
(* The process as Lifecycle sees it.                                       *)
(***************************************************************************)
Phase ==
    CASE main = "setup" -> "starting"
      [] main = "serving" ->
            IF mode = "stdio" THEN "up"
            ELSE CASE listener = "open"   -> "up"
                   [] listener = "closed" -> "stopping"
                   [] OTHER               -> "starting"
      [] main \in {"draining", "collecting"} -> "stopping"
      [] main = "exited" -> "gone"

Process == INSTANCE Lifecycle WITH
               phase  <- Phase,
               asked  <- ctx = "done" \/ eof \/ status = "killed",
               status <- status

ImplementsLifecycle == Process!Spec
=============================================================================
