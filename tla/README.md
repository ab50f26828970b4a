# netskope-mcp in TLA+

`netskope-mcp` is an MCP server (Go) that turns tool calls of a language model
into requests to the Netskope REST API v2. These modules model its behaviour,
TLC checks them on small instances, and TLAPS proves theorems about them.

## 1. The system

```
 MCP client ── stdio / HTTP+bearer ──> server ──> tools (gates, routing, caps, audit)
                                                     │ Client.Do
                                                     v
                      netskope.Client: send loop ── RetryPolicy ── limiter
                                                     │ HTTP
                                                     v
                                                Netskope tenant
```

One process holds one `netskope.Client`, shared by every tool call. Tool calls
run concurrently, each in its own goroutine with its own context. All they
share is the limiter (`until` under a mutex, and the `rate.Limiter`), the
tenant's objects and the tenant's request budget.

| component | state | operations | talks to |
|---|---|---|---|
| Client calls (`client.go`) | per call: the loop counter, the last error, the context | `Do`, `send` | limiter, tenant |
| Retry policy (`retry.go`) | none | `idempotent`, `retryStatus`, `retryTransport`, `backoff`, `parseRetryAfter` | `send` |
| Limiter (`retry.go`) | `until`, the token bucket | `wait`, `observe` | `send`; headers of the tenant |
| Error mapping (`errors.go`) | none | `newAPIError`, `isErrorEnvelope`, hints | `send`, tools |
| Tool calls (`resource.go`, `register.go`, `generic.go`, `core.go`, `events.go`, `intel.go`) | the registered tools with their permitted actions; the audit log | `Register`, `registerResource`, `call`, `route`, `apiRequest`, `searchEvents`, `lookupURLs` | client, MCP server |
| Resource tables (`table_*.go`) | constants (the slices `crud` and `deployable` are shared) | | `registerResource` |
| Rendering (`render.go`, with the queries of `events.go` and `generic.go`) | none | `applyListDefaults`, `capResult`, `fit` | `call`, `searchEvents`, `netskope_api` |
| Configuration (`config.go`, `credentials.go`) | none after `Load` | flags, environment, secret files, systemd credentials | `main` |
| Server (`server.go`, `http.go`, `stdio.go`, `main.go`) | listener, signal context | bearer gate, serve, shutdown | MCP client, tools |
| Service (`netskope-mcp.nix`) | systemd unit | assertions, credentials, restart on failure | `main` |

What is hard here, and what correctness means for each part:

* **Client calls.** A request and its answer can be lost or late separately, a
  context can end at any moment, an abandoned attempt can still reach the
  tenant. The result of `Do` must let a caller conclude what is true of the
  tenant, and a verb that is not idempotent must take effect at most once.
* **Limiter.** `wait` reads `until` once and then sleeps twice, while responses
  of other calls extend it, out of order. It must keep a caller from spending
  a budget known to be empty, and must not starve anyone.
* **Backoff.** Arithmetic on durations with shifts and caps: never negative,
  beyond the cap only where there is nothing to draw from, not shorter than asked
  for as far as the cap allows, and different enough between callers that they do
  not retry in lockstep.
* **Tool calls.** What is registered, advertised and enforced must agree, no
  DELETE may reach the tenant unless the operator allowed it, a read-only tool
  must not write, and the audit log must tell the truth.
* **Rendering.** A list must stay within its caps, lose nothing silently, and
  say when it is partial.
* **Configuration.** Every setting has several sources, and each can be missing,
  blank, unreadable or malformed in its own way. It must fail, or resolve what
  the operator asked for: never another token, another tenant, or no gate.
* **Server.** Three kinds of goroutine (main in `select`, the listener's, the
  requests) and a signal that may come at any point between them. It must let
  nobody past the gate, end when told to, and exit with a status that is true.
* **Service.** Restarts depend on that status; secrets appear after boot and
  change. A unit that is wanted must come up, and one that serves must serve as
  configured.

## 2. Modules

| module | models | proofs |
|---|---|---|
| `RetryPolicy` | the two retry predicates | through `SendProofs` |
| `CallContract` | abstract: what one call of `Do` promises | |
| `Send` | `Do` and `send`: concurrent calls, cancellation, the tenant; implements `CallContract` | `SendProofs` |
| `Limiter` | `limiter.wait` and `observe` in discrete time | `LimiterProofs` |
| `Backoff` | `RetryPolicy.backoff`, `parseRetryAfter` and `sleepCtx` with their integer width | `BackoffProofs` |
| `ToolTable`, `ToolCall` | the table of tools; registration, gates, routing and the audit line, over `CallContract` | `ToolCallProofs` |
| `Listing` | the five surfaces that return lists: bounds, caps, marker | `ListingProofs` |
| `Sources` | the decisions of `Load`: which source wins, what is refused | through `ConfigProofs` and `ServiceProofs` |
| `Config` | `Load`, setting by setting | `ConfigProofs` |
| `Lifecycle` | abstract: what one process promises to whoever runs it | |
| `Server` | main, the listener, the mux and the gate, requests, signals, shutdown, over `CallContract`; implements `Lifecycle` | `ServerProofs` |
| `Service` | the systemd unit: options, credentials, restarts, over `Sources` and `Lifecycle` | `ServiceProofs` |

The composition goes through the two abstract modules. `ToolCall` and `Server`
use `CallContract` and not `Send`, `Service` uses `Lifecycle` and not `Server`:
the two refinement theorems say that this is enough. `Config` and `Service`
share the operators of `Sources`. Modules whose name starts with `MC` give the
constants values for TLC.

### Send

| in the module | in the code |
|---|---|
| `pc`: idle, backoff, holding, tokens, awaiting, returned | where the goroutine blocks: `sleepCtx` in `send`, `sleepCtx` and `rl.Wait` in `limiter.wait`, `hc.Do` with `io.ReadAll` |
| `method`, `attempt`, `ctx`, `result` | the arguments and locals of `send`; the kind of error `Do` returns |
| `requests`, `acted`, `object` | what is on its way to the tenant, what the tenant acted on, who wrote the object last |
| `held` | `limiter.until` lies in the future |
| `Start`, `BackoffEnds`, `HoldSlept`, `Attempt`, `WaitCancelled` | the loop of `send` up to `hc.Do` |
| `Receive` | an answer: `observe`, then a success, an envelope, a retry or an error |
| `AnswerLost` | an error of `hc.Do` or `io.ReadAll`, and a 2xx whose body does not arrive |
| `Cancel`, `TenantTakes`, `WindowResets` | the context, the tenant, the clock (external) |

A request and its answer are separate: the tenant may act on a request whether
or not the caller is told, answer with a fault after acting, or act on an
attempt its caller gave up on. A refusal and a 429 mean that this attempt was
not acted on; a 5xx does not say whether it was. That is the reading `retryStatus`
rests on. A 5xx comes from the tenant here, so the attempt it answers has
arrived; a gateway's 502 or 504, whose upstream still works on the request and
may act later, is outside the model.

### Limiter

Time is discrete; `hold`, `nap` and `windowLeft` count down together, in `Tick`.
The tenant grants `Budget` requests in a `Window`, others spend from the same
budget, and headers are true when they are sent but may arrive late, out of
order or not at all. `learnt` and `late` are history: that a response of this
window said "none left, reset then", and how many requests each caller sent in
the window after it. `Reserve` is `rate.Limiter.Wait` (external): a token is
promised at once and waited for.

### Backoff

One call that fails again and again, with any `Retry-After`, under any of a set
of policies. `Wrap` is the arithmetic of a `time.Duration`, which holds `-Half` to
`Half - 1`. It is applied to the shift (`Power` is the power of two), to the
seconds of a `Retry-After` (`parseRetryAfter`) and to the sum of the draw and half
the delay, so all three may come out negative. `Jitter` is the set of values `rand.Int64N` may
give, so that a panic is an empty set of delays. `sleepCtx` returns at once from
a sleep that is not positive.

### ToolTable and ToolCall

`ToolTable` is the whole table as data: 39 resources and 5 other tools, with
the slice each `Actions` field shares. `Register` walks it as the code does, one
resource a step; the shared slices are state, because `slices.DeleteFunc` writes
to its argument. After that a tool call is gated (`CallResource` checks the
handler's own list), routed (`route`, `apiRequest`, `specialRoute`), dispatched
to the client and answered (`Finish`, with the audit line). Client calls are
`CallContract`.

A body is there or not. An id is missing, a name, `.` or `..`: `url.PathEscape`
leaves the last two as they are, and `JoinPath` (`client.go:128`) cleans them to the
collection or its parent (`itemPath`). A path given to `netskope_api` is a pair:
what it `said`, which is the text the guards of `generic.go:40-69` compare, and what
the tenant `served`, which differs when the tenant decodes a spelling the
guards do not know. A path is of one of six kinds in either respect.

### Listing

A reader pages through a collection that does not change, with a limit of its
own or with the default. `Ask` bounds the query as its surface does:
`applyListDefaults` for a resource (with a `startIndex` for SCIM), `eventQuery`
for a search, nothing for `netskope_api`; `url_lookup` has no query and asks for the
urls that remain. `TenantAnswers` (external) honours the
limit or does not and wraps the list in one of six shapes; SCIM honours a count
only with a start, as `render.go:25` reports. `Return` is `capResult` in its two passes:
`capSlice` cuts to the number of items, `Halved` is the loop of `fit` that cuts to
the bytes, as a recursive function of the length it is down to, and each hands on the
flag `cut`. The marker follows from the flag alone, as in the code; that the flag
says the truth is what `MarkedWhenCut` checks.

### Sources and Config

A secret is known by the source it came from, so that the value of a setting
says which of them won. `resolveToken` and `resolveHTTPToken` are their sequences
of early returns: the first source that is named decides, also when it fails.
`Distinct` is the loop of `resolveGroups`, as a recursive function of how far it
has come. A credential can be missing, or be there and impossible to look at
(`hidden`): `credentialPath` treats both alike. In `Config` each step resolves
one setting, in the order of `Load`; `given` is what the step saw, which is what
the properties compare the outcome with.

### Server

| in the module | in the code |
|---|---|
| `main`: setup, serving, draining, collecting, exited | `run` before `NotifyContext`; the `select` of `ServeHTTP` (or `s.Run`); inside `Shutdown`; at `<-errc`; the process is gone |
| `listener`: starting, binding, open, closed; `errc` | the goroutine of `ServeHTTP` and its one send |
| `ctx` | the context of `signal.NotifyContext`, which is also the `BaseContext` |
| `down`, `grace` | `Shutdown` was called; what is left of `shutdownGrace` |
| `stage`, `route`, `kind`, `bearer` | a connection with its request: the pattern of the mux it matches; a tool call or an open stream; whether its token passes `staticVerifier` |
| `verb`, `effects`, `verdict` | the tool call of the request, as in `CallContract` |
| `ListenerStarts`, `Binds`, `AcceptFails` | `ListenAndServe`, which looks twice whether the server is shutting down |
| `Handler`, `RequireBearerToken` | the mux: the MCP handler, wrapped or not, at the path and below it, and the health endpoint |
| `Receive` | a header is read and the mux takes the request to its handler |
| `GiveUp`, `Leave`, `GoUnheard` | a handler whose context ended; a client that closed; a header that never came |

`select` is nondeterministic when both channels are ready. A tool call may run on
when its request is gone, and what it sent may reach the tenant after the
process died. The phase of `Lifecycle` is read off `main` and `listener`.

### Service

The options are those that reach `Load` or the listener, with what `extraArgs` and
`environment` can add to them: an address, a file or a variable that holds the API
token, a file with the bearer token, a tenant named a second time. An address is a
host with or without brackets. `Activate` copies the secret files into credentials
(`LoadCredential=`); `Load` runs the decisions of `Sources` with the arguments and
the environment the unit passes; `Listen` succeeds on an address that
`net.SplitHostPort` can take apart. `AfterExit` is `Restart=on-failure`. A secret
file may be missing, blank or good, and changes at any time. `Units` says which
settings an instance looks at.

## 3. What the runs check

| run | shows | bounds, and why they are enough |
|---|---|---|
| `send_calls` | `AtMostOnce`, `OkMeansApplied`, `RefusedMeansUntouched`, `SettledUnlessLost`, `DoubtOnlyAfterARetry`; `ImplementsContract`; `EveryCallReturns`, `CancelledCallReturns` | two calls, as all that calls share is `held` and `object`; one retry, as it is the second attempt that can go wrong; PUT and PATCH, one verb of each kind; one status of each kind. The theorems cover any number of each |
| `limiter_window` | `HoldCoversWindow`, `AtMostOneLateRequest`, `NobodyStarves` | two callers, a budget of 2 in a window of 3: out-of-order responses and a late caller need no more; the theorems cover the rest |
| `backoff_any` | `NeverPanics`, `WithinMax`, `AskedForIsHonoured`, `NotInLockstep` | Base and Max negative, zero and positive, ten attempts, a Duration of 9 bits (`Half` is 256) and a second of 7: the shift wraps to zero and to negative values, `Retry-After`s wrap to a negative, a small and a large delay, and of the values of Max 170 just leaves room for the jitter and 250 does not |
| `toolcall_gates` | `OnlyWhatIsAllowed`, `ReadOnlyIsReadOnly`, `EveryActionWorks`, `NoCollectionWideChange`, `AuditIsTrue` | the whole table, deletes allowed or not, three choices of groups; one tool call, since calls share nothing above the client, with every kind of id and path; two effects, one retry |
| `listing_pages` | `BoundedAtTheTenant`, `WithinCaps`, `MarkedWhenCut`, `PagingLosesNothing` | all five surfaces; up to five items of three sizes, 3 items (events: 4) and 7 bytes at most: each cap binds alone, both bind, one item exceeds the budget |
| `config_load` | `TokenIsTheOneAskedFor`, `GateIsUpWhenNamed`, `TenantIsTheOneNamed`, `ExplicitLevelWins` | every combination of the states of the sources; two good names of each kind, so that a flag and a variable can differ; lists of up to three groups, enough for a repetition, a blank and an unknown one |
| `server_stop` | `GateIsExact`, `CleanExitCutsNobody`, `ImplementsLifecycle`, `StopsWhenTold` | two requests, so that one may hold the shutdown while another ends or arrives; a grace of 1, so that it is begun and over; every route of the mux; both transports, with and without a gate. The theorems cover any number of requests and any grace |
| `service_unit` | `GateWhenConfigured`, `TokenFromTheCredential`, `ExposureIsAnnounced`, `StaysDownOnlyWhenTold`, `KeepsComingUp` | one address of each kind that the module and the process tell apart, as `listenAddress` and in `extraArgs`; every state of the secrets; every combination of the sources of the API token, of those of the bearer token and of those of the tenant, each around a plain unit (the theorems cover all of them together). Restarts are not counted |

`TypeOK` is checked in the runs of `Backoff`, `Listing` and `Config`, and for every
module it is a theorem (section 4). So are the inductive invariants, which TLC had
agreed to before they were proved. Four runs end in a violation: each
checks a sentence of the source that the code does not keep in every case.

| run | the sentence | what happens |
|---|---|---|
| `send_repeat` | `retry.go:24` "whether repeating the verb is harmless" | the abandoned first attempt of a PUT arrives after the retry made the call return success, and undoes what another call wrote since and was told was written |
| `listing_unmarked` | `README.md:352` "a capped result carries a `_truncation` marker" | the default limit makes the tenant cut the list, and nothing is left to mark |
| `server_drain` | `http.go:21` "bounds how long in-flight requests get to finish" | `BaseContext` cancels a tool call that waits for the tenant's answer to its POST as soon as the signal comes, with all of the grace left |
| `service_loopback` | `netskope-mcp.nix:212` "Address the MCP endpoint binds to", and `:43`, where `::1` is a loopback address | `::1:8231` cannot be split: the unit fails and is restarted for ever |

More was seen while modelling and has no run of its own:

* A caller that read `until` before a response extended it sends although
  `retry.go:148` says "at zero we hold every caller": once per caller and window,
  which is what `AtMostOneLateRequest` proves.
* With nothing to draw from (Base or Max not positive, or a shift that wrapped) the
  `Retry-After` is returned as it is and may exceed `Max` (`retry.go:74-77`), which
  otherwise cuts it. Without one the retry comes at once. `WithinMax` names the case,
  and `BeyondMaxOnlyWithoutADraw` proves that it is the only one.
* `retry.go:66` calls the backoff "full jitter", which is a draw from zero to the
  delay. The code draws from half the delay to one and a half times the delay
  (`retry.go:79`) and cuts that to `Max` (`retry.go:83`), so that at the cap half of
  the draws are the same delay. `NotInLockstep` says what is left of the aim of the
  comment: whenever the `Retry-After` is below what can be drawn, there are
  different delays.
* A `Retry-After` above `Max` is cut down to `Max` (`retry.go:83`), although
  `retry.go:66` calls the backoff "floored by" it; `AskedForIsHonoured` says "as
  far as Max allows".
* With a Max above two thirds of what a Duration holds, the draw and half the delay
  add up to a negative number (`retry.go:79`) and the retry comes at once. No
  default comes near it (`DefaultRetryPolicy` has a minute); a caller of `New` that
  means "no cap" by the largest Duration could.
* `generic.go:25` says "The generic tool only reads", but its guards compare the text
  of the path (`generic.go:40-69`). A spelling that they do not know and that the tenant
  decodes to a guarded name passes. `ReadOnlyIsReadOnly` speaks of paths that are
  served as they are spelled.
* The ids `.` and `..` survive the escaping and are cleaned away (`resource.go:111`,
  `client.go:128`): an update or a delete goes to the collection or to its parent,
  and a get reads the collection without a bound. `NoCollectionWideChange` names them.
* One item larger than the budget, and a list under an unknown key, pass the
  byte budget (`render.go:90`, `render.go:66`); `WithinCaps` names both.
* A `Retry-After` replaces a shorter jittered delay (`retry.go:80`), so callers
  throttled together wake up together.
* A write that the tenant applied, but whose call returned an error, has no audit
  line (`register.go:133`): `AuditIsTrue` holds, its converse does not. An
  example is a DELETE whose first answer was lost and whose retry gets a 404;
  `DoubtOnlyAfterARetry` says that only a retry can be in that position.
* The `BaseContext` that cancels requests in flight also ends open streams at
  once. Without it one open stream would use up the grace of every shutdown, and
  the exit status would say failed.

Deadlock is checked in `Limiter`, which never stops. Elsewhere it is not: calls,
retries, pages, settings and a process end when they are done, and a unit may be
stopped for good.

### Fairness

* `Send`: a call in `Timely` has timers that fire. The code gives each wait one:
  the backoff and the hold sleep in `sleepCtx`, the bucket in `rate.Limiter`, and
  `http.Client.Timeout` turns a missing answer into an error. For every call, a
  context that ended wakes the wait (`select` in `sleepCtx`, the context of
  `rl.Wait` and of the request). The tenant is never assumed to act or to answer.
* `Limiter`: time passes, and a goroutine whose timer fired runs. Nothing is
  assumed of the tenant or of the network: a caller may await an answer for ever.
* `Server`: the scheduler runs main and the listener's goroutine, `s.Run` returns
  when its context is done, a closed listener stops accepting, and the grace
  runs. Nothing is assumed of requests: neither that they arrive, nor that a
  client sends its header, nor that a handler ends.
* `Service`: systemd restarts after `RestartSec`, and a process that was asked to
  end or winds down ends (`StopsWhenTold`). `Load` and `Listen` are strongly fair:
  the process may be killed before it has loaded, but not every single time.

## 4. What is proved

Every theorem holds for all values of the constants that satisfy the named
assumptions of its module. An invariant `XInv` is the strengthening: it holds in
the first state, every step keeps it, and the properties follow from it.

**`SendProofs`**, for any number of calls, any sets of verbs and statuses and any
number of retries: `TypeCorrect`, `InvariantHolds`, the safety properties of
`send_calls` (`ActsAtMostOnce`, `SuccessIsApplied`, `RefusalIsTrue`,
`OnlyLostIsOpen`, `RefusalOfARetry`), the action property `SuccessIsFinal`, and
the refinement `SendImplementsContract`. None of the properties is inductive. That a POST acts
at most once depends on why the loop went round: only after a 429, which is
answered without acting. So `SendInv` says that a call of a verb that is not
idempotent always waits with a clean slate, nothing acted on and nothing on its
way (`CleanSlate`), and that the one request it may have in flight is the
current attempt (`OneShot`). `RefusalOfARetry` is about all verbs and needs an
invariant of its own, `RefusalInv`: no attempt after the current one travels or
was acted on, an answered current one has arrived, and a refused one was not acted
on. `SuccessIsFinal` follows from it too, and says what `send_repeat` leaves of
the sentence it refutes: an effect after a success comes from an earlier attempt
of a verb that is idempotent.

**`LimiterProofs`**, for any number of callers and any burst, budget and window:
`TypeCorrect`, `InvariantHolds`, `HoldLastsTheWindow`, `OneLateRequestEach`. The
hold covers the window because a response of the open window names a reset that
is not before its end (`FreshIsTrue`: the window only gets shorter while the
response travels), and because `observe` never shortens a hold. A caller sends
one late request at most because, having sent it, it reads a hold that covers
the window (`LateCallerIsHeld`).

**`BackoffProofs`**, for any policies a caller may supply, any number of attempts, any
`Retry-After` and any width of a Duration: `TypeCorrect`, `AlwaysADelay`,
`BeyondMaxOnlyWithoutADraw`, `RetryAfterHonoured`, `ApartInTime`. The properties speak of one sleep and the
attempt and `Retry-After` it was drawn for, so `BackoffInv` says just that the
last sleep is one `backoff` returned for them. The rest is arithmetic: what `Wrap`
leaves as it is, where the draw lies (`DelayBounds`), that two draws differ also when
they wrap (`TwoDelays`), and that powers of two are positive (`PowersArePositive`, by
induction).

**`ToolCallProofs`**, for any number of calls and any choice of groups, over the
real table of 39 resources: `TypeCorrect`, `AllWork`, `Allowed`, `ReadOnly`,
`OneObject`, `Audited`, from `ToolCallInv`. Its parts say that the tools are rows
of the table, each with just the actions of its own row the gates let through
(`ToolsInv`, which needs the shared slices to be as they were at first), that what
a call sent is what its tool, action and arguments route to (`RequestInv`), that a
client call acts as `CallContract` says (`ClientInv`), and what was audited
(`AuditInv`). What the table itself says is proved from its rows, table file by
table file: no two of all its rows have the same name and none has that of a
special tool (`RowsNamedApart`), so that a tool's name leads to its own row
(`FoundByName`); whatever the operator allows, something is left of each row; and
every action has a route (`EveryActionHasARoute`).

**`ListingProofs`**, for any collection, any limits and caps, and all five
surfaces: `TypeCorrect`, `TenantIsBounded`, `CapsHold`, `CutIsMarked`,
`NothingIsLost`, and `UnmarkedIsTheEnd`, which says what `listing_unmarked` leaves
of the marker: a page without one is the last, unless the tenant stopped at a limit
it honours. `ListingInv` adds to them what is on its way: a query is bounded as its
surface bounds it (`Bounded`), and the page of the tenant is a stretch of the
collection from where the reader asked, to the end or to the limit (`Answered`).
That a page with items in it never becomes an empty one, on which a reader would
stop or turn in circles, comes from `HalvedUntilItFits`: what the byte pass leaves
of any list, by induction on its length, which each turn halves. The same induction
carries the flag: it is set exactly if the pass dropped something, and
`CapResultCuts` joins it with the flag of the first pass, which is why a cut is
marked (`CutIsMarked`).

**`ConfigProofs`**, for any names of tenants, URLs, levels and groups:
`TypeCorrect`, `AskedForToken`, `GateOrNoServer`, `Usable`, `TheTenantNamed`,
`ExplicitLevel`. `ConfigInv` says what has been resolved, and from what, at each
setting `Load` has come to. `DistinctNames` is about the loop of `resolveGroups`:
of any list of names it keeps each that is not blank, once.

**`ServerProofs`**, for any number of requests, any verbs and any grace:
`TypeCorrect`, `TheGateIsExact`, `CleanExitIsClean`, and `Implements`, the
refinement of `Lifecycle`. A clean exit cuts nobody because main collects only
once no connection is in use, and none is accepted after `Shutdown` (`Spared`),
and because the goroutine that reports without an error before a signal does not
exist: it reports `nil` only after `Shutdown` (`Orderly`). The gate is exact
because the mux leads to the MCP handler by two routes, both of which go through
the wrap (`HandlerRight`), and because nobody whose header was not yet read has a
tool call (`LetIn`).

**`ServiceProofs`**, for any set of addresses and any units: `TypeCorrect`, `Gated`,
`FromTheCredential`, `Announced`, `DownOnlyWhenTold`. A unit with a
`bearerTokenFile` is gated because its process always has the credential to look
at (`Supplied`), so that the one way `credentialPath` has of finding none does
not arise; what was loaded follows from that, and from whatever `extraArgs` and
`environment` name above the credential (`LoadResolves`, `Loaded`).

Three of these proofs need an induction over data: the powers of two, the byte
pass and the loop over the named groups. The induction theorems of the library
take an operator as a parameter, which the provers do not instantiate, so these
modules argue from a least element instead: `<` on the naturals is well-founded
(`NatLessThanWellFounded`), a set of naturals that is not empty has a least member
(`WFMin`), so the set of those numbers for which a statement holds, if it has 0
and with each number the next, is all of `Nat` (`Induction`). That a recursive
function is defined at all, and is the one its equation describes, is proved the
same way, by extending it from `0..n` to `0..n + 1`.

Every safety property of the passing runs is a theorem, and so are both
refinements. Only model-checked is what says "eventually": `EveryCallReturns`,
`CancelledCallReturns`, `NobodyStarves`, `StopsWhenTold` and `KeepsComingUp`.
Liveness under fairness is out of the prover's reach here.

## 5. What is not modelled

* Wording, hints (also the hint about a flag `--rate-limit` at `errors.go:74`,
  which `Load` does not have), logging other than the audit line and the
  warning about an open listener, scrubbing of the token.
* Ids, paths, queries and bodies beyond their presence and kind; the rest of how an
  id is escaped; how a tenant decodes a path, of which `ToolCall` only knows that it may
  serve another than was said; the defaults of a get and the time window of an event search.
* What Go's HTTP transport does by itself: its own replay of a request on a
  connection that turned out to be closed, and redirects.
* `RateLimit-Reset` beyond the tenant's window in `Limiter`: the code does not cap
  it, and what ends such a hold is the call's context (`CancelledCallReturns`).
* The MCP SDK: JSON-RPC, sessions and their timeout, and the checks it makes on a
  loopback listener. `Server` lets a tool call end with its request or outlive
  it, and lets `s.Run` return with an error or without.
* systemd: the start limit (with `RestartSec=5` the default limit is not reached),
  the hardening options, users and the firewall; those assertions of the module
  that only compare options. A port moved by `extraArgs` away from
  `SocketBindAllow`. Other uses of `extraArgs` (`--version`, `--stdio`, a repeated or a
  malformed argument) and of `environment`; in particular `CREDENTIALS_DIRECTORY`
  is taken to be systemd's. Files that `extraArgs` or `environment` name are good or
  not for the life of a unit; they do not change as the secrets do.
* A mux whose patterns meet: a path that is `/` or `/healthz`.
* Packaging and tests, and the version, which is a constant.

`PROJECT.json` lists the hazards, with a note where no property covers one.

## 6. What is left

1. `Send` and `Limiter` composed, with the delays of `Backoff`: calls throttled
   together that wake in lockstep, and a hold without bound.
2. `Service` over `CallContract`: calls whose fate is open when the process is
   killed, across a restart.
3. `Listing` with a collection that changes between two pages.
4. Proofs: that `ToolCall` with `Send` for its client is `ToolCall` with the
   contract, as one theorem over a composed module; what `InFlightGetsTheGrace` is
   true of; the safety half of the liveness properties, a bound that each wait
   counts down.
