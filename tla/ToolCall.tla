------------------------------ MODULE ToolCall ------------------------------
(***************************************************************************)
(* From the tool table to the tenant and back (internal/tools): Register   *)
(* and registerResource at start-up, then tool calls, each of which passes *)
(* the gate of its tool, is routed to a verb and a target, makes at most   *)
(* one call of the client, and leaves an audit line or not.                *)
(*                                                                         *)
(* The client is CallContract, which Send implements: what it does with    *)
(* the network is its own affair, what it promises is all a tool relies    *)
(* on.  Bodies are there or not; ids and paths are kinds of id and of path. *)
(***************************************************************************)
EXTENDS ToolTable, Naturals, FiniteSets

CONSTANTS
    Calls,       \* tool calls, each made once
    Verbs,       \* for CallContract: the verbs of HTTP the tools use,
    OnceVerbs,   \*   those that are not idempotent,
    Effects,     \*   and names for the effects one call may have
    GroupChoices \* the --tool-groups considered, sets of groups

ASSUME GroupChoicesAssumption == GroupChoices \subseteq SUBSET Groups

VARIABLES
    options,     \* Options: AllowDestructive and Groups
    position,    \* how far Register has come in the table
    slices,      \* what the shared slices hold; "" is a zeroed element
    tools,       \* registered resources and the actions each handler permits
    request,     \* what each call sends: its tool, argument, verb, target and kind
    reply,       \* what each call answered to the MCP client
    audit,       \* the calls with a line in the audit log
    verb, effects, verdict  \* the client calls (CallContract)

Client == INSTANCE CallContract

toolVars == <<options, position, slices, tools, request, reply, audit>>
vars     == <<toolVars, verb, effects, verdict>>

----------------------------------------------------------------------------
\* Action.Destructive and Action.Write.
Destructive(a) == a = "delete"
Write(a)       == a \notin {"list", "get"}

enabled(group) == options.groups = {} \/ group \in options.groups

Registered == position > Len(All)
Tools      == DOMAIN tools \union {t \in SpecialTools : enabled(SpecialGroup[t])}

\* The annotations a tool is advertised with.
ReadOnlyHint(t) == t \in SpecialTools \/ \A a \in tools[t] : ~Write(a)

ByName(name) == CHOOSE r \in {All[i] : i \in 1..Len(All)} : r.name = name

NoRequest == [tool |-> "none", action |-> "none", arg |-> "none",
              verb |-> "none", target |-> "none", kind |-> "none"]

Init ==
    /\ options  \in [destructive : BOOLEAN, groups : GroupChoices]
    /\ position = 1
    /\ slices   = [crud |-> crud, deployable |-> deployable]
    /\ tools    = << >>
    /\ request  = [c \in Calls |-> NoRequest]
    /\ reply    = [c \in Calls |-> "none"]
    /\ audit    = {}
    /\ Client!Init

----------------------------------------------------------------------------
(***************************************************************************)
(* Register: one step for each resource of the table.  registerResource    *)
(* filters a clone of the resource's slice.                                *)
(***************************************************************************)
Field(r) == IF r.slice = "own" THEN r.actions ELSE slices[r.slice]

Kept(as) == IF options.destructive THEN as ELSE {a \in as : ~Destructive(a)}

\* Mutant: the slice itself is filtered.  slices.DeleteFunc moves what is kept
\* to the front and zeroes the rest, for every resource that shares it.
FilterInPlace(r) ==
    /\ tools'  = IF Kept(Field(r)) = {} THEN tools
                 ELSE [t \in DOMAIN tools \union {r.name} |->
                          IF t = r.name THEN Kept(Field(r)) ELSE tools[t]]
    /\ slices' = IF r.slice = "own" \/ Kept(Field(r)) = Field(r) THEN slices
                 ELSE [slices EXCEPT ![r.slice] = Kept(Field(r)) \union {""}]

registerResource(r) ==
    /\ tools'  = IF Kept(Field(r)) = {} THEN tools
                 ELSE [t \in DOMAIN tools \union {r.name} |->
                          IF t = r.name THEN Kept(Field(r)) ELSE tools[t]]
    /\ UNCHANGED slices

Register ==
    /\ ~Registered
    /\ IF enabled(All[position].group)
       THEN registerResource(All[position])
       ELSE UNCHANGED <<tools, slices>>
    /\ position' = position + 1
    /\ UNCHANGED <<options, request, reply, audit, verb, effects, verdict>>

----------------------------------------------------------------------------
(***************************************************************************)
(* Where a call goes: a verb, a target and a kind, or NoRoute with an      *)
(* error.  The kinds say what a request does to the tenant when it acts:   *)
(*   read, lookup   nothing (a lookup is a read sent as a POST)            *)
(*   write          it changes configuration                               *)
(*   consume        it moves the cursor the tenant's SIEM reads from       *)
(*   secret         nothing, but the answer is a live credential           *)
(***************************************************************************)
Route(v, target, kind) == [verb |-> v, target |-> target, kind |-> kind]
NoRoute == Route("none", "none", "none")

\* The ids a call can carry: none, the name of an object, and the two names that
\* a path cleans away.
Ids == {"none", "name", "dot", "dotdot"}

\* Resource.itemPath and what JoinPath makes of it: url.PathEscape leaves "." and
\* ".." as they are, and then the path is the collection's, or its parent's.
itemPath(id) ==
    IF id = "dot" THEN "collection" ELSE IF id = "dotdot" THEN "parent" ELSE "item"

\* Mutant: delete and revert do not check that there is an id.
RouteUnchecked(r, action, id, body) ==
    CASE action = "list" -> Route("GET", "collection", "read")
      [] action = "get" /\ r.singleton    -> Route("GET", "collection", "read")
      [] action = "get" /\ id # "none"    -> Route("GET", itemPath(id), "read")
      [] action = "create" /\ body        -> Route("POST", "collection", "write")
      [] action = "update" /\ body /\ r.singleton -> Route(r.update, "collection", "write")
      [] action = "update" /\ body /\ id # "none" /\ ~r.singleton -> Route(r.update, itemPath(id), "write")
      [] action = "deploy"                -> Route("POST", "deploy", "write")
      [] action = "revert"                -> Route("POST", IF id = "none" THEN "collection" ELSE itemPath(id), "write")
      [] action = "delete"                -> Route("DELETE", IF id = "none" THEN "collection" ELSE itemPath(id), "write")
      [] OTHER -> NoRoute

\* Resource.route: the verb and target of an action, given the id and whether a
\* body came with it.  The target of a revert is what /revert is appended to.
route(r, action, id, body) ==
    CASE action = "list" -> Route("GET", "collection", "read")
      [] action = "get" /\ r.singleton    -> Route("GET", "collection", "read")
      [] action = "get" /\ id # "none"    -> Route("GET", itemPath(id), "read")
      [] action = "create" /\ body        -> Route("POST", "collection", "write")
      [] action = "update" /\ body /\ r.singleton -> Route(r.update, "collection", "write")
      [] action = "update" /\ body /\ id # "none" /\ ~r.singleton -> Route(r.update, itemPath(id), "write")
      [] action = "deploy"                -> Route("POST", "deploy", "write")
      [] action = "revert" /\ id # "none" -> Route("POST", itemPath(id), "write")
      [] action = "delete" /\ id # "none" -> Route("DELETE", itemPath(id), "write")
      [] OTHER -> NoRoute

\* The kinds of path netskope_api can be given: what its last segments are,
\* and what the tenant does when it is read or posted to.
ApiPaths == {"plain", "getlookup", "getclientlogs", "dataexport", "credential", "foreign"}
Methods  == {"GET", "POST", "PUT", "PATCH", "DELETE"}

\* A path as it is spelled, which is what the guards look at, and the route the
\* tenant serves for it.  The two differ when a segment is percent-encoded, or
\* when the tenant has renamed a route: the guards do not decode and know the
\* old names, so the spelling is one they have no objection to.
Paths == {p \in [said : ApiPaths, served : ApiPaths] :
             p.said = p.served \/ p.said \in {"plain", "getlookup"}}

KindOf(method, served) ==
    CASE served = "dataexport"  -> "consume"
      [] served = "credential"  -> "secret"
      [] method = "GET"         -> "read"
      [] method = "POST" /\ served = "getlookup" -> "lookup"
      [] OTHER                  -> "write"

\* apiPath: what is spelled as outside /api/v2/, as the dataexport iterator or as
\* a route that returns credentials is refused, for every method.
apiPath(said) == said \notin {"foreign", "dataexport", "credential"}

\* Mutant: every POST to a last segment that starts with get.
ApiAnyGet(method, p) ==
    IF apiPath(p.said) /\ (method = "GET" \/ (method = "POST" /\ p.said \in {"getlookup", "getclientlogs"}))
    THEN Route(method, p.served, KindOf(method, p.served)) ELSE NoRoute

\* apiRequest: GET, or POST to what is spelled as a lookup route.
apiRequest(method, p) ==
    IF apiPath(p.said) /\ (method = "GET" \/ (method = "POST" /\ p.said = "getlookup"))
    THEN Route(method, p.served, KindOf(method, p.served)) ELSE NoRoute

\* The other special tools have one route each.  valid says that the arguments
\* pass: a known event type and a window, 1 to 100 urls and a known category.
probe               == Route("GET", "collection", "read")
lookupURLs(valid)   == IF valid THEN Route("POST", "lookup", "lookup") ELSE NoRoute
searchEvents(valid) == IF valid THEN Route("GET", "events", "read") ELSE NoRoute

specialRoute(t, valid) ==
    CASE t = "tenant_info" -> probe
      [] t = "url_lookup"  -> lookupURLs(valid)
      [] t \in {"event_search", "alert_search"} -> searchEvents(valid)

----------------------------------------------------------------------------
(***************************************************************************)
(* A tool call.                                                            *)
(***************************************************************************)
Idle(c)    == reply[c] = "none" /\ request[c] = NoRequest
Calling(c) == reply[c] = "none" /\ request[c] # NoRequest

\* An error result, before anything was sent.
Refuse(c) ==
    /\ reply' = [reply EXCEPT ![c] = "error"]
    /\ UNCHANGED <<options, position, slices, tools, request, audit,
                   verb, effects, verdict>>

\* Client.Do is called with what route returned; arg is the id or the path that
\* came with the call.
Dispatch(c, tool, action, arg, rt) ==
    /\ request' = [request EXCEPT ![c] =
          [tool |-> tool, action |-> action, arg |-> arg,
           verb |-> rt.verb, target |-> rt.target, kind |-> rt.kind]]
    /\ Client!Begin(c, rt.verb)
    /\ UNCHANGED <<options, position, slices, tools, reply, audit>>

\* Mutant: the handler trusts the schema.
CallUngated(c, t, action, id, body) ==
    /\ Registered /\ Idle(c)
    /\ LET rt == route(ByName(t), action, id, body)
       IN  IF rt = NoRoute THEN Refuse(c) ELSE Dispatch(c, t, action, id, rt)

\* Resource.call: the handler's own list decides, whatever schema the client
\* saw or skipped.
CallResource(c, t, action, id, body) ==
    /\ Registered /\ Idle(c)
    /\ LET rt == route(ByName(t), action, id, body)
       IN  IF action \notin tools[t] \/ rt = NoRoute
           THEN Refuse(c)
           ELSE Dispatch(c, t, action, id, rt)

CallAPI(c, method, p) ==
    /\ Registered /\ Idle(c)
    /\ "api" \in Tools
    /\ LET rt == apiRequest(method, p)
       IN  IF rt = NoRoute THEN Refuse(c) ELSE Dispatch(c, "api", "none", p.said, rt)

CallSpecial(c, t, valid) ==
    /\ Registered /\ Idle(c)
    /\ LET rt == specialRoute(t, valid)
       IN  IF rt = NoRoute THEN Refuse(c) ELSE Dispatch(c, t, "none", "none", rt)

\* Mutant: the handler audits what it attempted.
FinishAuditsAttempts(c) ==
    /\ Calling(c)
    /\ verdict[c] # "none"
    /\ reply' = [reply EXCEPT ![c] = IF verdict[c] = "ok" THEN "ok" ELSE "error"]
    /\ audit' = IF Write(request[c].action) /\ request[c].tool \notin SpecialTools
                THEN audit \union {c} ELSE audit
    /\ UNCHANGED <<options, position, slices, tools, request,
                   verb, effects, verdict>>

\* Client.Do returned.  Only a resource's write that returned no error is
\* audited.  tenant_info never answers with an error: its ok stands for
\* "reachable", and a refusal with 403 counts as that.
Finish(c) ==
    /\ Calling(c)
    /\ verdict[c] # "none"
    /\ \/ reply' = [reply EXCEPT ![c] = IF verdict[c] = "ok" THEN "ok" ELSE "error"]
       \/ /\ request[c].tool = "tenant_info" /\ verdict[c] = "refused"
          /\ reply' = [reply EXCEPT ![c] = "ok"]
    /\ audit' = IF /\ verdict[c] = "ok"
                   /\ request[c].tool \notin SpecialTools
                   /\ Write(request[c].action)
                THEN audit \union {c} ELSE audit
    /\ UNCHANGED <<options, position, slices, tools, request,
                   verb, effects, verdict>>

\* The client at work on a call.
ClientStep(c) ==
    /\ \/ \E e \in Effects : Client!TakeEffect(c, e)
       \/ \E v \in Client!Verdicts : Client!Conclude(c, v)
    /\ UNCHANGED toolVars

Next ==
    \/ Register
    \/ \E c \in Calls :
          \/ \E t \in DOMAIN tools, action \in Actions \union {""},
                id \in Ids, body \in BOOLEAN :
                CallResource(c, t, action, id, body)
          \/ \E method \in Methods, p \in Paths : CallAPI(c, method, p)
          \/ \E t \in Tools \intersect (SpecialTools \ {"api"}), valid \in BOOLEAN :
                CallSpecial(c, t, valid)
          \/ Finish(c)
          \/ ClientStep(c)

Spec == Init /\ [][Next]_vars

----------------------------------------------------------------------------
TypeOK ==
    /\ options  \in [destructive : BOOLEAN, groups : GroupChoices]
    /\ position \in 1..(Len(All) + 1)
    /\ \A s \in DOMAIN slices : slices[s] \subseteq Actions
    /\ \A t \in DOMAIN tools : tools[t] \subseteq Actions
    /\ \A c \in Calls : reply[c] \in {"none", "ok", "error"}
    /\ audit \subseteq Calls

\* What the operator did not allow does not reach the tenant: no DELETE
\* without --allow-destructive, nothing from a tool outside the enabled
\* groups, through whatever tool and whatever the client was told.
OnlyWhatIsAllowed ==
    \A c \in Calls : request[c] # NoRequest =>
        /\ request[c].verb = "DELETE" => options.destructive
        /\ request[c].tool \in Tools

\* The tenant serves the route that the path of netskope_api spells.
AsSpelled(q) == q.tool = "api" => q.arg = q.target

\* A tool that is advertised as read-only sends nothing that changes the
\* tenant, and neither consumes a cursor nor fetches a credential.  For
\* netskope_api this is so of paths that are served as they are spelled: its
\* guards compare the text of the path.
ReadOnlyIsReadOnly ==
    \A c \in Calls :
        /\ request[c] # NoRequest
        /\ ReadOnlyHint(request[c].tool)
        /\ AsSpelled(request[c])
        => request[c].kind \in {"read", "lookup"}

\* A tool does what its description lists: each of its actions can reach the
\* tenant, with some arguments, and is one its resource supports.  A filter
\* of one resource leaves the others alone, whichever slice they share.
EveryActionWorks ==
    \A t \in DOMAIN tools :
        /\ tools[t] # {}
        /\ tools[t] = Kept(ByName(t).actions)
        /\ \A action \in tools[t] :
              \E id \in Ids, body \in BOOLEAN : route(ByName(t), action, id, body) # NoRoute

\* A request that removes, replaces or reverts names one object.  It goes to the
\* collection itself only for a setting that has no other path, and there or
\* beyond only for an id that is "." or "..", which route lets through.
NoCollectionWideChange ==
    \A c \in Calls :
        (request[c].verb \in {"DELETE", "PUT", "PATCH"} \/ request[c].action = "revert") =>
            \/ request[c].target = "item"
            \/ ByName(request[c].tool).singleton
            \/ request[c].arg \in {"dot", "dotdot"}

\* An audit line tells the truth: the write it reports took effect, and once
\* only when its verb must not be repeated.
AuditIsTrue ==
    \A c \in audit :
        /\ effects[c] # {}
        /\ request[c].kind = "write"
        /\ verb[c] \in OnceVerbs => Cardinality(effects[c]) = 1
=============================================================================
