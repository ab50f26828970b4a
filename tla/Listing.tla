------------------------------ MODULE Listing ------------------------------
(***************************************************************************)
(* Lists, from the query to the result the model sees                      *)
(* (internal/tools/render.go): the tool bounds the query, the tenant       *)
(* answers a page, capResult and fit cut it down and mark it.              *)
(*                                                                         *)
(* Five surfaces return lists, and each bounds and caps in its own way:    *)
(*   list      a list action of a resource (resource.go)                   *)
(*   scim      a list action of a SCIM resource, where the limit is called *)
(*             count and the tenant ignores it without a startIndex        *)
(*   events    the event and alert searches (events.go)                    *)
(*   api       netskope_api, which passes the query on (generic.go)        *)
(*   lookup    url_lookup, which names what it wants in its body and has   *)
(*             no query: the list is of the urls that remain (intel.go)    *)
(*                                                                         *)
(* A reader pages through one collection, asking again from where the      *)
(* items it has been given end.  The collection does not change meanwhile; *)
(* an item is known by its place in it, and sizes gives the length of each *)
(* when encoded.                                                           *)
(***************************************************************************)
EXTENDS Integers, Sequences, Functions

CONSTANTS
    Collections,  \* the collections considered: sequences of item sizes
    Surfaces,     \* the surfaces a reader uses
    Limits,       \* what the reader may ask for itself
    MaxItems,     \* Resource.maxItems, and defaultMaxItems for the last two
    SomeEvents,   \* the limit of an event search that names none
    MaxEvents,    \* the largest limit of an event search
    MaxBytes      \* maxBytes

ASSUME CollectionsAssumption == \A s \in Collections : s \in Seq(Nat)
ASSUME SurfacesAssumption    == Surfaces \subseteq {"list", "scim", "events", "api", "lookup"}
ASSUME LimitsAssumption      == Limits \subseteq Nat \ {0}
ASSUME MaxItemsAssumption    == MaxItems \in Nat \ {0}
ASSUME EventsAssumption      == /\ MaxEvents \in Nat \ {0}
                                /\ SomeEvents \in 1..MaxEvents
ASSUME MaxBytesAssumption    == MaxBytes \in Nat

VARIABLES
    sizes,        \* the collection
    surface,      \* the surface the reader uses
    shape,        \* how the tenant wraps a list
    obeys,        \* whether the tenant honours the limit it is sent
    offset,       \* where the reader asks from next
    query,        \* the query on its way
    sent,         \* the page of the tenant: the places it covers
    result,       \* what the tool returned for it
    seen,         \* the items the reader was given, in order
    stage         \* "ask", "sent", "answered", "done"

vars == <<sizes, surface, shape, obeys, offset, query, sent, result, seen, stage>>

(***************************************************************************)
(* The envelopes of v2.  total says that the number of records comes with  *)
(* the list; a strange envelope holds its list under a key nobody knows.   *)
(***************************************************************************)
Shapes == [kind : {"bare", "data", "Resources"}, total : {FALSE}]
          \union [kind : {"data", "Resources"}, total : {TRUE}]
          \union [kind : {"strange"}, total : {FALSE}]

\* SCIM answers with Resources; netskope_api reads SCIM routes as well.
ShapesOf(s) ==
    {sh \in Shapes : CASE s = "scim" -> sh.kind = "Resources"
                       [] s = "api"  -> TRUE
                       [] OTHER      -> sh.kind # "Resources"}

(***************************************************************************)
(* What a query says about the page: its limit, 0 when it has none, and    *)
(* whether it names the place to start from.                               *)
(***************************************************************************)
Query(limit, start) == [limit |-> limit, start |-> start]
NoQuery == Query(0, FALSE)

None    == [truncated |-> FALSE, returned |-> 0, total |-> 0]
Page(items, marker) == [items |-> items, marker |-> marker]

Smaller(a, b) == IF a < b THEN a ELSE b
Larger(a, b)  == IF a > b THEN a ELSE b

\* The encoded length of the first n items of a list.
Size(items, n) == SumFunction([k \in 1..n |-> sizes[items[k]]])

----------------------------------------------------------------------------
\* Mutants: one more, to see whether there is more; a startIndex is left to
\* the reader.
OneMore(asked, start) ==
    Query(IF asked = 0 THEN MaxItems + 1 ELSE asked, start \/ surface = "scim")

CountAlone(asked, start) == Query(IF asked = 0 THEN MaxItems ELSE asked, start)

\* The reader's limit, or MaxItems.  For SCIM a startIndex comes with it.
applyListDefaults(asked, start) ==
    Query(IF asked = 0 THEN MaxItems ELSE asked, start \/ surface = "scim")

\* searchEvents: a limit of its own, within bounds.
eventQuery(asked, start) ==
    Query(IF asked = 0 THEN SomeEvents ELSE Smaller(asked, MaxEvents), start)

QueryFor(asked, start) ==
    CASE surface = "events" -> eventQuery(asked, start)
      [] surface = "api"    -> Query(asked, start)
      [] surface = "lookup" -> NoQuery
      [] OTHER              -> applyListDefaults(asked, start)

\* The max capResult is given.
Cap == IF surface = "events" THEN query.limit ELSE MaxItems

\* totalOf: what the envelope says, or the length of the page.
totalOf(items) == IF shape.total THEN Len(sizes) ELSE Len(items)

\* capSlice: the item cap, and whether it cut.
capSlice(items) ==
    IF Len(items) <= Cap THEN [items |-> items, cut |-> FALSE]
    ELSE [items |-> SubSeq(items, 1, Cap), cut |-> TRUE]

\* Mutants: the last item may go as well; a turn of the loop does not say that it
\* cut.
FitToNothing(items) ==
    LET halve[n \in 0..Len(items)] ==
          IF n = 0 \/ Size(items, n) <= MaxBytes THEN [kept |-> n, cut |-> FALSE]
          ELSE [halve[n \div 2] EXCEPT !.cut = TRUE]
    IN  halve[Len(items)]

SilentHalving(items) ==
    LET halve[n \in 0..Len(items)] ==
          IF n <= 1 \/ Size(items, n) <= MaxBytes THEN [kept |-> n, cut |-> FALSE]
          ELSE halve[n \div 2]
    IN  halve[Len(items)]

\* The byte pass of fit: halve the list until it fits or is one item.  Each turn
\* sets cut.
Halved(items) ==
    LET halve[n \in 0..Len(items)] ==
          IF n <= 1 \/ Size(items, n) <= MaxBytes THEN [kept |-> n, cut |-> FALSE]
          ELSE [halve[n \div 2] EXCEPT !.cut = TRUE]
    IN  halve[Len(items)]

\* fit: the byte pass, and a marker if either pass says that it cut.  If neither
\* does, an envelope is returned as it came, with the list it came with.
fit(envelope, items, cut, total) ==
    LET pass == Halved(items)
        kept == SubSeq(items, 1, pass.kept)
    IN  IF cut \/ pass.cut
        THEN Page(kept, [truncated |-> TRUE, returned |-> Len(kept), total |-> total])
        ELSE Page(IF shape.kind = "bare" THEN kept ELSE envelope, None)

\* Mutant: the list of a SCIM envelope is not found.
KnowsDataOnly(items) ==
    LET sliced == capSlice(items)
    IN  IF shape.kind \in {"strange", "Resources"} THEN Page(items, None)
        ELSE fit(items, sliced.items, sliced.cut, totalOf(items))

\* capSlice, then fit; a list under an unknown key passes untouched.
capResult(items) ==
    LET sliced == capSlice(items)
    IN  IF shape.kind = "strange" THEN Page(items, None)
        ELSE fit(items, sliced.items, sliced.cut, totalOf(items))

----------------------------------------------------------------------------
Init ==
    /\ sizes   \in Collections
    /\ surface \in Surfaces
    /\ shape   \in ShapesOf(surface)
    /\ obeys   \in BOOLEAN
    /\ offset = 0
    /\ query  = NoQuery
    /\ sent   = << >>
    /\ result = Page(<< >>, None)
    /\ seen   = << >>
    /\ stage  = "ask"

\* The reader asks, with a limit of its own (asked) or none (0).  It names the
\* place to start from, unless that is the first.
Ask(asked, start) ==
    /\ stage = "ask"
    /\ offset > 0 => start
    /\ query' = QueryFor(asked, start)
    /\ stage' = "sent"
    /\ UNCHANGED <<sizes, surface, shape, obeys, offset, sent, result, seen>>

\* The tenant honours a limit or not, SCIM only one that comes with a place to
\* start from.
Honoured ==
    obeys /\ query.limit > 0 /\ (shape.kind = "Resources" => query.start)

\* The tenant sends what it has from offset on.
TenantAnswers ==
    /\ stage = "sent"
    /\ LET last == IF Honoured
                   THEN Smaller(offset + query.limit, Len(sizes))
                   ELSE Len(sizes)
       IN  sent' = [i \in 1..(last - offset) |-> offset + i]
    /\ stage' = "answered"
    /\ UNCHANGED <<sizes, surface, shape, obeys, offset, query, result, seen>>

\* The tool returns the page, cut down and marked, and the reader takes it.
Return ==
    /\ stage = "answered"
    /\ result' = capResult(sent)
    /\ seen'   = seen \o result'.items
    /\ offset' = offset + Len(result'.items)
    /\ stage'  = IF result'.items = << >> THEN "done" ELSE "ask"
    /\ UNCHANGED <<sizes, surface, shape, obeys, query, sent>>

Next ==
    \/ \E asked \in Limits \union {0}, start \in BOOLEAN : Ask(asked, start)
    \/ TenantAnswers
    \/ Return

Spec == Init /\ [][Next]_vars

----------------------------------------------------------------------------
\* The tool has returned the page it was last sent.
Returned == stage = "done" \/ (stage = "ask" /\ offset > 0)

TypeOK ==
    /\ offset \in 0..Len(sizes)
    /\ query.limit \in IF surface = "events" THEN 0..MaxEvents
                      ELSE Limits \union {0, MaxItems}
    /\ query.start \in BOOLEAN
    /\ stage  \in {"ask", "sent", "answered", "done"}

\* "An unqualified list is bounded at the tenant rather than in our own memory"
\* (render.go), and so is a search, also when the reader asks for too much: a
\* tenant that honours limits never sends more than the surface's bound.
BoundedAtTheTenant ==
    obeys /\ stage = "answered" /\ surface \notin {"api", "lookup"} =>
        Len(sent) <= CASE surface = "events" -> MaxEvents
                       [] OTHER -> Larger(MaxItems, query.limit)

\* No page of an envelope the code knows holds more than its cap, nor more
\* than MaxBytes unless it is down to one item.
WithinCaps ==
    Returned /\ shape.kind # "strange" =>
        /\ Len(result.items) <= Cap
        /\ \/ Size(result.items, Len(result.items)) <= MaxBytes
           \/ Len(result.items) <= 1

\* "... so the model is told that what it received is partial" (render.go):
\* the flag that the two passes hand on is up exactly when something of what the
\* tenant sent is missing, also when nothing but the loop of the byte pass has cut
\* an array that arrived without an envelope, and the marker counts what is there.
MarkedWhenCut ==
    Returned =>
        /\ result.marker.truncated <=> Len(result.items) < Len(sent)
        /\ result.marker.truncated =>
              /\ result.marker.returned = Len(result.items)
              /\ result.marker.total > result.marker.returned

\* Caps drop nothing but the tail of a page: a reader that asks again from
\* where its items end is given each item of the collection, once, in order,
\* and an empty page only at the end.
PagingLosesNothing ==
    /\ seen = [i \in 1..offset |-> i]
    /\ stage = "done" => offset = Len(sizes)

\* "Without that marker a model reads a truncated list as a complete one"
\* (README.md): a list nobody bounded and that carries no marker is complete.
UnmarkedIsComplete ==
    Returned /\ sent # << >> /\ ~result.marker.truncated => offset = Len(sizes)
============================================================================
