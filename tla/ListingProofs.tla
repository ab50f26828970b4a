--------------------------- MODULE ListingProofs ---------------------------
(***************************************************************************)
(* Theorems about Listing, for every collection, every limit a reader may  *)
(* ask for and every choice of the caps.                                   *)
(***************************************************************************)
EXTENDS Listing, SequenceTheorems, WellFoundedInduction, TLAPS

(***************************************************************************)
(* Induction on the naturals, from the fact that < is well-founded.        *)
(***************************************************************************)

\* The pairs of naturals of which the first is smaller.
Below == {pair \in Nat \X Nat : pair[1] < pair[2]}

\* A set of naturals that is not empty has a least member.
LEMMA LeastNumber ==
  ASSUME NEW T, T \subseteq Nat, T # {}
  PROVE  \E x \in T : \A y \in T : x <= y
<1>1. IsWellFoundedOn(Below, Nat)
  BY NatLessThanWellFounded DEF OpToRel, Below
<1>2. PICK x \in T : \A y \in T : <<y, x>> \notin Below
  BY <1>1, WFMin
<1>3. ASSUME NEW y \in T PROVE x <= y
  <2>1. <<y, x>> \notin Below /\ x \in Nat /\ y \in Nat
    BY <1>2
  <2> QED
    BY <2>1 DEF Below
<1> QED
  BY <1>3

\* A set that has 0, and the successor of every natural it has, has them all.
LEMMA Induction ==
  ASSUME NEW G, 0 \in G, \A n \in Nat : n \in G => n + 1 \in G
  PROVE  Nat \subseteq G
<1> SUFFICES ASSUME Nat \ G # {} PROVE FALSE
  OBVIOUS
<1>1. PICK x \in Nat \ G : \A y \in Nat \ G : x <= y
  BY LeastNumber
<1>2. x - 1 \in Nat /\ x - 1 \notin G
  BY <1>1
<1> QED
  BY <1>1, <1>2

(***************************************************************************)
(* What fit leaves of a list.                                              *)
(***************************************************************************)

\* The byte pass keeps items from the front, at least one if there is any, does
\* not stop before they fit or are down to one, and says that it cut exactly if it
\* did: an induction on the length of the list, which each turn halves.
THEOREM HalvedUntilItFits ==
  ASSUME NEW items, Len(items) \in Nat
  PROVE  /\ Halved(items).kept \in 0..Len(items)
         /\ Len(items) > 0 => Halved(items).kept > 0
         /\ Halved(items).kept <= 1 \/ Size(items, Halved(items).kept) <= MaxBytes
         /\ Halved(items).cut <=> Halved(items).kept < Len(items)
<1> DEFINE fits(n) == n <= 1 \/ Size(items, n) <= MaxBytes
           whole(n) == [kept |-> n, cut |-> FALSE]
           Halves(f, m) == f = [n \in 0..m |-> IF fits(n) THEN whole(n)
                                               ELSE [f[n \div 2] EXCEPT !.cut = TRUE]]
           halve == CHOOSE f : Halves(f, Len(items))
<1>1. Halved(items) = halve[Len(items)]
  BY DEF Halved
<1>2. \A n \in Nat : ~fits(n) => n > 1
  OBVIOUS
<1>3. fits(0)
  OBVIOUS
<1>4. \A n \in Nat : fits(n) => n <= 1 \/ Size(items, n) <= MaxBytes
  OBVIOUS
<1> HIDE DEF fits
<1>5. \A n \in Nat : n > 1 => n \div 2 \in 1..(n - 1)
  OBVIOUS
<1>6. \E f : Halves(f, Len(items))
  <2> DEFINE G == {m \in Nat : \E f : Halves(f, m)}
  <2>1. 0 \in G
    <3>1. Halves([n \in 0..0 |-> whole(0)], 0)
      BY <1>3
    <3> QED
      BY <3>1
  <2>2. ASSUME NEW m \in Nat, m \in G PROVE m + 1 \in G
    <3>1. PICK f : Halves(f, m)
      BY <2>2
    <3> HIDE DEF whole
    <3> DEFINE turn(x) == [x EXCEPT !.cut = TRUE]
    <3> DEFINE g == [n \in 0..(m + 1) |->
                      IF n <= m THEN f[n]
                      ELSE IF fits(n) THEN whole(n) ELSE turn(f[n \div 2])]
    <3>2. \A n \in 0..m : f[n] = IF fits(n) THEN whole(n) ELSE turn(f[n \div 2])
      BY <3>1
    <3> HIDE DEF turn
    <3>3. ASSUME NEW n \in 0..(m + 1)
          PROVE  g[n] = IF fits(n) THEN whole(n) ELSE turn(g[n \div 2])
      <4>1. ~fits(n) => n \div 2 \in 0..m
        BY <1>2, <1>5
      <4>2. \A k \in 0..m : g[k] = f[k]
        OBVIOUS
      <4>3. n > m => g[n] = IF fits(n) THEN whole(n) ELSE turn(f[n \div 2])
        OBVIOUS
      <4> HIDE DEF g
      <4> QED
        BY <3>2, <4>1, <4>2, <4>3
    <3>4. Halves(g, m + 1)
      BY <3>3 DEF turn
    <3> HIDE DEF g, Halves
    <3> QED
      BY <3>4
  <2> HIDE DEF G
  <2>3. Nat \subseteq G
    BY <2>1, <2>2, Induction
  <2> QED
    BY <2>3 DEF G
<1>7. Halves(halve, Len(items))
  BY <1>6
<1> HIDE DEF halve
<1>8. \A n \in 0..Len(items) :
         /\ fits(n) => halve[n] = whole(n)
         /\ ~fits(n) => halve[n] = [halve[n \div 2] EXCEPT !.cut = TRUE]
  BY <1>7
<1> DEFINE Good(n) == /\ halve[n] \in [kept : 0..n, cut : BOOLEAN]
                      /\ n > 0 => halve[n].kept > 0
                      /\ fits(halve[n].kept)
                      /\ halve[n].cut <=> halve[n].kept < n
           H == {m \in Nat : \A n \in 0..m : n <= Len(items) => Good(n)}
<1>9. ASSUME NEW n \in 0..Len(items), fits(n) PROVE Good(n)
  <2>1. halve[n] = [kept |-> n, cut |-> FALSE] /\ n \in 0..n
    <3>1. halve[n] = whole(n)
      BY <1>8, <1>9
    <3>2. n \in 0..n
      OBVIOUS
    <3> QED
      BY <3>1, <3>2
  <2>2. halve[n].kept = n /\ ~halve[n].cut
    BY <2>1
  <2>3. halve[n] \in [kept : 0..n, cut : BOOLEAN]
    BY <2>1
  <2>4. n > 0 => halve[n].kept > 0
    BY <2>2
  <2>5. fits(halve[n].kept)
    BY <1>9, <2>2
  <2>6. halve[n].cut <=> halve[n].kept < n
    <3>1. ~(n < n)
      BY <2>1
    <3> QED
      BY <2>2, <3>1
  <2> QED
    BY <2>3, <2>4, <2>5, <2>6
<1>10. 0 \in H
  <2>1. Good(0)
    BY <1>3, <1>9
  <2> HIDE DEF Good
  <2> QED
    BY <2>1
<1>11. ASSUME NEW m \in Nat, m \in H PROVE m + 1 \in H
  <2>1. ASSUME m + 1 <= Len(items) PROVE Good(m + 1)
    <3>1. CASE fits(m + 1)
      <4> HIDE DEF Good
      <4> QED
        BY <1>9, <2>1, <3>1
    <3>2. CASE ~fits(m + 1)
      <4> DEFINE half == (m + 1) \div 2
      <4>1. half \in 1..m /\ halve[m + 1] = [halve[half] EXCEPT !.cut = TRUE]
        <5>1. half \in 1..m
          BY <1>2, <1>5, <3>2
        <5>2. m + 1 \in 0..Len(items)
          BY <2>1
        <5> QED
          BY <1>8, <3>2, <5>1, <5>2
      <4> HIDE DEF half
      <4>2. Good(half)
        <5>1. half \in 0..m /\ half <= Len(items)
          BY <2>1, <4>1
        <5> HIDE DEF Good
        <5> QED
          BY <1>11, <5>1
      <4> DEFINE k == halve[half].kept
      <4>3. k \in 1..half /\ fits(k)
        BY <4>1, <4>2
      <4>4. halve[m + 1] = [kept |-> k, cut |-> TRUE]
        <5>1. halve[half] \in [kept : 0..half, cut : BOOLEAN]
          BY <4>2
        <5> QED
          BY <4>1, <5>1
      <4> HIDE DEF k
      <4>5. halve[m + 1].cut = TRUE /\ halve[m + 1].kept = k
        BY <4>4
      <4>6. k \in 0..(m + 1) /\ k > 0 /\ k < m + 1
        BY <4>1, <4>3
      <4>7. halve[m + 1] \in [kept : 0..(m + 1), cut : BOOLEAN]
        BY <4>4, <4>6
      <4>8. halve[m + 1].kept > 0 /\ fits(halve[m + 1].kept)
        BY <4>3, <4>5, <4>6
      <4>9. halve[m + 1].cut <=> halve[m + 1].kept < m + 1
        BY <4>5, <4>6
      <4> QED
        BY <4>7, <4>8, <4>9
    <3> QED
      BY <3>1, <3>2
  <2>2. \A n \in 0..(m + 1) : n \in 0..m \/ n = m + 1
    OBVIOUS
  <2> HIDE DEF Good
  <2> QED
    BY <1>11, <2>1, <2>2
<1>12. Nat \subseteq H
  <2> HIDE DEF H
  <2> QED
    BY <1>10, <1>11, Induction
<1>13. Good(Len(items))
  <2> HIDE DEF Good
  <2> QED
    BY <1>12
<1> QED
  BY <1>1, <1>4, <1>13

(***************************************************************************)
(* What capResult returns.                                                 *)
(***************************************************************************)

\* Kept is the front of a list of naturals, k long.
Front(kept, items, k) ==
    /\ kept \in Seq(Nat) /\ Len(kept) = k
    /\ \A i \in 1..k : kept[i] = items[i]

LEMMA FrontOf ==
  ASSUME NEW items \in Seq(Nat), NEW k \in 0..Len(items)
  PROVE  Front(SubSeq(items, 1, k), items, k)
BY SubSeqProperties DEF Front

\* A list in an envelope the code knows loses its tail: what exceeds the cap,
\* and then what does not fit; and the marker says so exactly if it does, because
\* both passes say when they cut.
LEMMA CapResultCuts ==
  ASSUME NEW items \in Seq(Nat), Cap \in Nat \ {0}, shape.kind # "strange"
  PROVE  \E k \in 0..Len(items) :
            /\ Front(capResult(items).items, items, k)
            /\ k <= Cap
            /\ Len(items) > 0 => k > 0
            /\ k <= 1 \/ Size(capResult(items).items, k) <= MaxBytes
            /\ capResult(items).marker =
                  IF k < Len(items)
                  THEN [truncated |-> TRUE, returned |-> k, total |-> totalOf(items)]
                  ELSE None
<1> DEFINE sliced == capSlice(items)
           c      == Len(sliced.items)
           pass   == Halved(sliced.items)
           k      == pass.kept
           kept   == SubSeq(sliced.items, 1, k)
<1>1. /\ c \in 0..Len(items) /\ c <= Cap /\ (Len(items) > 0 => c > 0)
      /\ Front(sliced.items, items, c)
      /\ sliced.cut <=> c < Len(items)
  <2>1. CASE Len(items) <= Cap
    <3>1. sliced = [items |-> items, cut |-> FALSE]
      BY <2>1 DEF capSlice
    <3>2. sliced.items = items /\ ~sliced.cut /\ c = Len(items)
      BY <3>1
    <3> QED
      BY <2>1, <3>2 DEF Front
  <2>2. CASE ~(Len(items) <= Cap)
    <3>1. Cap \in 0..Len(items) /\ Cap < Len(items)
      BY <2>2
    <3>2. sliced = [items |-> SubSeq(items, 1, Cap), cut |-> TRUE]
      BY <2>2 DEF capSlice
    <3>3. Front(sliced.items, items, Cap) /\ sliced.cut
      BY <3>1, <3>2, FrontOf
    <3>4. c = Cap
      BY <3>3 DEF Front
    <3> QED
      BY <3>1, <3>3, <3>4
  <2> QED
    BY <2>1, <2>2
<1>2. capResult(items) =
         IF sliced.cut \/ pass.cut
         THEN Page(kept, [truncated |-> TRUE, returned |-> Len(kept),
                          total |-> totalOf(items)])
         ELSE Page(IF shape.kind = "bare" THEN kept ELSE items, None)
  BY DEF capResult, fit
<1> HIDE DEF sliced
<1>3. sliced.items \in Seq(Nat) /\ c \in Nat
  BY <1>1 DEF Front
<1>4. /\ k \in 0..c /\ (c > 0 => k > 0)
      /\ k <= 1 \/ Size(sliced.items, k) <= MaxBytes
      /\ pass.cut <=> k < c
  BY <1>3, HalvedUntilItFits
<1> HIDE DEF pass
<1>5. Front(kept, sliced.items, k)
  BY <1>3, <1>4, FrontOf
<1> HIDE DEF kept, k, c
<1>6. Front(kept, items, k)
  <2>1. \A i \in 1..c : sliced.items[i] = items[i]
    BY <1>1 DEF Front
  <2>2. kept \in Seq(Nat) /\ Len(kept) = k /\ \A i \in 1..k : kept[i] = sliced.items[i]
    BY <1>5 DEF Front
  <2>3. \A i \in 1..k : i \in 1..c
    BY <1>3, <1>4
  <2> QED
    BY <2>1, <2>2, <2>3 DEF Front
<1>7. Size(kept, k) = Size(sliced.items, k)
  BY <1>4, <1>5 DEF Front, Size
<1>8. Len(kept) = k
  BY <1>5 DEF Front
<1>9. (sliced.cut \/ pass.cut) <=> k < Len(items)
  BY <1>1, <1>4
<1>10. /\ k \in 0..Len(items) /\ k <= Cap /\ (Len(items) > 0 => k > 0)
       /\ k <= 1 \/ Size(kept, k) <= MaxBytes
  BY <1>1, <1>4, <1>7
<1>11. capResult(items).items = kept
  <2>1. CASE k < Len(items)
    BY <1>2, <1>9, <2>1 DEF Page
  <2>2. CASE ~(k < Len(items))
    <3>1. kept = items
      BY <1>6, <1>10, <2>2 DEF Front
    <3>2. capResult(items) = Page(kept, None)
      BY <1>2, <1>9, <2>2, <3>1
    <3> QED
      BY <3>2 DEF Page
  <2> QED
    BY <2>1, <2>2
<1>12. capResult(items).marker =
          IF k < Len(items)
          THEN [truncated |-> TRUE, returned |-> k, total |-> totalOf(items)]
          ELSE None
  BY <1>2, <1>8, <1>9 DEF Page
<1> QED
  BY <1>6, <1>10, <1>11, <1>12

(***************************************************************************)
(* The inductive invariant.                                                *)
(***************************************************************************)

\* What the choices of the first state leave possible.
Settled ==
    /\ sizes \in Seq(Nat)
    /\ surface \in {"list", "scim", "events", "api", "lookup"}
    /\ surface = "scim" => shape.kind = "Resources"
    /\ surface \in {"list", "events"} => shape.kind # "Resources"
    /\ obeys \in BOOLEAN

\* The surfaces that bound a query have bounded the one on its way.
Bounded ==
    stage \in {"sent", "answered"} =>
        /\ surface = "events" => query.limit \in 1..MaxEvents
        /\ surface \in {"list", "scim"} => query.limit > 0
        /\ surface = "scim" => query.start

\* The tenant sent as many items as a limit it honours allows: there may be more.
StoppedAtTheLimit == Honoured /\ Len(sent) >= query.limit

\* UnmarkedIsComplete, which fails, where it holds: a page without a marker is the
\* last one unless the tenant stopped at the limit it was sent.
UnmarkedEndsTheList ==
    Returned /\ ~result.marker.truncated =>
        StoppedAtTheLimit \/ offset = Len(sizes)

\* The tenant's page is a stretch of the collection from offset on; it is empty
\* only at the end, goes to the end unless the tenant stopped before, and is
\* within the limit if the tenant honours that.
Answered ==
    stage = "answered" =>
        /\ sent \in Seq(Nat) /\ Len(sent) <= Len(sizes) - offset
        /\ \A i \in 1..Len(sent) : sent[i] = offset + i
        /\ Len(sent) = 0 => offset = Len(sizes)
        /\ Honoured => Len(sent) <= query.limit
        /\ StoppedAtTheLimit \/ offset + Len(sent) = Len(sizes)

ListingInv ==
    /\ Settled /\ TypeOK /\ Bounded /\ Answered
    /\ WithinCaps /\ MarkedWhenCut /\ PagingLosesNothing /\ UnmarkedEndsTheList

\* A limit is a natural.
LEMMA LimitsTyped ==
  ASSUME NEW limit \in IF surface = "events" THEN 0..MaxEvents
                       ELSE Limits \union {0, MaxItems}
  PROVE  limit \in Nat
<1>1. CASE surface = "events"
  BY <1>1, EventsAssumption
<1>2. CASE surface # "events"
  <2>1. limit \in Limits \/ limit = 0 \/ limit = MaxItems
    BY <1>2
  <2> QED
    BY <2>1, LimitsAssumption, MaxItemsAssumption
<1> QED
  BY <1>1, <1>2

\* Nothing has been asked for in the first state.
LEMMA InitInvariant == Init => ListingInv
<1> SUFFICES ASSUME Init PROVE ListingInv
  OBVIOUS
<1>1. Settled
  BY CollectionsAssumption, SurfacesAssumption DEF Init, Settled, ShapesOf, Shapes
<1>2. TypeOK
  BY <1>1, EventsAssumption DEF Init, Settled, TypeOK, NoQuery, Query
<1>3. Bounded /\ Answered /\ WithinCaps /\ MarkedWhenCut /\ UnmarkedEndsTheList
  BY DEF Init, Bounded, Answered, WithinCaps, MarkedWhenCut, UnmarkedEndsTheList,
         Returned
<1>4. PagingLosesNothing
  BY DEF Init, PagingLosesNothing
<1> QED
  BY <1>1, <1>2, <1>3, <1>4 DEF ListingInv

\* The tool bounds the query, whatever the reader asks for.
LEMMA AskKeeps ==
  ASSUME ListingInv, NEW asked \in Limits \union {0}, NEW start \in BOOLEAN,
         Ask(asked, start)
  PROVE  ListingInv'
<1>1. /\ stage' = "sent" /\ query' = QueryFor(asked, start)
      /\ UNCHANGED <<sizes, surface, shape, obeys, offset, sent, result, seen>>
      /\ Settled /\ TypeOK
  BY DEF Ask, ListingInv
<1>2. Settled'
  BY <1>1 DEF Settled
<1>3. asked \in Nat
  BY LimitsAssumption
<1>4. /\ TypeOK' /\ Bounded'
  <2>1. CASE surface = "events"
    <3>1. query' = Query(IF asked = 0 THEN SomeEvents ELSE Smaller(asked, MaxEvents), start)
      BY <1>1, <2>1 DEF QueryFor, eventQuery
    <3>2. query'.limit \in 1..MaxEvents /\ query'.start \in BOOLEAN
      BY <1>3, <3>1, EventsAssumption DEF Query, Smaller
    <3> QED
      BY <1>1, <2>1, <3>2, EventsAssumption DEF TypeOK, Bounded
  <2>2. CASE surface \in {"api", "lookup"}
    BY <1>1, <2>2 DEF TypeOK, Bounded, QueryFor, NoQuery, Query
  <2>3. CASE surface \in {"list", "scim"}
    <3>1. query' = Query(IF asked = 0 THEN MaxItems ELSE asked, start \/ surface = "scim")
      BY <1>1, <2>3 DEF QueryFor, applyListDefaults
    <3>2. /\ query'.limit \in Limits \union {0, MaxItems} /\ query'.limit > 0
          /\ query'.start \in BOOLEAN /\ (surface = "scim" => query'.start)
      <4>1. /\ query'.limit = IF asked = 0 THEN MaxItems ELSE asked
            /\ query'.start = (start \/ surface = "scim")
        BY <3>1 DEF Query
      <4>2. query'.limit \in Limits \union {0, MaxItems} /\ query'.limit > 0
        BY <1>3, <4>1, MaxItemsAssumption
      <4>3. query'.start \in BOOLEAN
        BY <4>1
      <4> QED
        BY <4>1, <4>2, <4>3
    <3> QED
      BY <1>1, <2>3, <3>2 DEF TypeOK, Bounded
  <2> QED
    BY <1>1, <2>1, <2>2, <2>3 DEF Settled
<1>5. Answered' /\ WithinCaps' /\ MarkedWhenCut' /\ UnmarkedEndsTheList'
  BY <1>1 DEF Answered, WithinCaps, MarkedWhenCut, UnmarkedEndsTheList, Returned
<1>6. PagingLosesNothing'
  BY <1>1 DEF ListingInv, PagingLosesNothing
<1> QED
  BY <1>2, <1>4, <1>5, <1>6 DEF ListingInv

\* The tenant's page starts where the reader asked it to.
LEMMA TenantKeeps == ListingInv /\ TenantAnswers => ListingInv'
<1> SUFFICES ASSUME ListingInv, TenantAnswers PROVE ListingInv'
  OBVIOUS
<1> DEFINE last == IF Honoured THEN Smaller(offset + query.limit, Len(sizes))
                   ELSE Len(sizes)
<1>1. /\ stage = "sent" /\ stage' = "answered"
      /\ sent' = [i \in 1..(last - offset) |-> offset + i]
      /\ UNCHANGED <<sizes, surface, shape, obeys, offset, query, result, seen>>
  BY DEF TenantAnswers
<1>2. Settled /\ TypeOK /\ Bounded
  BY DEF ListingInv
<1>3. query.limit \in Nat
  BY <1>2, LimitsTyped DEF TypeOK
<1>4. offset \in 0..Len(sizes) /\ Len(sizes) \in Nat
  BY <1>2 DEF TypeOK, Settled
<1>5. /\ last \in offset..Len(sizes)
      /\ last = offset => offset = Len(sizes)
      /\ Honoured => last - offset <= query.limit
      /\ (Honoured /\ last - offset >= query.limit) \/ last = Len(sizes)
  BY <1>3, <1>4 DEF Smaller, Honoured
<1> HIDE DEF last
<1>6. /\ sent' \in Seq(Nat) /\ Len(sent') = last - offset
      /\ \A i \in 1..Len(sent') : sent'[i] = offset + i
  BY <1>1, <1>4, <1>5
<1>7. Honoured' = Honoured
  BY <1>1 DEF Honoured
<1>8. Answered'
  BY <1>1, <1>4, <1>5, <1>6, <1>7 DEF Answered, StoppedAtTheLimit
<1>9. Settled' /\ TypeOK' /\ Bounded'
  BY <1>1, <1>2 DEF Settled, TypeOK, Bounded
<1>10. WithinCaps' /\ MarkedWhenCut' /\ UnmarkedEndsTheList'
  BY <1>1 DEF WithinCaps, MarkedWhenCut, UnmarkedEndsTheList, Returned
<1>11. PagingLosesNothing'
  BY <1>1 DEF ListingInv, PagingLosesNothing
<1> QED
  BY <1>8, <1>9, <1>10, <1>11 DEF ListingInv

\* What the tool returns of the page is its front, marked if it is not all.
LEMMA ReturnedFront ==
  ASSUME ListingInv, Return
  PROVE  \E k \in 0..Len(sent) :
            /\ Front(result'.items, sent, k)
            /\ Len(sent) > 0 => k > 0
            /\ shape.kind # "strange" =>
                  k <= Cap /\ (k <= 1 \/ Size(result'.items, k) <= MaxBytes)
            /\ result'.marker.truncated <=> k < Len(sent)
            /\ k < Len(sent) =>
                  result'.marker.returned = k /\ result'.marker.total > k
<1>1. /\ stage = "answered" /\ result' = capResult(sent)
      /\ Settled /\ TypeOK /\ Bounded /\ Answered
  BY DEF Return, ListingInv
<1>2. /\ sent \in Seq(Nat) /\ Len(sent) \in Nat
      /\ Len(sizes) \in Nat /\ Len(sent) <= Len(sizes)
  BY <1>1 DEF Answered, Settled, TypeOK
<1>3. CASE shape.kind = "strange"
  <2>1. result' = Page(sent, None)
    BY <1>1, <1>3 DEF capResult
  <2>2. Front(result'.items, sent, Len(sent)) /\ ~result'.marker.truncated
    BY <1>2, <2>1 DEF Page, None, Front
  <2> QED
    BY <1>2, <1>3, <2>2
<1>4. CASE shape.kind # "strange"
  <2>1. Cap \in Nat \ {0}
    BY <1>1, MaxItemsAssumption, EventsAssumption DEF Cap, Bounded
  <2>2. PICK k \in 0..Len(sent) :
            /\ Front(capResult(sent).items, sent, k)
            /\ k <= Cap
            /\ Len(sent) > 0 => k > 0
            /\ k <= 1 \/ Size(capResult(sent).items, k) <= MaxBytes
            /\ capResult(sent).marker =
                  IF k < Len(sent)
                  THEN [truncated |-> TRUE, returned |-> k, total |-> totalOf(sent)]
                  ELSE None
    BY <1>2, <1>4, <2>1, CapResultCuts
  <2>3. totalOf(sent) \in Nat /\ totalOf(sent) >= Len(sent)
    BY <1>2 DEF totalOf
  <2>4. CASE k < Len(sent)
    <3>1. result'.marker = [truncated |-> TRUE, returned |-> k, total |-> totalOf(sent)]
      BY <1>1, <2>2, <2>4
    <3>2. /\ result'.marker.truncated /\ result'.marker.returned = k
          /\ result'.marker.total > k
      BY <1>2, <2>3, <2>4, <3>1
    <3> QED
      BY <1>1, <2>2, <2>4, <3>2
  <2>5. CASE ~(k < Len(sent))
    <3>1. ~result'.marker.truncated
      BY <1>1, <2>2, <2>5 DEF None
    <3> QED
      BY <1>1, <2>2, <2>5, <3>1
  <2> QED
    BY <2>4, <2>5
<1> QED
  BY <1>3, <1>4

\* The reader is given the front of the page, and asks again from its end.
LEMMA ReturnKeeps == ListingInv /\ Return => ListingInv'
<1> SUFFICES ASSUME ListingInv, Return PROVE ListingInv'
  OBVIOUS
<1>1. /\ stage = "answered" /\ seen' = seen \o result'.items
      /\ offset' = offset + Len(result'.items)
      /\ stage' = IF result'.items = << >> THEN "done" ELSE "ask"
      /\ UNCHANGED <<sizes, surface, shape, obeys, query, sent>>
  BY DEF Return
<1>2. Settled /\ TypeOK /\ Answered /\ PagingLosesNothing
  BY DEF ListingInv
<1>3. /\ sent \in Seq(Nat) /\ Len(sent) \in Nat /\ Len(sizes) \in Nat
      /\ offset \in 0..Len(sizes) /\ Len(sent) <= Len(sizes) - offset
      /\ \A i \in 1..Len(sent) : sent[i] = offset + i
      /\ Len(sent) = 0 => offset = Len(sizes)
      /\ seen = [i \in 1..offset |-> i]
  BY <1>1, <1>2 DEF Settled, TypeOK, Answered, PagingLosesNothing
<1>4. PICK k \in 0..Len(sent) :
          /\ Front(result'.items, sent, k)
          /\ Len(sent) > 0 => k > 0
          /\ shape.kind # "strange" =>
                k <= Cap /\ (k <= 1 \/ Size(result'.items, k) <= MaxBytes)
          /\ result'.marker.truncated <=> k < Len(sent)
          /\ k < Len(sent) =>
                result'.marker.returned = k /\ result'.marker.total > k
  BY ReturnedFront
<1>5. /\ result'.items \in Seq(Nat) /\ Len(result'.items) = k /\ k \in Nat
      /\ \A i \in 1..k : result'.items[i] = sent[i]
  BY <1>3, <1>4 DEF Front
<1>6. offset' = offset + k /\ offset' \in 0..Len(sizes)
  BY <1>1, <1>3, <1>5
<1>7. result'.items = << >> <=> k = 0
  BY <1>5
<1>8. Settled' /\ TypeOK' /\ Bounded' /\ Answered'
  BY <1>1, <1>2, <1>6 DEF Settled, TypeOK, Bounded, Answered
<1>9. WithinCaps'
  <2>1. Cap' = Cap
    BY <1>1 DEF Cap
  <2>2. Size(result.items, Len(result.items))' = Size(result'.items, k)
    BY <1>1, <1>5 DEF Size
  <2> QED
    BY <1>1, <1>4, <1>5, <2>1, <2>2 DEF WithinCaps
<1>10. MarkedWhenCut'
  BY <1>1, <1>3, <1>4, <1>5 DEF MarkedWhenCut
<1>11. PagingLosesNothing'
  <2>1. seen \in Seq(Nat) /\ Len(seen) = offset
    BY <1>3
  <2>2. /\ seen' \in Seq(Nat) /\ Len(seen') = offset + k
        /\ \A i \in 1..(offset + k) :
              seen'[i] = IF i <= offset THEN seen[i] ELSE result'.items[i - offset]
    BY <1>1, <1>5, <2>1, ConcatProperties
  <2>3. ASSUME NEW i \in 1..(offset + k) PROVE seen'[i] = i
    <3>1. CASE i <= offset
      BY <1>3, <2>2, <3>1
    <3>2. CASE i > offset
      <4>1. i - offset \in 1..k /\ i - offset \in 1..Len(sent)
        BY <1>3, <1>4, <3>2
      <4>2. sent[i - offset] = i
        BY <1>3, <4>1
      <4>3. seen'[i] = result'.items[i - offset]
        BY <1>3, <2>2, <3>2
      <4> QED
        BY <1>5, <4>1, <4>2, <4>3
    <3> QED
      BY <1>3, <3>1, <3>2
  <2>4. seen' = [i \in 1..offset' |-> i]
    BY <1>6, <2>2, <2>3
  <2>5. stage' = "done" => offset' = Len(sizes)
    BY <1>1, <1>3, <1>4, <1>6, <1>7
  <2> QED
    BY <1>1, <2>4, <2>5 DEF PagingLosesNothing
<1>12. UnmarkedEndsTheList'
  <2>1. StoppedAtTheLimit' = StoppedAtTheLimit
    BY <1>1 DEF StoppedAtTheLimit, Honoured
  <2>2. StoppedAtTheLimit \/ offset + Len(sent) = Len(sizes)
    BY <1>1, <1>2 DEF Answered
  <2>3. ~result'.marker.truncated => k = Len(sent)
    BY <1>3, <1>4
  <2> QED
    BY <1>1, <1>6, <2>1, <2>2, <2>3 DEF UnmarkedEndsTheList
<1> QED
  BY <1>8, <1>9, <1>10, <1>11, <1>12 DEF ListingInv

\* The invariant holds in every reachable state.
THEOREM Invariant == Spec => []ListingInv
<1>1. ASSUME ListingInv, [Next]_vars PROVE ListingInv'
  <2>1. CASE UNCHANGED vars
    BY <1>1, <2>1 DEF vars, ListingInv, Settled, TypeOK, Bounded, Answered, Honoured,
                      WithinCaps, MarkedWhenCut, PagingLosesNothing, UnmarkedEndsTheList,
                      StoppedAtTheLimit, Returned, Cap, Size
  <2> QED
    BY <1>1, <2>1, AskKeeps, TenantKeeps, ReturnKeeps DEF Next
<1> QED
  BY <1>1, InitInvariant, PTL DEF Spec

(***************************************************************************)
(* What follows.                                                           *)
(***************************************************************************)

\* Every variable keeps its type; in particular the reader never asks from
\* beyond the end.
THEOREM TypeCorrect == Spec => []TypeOK
<1>1. ListingInv => TypeOK
  BY DEF ListingInv
<1> QED
  BY <1>1, Invariant, PTL

\* A tenant that honours limits never sends more than the surface's bound,
\* whatever the reader asked for.
THEOREM TenantIsBounded == Spec => []BoundedAtTheTenant
<1>1. ASSUME ListingInv, obeys, stage = "answered", surface \notin {"api", "lookup"}
      PROVE  Len(sent) <= CASE surface = "events" -> MaxEvents
                            [] OTHER -> Larger(MaxItems, query.limit)
  <2>1. Settled /\ TypeOK /\ Bounded /\ Answered
    BY <1>1 DEF ListingInv
  <2>2. query.limit \in Nat
    BY <2>1, LimitsTyped DEF TypeOK
  <2>3. Honoured
    BY <1>1, <2>1, <2>2 DEF Honoured, Settled, Bounded
  <2>4. Len(sent) \in Nat /\ Len(sent) <= query.limit
    BY <1>1, <2>1, <2>3 DEF Answered
  <2>5. CASE surface = "events"
    BY <1>1, <2>1, <2>4, <2>5, EventsAssumption DEF Bounded
  <2>6. CASE surface # "events"
    BY <2>2, <2>4, <2>6, MaxItemsAssumption DEF Larger
  <2> QED
    BY <2>5, <2>6
<1>2. ListingInv => BoundedAtTheTenant
  BY <1>1 DEF BoundedAtTheTenant
<1> QED
  BY <1>2, Invariant, PTL

\* No page of an envelope the code knows exceeds its caps.
THEOREM CapsHold == Spec => []WithinCaps
<1>1. ListingInv => WithinCaps
  BY DEF ListingInv
<1> QED
  BY <1>1, Invariant, PTL

\* The model is told exactly when what it received is partial.
THEOREM CutIsMarked == Spec => []MarkedWhenCut
<1>1. ListingInv => MarkedWhenCut
  BY DEF ListingInv
<1> QED
  BY <1>1, Invariant, PTL

\* What the marker can be relied on for: a page without one ends the list, unless
\* the tenant itself stopped at the limit it was sent, which the tool cannot see.
THEOREM UnmarkedIsTheEnd == Spec => []UnmarkedEndsTheList
<1>1. ListingInv => UnmarkedEndsTheList
  BY DEF ListingInv
<1> QED
  BY <1>1, Invariant, PTL

\* A reader that goes on from where its items end is given each item once, in
\* order, and an empty page only at the end.
THEOREM NothingIsLost == Spec => []PagingLosesNothing
<1>1. ListingInv => PagingLosesNothing
  BY DEF ListingInv
<1> QED
  BY <1>1, Invariant, PTL
=============================================================================
