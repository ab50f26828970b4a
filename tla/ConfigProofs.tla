---------------------------- MODULE ConfigProofs ----------------------------
(***************************************************************************)
(* Theorems about Load, for every choice of tenants, URLs, levels, groups  *)
(* and lists of groups.                                                    *)
(***************************************************************************)
EXTENDS Config, SequenceTheorems, WellFoundedInduction, TLAPS

(***************************************************************************)
(* Induction on the naturals, from the fact that < is well-founded.        *)
(***************************************************************************)

\* The pairs of naturals of which the first is smaller.
Below == {pair \in Nat \X Nat : pair[1] < pair[2]}

\* A set of naturals that is not empty has a least member.
LEMMA LeastNumber ==
  ASSUME NEW T, T \subseteq Nat, T # {}
  PROVE  \E x \in T : \A y \in T : x <= y
<1>1. IsWellFoundedOn(Below, Nat)
  BY NatLessThanWellFounded DEF OpToRel, Below
<1>2. PICK x \in T : \A y \in T : <<y, x>> \notin Below
  BY <1>1, WFMin
<1>3. ASSUME NEW y \in T PROVE x <= y
  <2>1. <<y, x>> \notin Below /\ x \in Nat /\ y \in Nat
    BY <1>2
  <2> QED
    BY <2>1 DEF Below
<1> QED
  BY <1>3

\* A set that has 0, and the successor of every natural it has, has them all.
LEMMA Induction ==
  ASSUME NEW G, 0 \in G, \A n \in Nat : n \in G => n + 1 \in G
  PROVE  Nat \subseteq G
<1> SUFFICES ASSUME Nat \ G # {} PROVE FALSE
  OBVIOUS
<1>1. PICK x \in Nat \ G : \A y \in Nat \ G : x <= y
  BY LeastNumber
<1>2. x - 1 \in Nat /\ x - 1 \notin G
  BY <1>1
<1> QED
  BY <1>1, <1>2

(***************************************************************************)
(* The loop of resolveGroups.                                              *)
(***************************************************************************)

\* A sequence without repetitions that has the members of T.
Lists(S, out, T) ==
    /\ out \in Seq(S)
    /\ \A i, j \in DOMAIN out : out[i] = out[j] => i = j
    /\ ToSet(out) = T

\* A new name goes to the end.
LEMMA OneMoreName ==
  ASSUME NEW S, NEW out, NEW T, Lists(S, out, T), NEW name \in S, name \notin T
  PROVE  Lists(S, Append(out, name), T \union {name})
<1> DEFINE more == Append(out, name)
<1>1. /\ out \in Seq(S) /\ Len(out) \in Nat /\ DOMAIN out = 1..Len(out)
      /\ \A i, j \in 1..Len(out) : out[i] = out[j] => i = j
  BY DEF Lists
<1>2. T = {out[i] : i \in 1..Len(out)}
  BY <1>1 DEF Lists, ToSet
<1>3. /\ more \in Seq(S) /\ Len(more) = Len(out) + 1
      /\ DOMAIN more = 1..(Len(out) + 1)
      /\ \A i \in 1..Len(out) : more[i] = out[i]
      /\ more[Len(out) + 1] = name
  <2>1. /\ more \in Seq(S) /\ Len(more) = Len(out) + 1
        /\ \A i \in 1..Len(out) : more[i] = out[i]
        /\ more[Len(out) + 1] = name
    BY <1>1, AppendProperties
  <2> HIDE DEF more
  <2> QED
    BY <1>1, <2>1
<1> HIDE DEF more
<1>4. \A i \in 1..Len(out) : more[i] # name
  BY <1>2, <1>3
<1>5. ASSUME NEW i \in 1..(Len(out) + 1), NEW j \in 1..(Len(out) + 1), more[i] = more[j]
      PROVE  i = j
  <2>1. CASE i <= Len(out) /\ j <= Len(out)
    <3>1. i \in 1..Len(out) /\ j \in 1..Len(out)
      BY <1>1, <2>1
    <3>2. out[i] = out[j]
      BY <1>3, <1>5, <3>1
    <3> QED
      BY <1>1, <3>1, <3>2
  <2>2. CASE i = Len(out) + 1 \/ j = Len(out) + 1
    <3>1. i # j => i \in 1..Len(out) \/ j \in 1..Len(out)
      BY <1>1, <2>2
    <3> QED
      BY <1>3, <1>4, <1>5, <2>2, <3>1
  <2> QED
    BY <1>1, <2>1, <2>2
<1>6. ToSet(more) = {more[i] : i \in 1..(Len(out) + 1)}
  BY <1>3 DEF ToSet
<1>7. {more[i] : i \in 1..(Len(out) + 1)} = {out[i] : i \in 1..Len(out)} \union {name}
  <2>1. \A i : i \in 1..(Len(out) + 1) <=> i \in 1..Len(out) \/ i = Len(out) + 1
    BY <1>1
  <2>2. ASSUME NEW x
        PROVE  (\E i \in 1..(Len(out) + 1) : x = more[i])
                  <=> (\E i \in 1..Len(out) : x = out[i]) \/ x = name
    BY <1>3, <2>1
  <2> QED
    BY <2>2
<1> QED
  BY <1>2, <1>3, <1>5, <1>6, <1>7 DEF Lists, more

\* resolveGroups keeps each name that is not blank once, for every list there
\* is: an induction along the loop over the list.
THEOREM DistinctNames ==
  ASSUME NEW S, NEW names \in Seq(S)
  PROVE  Lists(S, Distinct(names), ToSet(names) \ {""})
<1> DEFINE Step(out, i) == IF names[i] = "" \/ names[i] \in ToSet(out) THEN out
                           ELSE Append(out, names[i])
           Loop(f, m) == f = [i \in 0..m |-> IF i = 0 THEN << >> ELSE Step(f[i - 1], i)]
           some == CHOOSE f : Loop(f, Len(names))
           Before(i) == {names[j] : j \in 1..i} \ {""}
<1>1. Distinct(names) = some[Len(names)]
  BY DEF Distinct
<1>2. ASSUME NEW i \in 0..(Len(names) - 1), NEW out, Lists(S, out, Before(i))
      PROVE  Lists(S, Step(out, i + 1), Before(i + 1))
  <2>1. names[i + 1] \in S
    OBVIOUS
  <2>2. Before(i + 1) = Before(i) \union ({names[i + 1]} \ {""})
    <3>1. \A j : j \in 1..(i + 1) <=> j \in 1..i \/ j = i + 1
      OBVIOUS
    <3>2. ASSUME NEW x
          PROVE  (\E j \in 1..(i + 1) : x = names[j])
                    <=> (\E j \in 1..i : x = names[j]) \/ x = names[i + 1]
      BY <3>1
    <3> QED
      BY <3>2
  <2>3. ToSet(out) = Before(i)
    BY <1>2 DEF Lists
  <2> HIDE DEF Before
  <2>4. CASE names[i + 1] = "" \/ names[i + 1] \in Before(i)
    <3>1. Before(i + 1) = Before(i) /\ Step(out, i + 1) = out
      BY <2>2, <2>3, <2>4
    <3> QED
      BY <1>2, <3>1
  <2>5. CASE ~(names[i + 1] = "" \/ names[i + 1] \in Before(i))
    <3>1. /\ Before(i + 1) = Before(i) \union {names[i + 1]}
          /\ Step(out, i + 1) = Append(out, names[i + 1])
      BY <2>2, <2>3, <2>5
    <3>2. Lists(S, Append(out, names[i + 1]), Before(i) \union {names[i + 1]})
      BY <1>2, <2>1, <2>5, OneMoreName
    <3> QED
      BY <3>1, <3>2
  <2> QED
    BY <2>4, <2>5
<1> HIDE DEF Step
<1>3. \E f : Loop(f, Len(names))
  <2> DEFINE G == {m \in Nat : \E f : Loop(f, m)}
  <2>1. 0 \in G
    <3>1. Loop([i \in 0..0 |-> << >>], 0)
      OBVIOUS
    <3> QED
      BY <3>1
  <2>2. ASSUME NEW m \in Nat, m \in G PROVE m + 1 \in G
    <3>1. PICK f : Loop(f, m)
      BY <2>2
    <3> DEFINE g == [i \in 0..(m + 1) |-> IF i <= m THEN f[i] ELSE Step(f[m], m + 1)]
    <3>2. \A i \in 0..m : f[i] = IF i = 0 THEN << >> ELSE Step(f[i - 1], i)
      BY <3>1
    <3>3. ASSUME NEW i \in 0..(m + 1)
          PROVE  g[i] = IF i = 0 THEN << >> ELSE Step(g[i - 1], i)
      <4>1. CASE i <= m
        <5>1. g[i] = f[i] /\ (i # 0 => g[i - 1] = f[i - 1])
          BY <4>1
        <5> HIDE DEF g
        <5> QED
          BY <3>2, <4>1, <5>1
      <4>2. CASE i = m + 1
        <5>1. g[i] = Step(f[m], i) /\ g[i - 1] = f[m] /\ i # 0
          BY <4>2
        <5> HIDE DEF g
        <5> QED
          BY <5>1
      <4> QED
        BY <4>1, <4>2
    <3>4. Loop(g, m + 1)
      BY <3>3
    <3> HIDE DEF g, Loop
    <3> QED
      BY <3>4
  <2> HIDE DEF G
  <2>3. Nat \subseteq G
    BY <2>1, <2>2, Induction
  <2> QED
    BY <2>3 DEF G
<1>4. Loop(some, Len(names))
  BY <1>3
<1> HIDE DEF some
<1> DEFINE H == {i \in Nat : i <= Len(names) => Lists(S, some[i], Before(i))}
<1>5. Len(names) \in Nat
  OBVIOUS
<1>6. 0 \in H
  <2>1. some[0] = << >>
    BY <1>4, <1>5
  <2>2. Before(0) = {}
    OBVIOUS
  <2>3. Lists(S, << >>, {})
    BY DEF Lists, ToSet
  <2> HIDE DEF some, Before
  <2> QED
    BY <2>1, <2>2, <2>3
<1> HIDE DEF Before
<1>7. ASSUME NEW i \in Nat, i \in H PROVE i + 1 \in H
  <2>1. i + 1 <= Len(names) => some[i + 1] = Step(some[i], i + 1)
    BY <1>4, <1>5
  <2> QED
    BY <1>2, <1>5, <1>7, <2>1
<1>8. Nat \subseteq H
  <2> HIDE DEF H
  <2> QED
    BY <1>6, <1>7, Induction
<1>9. Before(Len(names)) = ToSet(names) \ {""}
  <2>1. DOMAIN names = 1..Len(names)
    OBVIOUS
  <2>2. ToSet(names) = {names[j] : j \in 1..Len(names)}
    BY <2>1 DEF ToSet
  <2> QED
    BY <2>2 DEF Before
<1>10. Lists(S, some[Len(names)], Before(Len(names)))
  BY <1>5, <1>8
<1> QED
  BY <1>1, <1>9, <1>10

(***************************************************************************)
(* What each decision is worth, when it is one.                            *)
(***************************************************************************)

\* A file that is no good decides nothing.
LEMMA GoodFile ==
  ASSUME NEW file, NEW from, readSecretFile(file, from).ok
  PROVE  file = "good" /\ readSecretFile(file, from) = Got(from)
BY DEF readSecretFile, Failed

\* It comes from the first source that is named.
LEMMA TokenAskedFor ==
  ASSUME NEW g, resolveToken(g).ok
  PROVE  AskedFor(g, resolveToken(g).value)
<1>1. CASE g.flag # "unset"
  BY <1>1, GoodFile DEF resolveToken, AskedFor, Got
<1>2. CASE g.flag = "unset" /\ g.file # "unset"
  BY <1>2, GoodFile DEF resolveToken, AskedFor, Got
<1>3. CASE g.flag = "unset" /\ g.file = "unset" /\ g.env = "set"
  BY <1>3 DEF resolveToken, AskedFor, Got
<1>4. CASE g.flag = "unset" /\ g.file = "unset" /\ g.env # "set"
  BY <1>4, GoodFile DEF resolveToken, AskedFor, Got, Failed
<1> QED
  BY <1>1, <1>2, <1>3, <1>4

\* Without a bearer token, none was named.
LEMMA GateAskedFor ==
  ASSUME NEW g, resolveHTTPToken(g).ok,
         g.flag # "unset" \/ g.file # "unset" \/ credentialPath(g.cred)
  PROVE  resolveHTTPToken(g).value # None
<1>1. CASE g.flag # "unset"
  BY <1>1, GoodFile DEF resolveHTTPToken, Got, None
<1>2. CASE g.flag = "unset" /\ g.file # "unset"
  BY <1>2, GoodFile DEF resolveHTTPToken, Got, None
<1>3. CASE g.flag = "unset" /\ g.file = "unset" /\ credentialPath(g.cred)
  BY <1>3, GoodFile DEF resolveHTTPToken, Got, None
<1> QED
  BY <1>1, <1>2, <1>3

\* The tenant is named by one kind of setting, and a flag of it wins.
Named(g, base) ==
    /\ base # None
    /\ {g.tenantFlag, g.tenantEnv} = {None} <=> {g.baseFlag, g.baseEnv} # {None}
    /\ \A flag \in {g.tenantFlag, g.baseFlag} : flag # None => base = flag

LEMMA TenantNamed ==
  ASSUME NEW g, resolveBaseURL(g).ok
  PROVE  Named(g, resolveBaseURL(g).value)
<1> DEFINE tenant == FirstOf(g.tenantFlag, g.tenantEnv)
           base   == FirstOf(g.baseFlag, g.baseEnv)
<1>1. /\ (tenant = None) # (base = None)
      /\ resolveBaseURL(g) = Got(IF tenant # None THEN tenant ELSE base)
  BY DEF resolveBaseURL, Failed
<1>2. resolveBaseURL(g).value = IF tenant # None THEN tenant ELSE base
  BY <1>1 DEF Got
<1>3. {g.tenantFlag, g.tenantEnv} = {None} <=> tenant = None
  BY DEF FirstOf
<1>4. {g.baseFlag, g.baseEnv} = {None} <=> base = None
  BY DEF FirstOf
<1>5. /\ g.tenantFlag # None => tenant = g.tenantFlag
      /\ g.baseFlag # None => base = g.baseFlag
  BY DEF FirstOf
<1> HIDE DEF tenant, base
<1> QED
  BY <1>1, <1>2, <1>3, <1>4, <1>5 DEF Named

\* A list of groups is known and names one.
LEMMA GroupsKnown ==
  ASSUME NEW g \in Seq(STRING), resolveGroups(g).ok
  PROVE  /\ resolveGroups(g).value # << >>
         /\ ToSet(resolveGroups(g).value) \subseteq KnownGroups
         /\ resolveGroups(g).value \in Seq(KnownGroups)
<1>1. /\ resolveGroups(g).value = Distinct(g)
      /\ Distinct(g) # << >> /\ ToSet(Distinct(g)) \subseteq KnownGroups
  BY DEF resolveGroups, Failed, Got
<1>2. Distinct(g) \in Seq(STRING)
  BY DistinctNames DEF Lists
<1>3. \A i \in 1..Len(Distinct(g)) : Distinct(g)[i] \in KnownGroups
  BY <1>1, <1>2 DEF ToSet
<1>4. Distinct(g) \in Seq(KnownGroups)
  BY <1>2, <1>3
<1> QED
  BY <1>1, <1>4

\* The values the other settings can take.
LEMMA ValuesTyped ==
  ASSUME NEW g
  PROVE  /\ g \in URLGivens /\ resolveBaseURL(g).ok =>
                resolveBaseURL(g).value \in Maybe(Tenants \union URLs)
         /\ parseLevel(g).ok => parseLevel(g).value \in Maybe(Levels)
         /\ resolveToken(g).ok =>
                resolveToken(g).value \in {None, "flag", "file", "environment", "credential"}
         /\ resolveHTTPToken(g).ok =>
                resolveHTTPToken(g).value \in {None, "flag", "file", "credential"}
<1>1. g \in URLGivens /\ resolveBaseURL(g).ok =>
         resolveBaseURL(g).value \in Maybe(Tenants \union URLs)
  BY DEF resolveBaseURL, FirstOf, URLGivens, Maybe, Failed, Got
<1>2. parseLevel(g).ok => parseLevel(g).value \in Maybe(Levels)
  BY DEF parseLevel, Maybe, Failed, Got
<1>3. resolveToken(g).ok =>
         resolveToken(g).value \in {None, "flag", "file", "environment", "credential"}
  BY DEF resolveToken, readSecretFile, Failed, Got
<1>4. resolveHTTPToken(g).ok =>
         resolveHTTPToken(g).value \in {None, "flag", "file", "credential"}
  BY DEF resolveHTTPToken, readSecretFile, Failed, Got
<1> QED
  BY <1>1, <1>2, <1>3, <1>4

(***************************************************************************)
(* The inductive invariant: what is settled at each point of Load.         *)
(***************************************************************************)
ConfigInv ==
    /\ DOMAIN cfg = {"mode", "base", "groups", "level", "token", "httpToken"}
    /\ pc = "groups" => Named(given, cfg.base)
    /\ pc \in {"groups", "level", "token", "http", "path", "loaded"} => cfg.base # None
    /\ pc \in {"level", "token", "http", "path", "loaded"} =>
          cfg.groups # << >> /\ ToSet(cfg.groups) \subseteq KnownGroups
    /\ ExplicitLevelWins
    /\ pc = "http" => AskedFor(given, cfg.token)
    /\ pc \in {"http", "path", "loaded"} => cfg.token # None
    /\ GateIsUpWhenNamed

\* Nothing is settled in the first state.
LEMMA InitInvariant == Init => ConfigInv
BY DEF Init, Unloaded, ConfigInv, ExplicitLevelWins, GateIsUpWhenNamed

\* Every step settles one more setting and leaves the others alone.
LEMMA StepInvariant == ConfigInv /\ [Next]_vars => ConfigInv'
<1> SUFFICES ASSUME ConfigInv, [Next]_vars PROVE ConfigInv'
  OBVIOUS
<1> USE DEF ConfigInv, ExplicitLevelWins, GateIsUpWhenNamed
<1>1. CASE Parse
  BY <1>1 DEF Parse
<1>2. CASE Mode
  BY <1>2 DEF Mode, Resolve
<1>3. CASE BaseURL
  <2>1. PICK g \in URLGivens : Resolve("url", "groups", "base", g, resolveBaseURL(g))
    BY <1>3 DEF BaseURL
  <2>2. CASE resolveBaseURL(g).ok
    <3>1. Named(g, resolveBaseURL(g).value)
      BY <2>2, TenantNamed
    <3> QED
      BY <2>1, <2>2, <3>1 DEF Resolve, Named
  <2>3. CASE ~resolveBaseURL(g).ok
    BY <2>1, <2>3 DEF Resolve
  <2> QED
    BY <2>2, <2>3
<1>4. CASE ToolGroups
  <2>1. PICK g \in GroupLists :
            Resolve("groups", "level", "groups", g, resolveGroups(g))
    BY <1>4 DEF ToolGroups
  <2>2. CASE resolveGroups(g).ok
    <3>1. /\ resolveGroups(g).value # << >>
          /\ ToSet(resolveGroups(g).value) \subseteq KnownGroups
      BY <2>2, GroupsKnown, GroupsAssumption
    <3> QED
      BY <2>1, <2>2, <3>1 DEF Resolve
  <2>3. CASE ~resolveGroups(g).ok
    BY <2>1, <2>3 DEF Resolve
  <2> QED
    BY <2>2, <2>3
<1>5. CASE LogLevel
  <2>1. PICK g \in LevelGivens : Resolve("level", "token", "level", g, parseLevel(g))
    BY <1>5 DEF LogLevel
  <2>2. parseLevel(g).ok =>
          parseLevel(g).value = IF g.flag # None THEN g.flag
                                ELSE IF g.env # None THEN g.env ELSE "info"
    BY DEF parseLevel, Failed, Got
  <2> QED
    BY <2>1, <2>2 DEF Resolve
<1>6. CASE Token
  <2>1. PICK g \in TokenGivens : Resolve("token", "http", "token", g, resolveToken(g))
    BY <1>6 DEF Token
  <2>2. CASE resolveToken(g).ok
    <3>1. AskedFor(g, resolveToken(g).value)
      BY <2>2, TokenAskedFor
    <3>2. resolveToken(g).value # None
      BY <3>1 DEF AskedFor, None
    <3> QED
      BY <2>1, <2>2, <3>1, <3>2 DEF Resolve
  <2>3. CASE ~resolveToken(g).ok
    BY <2>1, <2>3 DEF Resolve
  <2> QED
    BY <2>2, <2>3
<1>7. CASE HTTPAuthToken
  <2>1. PICK g \in HTTPGivens :
            Resolve("http", "path", "httpToken", g, resolveHTTPToken(g))
    BY <1>7 DEF HTTPAuthToken
  <2>2. /\ resolveHTTPToken(g).ok
        /\ g.flag # "unset" \/ g.file # "unset" \/ credentialPath(g.cred)
        => resolveHTTPToken(g).value # None
    BY GateAskedFor
  <2> QED
    BY <2>1, <2>2 DEF Resolve
<1>8. CASE Path
  BY <1>8 DEF Path
<1>9. CASE UNCHANGED vars
  BY <1>9 DEF vars
<1> QED
  BY <1>1, <1>2, <1>3, <1>4, <1>5, <1>6, <1>7, <1>8, <1>9 DEF Next

\* The invariant holds in every reachable state.
THEOREM Invariant == Spec => []ConfigInv
BY InitInvariant, StepInvariant, PTL DEF Spec

(***************************************************************************)
(* What follows.                                                           *)
(***************************************************************************)

\* Every setting keeps its type, the groups being known ones.
THEOREM TypeCorrect == Spec => []TypeOK
<1>1. Init => TypeOK
  BY DEF Init, Unloaded, TypeOK, Maybe
<1>2. ASSUME ConfigInv, TypeOK, [Next]_vars PROVE TypeOK'
  <2> USE <1>2 DEF TypeOK
  <2>1. CASE Parse
    BY <2>1 DEF Parse
  <2>2. CASE Mode
    BY <2>2 DEF Mode, Resolve, ConfigInv, Failed, Got
  <2>3. CASE BaseURL
    BY <2>3, ValuesTyped DEF BaseURL, Resolve, ConfigInv
  <2>4. CASE ToolGroups
    BY <2>4, GroupsKnown, GroupsAssumption DEF ToolGroups, Resolve, ConfigInv
  <2>5. CASE LogLevel
    BY <2>5, ValuesTyped DEF LogLevel, Resolve, ConfigInv
  <2>6. CASE Token
    BY <2>6, ValuesTyped DEF Token, Resolve, ConfigInv
  <2>7. CASE HTTPAuthToken
    BY <2>7, ValuesTyped DEF HTTPAuthToken, Resolve, ConfigInv
  <2>8. CASE Path
    BY <2>8 DEF Path
  <2>9. CASE UNCHANGED vars
    BY <2>9 DEF vars
  <2> QED
    BY <2>1, <2>2, <2>3, <2>4, <2>5, <2>6, <2>7, <2>8, <2>9 DEF Next
<1> QED
  BY <1>1, <1>2, Invariant, PTL DEF Spec

\* No mistyped path and no empty file is a reason to run on another token than
\* the operator asked for.
THEOREM AskedForToken == Spec => []TokenIsTheOneAskedFor
<1>1. ConfigInv => TokenIsTheOneAskedFor
  BY DEF ConfigInv, TokenIsTheOneAskedFor
<1> QED
  BY <1>1, Invariant, PTL

\* An operator who named a bearer token gets the gate or no server.
THEOREM GateOrNoServer == Spec => []GateIsUpWhenNamed
<1>1. ConfigInv => GateIsUpWhenNamed
  BY DEF ConfigInv
<1> QED
  BY <1>1, Invariant, PTL

\* What Load returns, netskope.New and tools.Register accept.
THEOREM Usable == Spec => []LoadedIsUsable
<1>1. ConfigInv => LoadedIsUsable
  BY DEF ConfigInv, LoadedIsUsable
<1> QED
  BY <1>1, Invariant, PTL

\* The server is bound to the tenant the command line names.
THEOREM TheTenantNamed == Spec => []TenantIsTheOneNamed
<1>1. ConfigInv => TenantIsTheOneNamed
  BY DEF ConfigInv, Named, TenantIsTheOneNamed
<1> QED
  BY <1>1, Invariant, PTL

\* The environment never overrides a level that was given as a flag.
THEOREM ExplicitLevel == Spec => []ExplicitLevelWins
<1>1. ConfigInv => ExplicitLevelWins
  BY DEF ConfigInv
<1> QED
  BY <1>1, Invariant, PTL
=============================================================================
