--------------------------- MODULE ServiceProofs ---------------------------
(***************************************************************************)
(* Theorems about Service, for every set of addresses.                     *)
(***************************************************************************)
EXTENDS Service, TLAPS

(***************************************************************************)
(* The inductive invariant.                                                *)
(***************************************************************************)

\* The parts of TypeOK that a step can disturb, with the fields spelled out.
Shape ==
    /\ opts \in Options
    /\ disk \in [api : Secrets, bearer : Secrets]
    /\ unit \in {"down", "running", "stopping", "waiting"}
    /\ creds \in [api : Credentials, bearer : Credentials]
    /\ phase \in {"starting", "up", "stopping", "gone"}
    /\ asked \in BOOLEAN
    /\ status \in {"none", "clean", "failed", "killed"}
    /\ conf \in [token : TokenSources, gate : BOOLEAN, warned : BOOLEAN]

\* systemd and the process agree on whether there is one.
Agreed ==
    /\ unit \in {"running", "stopping"} <=> phase # "gone"
    /\ unit = "stopping" => asked

\* A process that runs was given the credentials its unit has, and no others.
Supplied ==
    phase # "gone" =>
        /\ creds.api \in {"blank", "good"}
        /\ opts.bearer => creds.bearer \in {"blank", "good"}
        /\ ~opts.bearer => creds.bearer = "absent"

GateAskedFor ==
    opts.bearer \/ opts.bearerFlag # "unset" \/ opts.bearerFile # "unset"

\* What was loaded was loaded from them.
Loaded ==
    /\ phase = "up" => conf # NoConf
    /\ conf # NoConf =>
          /\ conf.token = "credential" <=> ~Overruled
          /\ conf.token = "credential" /\ phase # "gone" => creds.api = "good"
          /\ ~NoUse(opts.tokenFlag, opts.tokenFile)
          /\ GateAskedFor => conf.gate
          /\ ~conf.gate /\ ~loopback(Addr) => conf.warned

ServiceInv == Shape /\ Agreed /\ Supplied /\ Loaded

\* Before the first start there is no process.
LEMMA InitInvariant == Init => ServiceInv
<1> SUFFICES ASSUME Init PROVE ServiceInv
  OBVIOUS
<1>1. asked \in BOOLEAN /\ FALSE \in BOOLEAN
  BY DEF Init
<1>2. Shape
  BY <1>1, UnitsAssumption DEF Init, Shape, NoCreds, NoConf, TokenSources, Credentials
<1> QED
  BY <1>2 DEF Init, ServiceInv, Agreed, Supplied, Loaded

\* systemd starts the unit with all its credentials, or not at all.
LEMMA ActivateKeeps ==
  ASSUME ServiceInv, unit \in {"down", "waiting"}, Activate, UNCHANGED <<opts, disk>>
  PROVE  ServiceInv'
<1> DEFINE loaded == LoadCredential(disk)
<1>1. /\ loaded.api = disk.api
      /\ loaded.bearer = IF opts.bearer THEN disk.bearer ELSE "absent"
      /\ loaded \in [api : Secrets, bearer : Secrets \union {"absent"}]
  BY DEF LoadCredential, ServiceInv, Shape
<1>2. phase = "gone"
  BY DEF ServiceInv, Shape, Agreed
<1>3. CASE "missing" \in {loaded.api, loaded.bearer}
  <2>1. unit' = "waiting" /\ UNCHANGED <<creds, phase, asked, status, conf>>
    BY <1>3 DEF Activate
  <2>2. Shape'
    BY <2>1 DEF ServiceInv, Shape
  <2> QED
    BY <1>2, <2>1, <2>2
       DEF ServiceInv, Agreed, Supplied, Loaded, Addr, Overruled, GateAskedFor
<1>4. CASE "missing" \notin {loaded.api, loaded.bearer}
  <2>1. /\ unit' = "running" /\ creds' = loaded /\ phase' = "starting"
        /\ asked' = FALSE /\ status' = "none" /\ conf' = NoConf
    BY <1>4 DEF Activate
  <2> HIDE DEF loaded
  <2>2. asked' \in BOOLEAN
    BY <2>1
  <2>3. conf' \in [token : TokenSources, gate : BOOLEAN, warned : BOOLEAN]
    BY <2>1 DEF NoConf, TokenSources
  <2>4. creds' \in [api : Credentials, bearer : Credentials]
    BY <1>1, <1>4, <2>1 DEF Secrets, Credentials
  <2>5. Shape'
    BY <2>1, <2>2, <2>3, <2>4 DEF ServiceInv, Shape
  <2>6. /\ creds'.api \in {"blank", "good"}
        /\ opts.bearer => creds'.bearer \in {"blank", "good"}
        /\ ~opts.bearer => creds'.bearer = "absent"
    BY <1>1, <1>4, <2>1 DEF ServiceInv, Shape, Secrets
  <2>7. Supplied'
    BY <2>6 DEF Supplied
  <2> QED
    BY <2>1, <2>5, <2>7 DEF ServiceInv, Agreed, Loaded
<1> QED
  BY <1>3, <1>4

\* The process ends; only somebody who asked takes the unit down with it.
LEMMA GoneKeeps ==
  ASSUME ServiceInv, NEW s \in {"clean", "failed", "killed"}, Gone(s),
         s = "clean" => asked
  PROVE  ServiceInv' /\ (unit' = "down" => asked')
<1>1. /\ phase # "gone" /\ phase' = "gone" /\ status' = s
      /\ asked' = (asked \/ s = "killed")
      /\ UNCHANGED <<opts, disk, conf>> /\ creds' = NoCreds
      /\ unit' = IF unit = "running" /\ s = "failed" THEN "waiting" ELSE "down"
  BY DEF Gone, Process!Exit, AfterExit
<1>2. asked' \in BOOLEAN
  BY <1>1
<1>3. Shape'
  BY <1>1, <1>2 DEF ServiceInv, Shape, NoCreds, Credentials
<1>4. unit' = "down" => asked'
  BY <1>1 DEF ServiceInv, Agreed
<1> QED
  BY <1>1, <1>3, <1>4
     DEF ServiceInv, Agreed, Supplied, Loaded, Addr, Overruled, GateAskedFor

\* Load resolves what the unit supplied.
LEMMA LoadResolves ==
  ASSUME ServiceInv, phase # "gone", Token.ok, HTTPToken.ok
  PROVE  /\ Token.value \in TokenSources
         /\ Token.value = "credential" <=> ~Overruled
         /\ Token.value = "credential" => creds.api = "good"
         /\ ~NoUse(opts.tokenFlag, opts.tokenFile)
         /\ GateAskedFor => HTTPToken.value # None
<1>1. creds.api \in {"blank", "good"} /\ credentialPath(creds.api)
  BY DEF ServiceInv, Supplied, credentialPath
<1>2. Token = IF opts.tokenFlag # "unset" THEN readSecretFile(opts.tokenFlag, "flag")
              ELSE IF opts.tokenFile # "unset" THEN readSecretFile(opts.tokenFile, "file")
              ELSE IF opts.envToken = "set" THEN Got("environment")
              ELSE readSecretFile(creds.api, "credential")
  BY <1>1 DEF Token, resolveToken
<1>3. /\ Token.value \in TokenSources
      /\ Token.value = "credential" <=> ~Overruled
      /\ Token.value = "credential" => creds.api = "good"
      /\ ~NoUse(opts.tokenFlag, opts.tokenFile)
  <2>1. CASE opts.tokenFlag # "unset"
    <3>1. opts.tokenFlag = "good" /\ Token.value = "flag"
      BY <1>2, <2>1 DEF readSecretFile, Got, Failed
    <3> QED
      BY <3>1 DEF Overruled, NoUse, TokenSources
  <2>2. CASE opts.tokenFlag = "unset" /\ opts.tokenFile # "unset"
    <3>1. opts.tokenFile = "good" /\ Token.value = "file"
      BY <1>2, <2>2 DEF readSecretFile, Got, Failed
    <3> QED
      BY <2>2, <3>1 DEF Overruled, NoUse, TokenSources
  <2>3. CASE opts.tokenFlag = "unset" /\ opts.tokenFile = "unset"
    <3>1. CASE opts.envToken = "set"
      <4>1. Token.value = "environment"
        BY <1>2, <2>3, <3>1 DEF Got
      <4> QED
        BY <2>3, <3>1, <4>1 DEF Overruled, NoUse, TokenSources
    <3>2. CASE opts.envToken # "set"
      <4>1. creds.api = "good" /\ Token.value = "credential"
        BY <1>2, <2>3, <3>2 DEF readSecretFile, Got, Failed
      <4> QED
        BY <2>3, <3>2, <4>1 DEF Overruled, NoUse, TokenSources
    <3> QED
      BY <3>1, <3>2
  <2> QED
    BY <2>1, <2>2, <2>3
<1>4. ASSUME GateAskedFor PROVE HTTPToken.value # None
  <2>1. CASE opts.bearerFlag # "unset" \/ opts.bearerFile # "unset"
    BY <2>1 DEF HTTPToken, resolveHTTPToken, readSecretFile, Got, Failed, None
  <2>2. CASE opts.bearerFlag = "unset" /\ opts.bearerFile = "unset"
    <3>1. credentialPath(creds.bearer)
      BY <1>4, <2>2 DEF GateAskedFor, ServiceInv, Supplied, credentialPath
    <3>2. HTTPToken = readSecretFile(creds.bearer, "credential")
      BY <2>2, <3>1 DEF HTTPToken, resolveHTTPToken
    <3> QED
      BY <3>2 DEF readSecretFile, Got, Failed, None
  <2> QED
    BY <2>1, <2>2
<1> QED
  BY <1>3, <1>4

\* A step that leaves everything Loaded and Supplied look at alone.
LEMMA OthersKeep ==
  ASSUME ServiceInv, UNCHANGED <<opts, creds, conf>>, Shape', Agreed',
         phase' # "gone" => phase # "gone",
         phase' = "up" => conf # NoConf
  PROVE  ServiceInv'
BY DEF ServiceInv, Supplied, Loaded, Addr, Overruled, GateAskedFor

\* Every step keeps the invariant, and does not take the unit down unasked.
LEMMA StepInvariant ==
  ASSUME ServiceInv, [Next]_vars
  PROVE  /\ ServiceInv'
         /\ unit # "down" /\ unit' = "down" => asked' \/ unit = "waiting"
<1>1. CASE Start \/ Restart
  <2>1. unit \in {"down", "waiting"} /\ unit' \in {"waiting", "running"}
    BY <1>1 DEF Start, Restart, Activate
  <2> QED
    BY <1>1, <2>1, ActivateKeeps DEF Start, Restart
<1>2. CASE Load
  <2>1. CASE Gone("failed")
    BY <2>1, GoneKeeps
  <2>2. CASE ~Gone("failed")
    <3>1. /\ phase = "starting" /\ Token.ok /\ HTTPToken.ok
          /\ conf' = [token  |-> Token.value,
                      gate   |-> HTTPToken.value # None,
                      warned |-> HTTPToken.value = None /\ ~loopback(Addr)]
          /\ UNCHANGED <<opts, disk, unit, creds, phase, asked, status>>
      BY <1>2, <2>2 DEF Load
    <3>2. /\ Token.value \in TokenSources
          /\ Token.value = "credential" <=> ~Overruled
          /\ Token.value = "credential" => creds.api = "good"
          /\ ~NoUse(opts.tokenFlag, opts.tokenFile)
          /\ GateAskedFor => HTTPToken.value # None
      BY <3>1, LoadResolves
    <3>3. /\ conf'.token = Token.value
          /\ conf'.gate <=> HTTPToken.value # None
          /\ conf'.warned <=> HTTPToken.value = None /\ ~loopback(Addr)
      BY <3>1
    <3>4. conf' \in [token : TokenSources, gate : BOOLEAN, warned : BOOLEAN]
      <4>1. (HTTPToken.value # None) \in BOOLEAN
            /\ (HTTPToken.value = None /\ ~loopback(Addr)) \in BOOLEAN
        OBVIOUS
      <4> QED
        BY <3>1, <3>2, <4>1
    <3>5. Shape'
      BY <3>1, <3>4 DEF ServiceInv, Shape
    <3>6. Loaded'
      BY <3>1, <3>2, <3>3 DEF Loaded, Addr, loopback, Splits, Overruled, GateAskedFor
    <3> QED
      BY <3>1, <3>5, <3>6 DEF ServiceInv, Agreed, Supplied
  <2> QED
    BY <2>1, <2>2
<1>3. CASE Listen
  <2>1. CASE Gone("failed")
    BY <2>1, GoneKeeps
  <2>2. CASE ~Gone("failed")
    <3>1. /\ phase = "starting" /\ conf # NoConf /\ phase' = "up"
          /\ UNCHANGED <<opts, disk, unit, creds, conf, asked, status>>
      BY <1>3, <2>2 DEF Listen, Process!ComeUp
    <3>2. Shape' /\ Agreed'
      BY <3>1 DEF ServiceInv, Shape, Agreed
    <3> QED
      BY <3>1, <3>2, OthersKeep
  <2> QED
    BY <2>1, <2>2
<1>4. CASE WindsDown
  <2>1. /\ phase \in {"starting", "up"} /\ phase' = "stopping"
        /\ UNCHANGED <<opts, disk, unit, creds, conf, asked, status>>
    BY <1>4 DEF WindsDown, Process!WindDown
  <2>2. Shape' /\ Agreed'
    BY <2>1 DEF ServiceInv, Shape, Agreed
  <2> QED
    BY <2>1, <2>2, OthersKeep
<1>5. ASSUME NEW s \in {"clean", "failed", "killed"}, Ends(s)
      PROVE  ServiceInv' /\ (unit' = "down" => asked')
  BY <1>5, GoneKeeps DEF Ends
<1>6. CASE Stop
  <2>1. CASE unit = "running"
    <3>1. /\ unit' = "stopping" /\ asked' = TRUE /\ phase # "gone"
          /\ UNCHANGED <<opts, disk, creds, conf, phase, status>>
      BY <1>6, <2>1 DEF Stop, Process!BeAsked
    <3>2. asked' \in BOOLEAN
      BY <3>1
    <3>3. Shape' /\ Agreed'
      BY <3>1, <3>2 DEF ServiceInv, Shape, Agreed
    <3> QED
      BY <3>1, <3>3, OthersKeep DEF ServiceInv, Loaded
  <2>2. CASE unit # "running"
    <3>1. /\ unit = "waiting" /\ unit' = "down"
          /\ UNCHANGED <<opts, disk, creds, conf, phase, asked, status>>
      BY <1>6, <2>2 DEF Stop
    <3>2. Shape' /\ Agreed'
      BY <3>1 DEF ServiceInv, Shape, Agreed
    <3> QED
      BY <3>1, <3>2, OthersKeep DEF ServiceInv, Loaded
  <2> QED
    BY <2>1, <2>2
<1>7. CASE Terminate
  <2>1. /\ unit = "running" /\ asked' = TRUE
        /\ UNCHANGED <<opts, disk, unit, creds, conf, phase, status>>
    BY <1>7 DEF Terminate, Process!BeAsked
  <2>2. asked' \in BOOLEAN
    BY <2>1
  <2>3. Shape' /\ Agreed'
    BY <2>1, <2>2 DEF ServiceInv, Shape, Agreed
  <2> QED
    BY <2>1, <2>3, OthersKeep DEF ServiceInv, Loaded
<1>8. CASE SecretsChange
  <2>1. /\ disk' \in [api : Secrets, bearer : Secrets]
        /\ UNCHANGED <<opts, unit, creds, phase, asked, status, conf>>
    BY <1>8 DEF SecretsChange
  <2>2. Shape' /\ Agreed'
    BY <2>1 DEF ServiceInv, Shape, Agreed
  <2> QED
    BY <2>1, <2>2, OthersKeep DEF ServiceInv, Loaded
<1>9. CASE UNCHANGED vars
  <2>1. Shape' /\ Agreed'
    BY <1>9 DEF vars, ServiceInv, Shape, Agreed
  <2> QED
    BY <1>9, <2>1, OthersKeep DEF vars, ServiceInv, Loaded
<1> QED
  BY <1>1, <1>2, <1>3, <1>4, <1>5, <1>6, <1>7, <1>8, <1>9 DEF Next

\* The invariant holds in every reachable state.
THEOREM Invariant == Spec => []ServiceInv
<1>1. ServiceInv /\ [Next]_vars => ServiceInv'
  BY StepInvariant
<1> QED
  BY <1>1, InitInvariant, PTL DEF Spec

(***************************************************************************)
(* What follows.                                                           *)
(***************************************************************************)

\* Every variable keeps its type, and systemd and the process agree.
THEOREM TypeCorrect == Spec => []TypeOK
<1>1. ServiceInv => TypeOK
  BY DEF ServiceInv, Shape, Agreed, TypeOK
<1> QED
  BY <1>1, Invariant, PTL

\* Whatever becomes of the secret files, and whenever: a unit with a
\* bearerTokenFile, or with a bearer token from elsewhere, serves behind the gate
\* or not at all.
THEOREM Gated == Spec => []GateWhenConfigured
<1>1. ServiceInv => GateWhenConfigured
  BY DEF ServiceInv, Loaded, GateWhenConfigured, GateAskedFor
<1> QED
  BY <1>1, Invariant, PTL

\* Whatever extraArgs and environment say, and whatever becomes of the secret
\* files: the token is that of the credential, and a good one, unless something
\* above it in the ladder is named, which then has to be good.
THEOREM FromTheCredential == Spec => []TokenFromTheCredential
<1>1. ServiceInv => TokenFromTheCredential
  BY DEF ServiceInv, Loaded, TokenFromTheCredential
<1> QED
  BY <1>1, Invariant, PTL

\* Wherever extraArgs move the listener.
THEOREM Announced == Spec => []ExposureIsAnnounced
<1>1. ServiceInv => ExposureIsAnnounced
  BY DEF ServiceInv, Loaded, loopback, ExposureIsAnnounced
<1> QED
  BY <1>1, Invariant, PTL

\* No failure takes the unit down for good.
THEOREM DownOnlyWhenTold == Spec => StaysDownOnlyWhenTold
<1>1. ServiceInv /\ [Next]_vars =>
        [unit # "down" /\ unit' = "down" => asked' \/ unit = "waiting"]_vars
  BY StepInvariant
<1> QED
  BY <1>1, Invariant, PTL DEF Spec, StaysDownOnlyWhenTold
=============================================================================
