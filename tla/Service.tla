------------------------------ MODULE Service ------------------------------
(***************************************************************************)
(* The systemd unit of modules/netskope-mcp.nix around the process: the    *)
(* options an operator sets, which the module asserts on; the secrets on   *)
(* disk, which systemd copies into credentials at every start; Load, with  *)
(* the arguments and the environment of the unit; and the restarts.        *)
(*                                                                         *)
(* The process behaves as Lifecycle.  systemd is outside src: what is used *)
(* of it is LoadCredential, Type=exec and Restart=on-failure.              *)
(***************************************************************************)
EXTENDS Sources

CONSTANTS
    Addresses,    \* what listenAddress, or an --addr in extraArgs, may say
    NoAddr,       \* extraArgs has no --addr
    Units         \* the settings of the module that are looked at

ASSUME NoAddrAssumption == NoAddr \notin Addresses

(***************************************************************************)
(* An address is a host, in brackets or not; the port is appended to it.   *)
(* near holds the hosts that only this machine reaches.                    *)
(***************************************************************************)
Near     == {"127.0.0.1", "localhost", "::1"}
Colons   == {"::1", "::"}
Address(h, b) == [host |-> h, brackets |-> b]

\* isLoopback of the module, which looks at the option as it is written.
isLoopback(a) == ~a.brackets /\ a.host \in Near \union {"127.example.net"}

\* net.SplitHostPort finds the port of "host:port", and net.Listen, which
\* calls it, an address to listen on.
Splits(a) == a.host \in Colons => a.brackets

\* Mutant: what looks like loopback to the module does so to main.
LooksLikeLoopback(a) == isLoopback(a)

\* loopback of main: what does not split is taken as a host by itself, and
\* ::1 with a port appended is another address.
loopback(a) == Splits(a) /\ a.host \in Near

----------------------------------------------------------------------------
VARIABLES
    opts,         \* the options of the module
    disk,         \* the secret files: apiTokenFile and bearerTokenFile
    unit,         \* "down", "running", "stopping", "waiting" (to restart)
    creds,        \* the credentials of the running process
    phase, asked, status,    \* the process: Lifecycle
    conf          \* what Load resolved

vars == <<opts, disk, unit, creds, phase, asked, status, conf>>

Process == INSTANCE Lifecycle

\* The options, with what extraArgs and environment may add to them and the
\* process looks at: an address, files that hold the API token or the bearer
\* token (a flag or a variable names one), the API token itself, and the
\* tenant, which is named in one way by the module's own flag.
Options ==
    [listen : Addresses, extraAddr : Addresses \union {NoAddr}, bearer : BOOLEAN,
     tokenFlag : Files, tokenFile : Files, envToken : Values,
     bearerFlag : Files, bearerFile : Files,
     flags : SUBSET {"tenant", "baseUrl"} \ {{}},
     env : SUBSET {"tenant", "baseUrl"}]

ASSUME UnitsAssumption == Units \subseteq Options

\* What a secret file holds: LoadCredential needs a file, and takes any.
Secrets == {"missing", "blank", "good"}

TokenSources == {None, "flag", "file", "environment", "credential"}

NoCreds == [api |-> "nowhere", bearer |-> "nowhere"]
NoConf  == [token |-> None, gate |-> FALSE, warned |-> FALSE]

\* serveArgs: extraArgs come last, and the last --addr counts.
Addr == IF opts.extraAddr = NoAddr THEN opts.listen ELSE opts.extraAddr

TypeOK ==
    /\ opts   \in Options
    /\ disk   \in [api : Secrets, bearer : Secrets]
    /\ unit   \in {"down", "running", "stopping", "waiting"}
    /\ creds  \in [api : Credentials, bearer : Credentials]
    /\ phase  \in {"starting", "up", "stopping", "gone"}
    /\ asked  \in BOOLEAN
    /\ status \in {"none", "clean", "failed", "killed"}
    /\ conf   \in [token : TokenSources, gate : BOOLEAN, warned : BOOLEAN]
    /\ unit \in {"running", "stopping"} <=> phase # "gone"

\* Before the first start there is no process.
Init ==
    /\ opts   \in Units
    /\ disk   \in [api : Secrets, bearer : Secrets]
    /\ unit   = "down"
    /\ creds  = NoCreds
    /\ phase  = "gone"
    /\ asked  = FALSE
    /\ status = "none"
    /\ conf   = NoConf

----------------------------------------------------------------------------
\* Mutant: the bearer token stays on disk.
OnlyTheAPIToken(secret) == [api |-> secret.api, bearer |-> "absent"]

\* LoadCredential=: api-token always, http-token when bearerTokenFile is set.
LoadCredential(secret) ==
    [api |-> secret.api, bearer |-> IF opts.bearer THEN secret.bearer ELSE "absent"]

\* systemd starts the unit: the credentials are copied and the process is
\* executed.  A file that is missing fails the start.
Activate ==
    LET loaded == LoadCredential(disk)
    IN  IF "missing" \in {loaded.api, loaded.bearer}
        THEN /\ unit' = "waiting"
             /\ UNCHANGED <<creds, phase, asked, status, conf>>
        ELSE /\ unit'   = "running"
             /\ creds'  = loaded
             /\ phase'  = "starting"
             /\ asked'  = FALSE
             /\ status' = "none"
             /\ conf'   = NoConf

\* At boot, or by hand.
Start ==
    /\ unit = "down"
    /\ Activate
    /\ UNCHANGED <<opts, disk>>

\* RestartSec is over.
Restart ==
    /\ unit = "waiting"
    /\ Activate
    /\ UNCHANGED <<opts, disk>>

\* Mutant: a failure is the end of it.
NeverRestarts(s) == "down"

\* Restart=on-failure: not after a clean status, nor after the signal of a
\* stop; and never after systemctl stop.
AfterExit(s) ==
    IF unit = "running" /\ s = "failed" THEN "waiting" ELSE "down"

\* The process is gone, and its credentials with it.
Gone(s) ==
    /\ Process!Exit(s)
    /\ unit'  = AfterExit(s)
    /\ creds' = NoCreds
    /\ UNCHANGED <<opts, disk, conf>>

\* The tenant of a flag or a variable, if it names one in this way.
Named(way, names, from) == IF way \in names THEN from ELSE None

BaseURL ==
    resolveBaseURL([tenantFlag |-> Named("tenant", opts.flags, "flag"),
                    tenantEnv  |-> Named("tenant", opts.env, "environment"),
                    baseFlag   |-> Named("baseUrl", opts.flags, "flag"),
                    baseEnv    |-> Named("baseUrl", opts.env, "environment")])

Token ==
    resolveToken([flag |-> opts.tokenFlag, file |-> opts.tokenFile,
                  env |-> opts.envToken, cred |-> creds.api])

HTTPToken ==
    resolveHTTPToken([flag |-> opts.bearerFlag, file |-> opts.bearerFile,
                      cred |-> creds.bearer])

\* Load, and the warnings of main.
Load ==
    /\ phase = "starting"
    /\ conf = NoConf
    /\ IF ~BaseURL.ok \/ ~Token.ok \/ ~HTTPToken.ok
       THEN Gone("failed")
       ELSE /\ conf' = [token  |-> Token.value,
                        gate   |-> HTTPToken.value # None,
                        warned |-> HTTPToken.value = None /\ ~loopback(Addr)]
            /\ UNCHANGED <<opts, disk, unit, creds, phase, asked, status>>

\* The listener is open, or the address is none.
Listen ==
    /\ phase = "starting"
    /\ conf # NoConf
    /\ IF Splits(Addr)
       THEN /\ Process!ComeUp
            /\ UNCHANGED <<opts, disk, unit, creds, conf>>
       ELSE Gone("failed")

\* The process winds down and ends, or dies of something else.
Ends(s) ==
    /\ s = "clean" => asked
    /\ Gone(s)

WindsDown ==
    /\ Process!WindDown
    /\ UNCHANGED <<opts, disk, unit, creds, conf>>

\* systemctl stop: SIGTERM to the process, or no restart.
Stop ==
    /\ unit \in {"running", "waiting"}
    /\ IF unit = "running"
       THEN Process!BeAsked /\ unit' = "stopping"
       ELSE unit' = "down" /\ UNCHANGED <<phase, asked, status>>
    /\ UNCHANGED <<opts, disk, creds, conf>>

\* A signal from somebody else.
Terminate ==
    /\ unit = "running" /\ ~asked
    /\ Process!BeAsked
    /\ UNCHANGED <<opts, disk, unit, creds, conf>>

\* sops-nix, agenix or the operator writes or removes a secret.
SecretsChange ==
    /\ disk' \in [api : Secrets, bearer : Secrets]
    /\ disk' # disk
    /\ UNCHANGED <<opts, unit, creds, phase, asked, status, conf>>

Next ==
    \/ Start \/ Restart \/ Load \/ Listen \/ WindsDown
    \/ \E s \in {"clean", "failed", "killed"} : Ends(s)
    \/ Stop \/ Terminate \/ SecretsChange

Spec == Init /\ [][Next]_vars

\* systemd restarts when RestartSec is over.  The process loads and listens,
\* and ends once it was asked to, or winds down (StopsWhenTold in Server).  It
\* is not killed every time before it has come up.
FairSpec ==
    /\ Spec
    /\ WF_vars(Restart)
    /\ SF_vars(Load)
    /\ SF_vars(Listen)
    /\ WF_vars(/\ asked \/ phase = "stopping"
               /\ \E s \in {"clean", "failed", "killed"} : Ends(s))

----------------------------------------------------------------------------
\* A unit with a bearerTokenFile, or with a bearer token in a file that extraArgs
\* or environment name, never serves without the gate, whatever was in the file
\* when it was started, or was done to it since: the credential is there to be
\* looked at whenever the module asked for it, so the way credentials.go has of
\* reading "cannot look" as "none" does not open it.
GateWhenConfigured ==
    phase = "up" =>
        (opts.bearer \/ opts.bearerFlag # "unset" \/ opts.bearerFile # "unset"
         => conf.gate)

\* extraArgs or environment put a token above the credential.
Overruled ==
    opts.tokenFlag # "unset" \/ opts.tokenFile # "unset" \/ opts.envToken = "set"

\* A flag or a variable names a file that cannot be used, and is not overruled.
NoUse(flag, file) ==
    \/ flag \notin {"unset", "good"}
    \/ flag = "unset" /\ file \notin {"unset", "good"}

\* "The token arrives only through LoadCredential=" (netskope-mcp.nix): what
\* serves has the token systemd copied for this start, and it was a good one,
\* exactly when nothing in extraArgs or environment overrules it (a variable
\* that is blank does not); and a file named there that is no good leaves the
\* unit without service, it does not fall back on the credential.
TokenFromTheCredential ==
    phase = "up" =>
        /\ conf.token = "credential" <=> ~Overruled
        /\ conf.token = "credential" => creds.api = "good"
        /\ ~NoUse(opts.tokenFlag, opts.tokenFile)

\* A listener that other machines can reach, with no gate, was announced by
\* the process, also when extraArgs moved it to where the module's own
\* warning, about listenAddress, does not look.
ExposureIsAnnounced ==
    phase = "up" /\ ~conf.gate /\ Addr.host \notin Near => conf.warned

\* Only somebody who stops the unit, or ends its process, takes it down: no
\* failure of the process, of Load or of the credentials does.
StaysDownOnlyWhenTold ==
    [][unit # "down" /\ unit' = "down" => asked' \/ unit = "waiting"]_vars

GoodSecrets ==
    /\ disk.api = "good" /\ (opts.bearer => disk.bearer = "good")
    /\ creds.api # "blank" /\ creds.bearer # "blank"

\* The unit is wanted: it is not down or on its way there.
Wanted == unit \in {"running", "waiting"} /\ ~asked

\* The tenant is named in one way, and files that are named by hand are good.
Settled ==
    /\ opts.flags \union opts.env \in {{"tenant"}, {"baseUrl"}}
    /\ ~NoUse(opts.tokenFlag, opts.tokenFile)
    /\ ~NoUse(opts.bearerFlag, opts.bearerFile)

Sensible == Settled /\ Splits(Addr)

\* Whatever goes wrong meanwhile (a crash, a secret that appears after boot or
\* is blank for a time), a sensible unit comes up, and up again, as long as it
\* is wanted and its secrets are in place.
KeepsComingUp == <>[](Sensible /\ Wanted /\ GoodSecrets) => []<>(phase = "up")

\* "Address the MCP endpoint binds to" (netskope-mcp.nix): the same of a unit
\* the module takes for one on loopback, however its address is written.
LoopbackUnitComesUp ==
    <>[](/\ isLoopback(opts.listen) /\ opts.extraAddr = NoAddr /\ Settled
         /\ Wanted /\ GoodSecrets)
    => []<>(phase = "up")
============================================================================
