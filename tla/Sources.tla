------------------------------ MODULE Sources ------------------------------
(***************************************************************************)
(* Where a setting comes from (internal/config): flags, the environment,   *)
(* files they name, and systemd credentials, and which of them wins.       *)
(* Nothing here has state; Config walks through these decisions in the     *)
(* order of Load, and Service meets them again under systemd.              *)
(*                                                                         *)
(* A secret is known by the source it was read from, a URL and a level by  *)
(* a name.                                                                 *)
(***************************************************************************)
EXTENDS Naturals, Sequences, SequencesExt

CONSTANT
    KnownGroups    \* config.Groups

\* What a flag or a variable that names a file leads to.
Files == {"unset", "unreadable", "blank", "good"}

\* What CREDENTIALS_DIRECTORY leads to: it is unset, the credential is not in
\* it, os.Stat fails for another reason, or there is a file.
Credentials == {"nowhere", "absent", "hidden", "unreadable", "blank", "good"}

\* The value of NETSKOPE_API_TOKEN, and how the --path begins.
Values == {"unset", "blank", "set"}
Paths  == {"slash", "other"}

None   == "none"
Failed == [ok |-> FALSE, value |-> None]
Got(v) == [ok |-> TRUE,  value |-> v]

----------------------------------------------------------------------------
\* An unreadable file is an error, and so is one with nothing but blanks.
readSecretFile(file, from) == IF file = "good" THEN Got(from) ELSE Failed

\* Any failure of os.Stat means that there is no credential.
credentialPath(cred) == cred \notin {"nowhere", "absent", "hidden"}

\* Mutants: a file that cannot be used makes room for the next source; the
\* credential comes first; a blank variable is an error; a token is optional.
ForgivingToken(g) ==
    IF g.flag = "good" THEN Got("flag")
    ELSE IF g.file = "good" THEN Got("file")
    ELSE IF g.env = "set" THEN Got("environment")
    ELSE IF credentialPath(g.cred) THEN readSecretFile(g.cred, "credential")
    ELSE Failed

CredentialFirst(g) ==
    IF credentialPath(g.cred) THEN readSecretFile(g.cred, "credential")
    ELSE IF g.flag # "unset" THEN readSecretFile(g.flag, "flag")
    ELSE IF g.file # "unset" THEN readSecretFile(g.file, "file")
    ELSE IF g.env = "set" THEN Got("environment")
    ELSE Failed

BlankIsAnError(g) ==
    IF g.flag # "unset" THEN readSecretFile(g.flag, "flag")
    ELSE IF g.file # "unset" THEN readSecretFile(g.file, "file")
    ELSE IF g.env = "set" THEN Got("environment")
    ELSE IF g.env = "unset" /\ credentialPath(g.cred)
    THEN readSecretFile(g.cred, "credential")
    ELSE Failed

\* The API token: --api-token-file, NETSKOPE_API_TOKEN_FILE,
\* NETSKOPE_API_TOKEN, the systemd credential.  The first that is named
\* decides, whatever comes of it.
resolveToken(g) ==
    IF g.flag # "unset" THEN readSecretFile(g.flag, "flag")
    ELSE IF g.file # "unset" THEN readSecretFile(g.file, "file")
    ELSE IF g.env = "set" THEN Got("environment")
    ELSE IF credentialPath(g.cred) THEN readSecretFile(g.cred, "credential")
    ELSE Failed

\* Mutant: the endpoint is served without a gate when its secret is no good.
ForgivingHTTPToken(g) ==
    IF g.flag = "good" THEN Got("flag")
    ELSE IF g.file = "good" THEN Got("file")
    ELSE IF g.cred = "good" THEN Got("credential")
    ELSE Got(None)

\* The bearer token of the endpoint; without one there is no gate.
resolveHTTPToken(g) ==
    IF g.flag # "unset" THEN readSecretFile(g.flag, "flag")
    ELSE IF g.file # "unset" THEN readSecretFile(g.file, "file")
    ELSE IF credentialPath(g.cred) THEN readSecretFile(g.cred, "credential")
    ELSE Got(None)

----------------------------------------------------------------------------
FirstOf(flag, env) == IF flag # None THEN flag ELSE env

\* url.Parse refuses it, or the result has no scheme or no host; a short name
\* always becomes an absolute URL.
BadURL(tenant, base) == "malformed" \in {tenant, base} \/ base = "relative"

\* Mutant: the environment is looked at first.
EnvironmentFirst(g) ==
    LET tenant == FirstOf(g.tenantEnv, g.tenantFlag)
        base   == FirstOf(g.baseEnv, g.baseFlag)
    IN  IF (tenant = None) = (base = None) \/ BadURL(tenant, base)
        THEN Failed ELSE Got(IF tenant # None THEN tenant ELSE base)

\* The tenant's URL: a short name or a base URL, not both, and not from flag
\* and variable either; what does not parse, or is not absolute, is refused.
resolveBaseURL(g) ==
    LET tenant == FirstOf(g.tenantFlag, g.tenantEnv)
        base   == FirstOf(g.baseFlag, g.baseEnv)
    IN  IF (tenant = None) = (base = None) \/ BadURL(tenant, base)
        THEN Failed ELSE Got(IF tenant # None THEN tenant ELSE base)

Levels == {"debug", "info", "warn", "error"}

\* Mutant: a flag at its default value passes for a flag not given.
LevelByValue(g) ==
    LET level == IF g.env # None /\ g.flag \in {None, "info"} THEN g.env
                 ELSE IF g.flag = None THEN "info" ELSE g.flag
    IN  IF level \in Levels THEN Got(level) ELSE Failed

\* --log-level has a default, which the environment overrides unless the flag
\* was given.
parseLevel(g) ==
    LET level == IF g.env # None /\ g.flag = None THEN g.env
                 ELSE IF g.flag = None THEN "info" ELSE g.flag
    IN  IF level \in Levels THEN Got(level) ELSE Failed

\* The names in a list: blanks are skipped and repetitions dropped.
Distinct(names) ==
    LET out[i \in 0..Len(names)] ==
          IF i = 0 THEN << >>
          ELSE IF names[i] = "" \/ names[i] \in ToSet(out[i - 1]) THEN out[i - 1]
          ELSE Append(out[i - 1], names[i])
    IN  out[Len(names)]

\* Mutant: an unknown group passes.
AnyGroup(names) ==
    IF Distinct(names) # << >> THEN Got(Distinct(names)) ELSE Failed

\* --tool-groups: an unknown group is an error, and so is a list that names
\* none.
resolveGroups(names) ==
    IF Distinct(names) # << >> /\ ToSet(Distinct(names)) \subseteq KnownGroups
    THEN Got(Distinct(names)) ELSE Failed
============================================================================
