------------------------------- MODULE Config -------------------------------
(***************************************************************************)
(* Load (internal/config/config.go): the settings of one process, resolved *)
(* one after the other from whatever flags, environment, files and systemd *)
(* credentials there are.  The first that cannot be resolved ends it.      *)
(***************************************************************************)
EXTENDS Sources

CONSTANTS
    Tenants,     \* the short names a flag or a variable may give
    URLs,        \* the base URLs a flag or a variable may give
    LevelNames,  \* the words --log-level and its variable may give
    GroupLists   \* what --tool-groups may name, split at its commas

ASSUME TenantsAssumption == None \notin Tenants \union URLs
ASSUME GroupsAssumption  == \A names \in GroupLists : names \in Seq(STRING)

VARIABLES
    pc,          \* the setting to resolve next, or how Load ended
    given,       \* what the setting resolved last was resolved from
    cfg          \* the Config so far

vars == <<pc, given, cfg>>

Unloaded == [mode |-> None, base |-> None, groups |-> << >>, level |-> None,
             token |-> None, httpToken |-> None]

(***************************************************************************)
(* What each setting is resolved from.                                     *)
(***************************************************************************)
Maybe(S)      == S \union {None}
ModeGivens    == [stdio : BOOLEAN, http : BOOLEAN]
URLGivens     == [tenantFlag : Maybe(Tenants), baseFlag : Maybe(URLs),
                  tenantEnv : Maybe(Tenants), baseEnv : Maybe(URLs)]
LevelGivens   == [flag : Maybe(LevelNames), env : Maybe(LevelNames)]
TokenGivens   == [flag : Files, file : Files, env : Values, cred : Credentials]
HTTPGivens    == [flag : Files, file : Files, cred : Credentials]

Init ==
    /\ pc    = "parse"
    /\ given = None
    /\ cfg   = Unloaded

\* fs.Parse fails, or --version was passed: Load ends before it looks at
\* anything else.
Parse ==
    /\ pc = "parse"
    /\ pc' \in {"mode", "version", "error"}
    /\ UNCHANGED <<given, cfg>>

\* A setting is resolved, or Load returns the error.
Resolve(here, next, field, g, outcome) ==
    /\ pc = here
    /\ given' = g
    /\ pc'    = IF outcome.ok THEN next ELSE "error"
    /\ cfg'   = IF outcome.ok THEN [cfg EXCEPT ![field] = outcome.value] ELSE cfg

Mode ==
    \E g \in ModeGivens :
        Resolve("mode", "url", "mode", g,
                IF g.stdio /\ g.http THEN Failed
                ELSE Got(IF g.http THEN "http" ELSE "stdio"))

BaseURL ==
    \E g \in URLGivens :
        Resolve("url", "groups", "base", g, resolveBaseURL(g))

ToolGroups ==
    \E g \in GroupLists :
        Resolve("groups", "level", "groups", g, resolveGroups(g))

LogLevel ==
    \E g \in LevelGivens : Resolve("level", "token", "level", g, parseLevel(g))

Token ==
    \E g \in TokenGivens :
        Resolve("token", "http", "token", g, resolveToken(g))

HTTPAuthToken ==
    \E g \in HTTPGivens :
        Resolve("http", "path", "httpToken", g, resolveHTTPToken(g))

\* --path must begin with a slash: ServeMux would panic on one that does not.
Path ==
    /\ pc = "path"
    /\ \E p \in Paths : /\ given' = p
                        /\ pc' = IF p = "slash" THEN "loaded" ELSE "error"
    /\ UNCHANGED cfg

Next ==
    \/ Parse \/ Mode \/ BaseURL \/ ToolGroups \/ LogLevel
    \/ Token \/ HTTPAuthToken \/ Path

Spec == Init /\ [][Next]_vars

----------------------------------------------------------------------------
TypeOK ==
    /\ pc \in {"parse", "mode", "url", "groups", "level", "token", "http", "path",
               "loaded", "version", "error"}
    /\ cfg.mode      \in {None, "stdio", "http"}
    /\ cfg.base      \in Maybe(Tenants \union URLs)
    /\ cfg.groups    \in Seq(KnownGroups)
    /\ cfg.level     \in Maybe(Levels)
    /\ cfg.token     \in {None, "flag", "file", "environment", "credential"}
    /\ cfg.httpToken \in {None, "flag", "file", "credential"}

\* The source is named and can be used, and none that ranks above it is named.
AskedFor(g, token) ==
    \/ token = "flag" /\ g.flag = "good"
    \/ token = "file" /\ g.file = "good" /\ g.flag = "unset"
    \/ token = "environment" /\ g.env = "set" /\ {g.flag, g.file} = {"unset"}
    \/ token = "credential" /\ g.cred = "good" /\ {g.flag, g.file} = {"unset"}
       /\ g.env # "set"

\* "The order is deliberate" (config.go): the token comes from a source that
\* was named and can be used, and no source that ranks above it was named at
\* all, so that a mistyped path or an empty file is never a reason to run on
\* with another token than the operator asked for.
TokenIsTheOneAskedFor == pc = "http" => AskedFor(given, cfg.token)

\* An operator who named a bearer token gets the gate or no server: whichever
\* source is empty or unreadable.  A credential that cannot even be looked at
\* is one nobody named (credentials.go).
GateIsUpWhenNamed ==
    /\ pc = "path"
    /\ given.flag # "unset" \/ given.file # "unset" \/ credentialPath(given.cred)
    => cfg.httpToken # None

\* A Config that Load returns is one netskope.New and tools.Register accept:
\* main has nothing left to refuse once the secrets are read.
LoadedIsUsable ==
    pc = "loaded" =>
        /\ cfg.token # None
        /\ cfg.base # None
        /\ cfg.groups # << >> /\ ToSet(cfg.groups) \subseteq KnownGroups

\* "Set exactly one of --tenant and --base-url": one kind is named, by flag or
\* variable, and a variable of the same kind never beats the flag, so the
\* server is bound to the tenant the command line names.
TenantIsTheOneNamed ==
    pc = "groups" =>
        /\ {given.tenantFlag, given.tenantEnv} = {None}
              <=> {given.baseFlag, given.baseEnv} # {None}
        /\ \A flag \in {given.tenantFlag, given.baseFlag} :
              flag # None => cfg.base = flag

\* "An explicit --log-level info must beat the environment" (config.go), and
\* only an explicit one does.
ExplicitLevelWins ==
    pc = "token" =>
        cfg.level = IF given.flag # None THEN given.flag
                    ELSE IF given.env # None THEN given.env ELSE "info"
=============================================================================
