---------------------------- MODULE ServiceStartup ----------------------------
(***************************************************************************)
(* The start of a service, from an environment somebody wrote to a process *)
(* that listens or has ended: the configuration checked first, the         *)
(* database role once connected.                                           *)
(***************************************************************************)
EXTENDS Credentials

CONSTANT PasswordKinds   \* what a connection URL may hold for a password

VARIABLES
    environment,  \* NODE_ENV
    uses,         \* options.credentials
    tokens,       \* the three token variables
    urls,         \* DATABASE_URL and RABBITMQ_URL
    role,         \* what the database says of the connected role
    stage,        \* of bootstrap()
    warned        \* the problems logged as warnings

settings == <<environment, uses, tokens, urls, role>>
vars == <<settings, stage, warned>>

RoleFacts == [found : BOOLEAN, superuser : BOOLEAN, ownsDatabase : BOOLEAN, ownsTables : BOOLEAN]
Used == {Roles, Roles \ {"internal-service"}}
Urls == [{"DATABASE_URL", "RABBITMQ_URL"} -> PasswordKinds]

Init ==
    /\ environment \in {"production", "development"}
    /\ uses \in Used
    /\ tokens \in Configurations
    /\ urls \in Urls
    /\ role \in RoleFacts
    /\ stage = "created"
    /\ warned = {}

\* A kind is: not set, not a URL, without a password, with a placeholder, with one
\* that is too short, with one whose percent signs decode to nothing, or a good one.
ConnectionUrlProblems(name, url) ==
    IF url \in {"unset", "undecodable", "good"} THEN {} ELSE {<<name, url>>}

UrlProblems == UNION {ConnectionUrlProblems(name, urls[name]) : name \in DOMAIN urls}

\* Mutant of DatabaseRoleProblems: owning the tables is not looked at.
RoleProblemsOfDatabase(facts) == {<<"role", f>> : f \in {g \in {"superuser", "ownsDatabase"} : facts[g]}}

DatabaseRoleProblems(facts) ==
    {<<"role", f>> : f \in {g \in {"superuser", "ownsDatabase", "ownsTables"} : facts[g]}}

EnforceOrWarn(problems, next) ==
    LET refused == environment = "production" /\ problems # {} IN
    /\ stage' = IF refused THEN "ended" ELSE next
    /\ warned' = IF refused THEN warned ELSE warned \cup problems

\* configureHttpApp. The password of a URL is decoded before anything is judged.
Configure ==
    /\ stage = "created"
    /\ IF \E name \in DOMAIN urls : urls[name] = "undecodable"
       THEN stage' = "ended" /\ UNCHANGED warned
       ELSE EnforceOrWarn(ConfigurationWarnings(tokens, uses, environment) \cup UrlProblems,
                          "configured")
    /\ UNCHANGED settings

\* PrismaService.onModuleInit, the first of the hooks that app.listen runs.
Connect ==
    /\ stage = "configured"
    /\ stage' \in IF urls["DATABASE_URL"] \in {"unset", "notUrl"} THEN {"ended"}
                                                                  ELSE {"connected", "ended"}
    /\ UNCHANGED <<settings, warned>>

VerifyRuntimeDatabaseRole ==
    /\ stage = "connected"
    /\ EnforceOrWarn(IF role.found THEN DatabaseRoleProblems(role) ELSE {}, "listening")
    /\ UNCHANGED settings

Next == Configure \/ Connect \/ VerifyRuntimeDatabaseRole

Spec == Init /\ [][Next]_vars
--------------------------------------------------------------------------------
(* Every stage is one of bootstrap's, and problems are warnings outside production only. *)
TypeOK ==
    /\ environment \in {"production", "development"} /\ uses \in Used
    /\ tokens \in Configurations /\ urls \in Urls /\ role \in RoleFacts
    /\ stage \in {"created", "configured", "connected", "listening", "ended"}
    /\ environment = "production" => warned = {}

Running == stage \in {"configured", "connected", "listening"}

(* In production a service that runs takes the token of each role it uses for that
   role and no other: a scraper's token, say, is never read as that of a service that
   may record trades, though this service never checks that role itself. *)
RolesAreToldApart ==
    Running /\ environment = "production" =>
        \A r \in uses : Identify(tokens, tokens[r]) = r

(* A production service that listens can do no more than its grants allow, on a URL
   whose password is not one that anybody would try. *)
ListensAsRuntimeRole ==
    stage = "listening" /\ environment = "production" =>
        /\ role.found => ~role.superuser /\ ~role.ownsDatabase /\ ~role.ownsTables
        /\ \A name \in DOMAIN urls : urls[name] \in {"unset", "good"}

(* config/runtime-safety.ts:59: problems stop a service in production, and anywhere
   else they are logged and the service starts. A development service is never ended
   by what its configuration says while its database can be reached. *)
DevelopmentStarts ==
    [][environment = "development" /\ stage = "created" => stage' # "ended"]_vars
================================================================================
