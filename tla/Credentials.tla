------------------------------ MODULE Credentials ------------------------------
(***************************************************************************)
(* The three bearer tokens a deployment configures, whom a presented token *)
(* stands for, and what a service finds wrong with the tokens it was given.*)
(* A configuration is a function from roles to tokens.                     *)
(***************************************************************************)
EXTENDS Naturals, Sequences

CONSTANTS
    Tokens,          \* the values a token variable may have
    ShortTokens,     \* those shorter than the recommended length
    DefaultTokens,   \* those that contain the development marker
    NoToken          \* not configured, or not presented

TokensAssumption ==
    ShortTokens \cup DefaultTokens \subseteq Tokens /\ NoToken \notin Tokens

RoleOrder == <<"operator", "internal-service", "metrics">>
Roles == {RoleOrder[i] : i \in 1..3}
Configurations == [Roles -> Tokens \cup {NoToken}]
Nobody == "nobody"

\* With one token for two roles the first of the order has it.
Identify(config, presented) ==
    IF presented = NoToken \/ \A i \in 1..3 : config[RoleOrder[i]] # presented
    THEN Nobody
    ELSE RoleOrder[CHOOSE i \in 1..3 :
             /\ config[RoleOrder[i]] = presented
             /\ \A j \in 1..(i - 1) : config[RoleOrder[j]] # presented]

\* A problem is a pair: of what it is about and what is wrong with it.
UnusableTokens(config, uses, environment) ==
    {<<role, "token">> : role \in {r \in uses :
        \/ config[r] = NoToken
        \/ config[r] \in ShortTokens
        \/ environment = "production" /\ config[r] \in DefaultTokens}}

\* Every pair of roles, whether or not this service uses them.
SharedTokens(config, uses) ==
    {pair \in Roles \X Roles :
        /\ pair[1] # pair[2]
        /\ config[pair[1]] # NoToken
        /\ config[pair[1]] = config[pair[2]]}

ConfigurationWarnings(config, uses, environment) ==
    UnusableTokens(config, uses, environment) \cup SharedTokens(config, uses)
================================================================================
