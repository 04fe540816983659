------------------------------ MODULE MCServer ------------------------------
(***************************************************************************)
(* A small instance of Server for TLC.                                     *)
(***************************************************************************)
EXTENDS Server, TLC

CONSTANTS alice, bob, s1, s2

\* Two rows of the table that make a chain, and one beside them.
MCParentScope == "read:user" :> "user" @@ "read:repo_hook" :> "write:repo_hook"
                 @@ "write:repo_hook" :> "admin:repo_hook"
MCScopes == {"user", "read:user", "read:repo_hook", "write:repo_hook", "admin:repo_hook"}

\* A parent and its child, and the lowest of a chain.
MCLists == {<<"user", "read:user", "read:repo_hook">>}

\* Without a database every environment, and with one those that differ in more than
\* in which variable or which login it is.
MCEnvs ==
  {env \in Env(MCLists) : env.policyDb =>
     env.allowed \in {{}, {alice}} /\ env.oauth \in {{}, OAuthVars}}

DbEnv == [mode |-> "both", apiToken |-> TRUE, policyDb |-> TRUE, oauth |-> OAuthVars,
          scopes |-> <<"user">>, allowed |-> {}]

\* Settings with which setup_auth exits.
Wrong == [env |-> [DbEnv EXCEPT !.mode = "other"], seed |-> NULL]

Pair(a, b) == s1 :> a @@ s2 :> b

\* Two servers that seed, the same login or not, one that seeds and one that does not,
\* and one with any environment.
MCDeployments ==
  {Pair([env |-> DbEnv, seed |-> alice], [env |-> DbEnv, seed |-> bob]),
   Pair([env |-> DbEnv, seed |-> alice], [env |-> DbEnv, seed |-> alice]),
   Pair([env |-> DbEnv, seed |-> alice],
        [env |-> [DbEnv EXCEPT !.mode = "oauth"], seed |-> NULL])}
  \cup {Pair([env |-> env, seed |-> NULL], Wrong) : env \in MCEnvs}

\* The database's session is an hour behind UTC.
Behind == -1

MCInitialTables == {{}, {"users", "audit_log"}}
=============================================================================
