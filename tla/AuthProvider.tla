---------------------------- MODULE AuthProvider ----------------------------
(***************************************************************************)
(* What setup_auth (src/auth/provider.py) makes of the environment:        *)
(* whether the server starts, which verifiers it asks, and what they       *)
(* accept (src/auth/oauth.py, src/auth/token.py).                          *)
(*                                                                         *)
(* Logins are compared in lower case, so a login here stands for all its   *)
(* spellings.  Whether a token is genuine is GitHub's answer, and a token  *)
(* in the database is TokenStore's.                                        *)
(***************************************************************************)
EXTENDS SqlNull, Sequences, SequencesExt

CONSTANTS
  GitHubLogins,  \* logins GitHub reports
  Scopes,        \* OAuth scopes
  ParentScope    \* _GITHUB_CHILD_TO_PARENT: a function on some scopes

ASSUME AuthAssumption ==
  /\ DOMAIN ParentScope \subseteq Scopes
  /\ \A s \in DOMAIN ParentScope : ParentScope[s] \in Scopes
  /\ NULL \notin GitHubLogins \cup Scopes

OAuthVars == {"GITHUB_CLIENT_ID", "GITHUB_CLIENT_SECRET", "BASE_URL"}

\* The environment variables that decide: of MCP_API_TOKEN, MCP_POLICY_DB_HOST
\* and the OAuth variables only whether they are set.
Env(scopes) ==
  [mode: {"token", "oauth", "both", "other"},  \* MCP_AUTH_MODE
   apiToken: BOOLEAN, policyDb: BOOLEAN, oauth: SUBSET OAuthVars,
   scopes: scopes,                             \* GITHUB_OAUTH_SCOPES, split
   allowed: SUBSET GitHubLogins]               \* ALLOWED_GITHUB_LOGINS

NeedToken(env) == env.mode \in {"token", "both"}
NeedOAuth(env) == env.mode \in {"oauth", "both"}

\* setup_auth that wants MCP_API_TOKEN only in mode token.
StartsMutant(env) ==
  /\ env.mode # "other"
  /\ env.mode = "token" => env.apiToken \/ env.policyDb
  /\ NeedOAuth(env) => env.oauth = OAuthVars

\* setup_auth does not exit.
Starts(env) ==
  /\ env.mode # "other"
  /\ NeedToken(env) => env.apiToken \/ env.policyDb
  /\ NeedOAuth(env) => env.oauth = OAuthVars

Parent(s) == IF s \in DOMAIN ParentScope THEN ParentScope[s] ELSE s

\* normalize_oauth_scopes that looks for the child among those it has seen.
NormalizeMutant(scopes) ==
  FoldLeft(LAMBDA result, s : IF Contains(result, s) THEN result
                              ELSE Append(result, Parent(s)), <<>>, scopes)

\* normalize_oauth_scopes: parents, each once, in the order of first use.
Normalize(scopes) ==
  FoldLeft(LAMBDA result, s : IF Contains(result, Parent(s)) THEN result
                              ELSE Append(result, Parent(s)), <<>>, scopes)

\* The verifiers that are asked: MultiAuth tries its server, the OAuth 2.1 proxy,
\* and then its list, until one accepts.
Verifiers(env) ==
  IF NeedOAuth(env)
  THEN {"proxy", "raw"}
       \cup (IF NeedToken(env) /\ env.apiToken THEN {"static"} ELSE {})
       \cup (IF NeedToken(env) /\ env.policyDb THEN {"db"} ELSE {})
  ELSE IF env.policyDb THEN {"db"} ELSE {"static"}

\* A genuine credential: the static token, a token of the database, or a GitHub
\* token (of the proxy's flow or presented as it is) with the login GitHub
\* reports, if any, and the scopes it has.
Credential ==
  [kind: {"static", "db"}] \cup
  [kind: {"proxy", "raw"}, login: GitHubLogins \cup {NULL}, scopes: SUBSET Scopes]

\* A check that takes a missing login for an allowed one.
LoginAllowedMutant(env, login) == env.allowed = {} \/ login \in env.allowed \cup {NULL}

\* _check_login_allowlist
LoginAllowed(env, login) == env.allowed = {} \/ login \in env.allowed

\* DbTokenVerifier finds a genuine token when the token store is there; without it
\* the verification raises.
DbVerifies(hasStore) == hasStore

\* verify_token of the GitHub verifiers, after GitHub's answer.
GitHubVerifies(env, cred) ==
  /\ ToSet(Normalize(env.scopes)) \subseteq cred.scopes
  /\ LoginAllowed(env, cred.login)

\* verify_token of a verifier.
Verifies(env, hasStore, verifier, cred) ==
  /\ cred.kind = verifier
  /\ verifier = "db" => DbVerifies(hasStore)
  /\ verifier \in {"proxy", "raw"} => GitHubVerifies(env, cred)

\* The server accepts a credential that one of its verifiers does.
Accepts(env, hasStore, cred) ==
  \E v \in Verifiers(env) : Verifies(env, hasStore, v, cred)

-----------------------------------------------------------------------------
(***************************************************************************)
(* Promises of an environment that starts.                                 *)
(***************************************************************************)

\* provider.py:51-55 and README.md:9-14: each mode lets in what it names and nothing
\* else.  A static token counts if it is set, but with a database only beside GitHub's
\* (README.md:9 has mode token accept it always), and a token of the database if there
\* is one.  With an allowlist nobody who is not on it comes in with a GitHub token, nor
\* one whose login GitHub does not tell, whichever verifier looks at it.
ModeEnforced(env, hasStore) ==
  \A cred \in Credential : Accepts(env, hasStore, cred) =>
    /\ cred.kind \in {"static", "db"} => NeedToken(env)
    /\ cred.kind = "static" => env.apiToken /\ (env.policyDb => NeedOAuth(env))
    /\ cred.kind = "db" => env.policyDb
    /\ cred.kind \in {"proxy", "raw"} =>
         NeedOAuth(env) /\ (env.allowed # {} => cred.login \in env.allowed)

\* Some genuine credential of that kind is accepted.
Usable(env, hasStore, kind) ==
  \E cred \in Credential : cred.kind = kind /\ Accepts(env, hasStore, cred)

\* provider.py:51-55: in mode token the static token or, with a database, the tokens of
\* the database; in mode oauth both of GitHub's ways; in mode both all that is set up.
\* Each of them has a credential that is accepted.
NobodyLockedOut(env, hasStore) ==
  /\ NeedToken(env) => IF env.policyDb THEN Usable(env, hasStore, "db")
                       ELSE Usable(env, hasStore, "static")
  /\ NeedToken(env) /\ NeedOAuth(env) /\ env.apiToken => Usable(env, hasStore, "static")
  /\ NeedOAuth(env) => Usable(env, hasStore, "proxy") /\ Usable(env, hasStore, "raw")

\* oauth.py:37: each scope is mapped to its parent by one step of the table, each
\* result is required once, and none that was asked for is forgotten.
ScopesMappedOnce(scopes) ==
  /\ ToSet(Normalize(scopes)) = {Parent(s) : s \in ToSet(scopes)}
  /\ IsInjective(Normalize(scopes))
=============================================================================
