----------------------------- MODULE TokenStore -----------------------------
(***************************************************************************)
(* The per-user API tokens of src/auth/token.py: the api_tokens table, the *)
(* calls of TokenStore that change it, DbTokenVerifier's verification, and *)
(* the calls of PolicyStore (src/auth/policy.py) that the table depends on *)
(* through its foreign key.                                                *)
(*                                                                         *)
(* The pool is opened with autocommit=True (server.py:94), so each SQL     *)
(* statement is one atomic step and other sessions run between any two     *)
(* statements of a call.  A call that changes the table and then writes    *)
(* audit_log is therefore two steps: its effect, which leaves the entry to *)
(* write in call[a], and WriteAudit(a).                                    *)
(***************************************************************************)
EXTENDS Integers, Sequences, FiniteSets

CONSTANTS
  Logins,        \* GitHub logins
  Admins,        \* concurrent callers of the stores' changing methods
  Requests,      \* concurrent verifications
  Terms,         \* days to expires_at a caller may ask for; NULL is no expires_at
  RotationDays,  \* rotation_days a caller may ask for; NULL is None
  Zone,          \* how far the SQL session's NOW() is ahead of UTC
  NULL,          \* SQL NULL, a missing row, an idle caller
  Existing,      \* rows in api_tokens when the server starts
  MaxTokens,     \* bound: rows ever inserted in api_tokens
  MaxSecrets,    \* bound: calls of generate_raw_token
  MaxDay,        \* bound: the last day of the clock
  MaxFaults      \* bound: statements that fail, sessions and processes that die

VARIABLES
  users,   \* the logins that have a row in users
  tokens,  \* api_tokens: the row of each id, NULL where there is none
  nextId,  \* AUTO_INCREMENT: the id of the next row
  minted,  \* the login each secret was generated for: secret s is the s-th one
  audit,   \* the <<action, target>> pairs in audit_log
  call,    \* what each admin call has still to write to audit_log, or NULL
  req,     \* the row each verification has selected and not yet touched, or NULL
  now,     \* the day
  faults   \* how many faults have happened

dbVars    == <<users, tokens, nextId, minted, audit>>
storeVars == <<users, tokens, nextId, minted, audit, call, req, now, faults>>

TokenIds == 1 .. MaxTokens
Secrets  == 1 .. Len(minted)

(***************************************************************************)
(* The columns of api_tokens that some statement reads or writes.  The     *)
(* secret stands for token_hash: SHA-256 of distinct secrets is distinct.  *)
(* used says that last_used_at is not NULL.                                *)
(***************************************************************************)
Row == [login: Logins, secret: Nat \ {0}, expires: Int \cup {NULL},
        revoked: BOOLEAN, auto: BOOLEAN, days: Int \cup {NULL}, used: BOOLEAN]

Has(id) == tokens[id] # NULL

\* What verify_token holds between its two statements.
Selected == [id: TokenIds, secret: Nat, login: Logins]

\* The audit entries of these calls: some target a token, some a login.
TokenEntry == {"revoke_token", "delete_token", "rotate_token"} \X TokenIds
LoginEntry == {"create_token", "add_user", "remove_user"} \X Logins
Entry      == TokenEntry \cup LoginEntry

ASSUME StoreAssumption ==
  /\ Terms \subseteq Int \cup {NULL}
  /\ RotationDays \subseteq Int \cup {NULL}
  /\ Zone \in Int
  /\ Existing \in 0 .. MaxTokens
  /\ MaxTokens \in Nat /\ MaxSecrets \in Nat /\ MaxDay \in Nat /\ MaxFaults \in Nat

\* NULL is none of the values it stands next to.
ASSUME NullAssumption ==
  NULL \notin Int \cup Row \cup Selected \cup Entry \cup Logins

\* create_token that stores rotation_days without auto_rotate.
NewRowMutant(login, secret, term, auto, days) ==
  [login |-> login, secret |-> secret,
   expires |-> IF term = NULL THEN NULL ELSE now + term,
   revoked |-> FALSE, auto |-> auto, days |-> days, used |-> FALSE]

\* The row that create_token inserts; revoked and last_used_at are defaults.
NewRow(login, secret, term, auto, days) ==
  [login |-> login, secret |-> secret,
   expires |-> IF term = NULL THEN NULL ELSE now + term,
   revoked |-> FALSE, auto |-> auto,
   days |-> IF auto THEN days ELSE NULL, used |-> FALSE]

\* A server starts on the database that earlier ones have left: some users, and
\* rows that earlier calls have created.
StoreInit ==
  /\ now = 0
  /\ minted \in [1 .. Existing -> Logins]
  /\ \E term \in [1 .. Existing -> Terms], auto \in [1 .. Existing -> BOOLEAN],
        days \in [1 .. Existing -> RotationDays] :
       tokens = [id \in TokenIds |->
                   IF id <= Existing
                   THEN NewRow(minted[id], id, term[id], auto[id], days[id])
                   ELSE NULL]
  /\ nextId = Existing + 1
  /\ users \in {u \in SUBSET Logins : \A id \in 1 .. Existing : minted[id] \in u}
  /\ audit = {<<"create_token", minted[id]>> : id \in 1 .. Existing}
  /\ call = [a \in Admins |-> NULL]
  /\ req = [r \in Requests |-> NULL]
  /\ faults = 0

SqlNow == now + Zone

-----------------------------------------------------------------------------
(***************************************************************************)
(* The WHERE clauses of the statements on api_tokens.  A definition whose  *)
(* name ends in Mutant is a wrong version of the one after it: the checks  *)
(* substitute it to see that the properties notice.                        *)
(***************************************************************************)

\* revoke_token: without "revoked = 0".
RevocableMutant(id) == Has(id)

Revocable(id) == Has(id) /\ ~tokens[id].revoked

\* delete_token: without "revoked = 1".
DeletableMutant(id) == Has(id)

Deletable(id) == Has(id) /\ tokens[id].revoked

\* verify_token: by token_prefix, which is shared, in place of token_hash.
MatchesMutant(id, secret) ==
  /\ Has(id) /\ ~tokens[id].revoked
  /\ tokens[id].expires # NULL => tokens[id].expires > SqlNow

Matches(id, secret) ==
  /\ Has(id) /\ ~tokens[id].revoked
  /\ tokens[id].secret = secret
  /\ tokens[id].expires # NULL => tokens[id].expires > SqlNow

\* list_due_for_rotation
DueForRotation(id, lead) ==
  /\ Has(id) /\ tokens[id].auto /\ ~tokens[id].revoked
  /\ tokens[id].expires # NULL /\ tokens[id].days # NULL
  /\ tokens[id].expires <= SqlNow + lead

\* apply_rotation: without "expires_at = expected".
RotatableMutant(id, expected) == Has(id) /\ tokens[id].auto /\ ~tokens[id].revoked

\* apply_rotation: without "revoked = 0".
RotatableRevokedMutant(id, expected) ==
  Has(id) /\ tokens[id].auto /\ tokens[id].expires = expected

Rotatable(id, expected) ==
  /\ Has(id) /\ tokens[id].auto /\ ~tokens[id].revoked
  /\ tokens[id].expires = expected

-----------------------------------------------------------------------------
(***************************************************************************)
(* Calls that change the tables.  One that affects no row, or whose INSERT *)
(* raises, ends there, without an entry in audit_log: a stuttering step.   *)
(***************************************************************************)

\* A generator that returns the same secret again.
MintMutant(login) == Len(minted) < MaxSecrets /\ UNCHANGED minted

\* generate_raw_token: a secret nobody has had before, for the given login.
Mint(login) ==
  /\ Len(minted) < MaxSecrets
  /\ minted' = Append(minted, login)

\* create_token's INSERT.  The foreign key makes it raise for an unknown login.
CreateToken(a, login, term, auto, days) ==
  /\ call[a] = NULL
  /\ login \in users
  /\ nextId \in TokenIds
  /\ Mint(login)
  /\ tokens' = [tokens EXCEPT ![nextId] =
                  NewRow(login, Len(minted) + 1, term, auto, days)]
  /\ nextId' = nextId + 1
  /\ call' = [call EXCEPT ![a] = <<"create_token", login>>]
  /\ UNCHANGED <<users, audit, req, now, faults>>

\* revoke_token's UPDATE.
RevokeToken(a, id) ==
  /\ call[a] = NULL
  /\ Revocable(id)
  /\ tokens' = [tokens EXCEPT ![id].revoked = TRUE]
  /\ call' = [call EXCEPT ![a] = <<"revoke_token", id>>]
  /\ UNCHANGED <<users, nextId, minted, audit, req, now, faults>>

\* delete_token that writes its entry whether or not a row was affected.
DeleteTokenMutant(a, id) ==
  /\ call[a] = NULL
  /\ tokens' = IF Deletable(id) THEN [tokens EXCEPT ![id] = NULL] ELSE tokens
  /\ call' = [call EXCEPT ![a] = <<"delete_token", id>>]
  /\ UNCHANGED <<users, nextId, minted, audit, req, now, faults>>

\* delete_token's DELETE: only a revoked row goes.
DeleteToken(a, id) ==
  /\ call[a] = NULL
  /\ Deletable(id)
  /\ tokens' = [tokens EXCEPT ![id] = NULL]
  /\ call' = [call EXCEPT ![a] = <<"delete_token", id>>]
  /\ UNCHANGED <<users, nextId, minted, audit, req, now, faults>>

\* add_user's INSERT: a duplicate key raises.
AddUser(a, login) ==
  /\ call[a] = NULL
  /\ login \notin users
  /\ users' = users \cup {login}
  /\ call' = [call EXCEPT ![a] = <<"add_user", login>>]
  /\ UNCHANGED <<tokens, nextId, minted, audit, req, now, faults>>

\* The schema without ON DELETE CASCADE and its foreign key.
CascadeMutant(login) == tokens

\* ON DELETE CASCADE: the rows of a removed user go in the same statement.
Cascade(login) ==
  [id \in TokenIds |-> IF Has(id) /\ tokens[id].login = login THEN NULL
                                                             ELSE tokens[id]]

\* remove_user's DELETE; it is audited whether or not there was such a user.
RemoveUser(a, login) ==
  /\ call[a] = NULL
  /\ users' = users \ {login}
  /\ tokens' = Cascade(login)
  /\ call' = [call EXCEPT ![a] = <<"remove_user", login>>]
  /\ UNCHANGED <<nextId, minted, audit, req, now, faults>>

\* The INSERT INTO audit_log that ends each of these calls.
WriteAudit(a) ==
  /\ call[a] # NULL
  /\ audit' = audit \cup {call[a]}
  /\ call' = [call EXCEPT ![a] = NULL]
  /\ UNCHANGED <<users, tokens, nextId, minted, req, now, faults>>

Fault == faults < MaxFaults /\ faults' = faults + 1

\* That INSERT raises, or the process dies before it: the effect stays,
\* unaudited, and a created token's secret is never returned.
CallFails(a) ==
  /\ Fault
  /\ call[a] # NULL
  /\ call' = [call EXCEPT ![a] = NULL]
  /\ UNCHANGED <<dbVars, req, now>>

-----------------------------------------------------------------------------
(***************************************************************************)
(* Verification of a presented secret.                                     *)
(***************************************************************************)

\* verify_token's SELECT finds a row.  When it finds none the call returns
\* None and nothing changes.
VerifySelect(r, secret) ==
  /\ req[r] = NULL
  /\ \E id \in TokenIds :
       /\ Matches(id, secret)
       /\ req' = [req EXCEPT ![r] = [id |-> id, secret |-> secret,
                                     login |-> tokens[id].login]]
  /\ UNCHANGED <<dbVars, call, now, faults>>

\* verify_token's UPDATE of last_used_at, which touches no row if the row went
\* in the meantime; DbTokenVerifier then answers with the login it selected.
VerifyTouch(r) ==
  /\ req[r] # NULL
  /\ tokens' = [id \in TokenIds |->
                  IF id = req[r].id /\ Has(id)
                  THEN [tokens[id] EXCEPT !.used = TRUE] ELSE tokens[id]]
  /\ req' = [req EXCEPT ![r] = NULL]
  /\ UNCHANGED <<users, nextId, minted, audit, call, now, faults>>

\* That UPDATE raises: the client gets an error although its token is good.
VerifyFails(r) ==
  /\ Fault
  /\ req[r] # NULL
  /\ req' = [req EXCEPT ![r] = NULL]
  /\ UNCHANGED <<dbVars, call, now>>

\* A day passes.
Tick ==
  /\ now < MaxDay
  /\ now' = now + 1
  /\ UNCHANGED <<dbVars, call, req, faults>>

-----------------------------------------------------------------------------
AdminStep(a) ==
  \/ \E login \in Logins, term \in Terms, auto \in BOOLEAN, days \in RotationDays :
       CreateToken(a, login, term, auto, days)
  \/ \E id \in TokenIds : RevokeToken(a, id)
  \/ \E id \in TokenIds : DeleteToken(a, id)
  \/ \E login \in Logins : AddUser(a, login)
  \/ \E login \in Logins : RemoveUser(a, login)
  \/ WriteAudit(a)
  \/ CallFails(a)

VerifyStep(r) ==
  \/ \E secret \in Secrets : VerifySelect(r, secret)
  \/ VerifyTouch(r)
  \/ VerifyFails(r)

StoreNext ==
  \/ \E a \in Admins : AdminStep(a)
  \/ \E r \in Requests : VerifyStep(r)
  \/ Tick

StoreSpec == StoreInit /\ [][StoreNext]_storeVars

-----------------------------------------------------------------------------
(***************************************************************************)
(* Properties.                                                             *)
(***************************************************************************)

\* The columns, the calls and the requests have the values the code gives them,
\* and only a row that rotates has rotation_days.
StoreTypeOK ==
  /\ users \in SUBSET Logins
  /\ tokens \in [TokenIds -> Row \cup {NULL}]
  /\ \A id \in TokenIds : Has(id) /\ ~tokens[id].auto => tokens[id].days = NULL
  /\ nextId \in 1 .. MaxTokens + 1
  /\ minted \in Seq(Logins)
  /\ audit \in SUBSET Entry
  /\ call \in [Admins -> Entry \cup {NULL}]
  /\ req \in [Requests -> Selected \cup {NULL}]
  /\ now \in Nat
  /\ faults \in Nat

\* A secret is in at most one row, and opens only the account it was made for.
SecretsUnique ==
  \A id \in TokenIds : Has(id) =>
    /\ tokens[id].secret \in Secrets
    /\ minted[tokens[id].secret] = tokens[id].login
    /\ \A other \in TokenIds :
         Has(other) /\ tokens[other].secret = tokens[id].secret => other = id

\* What a verification answers is the login its secret was generated for, even
\* when the row is rotated, revoked, deleted or replaced between the SELECT and
\* the UPDATE of verify_token; and that UPDATE never touches another's row.
VerifiedIsOwner ==
  \A r \in Requests : req[r] # NULL =>
    /\ req[r].secret \in Secrets
    /\ req[r].login = minted[req[r].secret]
    /\ Has(req[r].id) => tokens[req[r].id].login = req[r].login

\* The two together: whoever presents a secret is taken for its owner only.
IdentityCorrect == SecretsUnique /\ VerifiedIsOwner

\* Neither verification nor rotation reads users: a removed user is locked out
\* only because the foreign key keeps every row's login in users.
RowsHaveUser ==
  \A id \in TokenIds : Has(id) => tokens[id].login \in users

\* Entries written, or owed by a call in progress.
Logged == audit \cup {call[a] : a \in {b \in Admins : call[b] # NULL}}

\* A token is recorded as revoked once and as deleted once, however many
\* callers revoke or delete it at the same time: the rowcount decides.
AuditOnce ==
  \A a \in Admins : call[a] \in {"revoke_token", "delete_token"} \X TokenIds =>
    /\ call[a] \notin audit
    /\ \A b \in Admins : call[b] = call[a] => b = a

\* The log never says that a token was revoked or deleted when it was not.
AuditTruthful ==
  \A id \in TokenIds :
    /\ <<"revoke_token", id>> \in Logged => ~Revocable(id)
    /\ <<"delete_token", id>> \in Logged => ~Has(id)

\* As long as nothing fails, the log accounts for every row that is there, that
\* is revoked, and that is gone.
AuditComplete ==
  faults = 0 =>
    \A id \in 1 .. nextId - 1 :
      /\ Has(id) => <<"create_token", tokens[id].login>> \in Logged
      /\ Has(id) /\ tokens[id].revoked => <<"revoke_token", id>> \in Logged
      /\ ~Has(id) =>
           \/ {<<"revoke_token", id>>, <<"delete_token", id>>} \subseteq Logged
           \/ \E login \in Logins : <<"remove_user", login>> \in Logged

\* Nothing brings a revoked token back or gives it a new secret: its row can
\* only be touched or disappear.  And a row that was not revoked disappears only
\* with its user.
RevokedIsFinal ==
  [][\A id \in TokenIds : Has(id) =>
       IF Has(id)'
       THEN tokens[id].revoked => /\ tokens'[id].revoked
                                  /\ tokens'[id].secret = tokens[id].secret
       ELSE tokens[id].revoked \/ tokens[id].login \notin users']_storeVars

-----------------------------------------------------------------------------
(***************************************************************************)
(* The credentials that the rows stand for.                                *)
(***************************************************************************)

AllSecrets == 1 .. (IF Existing > MaxSecrets THEN Existing ELSE MaxSecrets)

OwnerOf == [s \in AllSecrets |-> IF s \in Secrets THEN minted[s] ELSE NULL]

AnswerOf ==
  [r \in Requests |-> IF req[r] = NULL THEN NULL
                      ELSE [secret |-> req[r].secret, login |-> req[r].login]]

\* A row that is not revoked has a live secret.
IsLive(s) == \E id \in TokenIds : Has(id) /\ ~tokens[id].revoked /\ tokens[id].secret = s

LifeOf(s, inHand) ==
  IF s \notin Secrets THEN "unmade"
  ELSE IF IsLive(s) THEN "live" ELSE IF inHand THEN "made" ELSE "dead"

StoreCred == INSTANCE Credential WITH
  Secret <- AllSecrets, Login <- Logins, Request <- Requests, None <- NULL,
  owner <- OwnerOf, life <- [s \in AllSecrets |-> LifeOf(s, FALSE)], answer <- AnswerOf

\* Concurrent admins and verifications keep Credential's promise: whoever is let in
\* has presented a secret that was live then, and is taken for its owner.
StoreKeepsCredentials == StoreCred!CredSpec
=============================================================================
