------------------------------ MODULE AdminMfa ------------------------------
(***************************************************************************)
(* The second factor of the admin panel, src/auth/policy.py: setting it    *)
(* up, confirming, disabling and clearing it, its backup codes, and the    *)
(* policy that requires it of the roles that manage users.                 *)
(*                                                                         *)
(* A call is a few statements on pooled sessions, each atomic, and other   *)
(* callers run between them.  What a call does between begin() and         *)
(* commit() is one step here: the whole of it or, when anything raises,    *)
(* nothing.                                                                *)
(***************************************************************************)
EXTENDS Integers, FiniteSets

CONSTANTS
  Logins,             \* GitHub logins
  Callers,            \* concurrent requests of the admin panel
  NULL,               \* SQL NULL, a missing row, an idle caller
  BACKUP_CODE_COUNT,  \* codes of a batch: 10
  MFA_SETUP_MINUTES,  \* how long a secret may be confirmed: 15
  MaxSecrets,         \* bound: calls of generate_totp_secret that are stored
  MaxBatches,         \* bound: calls of generate_backup_codes that are stored
  MaxTime             \* bound: the last minute of the clock

VARIABLES
  users,     \* the row of each login in users, NULL where there is none
  codes,     \* the rows of user_backup_codes
  required,  \* policy_settings: require_mfa_admin_roles
  logged,    \* the latest entry in audit_log that says MFA went on or off
  call,      \* what each caller does next and for whom, or NULL
  secrets,   \* TOTP secrets stored so far: secret s is the s-th one
  batches,   \* batches of backup codes stored so far
  proved,    \* history: the <<login, secret>> pairs a confirmation verified
  spent,     \* history: the backup codes that let somebody in
  accepts,   \* history: how often a backup code let somebody in
  now        \* the minute

tables  == <<users, codes, required, logged>>
minted  == <<secrets, batches>>
history == <<proved, spent, accepts>>
vars    == <<tables, call, minted, history, now>>

ROLES          == {"admin", "useradmin", "user"}
ADMIN_UI_ROLES == {"admin", "useradmin"}

\* The columns of users that these calls read or write.  generated says that
\* mfa_backup_generated_at is not NULL.
User == [role: ROLES, enabled: BOOLEAN, secret: Nat \cup {NULL},
         expires: Nat \cup {NULL}, generated: BOOLEAN]

\* A backup code: its number in its batch.
Code == (Nat \ {0}) \X (1 .. BACKUP_CODE_COUNT)

CodeRow == [login: Logins, code: Code, used: BOOLEAN]

\* A call between two of its statements.
Step == [at: {"reuse", "store", "confirm", "policy", "clear", "regenerate"},
         login: Logins]

ASSUME MfaAssumption ==
  /\ BACKUP_CODE_COUNT \in Nat \ {0}
  /\ MFA_SETUP_MINUTES \in Nat
  /\ MaxSecrets \in Nat /\ MaxBatches \in Nat /\ MaxTime \in Nat
  /\ NULL \notin Nat \cup User \cup Step \cup STRING

NewUser(role) == [role |-> role, enabled |-> FALSE, secret |-> NULL,
                  expires |-> NULL, generated |-> FALSE]

Init ==
  /\ users \in [Logins -> {NULL} \cup {NewUser(role) : role \in ROLES}]
  /\ codes = {}
  /\ required \in BOOLEAN
  /\ logged = [l \in Logins |-> NULL]
  /\ call = [c \in Callers |-> NULL]
  /\ secrets = 0 /\ batches = 0
  /\ proved = {} /\ spent = {} /\ accepts = 0
  /\ now = 0

Has(l)     == users[l] # NULL
Enabled(l) == Has(l) /\ users[l].enabled

\* is_mfa_required_for_role, of the role in the row
Required(l) == Has(l) /\ users[l].role \in ADMIN_UI_ROLES /\ required

\* _get_setup_secret_if_valid returns a secret.
SetupValid(l) ==
  /\ Has(l) /\ users[l].secret # NULL /\ users[l].expires # NULL
  /\ now <= users[l].expires

\* The rows of user_backup_codes of a login.
CodesOf(l) == {r \in codes : r.login = l}

Begin(c, at, l)    == call' = [call EXCEPT ![c] = [at |-> at, login |-> l]]
Continue(c, at)    == call' = [call EXCEPT ![c].at = at]
Return(c)          == call' = [call EXCEPT ![c] = NULL]
At(c, at)          == call[c] # NULL /\ call[c].at = at

-----------------------------------------------------------------------------
(***************************************************************************)
(* start_mfa_setup.                                                        *)
(***************************************************************************)

\* is_mfa_enabled: with MFA off a pending secret may be shown again.
SetupStart(c, l) ==
  /\ call[c] = NULL
  /\ Begin(c, IF Enabled(l) THEN "store" ELSE "reuse", l)
  /\ UNCHANGED <<tables, minted, history, now>>

\* _get_setup_secret_if_valid: a secret that can be confirmed is returned.
SetupReuse(c) ==
  /\ At(c, "reuse")
  /\ IF SetupValid(call[c].login) THEN Return(c) ELSE Continue(c, "store")
  /\ UNCHANGED <<tables, minted, history, now>>

\* An expiry on the wrong side of now.
SetupExpiryMutant == now - MFA_SETUP_MINUTES

SetupExpiry == now + MFA_SETUP_MINUTES

\* The UPDATE with a new secret, which also switches MFA off.
SetupStore(c) ==
  /\ At(c, "store")
  /\ secrets < MaxSecrets
  /\ secrets' = secrets + 1
  /\ LET l == call[c].login IN
     users' = IF Has(l)
              THEN [users EXCEPT ![l].secret = secrets + 1, ![l].enabled = FALSE,
                                 ![l].expires = SetupExpiry]
              ELSE users
  /\ Return(c)
  /\ UNCHANGED <<codes, required, logged, batches, history, now>>

-----------------------------------------------------------------------------
(***************************************************************************)
(* Transactions on the codes.                                              *)
(***************************************************************************)

\* generate_backup_codes, as the rows they are stored in.
NewBatch(l) == {[login |-> l, code |-> code, used |-> FALSE] :
                  code \in {batches + 1} \X (1 .. BACKUP_CODE_COUNT)}

\* A DELETE without "github_login = %s".
ReplaceAllCodesMutant(l) ==
  /\ batches < MaxBatches
  /\ batches' = batches + 1
  /\ codes' = NewBatch(l)

\* The DELETE of the old batch and the INSERTs of a new one.
ReplaceCodes(l) ==
  /\ batches < MaxBatches
  /\ batches' = batches + 1
  /\ codes' = (codes \ CodesOf(l)) \cup NewBatch(l)

\* The codes of a user who went: the foreign key makes the INSERT raise, and
\* the transaction is rolled back.
RolledBack(c) == ~Has(call[c].login) /\ Return(c) /\ UNCHANGED <<tables, minted>>

\* confirm_mfa_enable up to its transaction: a secret that can be confirmed and
\* a code of it.  With any other code, and without a secret, it raises.
ConfirmRead(c, l) ==
  /\ call[c] = NULL
  /\ SetupValid(l)
  /\ proved' = proved \cup {<<l, users[l].secret>>}
  /\ Begin(c, "confirm", l)
  /\ UNCHANGED <<tables, minted, spent, accepts, now>>

\* confirm_mfa_enable that leaves mfa_setup_expires_at alone.
ConfirmCommitMutant(c) ==
  /\ At(c, "confirm")
  /\ LET l == call[c].login IN
     \/ RolledBack(c)
     \/ /\ Has(l)
        /\ users' = [users EXCEPT ![l].enabled = TRUE, ![l].generated = TRUE]
        /\ ReplaceCodes(l)
        /\ logged' = [logged EXCEPT ![l] = "mfa_enable"]
        /\ Return(c)
        /\ UNCHANGED <<required, secrets>>
  /\ UNCHANGED <<history, now>>

\* confirm_mfa_enable's transaction, whatever has become of the secret.
ConfirmCommit(c) ==
  /\ At(c, "confirm")
  /\ LET l == call[c].login IN
     \/ RolledBack(c)
     \/ /\ Has(l)
        /\ users' = [users EXCEPT ![l].enabled = TRUE, ![l].expires = NULL,
                                  ![l].generated = TRUE]
        /\ ReplaceCodes(l)
        /\ logged' = [logged EXCEPT ![l] = "mfa_enable"]
        /\ Return(c)
        /\ UNCHANGED <<required, secrets>>
  /\ UNCHANGED <<history, now>>

\* regenerate_backup_codes: it raises when MFA is off.
RegenerateRead(c, l) ==
  /\ call[c] = NULL
  /\ Enabled(l)
  /\ Begin(c, "regenerate", l)
  /\ UNCHANGED <<tables, minted, history, now>>

\* Its transaction, whether or not MFA is still on.
RegenerateCommit(c) ==
  /\ At(c, "regenerate")
  /\ LET l == call[c].login IN
     \/ RolledBack(c)
     \/ /\ Has(l)
        /\ users' = [users EXCEPT ![l].generated = TRUE]
        /\ ReplaceCodes(l)
        /\ Return(c)
        /\ UNCHANGED <<required, logged, secrets>>
  /\ UNCHANGED <<history, now>>

\* _try_consume_backup_code without "used_at IS NULL".
UsableMutant(l, code) == {r \in CodesOf(l) : r.code = code}

\* The rows that _try_consume_backup_code's UPDATE affects.
Usable(l, code) == {r \in CodesOf(l) : r.code = code /\ ~r.used}

\* verify_mfa_code with a backup code.  The TOTP secret it reads first does not
\* decide about it, and a TOTP code that is accepted changes nothing.
UseBackupCode(l, code) ==
  /\ Cardinality(Usable(l, code)) = 1
  /\ codes' = (codes \ Usable(l, code)) \cup {[login |-> l, code |-> code, used |-> TRUE]}
  /\ spent' = spent \cup {code}
  /\ accepts' = accepts + 1
  /\ UNCHANGED <<users, required, logged, call, minted, proved, now>>

-----------------------------------------------------------------------------
(***************************************************************************)
(* disable_mfa and clear_mfa_for_user.                                     *)
(***************************************************************************)

\* get_role: only a role of the admin panel makes disable_mfa read the policy.
DisableRole(c, l) ==
  /\ call[c] = NULL
  /\ Begin(c, IF Has(l) /\ users[l].role \in ADMIN_UI_ROLES THEN "policy" ELSE "clear", l)
  /\ UNCHANGED <<tables, minted, history, now>>

\* is_require_mfa_admin_roles_enabled: a required MFA makes disable_mfa raise.
DisablePolicy(c) ==
  /\ At(c, "policy")
  /\ IF required THEN Return(c) ELSE Continue(c, "clear")
  /\ UNCHANGED <<tables, minted, history, now>>

\* Its DELETE without "github_login = %s".
ClearStateMutant(l, action) ==
  /\ users' = IF Has(l) THEN [users EXCEPT ![l] = NewUser(users[l].role)] ELSE users
  /\ codes' = {}
  /\ logged' = [logged EXCEPT ![l] = action]
  /\ UNCHANGED required

\* _clear_mfa_state's transaction.
ClearState(l, action) ==
  /\ users' = IF Has(l) THEN [users EXCEPT ![l] = NewUser(users[l].role)] ELSE users
  /\ codes' = codes \ CodesOf(l)
  /\ logged' = [logged EXCEPT ![l] = action]
  /\ UNCHANGED required

DisableCommit(c) ==
  /\ At(c, "clear")
  /\ ClearState(call[c].login, "mfa_disable")
  /\ Return(c)
  /\ UNCHANGED <<minted, history, now>>

\* clear_mfa_for_user, of one's own MFA or of another's.
ClearForUser(l) ==
  /\ \E action \in {"mfa_disable", "mfa_admin_clear"} : ClearState(l, action)
  /\ UNCHANGED <<call, minted, history, now>>

-----------------------------------------------------------------------------
(***************************************************************************)
(* The rows these calls rely on, and failures.                             *)
(***************************************************************************)

\* set_require_mfa_admin_roles
SetRequire ==
  /\ required' \in BOOLEAN
  /\ UNCHANGED <<users, codes, logged, call, minted, history, now>>

\* update_user_role
UpdateRole(l, role) ==
  /\ Has(l)
  /\ users' = [users EXCEPT ![l].role = role]
  /\ UNCHANGED <<codes, required, logged, call, minted, history, now>>

AddUser(l, role) ==
  /\ ~Has(l)
  /\ users' = [users EXCEPT ![l] = NewUser(role)]
  /\ UNCHANGED <<codes, required, logged, call, minted, history, now>>

\* remove_user, with the cascade on user_backup_codes.
RemoveUser(l) ==
  /\ users' = [users EXCEPT ![l] = NULL]
  /\ codes' = codes \ CodesOf(l)
  /\ UNCHANGED <<required, logged, call, minted, history, now>>

\* A statement of a call raises, a transaction is rolled back (a deadlock's
\* victim, for one), a secret cannot be decrypted, or the process ends.
Abort(c) ==
  /\ call[c] # NULL
  /\ Return(c)
  /\ UNCHANGED <<tables, minted, history, now>>

Tick ==
  /\ now < MaxTime
  /\ now' = now + 1
  /\ UNCHANGED <<tables, call, minted, history>>

-----------------------------------------------------------------------------
CallStep(c) ==
  \/ \E l \in Logins : \/ SetupStart(c, l)
                       \/ ConfirmRead(c, l)
                       \/ RegenerateRead(c, l)
                       \/ DisableRole(c, l)
  \/ SetupReuse(c)
  \/ SetupStore(c)
  \/ ConfirmCommit(c)
  \/ RegenerateCommit(c)
  \/ DisablePolicy(c)
  \/ DisableCommit(c)
  \/ Abort(c)

UserStep(l) ==
  \/ \E code \in {r.code : r \in CodesOf(l)} : UseBackupCode(l, code)
  \/ ClearForUser(l)
  \/ \E role \in ROLES : UpdateRole(l, role) \/ AddUser(l, role)
  \/ RemoveUser(l)

Next ==
  \/ \E c \in Callers : CallStep(c)
  \/ \E l \in Logins : UserStep(l)
  \/ SetRequire
  \/ Tick

Spec == Init /\ [][Next]_vars

-----------------------------------------------------------------------------
(***************************************************************************)
(* Properties.                                                             *)
(***************************************************************************)

\* The tables and the calls have the values the code gives them.
MfaTypeOK ==
  /\ users \in [Logins -> User \cup {NULL}]
  /\ codes \in SUBSET CodeRow
  /\ required \in BOOLEAN
  /\ logged \in [Logins -> {NULL, "mfa_enable", "mfa_disable", "mfa_admin_clear"}]
  /\ call \in [Callers -> Step \cup {NULL}]
  /\ secrets \in Nat /\ batches \in Nat /\ now \in Nat
  /\ proved \in SUBSET (Logins \X Nat)
  /\ spent \in SUBSET Code
  /\ accepts \in Nat

\* The codes of a login are one whole batch or none, however confirmations,
\* regenerations, clearings and removals interleave.
OneBatch ==
  \A l \in Logins : CodesOf(l) # {} =>
    \E b \in 1 .. batches :
      /\ {r.code : r \in CodesOf(l)} = {b} \X (1 .. BACKUP_CODE_COUNT)
      /\ \A r \in codes : r.code[1] = b => r.login = l

\* A login has codes exactly when mfa_backup_generated_at is set.
GeneratedIffCodes ==
  \A l \in Logins : CodesOf(l) # {} <=> Has(l) /\ users[l].generated

\* Together: whoever has MFA on has the batch that was shown last, and a user who
\* is cleared, removed or added again has no code of former times.
CodesConsistent == OneBatch /\ GeneratedIffCodes

\* Each time a backup code lets somebody in, it is another one: no code works
\* twice, not when presented twice at once and not after a regeneration.
NoCodeTwice ==
  /\ accepts = Cardinality(spent)
  /\ \A r \in codes : r.used <=> r.code \in spent

\* A login whose MFA is on has no set-up pending, so that a stale set-up cannot
\* be confirmed once more; it has codes; and the audit log says that it is on.
\* (The converse fails: start_mfa_setup switches MFA off and logs nothing.)
EnabledIsSettled ==
  \A l \in Logins : Enabled(l) =>
    /\ users[l].expires = NULL
    /\ users[l].generated
    /\ logged[l] = "mfa_enable"

\* confirm_mfa_enable raises "MFA setup expired or not started" and "Invalid
\* verification code" (policy.py:476, 478): MFA is never on with a secret that
\* nobody has proved to hold.
EnabledSecretWasVerified ==
  \A l \in Logins : Enabled(l) => <<l, users[l].secret>> \in proved

\* disable_mfa raises "2FA is required by policy and cannot be disabled"
\* (policy.py:516): where it is required only an administrator's clearing, or
\* the removal of the user, ends it.
RequiredStaysEnabled ==
  [][\A l \in Logins :
       Enabled(l) /\ Required(l) /\ users'[l] # NULL /\ ~users'[l].enabled
         => ClearForUser(l)]_vars

-----------------------------------------------------------------------------
(***************************************************************************)
(* The second factor that the rows stand for.                              *)
(***************************************************************************)

\* Every code there can be.
AllCodes == (1 .. MaxBatches) \X (1 .. BACKUP_CODE_COUNT)

\* The codes that let a login in.
GoodCodes(l) == {r.code : r \in {q \in CodesOf(l) : ~q.used}}

Factor == INSTANCE SecondFactor WITH
  Code <- AllCodes, Login <- Logins,
  on <- {l \in Logins : Enabled(l)}, good <- [l \in Logins |-> GoodCodes(l)],
  made <- (1 .. batches) \X (1 .. BACKUP_CODE_COUNT), letIn <- accepts

\* However set-ups, regenerations, clearings and removals meet, the codes keep
\* SecondFactor's promise: each is good for one login and once, a batch is good
\* until the next, and MFA goes on only together with a new batch.
MfaKeepsSecondFactor == Factor!FactorSpec
=============================================================================
