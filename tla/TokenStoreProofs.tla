-------------------------- MODULE TokenStoreProofs --------------------------
(***************************************************************************)
(* Proofs about TokenStore for every value of its constants: the type      *)
(* invariant, and that a secret opens its owner's account only.            *)
(***************************************************************************)
EXTENDS TokenStore, TLAPS

\* generate_raw_token adds one secret, for the login it was called for, and
\* leaves every earlier secret with its owner.
LEMMA MintAppends ==
  ASSUME minted \in Seq(Logins), NEW login \in Logins, Mint(login)
  PROVE  /\ minted' \in Seq(Logins)
         /\ Len(minted) \in Nat
         /\ Len(minted') = Len(minted) + 1
         /\ \A s \in Secrets : minted'[s] = minted[s]
         /\ minted'[Len(minted) + 1] = login
BY SMT DEF Mint, Secrets

\* NewRow gives a value of every column its type.
LEMMA NewRowType ==
  ASSUME NEW login \in Logins, NEW secret \in Nat \ {0}, NEW term \in Terms,
         NEW auto \in BOOLEAN, NEW days \in RotationDays, now \in Nat
  PROVE  /\ NewRow(login, secret, term, auto, days) \in Row
         /\ NewRow(login, secret, term, auto, days).login = login
         /\ NewRow(login, secret, term, auto, days).secret = secret
         /\ NewRow(login, secret, term, auto, days).auto = auto
         /\ ~auto => NewRow(login, secret, term, auto, days).days = NULL
<1>1. term \in Int \cup {NULL} /\ days \in Int \cup {NULL}
  BY StoreAssumption
<1>2. (IF term = NULL THEN NULL ELSE now + term) \in Int \cup {NULL}
  BY <1>1
<1>3. (IF auto THEN days ELSE NULL) \in Int \cup {NULL}
  BY <1>1
<1>. QED  BY <1>2, <1>3 DEF NewRow, Row

\* The database a server starts on.
LEMMA StoreInitType == StoreInit => StoreTypeOK
<1>. SUFFICES ASSUME StoreInit PROVE StoreTypeOK
  OBVIOUS
<1>. USE StoreAssumption
<1>1. PICK term \in [1 .. Existing -> Terms], auto \in [1 .. Existing -> BOOLEAN],
           days \in [1 .. Existing -> RotationDays] :
        tokens = [id \in TokenIds |->
                    IF id <= Existing
                    THEN NewRow(minted[id], id, term[id], auto[id], days[id])
                    ELSE NULL]
  BY DEF StoreInit
<1>2. ASSUME NEW id \in TokenIds
      PROVE  /\ tokens[id] \in Row \cup {NULL}
             /\ Has(id) /\ ~tokens[id].auto => tokens[id].days = NULL
  <2>1. CASE id <= Existing
    <3>1. id \in 1 .. Existing /\ id \in Nat \ {0}
      BY <2>1 DEF TokenIds
    <3>2. minted[id] \in Logins /\ now \in Nat
      BY <3>1 DEF StoreInit
    <3>3. term[id] \in Terms /\ auto[id] \in BOOLEAN /\ days[id] \in RotationDays
      BY <3>1
    <3>4. tokens[id] = NewRow(minted[id], id, term[id], auto[id], days[id])
      BY <1>1, <2>1
    <3>. DEFINE row == NewRow(minted[id], id, term[id], auto[id], days[id])
    <3>5. row \in Row
      BY <3>1, <3>2, <3>3, NewRowType
    <3>6. ~row.auto => row.days = NULL
      BY DEF NewRow
    <3>. HIDE DEF row
    <3>7. tokens[id] = row
      BY <3>4 DEF row
    <3>. QED  BY <3>5, <3>6, <3>7, Zenon
  <2>2. CASE ~(id <= Existing)
    BY <1>1, <2>2 DEF Has
  <2>. QED  BY <2>1, <2>2
<1>3. tokens \in [TokenIds -> Row \cup {NULL}]
  BY <1>1, <1>2
<1>4. minted \in Seq(Logins) /\ users \in SUBSET Logins /\ nextId \in 1 .. MaxTokens + 1
  BY DEF StoreInit
<1>5. audit \in SUBSET Entry
  BY DEF StoreInit, Entry, LoginEntry
<1>6. /\ call \in [Admins -> Entry \cup {NULL}]
      /\ req \in [Requests -> Selected \cup {NULL}]
      /\ now \in Nat /\ faults \in Nat
  BY DEF StoreInit
<1>. QED  BY <1>2, <1>3, <1>4, <1>5, <1>6 DEF StoreTypeOK

\* Every step of the store keeps the types.
LEMMA StoreNextType == StoreTypeOK /\ [StoreNext]_storeVars => StoreTypeOK'
<1>. SUFFICES ASSUME StoreTypeOK, [StoreNext]_storeVars PROVE StoreTypeOK'
  OBVIOUS
<1>. USE StoreAssumption
<1>1. CASE UNCHANGED storeVars
  BY <1>1 DEF StoreTypeOK, storeVars, Has
<1>2. ASSUME NEW a \in Admins, NEW login \in Logins, NEW term \in Terms,
             NEW auto \in BOOLEAN, NEW days \in RotationDays,
             CreateToken(a, login, term, auto, days)
      PROVE  StoreTypeOK'
  <2>. DEFINE row == NewRow(login, Len(minted) + 1, term, auto, days)
  <2>1. /\ minted' \in Seq(Logins)
        /\ Len(minted) + 1 \in Nat \ {0}
    BY <1>2, MintAppends DEF CreateToken, StoreTypeOK
  <2>2. row \in Row
    BY <2>1, NewRowType DEF StoreTypeOK
  <2>3. ~row.auto => row.days = NULL
    BY DEF NewRow
  <2>4. tokens' = [tokens EXCEPT ![nextId] = row] /\ nextId \in TokenIds
    BY <1>2 DEF CreateToken
  <2>. HIDE DEF row
  <2>5. tokens' \in [TokenIds -> Row \cup {NULL}]
    BY <2>2, <2>4 DEF StoreTypeOK
  <2>6. \A id \in TokenIds : Has(id)' /\ ~tokens'[id].auto => tokens'[id].days = NULL
    BY <2>3, <2>4 DEF StoreTypeOK, Has
  <2>7. nextId' \in 1 .. MaxTokens + 1
    BY <1>2 DEF CreateToken, TokenIds
  <2>8. call' \in [Admins -> Entry \cup {NULL}]
    BY <1>2 DEF CreateToken, StoreTypeOK, Entry, LoginEntry
  <2>. QED  BY <1>2, <2>1, <2>5, <2>6, <2>7, <2>8 DEF CreateToken, StoreTypeOK
<1>3. ASSUME NEW a \in Admins, NEW id \in TokenIds, RevokeToken(a, id)
      PROVE  StoreTypeOK'
  <2>. DEFINE row == [tokens[id] EXCEPT !.revoked = TRUE]
  <2>1. tokens' = [tokens EXCEPT ![id] = row]
    BY <1>3 DEF RevokeToken
  <2>2. tokens[id] \in Row /\ (~tokens[id].auto => tokens[id].days = NULL)
    BY <1>3 DEF RevokeToken, Revocable, Has, StoreTypeOK
  <2>3. row \in Row /\ (~row.auto => row.days = NULL)
    BY <2>2 DEF Row
  <2>. HIDE DEF row
  <2>4. call' \in [Admins -> Entry \cup {NULL}]
    BY <1>3 DEF RevokeToken, StoreTypeOK, Entry, TokenEntry
  <2>. QED  BY <1>3, <2>1, <2>3, <2>4 DEF RevokeToken, StoreTypeOK, Has
<1>4. ASSUME NEW a \in Admins, NEW id \in TokenIds, DeleteToken(a, id)
      PROVE  StoreTypeOK'
  BY <1>4 DEF DeleteToken, StoreTypeOK, Has, Entry, TokenEntry
<1>5. ASSUME NEW a \in Admins, NEW login \in Logins, AddUser(a, login)
      PROVE  StoreTypeOK'
  BY <1>5 DEF AddUser, StoreTypeOK, Has, Entry, LoginEntry
<1>6. ASSUME NEW a \in Admins, NEW login \in Logins, RemoveUser(a, login)
      PROVE  StoreTypeOK'
  BY <1>6 DEF RemoveUser, Cascade, StoreTypeOK, Has, Entry, LoginEntry
<1>7. ASSUME NEW a \in Admins, WriteAudit(a)
      PROVE  StoreTypeOK'
  BY <1>7 DEF WriteAudit, StoreTypeOK, Has
<1>8. ASSUME NEW a \in Admins, CallFails(a)
      PROVE  StoreTypeOK'
  BY <1>8 DEF CallFails, Fault, dbVars, StoreTypeOK, Has
<1>9. ASSUME NEW r \in Requests, NEW secret \in Secrets, VerifySelect(r, secret)
      PROVE  StoreTypeOK'
  <2>1. PICK id \in TokenIds :
          /\ Matches(id, secret)
          /\ req' = [req EXCEPT ![r] = [id |-> id, secret |-> secret,
                                        login |-> tokens[id].login]]
    BY <1>9 DEF VerifySelect
  <2>2. tokens[id].login \in Logins /\ secret \in Nat
    BY <2>1 DEF Matches, Has, StoreTypeOK, Row, Secrets
  <2>3. req' \in [Requests -> Selected \cup {NULL}]
    BY <2>1, <2>2 DEF StoreTypeOK, Selected
  <2>. QED  BY <1>9, <2>3 DEF VerifySelect, dbVars, StoreTypeOK, Has
<1>10. ASSUME NEW r \in Requests, VerifyTouch(r)
       PROVE  StoreTypeOK'
  <2>1. tokens' = [id \in TokenIds |->
                     IF id = req[r].id /\ Has(id)
                     THEN [tokens[id] EXCEPT !.used = TRUE] ELSE tokens[id]]
    BY <1>10 DEF VerifyTouch
  <2>2. ASSUME NEW id \in TokenIds
        PROVE  /\ tokens'[id] \in Row \cup {NULL}
               /\ Has(id)' /\ ~tokens'[id].auto => tokens'[id].days = NULL
    BY <2>1 DEF StoreTypeOK, Has, Row
  <2>. QED  BY <1>10, <2>1, <2>2 DEF VerifyTouch, StoreTypeOK, Has
<1>11. ASSUME NEW r \in Requests, VerifyFails(r)
       PROVE  StoreTypeOK'
  BY <1>11 DEF VerifyFails, Fault, dbVars, StoreTypeOK, Has
<1>12. CASE Tick
  BY <1>12 DEF Tick, dbVars, StoreTypeOK, Has
<1>. QED
  BY <1>1, <1>2, <1>3, <1>4, <1>5, <1>6, <1>7, <1>8, <1>9, <1>10, <1>11, <1>12
  DEF StoreNext, AdminStep, VerifyStep

\* The columns, calls and requests of TokenStore always have their types.
THEOREM StoreTypeCorrect == StoreSpec => []StoreTypeOK
<1>. QED  BY StoreInitType, StoreNextType, PTL DEF StoreSpec

-----------------------------------------------------------------------------
(***************************************************************************)
(* A secret opens its owner's account only.  IdentityCorrect is not        *)
(* inductive by itself: that no row takes the id a verification holds      *)
(* needs AUTO_INCREMENT to be ahead of every id in use.                    *)
(***************************************************************************)

IdsInUse ==
  /\ \A id \in TokenIds : Has(id) => id < nextId
  /\ \A r \in Requests : req[r] # NULL => req[r].id < nextId

StoreInv == StoreTypeOK /\ IdentityCorrect /\ IdsInUse

\* The rows a server starts on are their owners'.
LEMMA StoreInitIdentity == StoreInit => IdentityCorrect /\ IdsInUse
<1>. SUFFICES ASSUME StoreInit PROVE IdentityCorrect /\ IdsInUse
  OBVIOUS
<1>. USE StoreAssumption
<1>1. PICK term \in [1 .. Existing -> Terms], auto \in [1 .. Existing -> BOOLEAN],
           days \in [1 .. Existing -> RotationDays] :
        tokens = [id \in TokenIds |->
                    IF id <= Existing
                    THEN NewRow(minted[id], id, term[id], auto[id], days[id])
                    ELSE NULL]
  BY DEF StoreInit
<1>2. Len(minted) = Existing /\ nextId = Existing + 1
  BY DEF StoreInit
<1>3. ASSUME NEW id \in TokenIds, Has(id)
      PROVE  /\ id \in 1 .. Existing
             /\ tokens[id].secret = id
             /\ tokens[id].login = minted[id]
  BY <1>1, <1>3 DEF Has, NewRow, TokenIds
<1>4. SecretsUnique
  BY <1>2, <1>3 DEF SecretsUnique, Secrets
<1>5. VerifiedIsOwner
  BY DEF VerifiedIsOwner, StoreInit
<1>6. IdsInUse
  BY <1>2, <1>3 DEF IdsInUse, StoreInit
<1>. QED  BY <1>4, <1>5, <1>6 DEF IdentityCorrect

\* A step that mints nothing, leaves every row's secret and login, and adds
\* neither a row nor a selected row keeps the invariant.
LEMMA RowsOnlyGo ==
  ASSUME StoreInv, UNCHANGED <<minted, nextId>>,
         \A id \in TokenIds : Has(id)' =>
           /\ Has(id)
           /\ tokens'[id].secret = tokens[id].secret
           /\ tokens'[id].login = tokens[id].login,
         \A r \in Requests : req'[r] # NULL => req'[r] = req[r]
  PROVE  IdentityCorrect' /\ IdsInUse'
<1>1. SecretsUnique'
  BY DEF StoreInv, IdentityCorrect, SecretsUnique, Secrets
<1>2. VerifiedIsOwner'
  BY DEF StoreInv, StoreTypeOK, Selected, IdentityCorrect, VerifiedIsOwner, Secrets
<1>3. IdsInUse'
  BY DEF StoreInv, IdsInUse
<1>. QED  BY <1>1, <1>2, <1>3 DEF IdentityCorrect

\* Every step of the store keeps secrets with their owners.
LEMMA StoreNextIdentity ==
  ASSUME StoreInv, [StoreNext]_storeVars
  PROVE  IdentityCorrect' /\ IdsInUse'
<1>. USE StoreAssumption
<1>1. CASE UNCHANGED storeVars
  BY <1>1, RowsOnlyGo DEF storeVars, Has
<1>2. ASSUME NEW a \in Admins, NEW login \in Logins, NEW term \in Terms,
             NEW auto \in BOOLEAN, NEW days \in RotationDays,
             CreateToken(a, login, term, auto, days)
      PROVE  IdentityCorrect' /\ IdsInUse'
  <2>. DEFINE row == NewRow(login, Len(minted) + 1, term, auto, days)
  <2>1. /\ Len(minted) \in Nat
        /\ Len(minted') = Len(minted) + 1
        /\ \A s \in Secrets : minted'[s] = minted[s]
        /\ minted'[Len(minted) + 1] = login
    BY <1>2, MintAppends DEF CreateToken, StoreInv, StoreTypeOK
  <2>2. row.secret = Len(minted) + 1 /\ row.login = login
    BY DEF NewRow
  <2>3. /\ tokens' = [tokens EXCEPT ![nextId] = row] /\ nextId \in TokenIds
        /\ nextId' = nextId + 1 /\ req' = req
    BY <1>2 DEF CreateToken
  <2>. HIDE DEF row
  <2>4. Secrets' = Secrets \cup {Len(minted) + 1}
    BY <2>1 DEF Secrets
  <2>5. ASSUME NEW id \in TokenIds, Has(id)'
        PROVE  IF id = nextId THEN tokens'[id] = row
                              ELSE Has(id) /\ tokens'[id] = tokens[id]
    BY <2>3, <2>5 DEF Has, StoreInv, StoreTypeOK
  <2>6. \A id \in TokenIds : Has(id) => tokens[id].secret # Len(minted) + 1
    BY <2>1 DEF StoreInv, IdentityCorrect, SecretsUnique, Secrets
  <2>7. SecretsUnique'
    BY <2>1, <2>2, <2>4, <2>5, <2>6 DEF StoreInv, IdentityCorrect, SecretsUnique
  <2>8. VerifiedIsOwner'
    BY <2>1, <2>3, <2>4, <2>5
    DEF StoreInv, StoreTypeOK, Selected, TokenIds, IdentityCorrect, VerifiedIsOwner, IdsInUse
  <2>9. IdsInUse'
    BY <2>3, <2>5 DEF StoreInv, StoreTypeOK, Selected, TokenIds, IdsInUse
  <2>. QED  BY <2>7, <2>8, <2>9 DEF IdentityCorrect
<1>3. ASSUME NEW a \in Admins, NEW id \in TokenIds, RevokeToken(a, id)
      PROVE  IdentityCorrect' /\ IdsInUse'
  <2>1. ASSUME NEW t \in TokenIds, Has(t)'
        PROVE  /\ Has(t)
               /\ tokens'[t].secret = tokens[t].secret
               /\ tokens'[t].login = tokens[t].login
    <3>1. tokens' = [tokens EXCEPT ![id] = [tokens[id] EXCEPT !.revoked = TRUE]] /\ Has(id)
      BY <1>3 DEF RevokeToken, Revocable
    <3>2. tokens[id] \in Row
      BY <3>1 DEF Has, StoreInv, StoreTypeOK
    <3>. QED  BY <2>1, <3>1, <3>2 DEF Has, StoreInv, StoreTypeOK, Row
  <2>. QED  BY <1>3, <2>1, RowsOnlyGo DEF RevokeToken
<1>4. ASSUME NEW a \in Admins, NEW id \in TokenIds, DeleteToken(a, id)
      PROVE  IdentityCorrect' /\ IdsInUse'
  BY <1>4, RowsOnlyGo DEF DeleteToken, Has, StoreInv, StoreTypeOK
<1>5. ASSUME NEW a \in Admins, NEW login \in Logins, AddUser(a, login)
      PROVE  IdentityCorrect' /\ IdsInUse'
  BY <1>5, RowsOnlyGo DEF AddUser, Has
<1>6. ASSUME NEW a \in Admins, NEW login \in Logins, RemoveUser(a, login)
      PROVE  IdentityCorrect' /\ IdsInUse'
  BY <1>6, RowsOnlyGo DEF RemoveUser, Cascade, Has
<1>7. ASSUME NEW a \in Admins, WriteAudit(a)
      PROVE  IdentityCorrect' /\ IdsInUse'
  BY <1>7, RowsOnlyGo DEF WriteAudit, Has
<1>8. ASSUME NEW a \in Admins, CallFails(a)
      PROVE  IdentityCorrect' /\ IdsInUse'
  BY <1>8, RowsOnlyGo DEF CallFails, dbVars, Has
<1>9. ASSUME NEW r \in Requests, NEW secret \in Secrets, VerifySelect(r, secret)
      PROVE  IdentityCorrect' /\ IdsInUse'
  <2>1. PICK id \in TokenIds :
          /\ Matches(id, secret)
          /\ req' = [req EXCEPT ![r] = [id |-> id, secret |-> secret,
                                        login |-> tokens[id].login]]
    BY <1>9 DEF VerifySelect
  <2>2. Has(id) /\ tokens[id].secret = secret
    BY <2>1 DEF Matches
  <2>3. UNCHANGED <<tokens, minted, nextId>>
    BY <1>9 DEF VerifySelect, dbVars
  <2>4. SecretsUnique'
    BY <2>3 DEF StoreInv, IdentityCorrect, SecretsUnique, Secrets, Has
  <2>5. VerifiedIsOwner'
    BY <2>1, <2>2, <2>3
    DEF StoreInv, StoreTypeOK, IdentityCorrect, SecretsUnique, VerifiedIsOwner, Secrets, Has
  <2>6. IdsInUse'
    BY <2>1, <2>2, <2>3 DEF StoreInv, StoreTypeOK, IdsInUse, Has
  <2>. QED  BY <2>4, <2>5, <2>6 DEF IdentityCorrect
<1>10. ASSUME NEW r \in Requests, VerifyTouch(r)
       PROVE  IdentityCorrect' /\ IdsInUse'
  <2>1. tokens' = [id \in TokenIds |->
                     IF id = req[r].id /\ Has(id)
                     THEN [tokens[id] EXCEPT !.used = TRUE] ELSE tokens[id]]
    BY <1>10 DEF VerifyTouch
  <2>2. ASSUME NEW t \in TokenIds, Has(t)'
        PROVE  /\ Has(t)
               /\ tokens'[t].secret = tokens[t].secret
               /\ tokens'[t].login = tokens[t].login
    BY <2>1, <2>2 DEF Has, StoreInv, StoreTypeOK, Row
  <2>3. \A q \in Requests : req'[q] # NULL => req'[q] = req[q]
    BY <1>10 DEF VerifyTouch, StoreInv, StoreTypeOK
  <2>. QED  BY <1>10, <2>2, <2>3, RowsOnlyGo DEF VerifyTouch
<1>11. ASSUME NEW r \in Requests, VerifyFails(r)
       PROVE  IdentityCorrect' /\ IdsInUse'
  <2>1. \A q \in Requests : req'[q] # NULL => req'[q] = req[q]
    BY <1>11 DEF VerifyFails, StoreInv, StoreTypeOK
  <2>. QED  BY <1>11, <2>1, RowsOnlyGo DEF VerifyFails, dbVars, Has
<1>12. CASE Tick
  BY <1>12, RowsOnlyGo DEF Tick, dbVars, Has
<1>. QED
  BY <1>1, <1>2, <1>3, <1>4, <1>5, <1>6, <1>7, <1>8, <1>9, <1>10, <1>11, <1>12
  DEF StoreNext, AdminStep, VerifyStep

\* Whatever calls, verifications and faults interleave, a secret opens only the
\* account it was generated for.
THEOREM StoreIdentity == StoreSpec => []IdentityCorrect
<1>1. StoreInit => StoreInv
  BY StoreInitType, StoreInitIdentity DEF StoreInv
<1>2. StoreInv /\ [StoreNext]_storeVars => StoreInv'
  BY StoreNextType, StoreNextIdentity DEF StoreInv
<1>3. StoreInv => IdentityCorrect
  BY DEF StoreInv
<1>. QED  BY <1>1, <1>2, <1>3, PTL DEF StoreSpec

-----------------------------------------------------------------------------
(***************************************************************************)
(* What any step of the store may do, for the loops that run beside it.    *)
(***************************************************************************)

\* A row stays the token it is.
SameToken(id) ==
  /\ Has(id)
  /\ tokens'[id].secret = tokens[id].secret
  /\ tokens'[id].login = tokens[id].login
  /\ tokens'[id].days = tokens[id].days
  /\ tokens[id].revoked => tokens'[id].revoked

\* A row that create_token has just inserted.
FreshToken(id) ==
  /\ id = nextId /\ nextId' = nextId + 1
  /\ tokens'[id].secret = Len(minted) + 1

StoreEffect ==
  /\ nextId' >= nextId /\ now' >= now /\ faults' >= faults
  /\ Secrets \subseteq Secrets' /\ \A s \in Secrets : minted'[s] = minted[s]
  /\ \A id \in TokenIds : Has(id)' => SameToken(id) \/ FreshToken(id)
  /\ \A id \in TokenIds : Has(id) /\ ~Has(id)' =>
       tokens[id].revoked \/ tokens[id].login \notin users'

\* A step that touches no row, user or secret has that effect.
LEMMA QuietEffect ==
  ASSUME StoreTypeOK, UNCHANGED <<users, tokens, minted, nextId>>,
         now' >= now, faults' >= faults
  PROVE  StoreEffect
BY DEF StoreTypeOK, StoreEffect, SameToken, Has, Secrets

\* Every step of the store has that effect.
LEMMA StoreNextEffect ==
  ASSUME StoreInv, [StoreNext]_storeVars
  PROVE  StoreEffect
<1>. USE StoreAssumption
<1>0. /\ StoreTypeOK
      /\ nextId \in Int /\ now \in Int /\ faults \in Int
      /\ now >= now /\ faults >= faults /\ nextId >= nextId
  BY DEF StoreInv, StoreTypeOK
<1>1. CASE UNCHANGED storeVars
  BY <1>0, <1>1, QuietEffect DEF storeVars
<1>2. ASSUME NEW a \in Admins, NEW login \in Logins, NEW term \in Terms,
             NEW auto \in BOOLEAN, NEW days \in RotationDays,
             CreateToken(a, login, term, auto, days)
      PROVE  StoreEffect
  <2>. DEFINE row == NewRow(login, Len(minted) + 1, term, auto, days)
  <2>1. /\ Len(minted) \in Nat
        /\ Len(minted') = Len(minted) + 1
        /\ \A s \in Secrets : minted'[s] = minted[s]
    BY <1>0, <1>2, MintAppends DEF CreateToken, StoreTypeOK
  <2>2. row.secret = Len(minted) + 1
    BY DEF NewRow
  <2>3. /\ tokens' = [tokens EXCEPT ![nextId] = row] /\ nextId \in TokenIds
        /\ nextId' = nextId + 1 /\ UNCHANGED <<users, now, faults>>
    BY <1>2 DEF CreateToken
  <2>4. row \in Row
    BY <1>0, <2>1, NewRowType DEF StoreTypeOK
  <2>5. row # NULL
    BY <2>4, NullAssumption
  <2>. HIDE DEF row
  <2>6. ASSUME NEW id \in TokenIds, Has(id)'
        PROVE  SameToken(id) \/ FreshToken(id)
    BY <1>0, <2>2, <2>3, <2>6 DEF SameToken, FreshToken, Has, StoreTypeOK
  <2>7. \A id \in TokenIds : Has(id) => Has(id)'
    BY <1>0, <2>3, <2>5 DEF Has, StoreTypeOK
  <2>8. Secrets \subseteq Secrets'
    BY <2>1 DEF Secrets
  <2>. QED  BY <1>0, <2>1, <2>3, <2>6, <2>7, <2>8 DEF StoreEffect
<1>3. ASSUME NEW a \in Admins, NEW id \in TokenIds, RevokeToken(a, id)
      PROVE  StoreEffect
  <2>1. /\ tokens' = [tokens EXCEPT ![id] = [tokens[id] EXCEPT !.revoked = TRUE]]
        /\ Has(id) /\ UNCHANGED <<users, nextId, minted, now, faults>>
    BY <1>3 DEF RevokeToken, Revocable
  <2>2. tokens[id] \in Row /\ [tokens[id] EXCEPT !.revoked = TRUE] \in Row
    BY <1>0, <2>1 DEF Has, StoreTypeOK, Row
  <2>3. [tokens[id] EXCEPT !.revoked = TRUE] # NULL
    BY <2>2, NullAssumption
  <2>4. \A t \in TokenIds : (Has(t)' => SameToken(t)) /\ (Has(t) => Has(t)')
    BY <1>0, <2>1, <2>2, <2>3 DEF Has, SameToken, StoreTypeOK, Row
  <2>. QED  BY <1>0, <2>1, <2>4 DEF StoreEffect, Secrets
<1>4. ASSUME NEW a \in Admins, NEW id \in TokenIds, DeleteToken(a, id)
      PROVE  StoreEffect
  BY <1>0, <1>4 DEF DeleteToken, Deletable, StoreEffect, SameToken, Has, Secrets, StoreTypeOK
<1>5. ASSUME NEW a \in Admins, NEW login \in Logins, AddUser(a, login)
      PROVE  StoreEffect
  BY <1>0, <1>5 DEF AddUser, StoreEffect, SameToken, Has, Secrets
<1>6. ASSUME NEW a \in Admins, NEW login \in Logins, RemoveUser(a, login)
      PROVE  StoreEffect
  BY <1>0, <1>6 DEF RemoveUser, Cascade, StoreEffect, SameToken, Has, Secrets
<1>7. ASSUME NEW a \in Admins, WriteAudit(a)
      PROVE  StoreEffect
  BY <1>0, <1>7, QuietEffect DEF WriteAudit
<1>8. ASSUME NEW a \in Admins, CallFails(a)
      PROVE  StoreEffect
  BY <1>0, <1>8, QuietEffect DEF CallFails, Fault, dbVars
<1>9. ASSUME NEW r \in Requests, NEW secret \in Secrets, VerifySelect(r, secret)
      PROVE  StoreEffect
  BY <1>0, <1>9, QuietEffect DEF VerifySelect, dbVars
<1>10. ASSUME NEW r \in Requests, VerifyTouch(r)
       PROVE  StoreEffect
  <2>1. /\ tokens' = [id \in TokenIds |->
                        IF id = req[r].id /\ Has(id)
                        THEN [tokens[id] EXCEPT !.used = TRUE] ELSE tokens[id]]
        /\ UNCHANGED <<users, nextId, minted, now, faults>>
    BY <1>10 DEF VerifyTouch
  <2>2. ASSUME NEW t \in TokenIds
        PROVE  (Has(t)' => SameToken(t)) /\ (Has(t) => Has(t)')
    <3>1. CASE t = req[r].id /\ Has(t)
      <4>1. tokens'[t] = [tokens[t] EXCEPT !.used = TRUE] /\ tokens[t] \in Row
        BY <1>0, <2>1, <3>1 DEF Has, StoreTypeOK
      <4>2. [tokens[t] EXCEPT !.used = TRUE] \in Row
        BY <4>1 DEF Row
      <4>3. tokens'[t] # NULL
        BY <4>1, <4>2, NullAssumption
      <4>. QED  BY <3>1, <4>1, <4>3 DEF Has, SameToken, Row
    <3>2. CASE ~(t = req[r].id /\ Has(t))
      BY <2>1, <3>2 DEF Has, SameToken
    <3>. QED  BY <3>1, <3>2
  <2>. QED  BY <1>0, <2>1, <2>2 DEF StoreEffect, Secrets
<1>11. ASSUME NEW r \in Requests, VerifyFails(r)
       PROVE  StoreEffect
  BY <1>0, <1>11, QuietEffect DEF VerifyFails, Fault, dbVars
<1>12. CASE Tick
  BY <1>0, <1>12, QuietEffect DEF Tick, dbVars
<1>. QED
  BY <1>1, <1>2, <1>3, <1>4, <1>5, <1>6, <1>7, <1>8, <1>9, <1>10, <1>11, <1>12
  DEF StoreNext, AdminStep, VerifyStep

\* In TokenStore alone, no call and no fault brings a revoked token back.
THEOREM StoreRevokedIsFinal == StoreSpec => RevokedIsFinal
<1>1. StoreInit => StoreInv
  BY StoreInitType, StoreInitIdentity DEF StoreInv
<1>2. StoreInv /\ [StoreNext]_storeVars => StoreInv'
  BY StoreNextType, StoreNextIdentity DEF StoreInv
<1>. DEFINE Step == \A id \in TokenIds : Has(id) =>
                      IF Has(id)'
                      THEN tokens[id].revoked => /\ tokens'[id].revoked
                                                 /\ tokens'[id].secret = tokens[id].secret
                      ELSE tokens[id].revoked \/ tokens[id].login \notin users'
<1>3. StoreInv /\ [StoreNext]_storeVars => [Step]_storeVars
  <2>. SUFFICES ASSUME StoreInv, [StoreNext]_storeVars,
                       NEW id \in TokenIds, Has(id)
                PROVE  IF Has(id)'
                       THEN tokens[id].revoked => /\ tokens'[id].revoked
                                                  /\ tokens'[id].secret = tokens[id].secret
                       ELSE tokens[id].revoked \/ tokens[id].login \notin users'
    OBVIOUS
  <2>1. StoreEffect
    BY StoreNextEffect
  <2>2. Has(id)' => SameToken(id)
    BY <2>1 DEF StoreEffect, FreshToken, StoreInv, IdsInUse, StoreTypeOK, TokenIds
  <2>. QED  BY <2>1, <2>2 DEF StoreEffect, SameToken
<1>. QED  BY <1>1, <1>2, <1>3, PTL DEF StoreSpec, RevokedIsFinal

\* Each step keeps every row's login in users: the foreign key refuses a row
\* without, and the cascade takes a removed user's rows.
LEMMA StoreNextRows ==
  ASSUME StoreInv, RowsHaveUser, [StoreNext]_storeVars
  PROVE  RowsHaveUser'
<1>0. StoreTypeOK
  BY DEF StoreInv
<1>1. ASSUME NEW a \in Admins, NEW login \in Logins, NEW term \in Terms,
             NEW auto \in BOOLEAN, NEW days \in RotationDays,
             CreateToken(a, login, term, auto, days)
      PROVE  RowsHaveUser'
  <2>. DEFINE row == NewRow(login, Len(minted) + 1, term, auto, days)
  <2>1. tokens' = [tokens EXCEPT ![nextId] = row] /\ UNCHANGED users /\ login \in users
    BY <1>1 DEF CreateToken
  <2>2. row.login = login
    BY DEF NewRow
  <2>. HIDE DEF row
  <2>. QED  BY <1>0, <2>1, <2>2 DEF RowsHaveUser, Has, StoreTypeOK
<1>2. CASE \E a \in Admins, login \in Logins : RemoveUser(a, login)
  BY <1>2 DEF RemoveUser, Cascade, RowsHaveUser, Has
<1>3. CASE /\ users \subseteq users'
           /\ \A id \in TokenIds : Has(id)' => Has(id) /\ tokens'[id].login = tokens[id].login
  BY <1>3 DEF RowsHaveUser
<1>. QED
  <2>1. ASSUME NEW a \in Admins, NEW id \in TokenIds, RevokeToken(a, id)
        PROVE  RowsHaveUser'
    <3>1. /\ tokens' = [tokens EXCEPT ![id] = [tokens[id] EXCEPT !.revoked = TRUE]]
          /\ Has(id) /\ users' = users
      BY <2>1 DEF RevokeToken, Revocable
    <3>2. tokens[id] \in Row
      BY <1>0, <3>1 DEF Has, StoreTypeOK
    <3>. QED  BY <1>0, <1>3, <3>1, <3>2 DEF Has, StoreTypeOK, Row
  <2>2. ASSUME NEW a \in Admins, NEW id \in TokenIds, DeleteToken(a, id)
        PROVE  RowsHaveUser'
    BY <1>0, <1>3, <2>2 DEF DeleteToken, Has, StoreTypeOK
  <2>3. ASSUME NEW a \in Admins, NEW login \in Logins, AddUser(a, login)
        PROVE  RowsHaveUser'
    BY <1>3, <2>3 DEF AddUser, Has
  <2>4. ASSUME NEW r \in Requests, VerifyTouch(r)
        PROVE  RowsHaveUser'
    <3>1. /\ tokens' = [id \in TokenIds |->
                          IF id = req[r].id /\ Has(id)
                          THEN [tokens[id] EXCEPT !.used = TRUE] ELSE tokens[id]]
          /\ users' = users
      BY <2>4 DEF VerifyTouch
    <3>2. \A id \in TokenIds : Has(id)' => Has(id) /\ tokens'[id].login = tokens[id].login
      BY <1>0, <3>1 DEF Has, StoreTypeOK, Row
    <3>. QED  BY <1>3, <3>1, <3>2
  <2>5. CASE UNCHANGED <<users, tokens>>
    BY <2>5 DEF RowsHaveUser, Has
  <2>. QED
    BY <1>1, <1>2, <2>1, <2>2, <2>3, <2>4, <2>5
    DEF StoreNext, AdminStep, VerifyStep, WriteAudit, CallFails, VerifySelect,
        VerifyFails, Tick, dbVars, storeVars

\* The rows a server starts on have their users.
LEMMA StoreInitRows == StoreInit => RowsHaveUser
<1>. SUFFICES ASSUME StoreInit, NEW id \in TokenIds, Has(id)
              PROVE  tokens[id].login \in users
  BY DEF RowsHaveUser
<1>1. id \in 1 .. Existing /\ tokens[id].login = minted[id]
  BY StoreAssumption DEF StoreInit, NewRow, TokenIds, Has
<1>. QED  BY <1>1 DEF StoreInit

\* Every row belongs to a user, so verification need not look at users.
THEOREM StoreRowsHaveUser == StoreSpec => []RowsHaveUser
<1>1. StoreInit => StoreInv /\ RowsHaveUser
  BY StoreInitType, StoreInitIdentity, StoreInitRows DEF StoreInv
<1>2. StoreInv /\ RowsHaveUser /\ [StoreNext]_storeVars => StoreInv' /\ RowsHaveUser'
  BY StoreNextType, StoreNextIdentity, StoreNextRows DEF StoreInv
<1>. QED  BY <1>1, <1>2, PTL DEF StoreSpec

=============================================================================
