-------------------------- MODULE CredentialProofs --------------------------
(***************************************************************************)
(* Proofs that TokenStore and TokenRotate implement Credential.            *)
(*                                                                         *)
(* What a step does to the credentials is one of a few effects, stated on  *)
(* the rows, requests and secrets; each effect is a step of Credential     *)
(* whatever is in the loops' hands.                                        *)
(***************************************************************************)
EXTENDS TokenRotateProofs

\* Every secret that was generated is one of AllSecrets.
SecretsKnown == Secrets \subseteq AllSecrets

SameLives == \A s \in AllSecrets : IsLive(s)' = IsLive(s)

Fades == /\ UNCHANGED <<minted, req>>
         /\ \A s \in AllSecrets : IsLive(s)' => IsLive(s)

Minted(s, login) ==
  /\ s \in AllSecrets /\ s \notin Secrets /\ Secrets' = Secrets \cup {s}
  /\ minted'[s] = login /\ \A t \in Secrets : minted'[t] = minted[t]
  /\ UNCHANGED req

Issued ==
  \E s \in AllSecrets, login \in Logins :
    /\ Minted(s, login)
    /\ IsLive(s)' /\ \A t \in Secrets : IsLive(t)' = IsLive(t)

Accepted ==
  /\ SameLives /\ UNCHANGED minted
  /\ \E r \in Requests, s \in Secrets, x \in Selected :
       /\ req[r] = NULL /\ req' = [req EXCEPT ![r] = x]
       /\ IsLive(s) /\ x.secret = s /\ x.login = minted[s]

Answered ==
  /\ SameLives /\ UNCHANGED minted
  /\ \E r \in Requests : req' = [req EXCEPT ![r] = NULL]

LEMMA RowsFade ==
  ASSUME \A id \in TokenIds : Has(id)' =>
           /\ Has(id) /\ tokens'[id].secret = tokens[id].secret
           /\ tokens[id].revoked => tokens'[id].revoked,
         StoreTypeOK, StoreTypeOK'
  PROVE  \A s \in AllSecrets : IsLive(s)' => IsLive(s)
<1>1. \A id \in TokenIds : Has(id) => tokens[id].revoked \in BOOLEAN
  BY DEF StoreTypeOK, Has, Row
<1>2. \A id \in TokenIds : Has(id)' => tokens'[id].revoked \in BOOLEAN
  BY DEF StoreTypeOK, Has, Row
<1>. QED  BY <1>1, <1>2 DEF IsLive

LEMMA RowsLast ==
  ASSUME \A id \in TokenIds : Has(id)' <=> Has(id),
         \A id \in TokenIds : Has(id) =>
           /\ tokens'[id].secret = tokens[id].secret
           /\ tokens'[id].revoked = tokens[id].revoked
  PROVE  SameLives
BY DEF SameLives, IsLive

LEMMA MintKnown ==
  ASSUME StoreTypeOK, SecretsKnown, NEW login \in Logins, Mint(login), UNCHANGED req
  PROVE  Minted(Len(minted) + 1, login) /\ SecretsKnown'
<1>1. /\ Len(minted) \in Nat /\ Len(minted') = Len(minted) + 1
      /\ \A s \in Secrets : minted'[s] = minted[s]
      /\ minted'[Len(minted) + 1] = login
  BY MintAppends DEF StoreTypeOK
<1>2. Len(minted) < MaxSecrets
  BY DEF Mint
<1>3. Len(minted) + 1 \in AllSecrets
  BY <1>1, <1>2, StoreAssumption DEF AllSecrets
<1>4. Secrets' = Secrets \cup {Len(minted) + 1} /\ Len(minted) + 1 \notin Secrets
  BY <1>1 DEF Secrets
<1>. QED  BY <1>1, <1>3, <1>4 DEF Minted, SecretsKnown, AllSecrets

\* Each step of the store has one of the effects.
LEMMA StoreCredEffect ==
  ASSUME StoreInv, SecretsKnown, [StoreNext]_storeVars
  PROVE  SecretsKnown' /\ (Fades \/ Issued \/ Accepted \/ Answered)
<1>0. StoreTypeOK /\ StoreTypeOK'
  BY StoreNextType DEF StoreInv
<1>1. ASSUME NEW a \in Admins, NEW login \in Logins, NEW term \in Terms,
             NEW auto \in BOOLEAN, NEW days \in RotationDays,
             CreateToken(a, login, term, auto, days)
      PROVE  SecretsKnown' /\ Issued
  <2>0. PICK s \in Nat \ {0} : s = Len(minted) + 1
    BY <1>0, MintAppends, <1>1 DEF StoreTypeOK, CreateToken
  <2>. DEFINE row == NewRow(login, s, term, auto, days)
  <2>1. /\ tokens' = [tokens EXCEPT ![nextId] = row] /\ nextId \in TokenIds
        /\ Mint(login) /\ UNCHANGED req
    BY <1>1, <2>0 DEF CreateToken
  <2>2. Minted(s, login) /\ SecretsKnown'
    BY <1>0, <2>1, <2>0, MintKnown
  <2>3. row.secret = s /\ ~row.revoked
    BY DEF NewRow
  <2>. HIDE DEF row
  <2>5. row # NULL
    <3>1. row \in Row
      BY <1>0, NewRowType DEF row, StoreTypeOK
    <3>. QED  BY <3>1, NullAssumption
  <2>6. ~Has(nextId)
    BY <1>0, <2>1 DEF StoreInv, IdsInUse, StoreTypeOK, TokenIds
  <2>7. /\ tokens'[nextId] = row
        /\ \A id \in TokenIds : id # nextId => tokens'[id] = tokens[id]
    BY <1>0, <2>1 DEF StoreTypeOK
  <2>8. IsLive(s)'
    BY <2>1, <2>3, <2>5, <2>7 DEF IsLive, Has
  <2>9. \A t \in Secrets : IsLive(t)' = IsLive(t)
    BY <2>2, <2>3, <2>6, <2>7 DEF IsLive, Has, Minted
  <2>. QED  BY <2>2, <2>8, <2>9 DEF Issued, Minted
<1>2. ASSUME NEW r \in Requests, NEW secret \in Secrets, VerifySelect(r, secret)
      PROVE  Accepted /\ SecretsKnown'
  <2>1. PICK id \in TokenIds :
          /\ Matches(id, secret)
          /\ req' = [req EXCEPT ![r] = [id |-> id, secret |-> secret,
                                        login |-> tokens[id].login]]
    BY <1>2 DEF VerifySelect
  <2>2. /\ Has(id) /\ ~tokens[id].revoked /\ tokens[id].secret = secret
        /\ tokens[id].login \in Logins
    BY <1>0, <2>1 DEF Matches, Has, StoreTypeOK, Row
  <2>3. minted[secret] = tokens[id].login
    BY <2>2 DEF StoreInv, IdentityCorrect, SecretsUnique
  <2>4. [id |-> id, secret |-> secret, login |-> tokens[id].login] \in Selected
    BY <2>2 DEF Selected, Secrets
  <2>5. IsLive(secret)
    BY <2>2 DEF IsLive
  <2>6. UNCHANGED <<tokens, minted>> /\ req[r] = NULL
    BY <1>2 DEF VerifySelect, dbVars
  <2>7. SameLives
    BY <2>6 DEF SameLives, IsLive, Has
  <2>. QED  BY <2>1, <2>3, <2>4, <2>5, <2>6, <2>7 DEF Accepted, SecretsKnown, Secrets
<1>3. ASSUME NEW r \in Requests, VerifyTouch(r) \/ VerifyFails(r)
      PROVE  Answered /\ SecretsKnown'
  <2>1. \A id \in TokenIds :
          /\ Has(id)' <=> Has(id)
          /\ Has(id) => /\ tokens'[id].secret = tokens[id].secret
                        /\ tokens'[id].revoked = tokens[id].revoked
    <3>1. CASE VerifyFails(r)
      BY <3>1 DEF VerifyFails, dbVars, Has
    <3>2. CASE VerifyTouch(r)
      <4>1. tokens' = [id \in TokenIds |->
                         IF id = req[r].id /\ Has(id)
                         THEN [tokens[id] EXCEPT !.used = TRUE] ELSE tokens[id]]
        BY <3>2 DEF VerifyTouch
      <4>2. \A id \in TokenIds : Has(id) =>
              tokens[id] \in Row /\ [tokens[id] EXCEPT !.used = TRUE] \in Row
        BY <1>0 DEF StoreTypeOK, Has, Row
      <4>. QED  BY <4>1, <4>2, NullAssumption DEF Has, Row
    <3>. QED  BY <1>3, <3>1, <3>2
  <2>2. SameLives
    BY <2>1, RowsLast
  <2>. QED  BY <1>3, <2>2 DEF Answered, VerifyTouch, VerifyFails, dbVars, SecretsKnown, Secrets
<1>4. ASSUME UNCHANGED <<minted, req>>,
             \A id \in TokenIds : Has(id)' =>
               /\ Has(id) /\ tokens'[id].secret = tokens[id].secret
               /\ tokens[id].revoked => tokens'[id].revoked
      PROVE  Fades /\ SecretsKnown'
  BY <1>0, <1>4, RowsFade DEF Fades, SecretsKnown, Secrets
<1>5. ASSUME NEW a \in Admins, NEW id \in TokenIds, RevokeToken(a, id)
      PROVE  Fades /\ SecretsKnown'
  <2>1. /\ tokens' = [tokens EXCEPT ![id] = [tokens[id] EXCEPT !.revoked = TRUE]]
        /\ Has(id) /\ UNCHANGED <<minted, req>>
    BY <1>5 DEF RevokeToken, Revocable
  <2>2. tokens[id] \in Row
    BY <1>0, <2>1 DEF Has, StoreTypeOK
  <2>. QED  BY <1>0, <1>4, <2>1, <2>2 DEF Has, StoreTypeOK, Row
<1>6. ASSUME NEW a \in Admins, NEW id \in TokenIds, DeleteToken(a, id)
      PROVE  Fades /\ SecretsKnown'
  BY <1>0, <1>4, <1>6 DEF DeleteToken, Has, StoreTypeOK
<1>7. ASSUME NEW a \in Admins, NEW login \in Logins, RemoveUser(a, login)
      PROVE  Fades /\ SecretsKnown'
  BY <1>4, <1>7 DEF RemoveUser, Cascade, Has
<1>8. CASE UNCHANGED <<tokens, minted, req>>
  BY <1>4, <1>8 DEF Has
<1>. QED
  BY <1>1, <1>2, <1>3, <1>5, <1>6, <1>7, <1>8
  DEF StoreNext, AdminStep, VerifyStep, AddUser, WriteAudit, CallFails, Tick, dbVars, storeVars

-----------------------------------------------------------------------------
(***************************************************************************)
(* TokenStore implements Credential.                                       *)
(***************************************************************************)

LEMMA StoreEffectMaps ==
  ASSUME StoreTypeOK, SecretsKnown, Fades \/ Issued \/ Accepted \/ Answered
  PROVE  StoreCred!CredNext
<1>1. CASE Fades
  <2>1. StoreCred!Kill
    BY <1>1 DEF StoreCred!Kill, Fades, OwnerOf, AnswerOf, LifeOf, Secrets
  <2>. QED  BY <2>1 DEF StoreCred!CredNext
<1>2. CASE Issued
  <2>1. PICK s \in AllSecrets, login \in Logins :
          /\ Minted(s, login)
          /\ IsLive(s)' /\ \A t \in Secrets : IsLive(t)' = IsLive(t)
    BY <1>2 DEF Issued
  <2>2. StoreCred!Make(s, login, "live")
    BY <2>1 DEF StoreCred!Make, Minted, OwnerOf, AnswerOf, LifeOf
  <2>. QED  BY <2>2 DEF StoreCred!CredNext
<1>3. CASE Accepted
  <2>1. PICK r \in Requests, s \in Secrets, x \in Selected :
          /\ req[r] = NULL /\ req' = [req EXCEPT ![r] = x]
          /\ IsLive(s) /\ x.secret = s /\ x.login = minted[s]
    BY <1>3 DEF Accepted
  <2>2. x # NULL /\ s \in AllSecrets
    BY NullAssumption DEF SecretsKnown
  <2>3. StoreCred!Accept(r, s)
    BY <1>3, <2>1, <2>2
    DEF StoreCred!Accept, Accepted, SameLives, OwnerOf, AnswerOf, LifeOf, Secrets, StoreTypeOK
  <2>. QED  BY <2>2, <2>3 DEF StoreCred!CredNext
<1>4. CASE Answered
  <2>1. PICK r \in Requests : req' = [req EXCEPT ![r] = NULL]
    BY <1>4 DEF Answered
  <2>2. StoreCred!Answer(r)
    BY <1>4, <2>1
    DEF StoreCred!Answer, Answered, SameLives, OwnerOf, AnswerOf, LifeOf, Secrets, StoreTypeOK
  <2>. QED  BY <2>2 DEF StoreCred!CredNext
<1>. QED  BY <1>1, <1>2, <1>3, <1>4

LEMMA StoreCredInit == StoreInit => SecretsKnown /\ StoreCred!CredInit
<1>. SUFFICES ASSUME StoreInit PROVE SecretsKnown /\ StoreCred!CredInit
  OBVIOUS
<1>1. minted \in [1 .. Existing -> Logins] /\ Len(minted) = Existing
  BY StoreAssumption DEF StoreInit
<1>2. Secrets = 1 .. Existing /\ SecretsKnown
  BY <1>1, StoreAssumption DEF Secrets, SecretsKnown, AllSecrets
<1>3. \A s \in 1 .. Existing : IsLive(s)
  <2>. SUFFICES ASSUME NEW s \in 1 .. Existing PROVE IsLive(s)
    OBVIOUS
  <2>1. s \in TokenIds
    BY StoreAssumption DEF TokenIds
  <2>2. PICK term \in [1 .. Existing -> Terms], auto \in [1 .. Existing -> BOOLEAN],
             days \in [1 .. Existing -> RotationDays] :
          tokens = [id \in TokenIds |->
                      IF id <= Existing
                      THEN NewRow(minted[id], id, term[id], auto[id], days[id]) ELSE NULL]
    BY DEF StoreInit
  <2>3. tokens[s] = NewRow(minted[s], s, term[s], auto[s], days[s])
    BY <2>1, <2>2, StoreAssumption
  <2>4. tokens[s].secret = s /\ ~tokens[s].revoked
    BY <2>3 DEF NewRow
  <2>5. tokens[s] \in Row \cup {NULL}
    BY <2>1, StoreInitType DEF StoreTypeOK
  <2>6. tokens[s] # NULL
    <3>1. minted[s] \in Logins /\ term[s] \in Terms /\ auto[s] \in BOOLEAN /\ days[s] \in RotationDays
      BY <1>1, <2>2
    <3>2. s \in Nat \ {0}
      BY StoreAssumption
    <3>. QED  BY <2>3, <3>1, <3>2, NewRowType, NullAssumption, StoreInitType DEF StoreTypeOK
  <2>. QED  BY <2>1, <2>4, <2>6 DEF IsLive, Has
<1>4. StoreCred!CredInit
  BY <1>1, <1>2, <1>3, NullAssumption
  DEF StoreCred!CredInit, OwnerOf, AnswerOf, LifeOf, StoreInit
<1>. QED  BY <1>2, <1>4

\* Concurrent admins and verifications of TokenStore keep Credential's promise.
THEOREM StoreImplementsCredential == StoreSpec => StoreKeepsCredentials
<1>1. StoreInit => StoreInv /\ SecretsKnown /\ StoreCred!CredInit
  BY StoreInitType, StoreInitIdentity, StoreCredInit DEF StoreInv
<1>2. StoreInv /\ SecretsKnown /\ [StoreNext]_storeVars
        => StoreInv' /\ SecretsKnown' /\ StoreCred!CredNext
  <2>1. StoreInv /\ [StoreNext]_storeVars => StoreInv'
    BY StoreNextType, StoreNextIdentity DEF StoreInv
  <2>2. StoreInv => StoreTypeOK
    BY DEF StoreInv
  <2>. QED  BY <2>1, <2>2, StoreCredEffect, StoreEffectMaps
<1>. QED  BY <1>1, <1>2, PTL DEF StoreSpec, StoreKeepsCredentials, StoreCred!CredSpec

-----------------------------------------------------------------------------
(***************************************************************************)
(* TokenRotate implements Credential.  A rotation in hand holds a secret   *)
(* that is made and not live, as InHandIsFresh says.                       *)
(***************************************************************************)

LEMMA InHandNotLive ==
  ASSUME RotateInv, NEW s, InHand(s)
  PROVE  s \in Secrets /\ ~IsLive(s)
<1>1. PICK i \in Instances : pc[i] \in {"email", "apply"} /\ cur[i].secret = s
  BY DEF InHand
<1>2. cur[i] # NULL /\ pc[i] # "audit"
  BY <1>1 DEF RotateInv, RotateTypes, RotateTypeOK
<1>. QED  BY <1>1, <1>2 DEF RotateInv, InHandIsFresh, IsLive

\* A step that mints nothing, brings no secret to life and takes none in hand.
LEMMA FadesMaps ==
  ASSUME RotateInv, Fades, \A s \in AllSecrets : InHand(s)' => InHand(s)
  PROVE  RotateCred!CredNext
<1>1. RotateCred!Kill
  BY InHandNotLive DEF RotateCred!Kill, Fades, OwnerOf, AnswerOf, LifeOf, Secrets
<1>. QED  BY <1>1 DEF RotateCred!CredNext

LEMMA RotateEffectMaps ==
  ASSUME RotateInv, SecretsKnown, UNCHANGED <<pc, cur>>,
         Fades \/ Issued \/ Accepted \/ Answered
  PROVE  RotateCred!CredNext
<1>0. /\ \A s : InHand(s)' = InHand(s)
      /\ StoreTypeOK
  BY DEF InHand, RotateInv, StoreInv
<1>1. CASE Fades
  BY <1>0, <1>1, FadesMaps
<1>2. CASE Issued
  <2>1. PICK s \in AllSecrets, login \in Logins :
          /\ Minted(s, login)
          /\ IsLive(s)' /\ \A t \in Secrets : IsLive(t)' = IsLive(t)
    BY <1>2 DEF Issued
  <2>2. RotateCred!Make(s, login, "live")
    BY <1>0, <2>1 DEF RotateCred!Make, Minted, OwnerOf, AnswerOf, LifeOf
  <2>. QED  BY <2>2 DEF RotateCred!CredNext
<1>3. CASE Accepted
  <2>1. PICK r \in Requests, s \in Secrets, x \in Selected :
          /\ req[r] = NULL /\ req' = [req EXCEPT ![r] = x]
          /\ IsLive(s) /\ x.secret = s /\ x.login = minted[s]
    BY <1>3 DEF Accepted
  <2>2. x # NULL /\ s \in AllSecrets
    BY NullAssumption DEF SecretsKnown
  <2>3. RotateCred!Accept(r, s)
    BY <1>0, <1>3, <2>1, <2>2
    DEF RotateCred!Accept, Accepted, SameLives, OwnerOf, AnswerOf, LifeOf, Secrets, StoreTypeOK
  <2>. QED  BY <2>2, <2>3 DEF RotateCred!CredNext
<1>4. CASE Answered
  <2>1. PICK r \in Requests : req' = [req EXCEPT ![r] = NULL]
    BY <1>4 DEF Answered
  <2>2. RotateCred!Answer(r)
    BY <1>0, <1>4, <2>1
    DEF RotateCred!Answer, Answered, SameLives, OwnerOf, AnswerOf, LifeOf, Secrets, StoreTypeOK
  <2>. QED  BY <2>2 DEF RotateCred!CredNext
<1>. QED  BY <1>1, <1>2, <1>3, <1>4

\* Take makes a secret that nobody can use yet.
LEMMA TakeMaps ==
  ASSUME RotateInv, SecretsKnown, NEW i \in Instances, Take(i)
  PROVE  RotateCred!CredNext /\ SecretsKnown'
<1>0. StoreTypeOK /\ RotateTypeOK
  BY DEF RotateInv, StoreInv, RotateTypes
<1>1. PICK t \in due[i] :
        /\ Mint(t.login)
        /\ cur' = [cur EXCEPT ![i] =
                     [id |-> t.id, login |-> t.login, expected |-> t.expires,
                      secret |-> Len(minted) + 1, expires |-> now + t.days,
                      emailed |-> FALSE]]
  BY DEF Take, Heads
<1>2. t.login \in Logins /\ Len(minted) \in Nat
  BY <1>0, <1>1 DEF RotateTypeOK, StoreTypeOK, Snapshot
<1>3. PICK s \in Nat : s = Len(minted) + 1
  BY <1>2
<1>4. UNCHANGED <<tokens, req>> /\ pc[i] = "next" /\ pc' = [pc EXCEPT ![i] = "email"]
  BY DEF Take, Goto
<1>5. Minted(s, t.login) /\ SecretsKnown'
  BY <1>0, <1>1, <1>2, <1>3, <1>4, MintKnown
<1>6. cur'[i].secret = s /\ pc'[i] = "email"
  BY <1>0, <1>1, <1>3, <1>4 DEF RotateTypeOK
<1>7. \A j \in Instances : j # i => cur'[j] = cur[j] /\ pc'[j] = pc[j]
  BY <1>0, <1>1, <1>4 DEF RotateTypeOK
<1>8. InHand(s)' /\ \A u : u # s => InHand(u)' = InHand(u)
  BY <1>4, <1>6, <1>7 DEF InHand
<1>9. \A u : IsLive(u)' = IsLive(u)
  BY <1>4 DEF IsLive, Has
<1>10. ~IsLive(s)
  BY <1>5 DEF Minted, IsLive, RotateInv, StoreInv, IdentityCorrect, SecretsUnique
<1>11. RotateCred!Make(s, t.login, "made")
  BY <1>5, <1>8, <1>9, <1>10 DEF RotateCred!Make, Minted, OwnerOf, AnswerOf, LifeOf
<1>. QED  BY <1>2, <1>5, <1>11 DEF RotateCred!CredNext, Minted

\* An apply_rotation that affects its row puts one secret in the place of another
\* of the same owner.
LEMMA ApplyMaps ==
  ASSUME RotateInv, SecretsKnown, NEW i \in Instances, Apply(i),
         Rotatable(cur[i].id, cur[i].expected)
  PROVE  RotateCred!CredNext
<1>. DEFINE id == cur[i].id
<1>1. /\ cur[i] # NULL /\ id \in TokenIds /\ Has(id) /\ pc[i] = "apply"
      /\ tokens'[id] # NULL /\ tokens'[id].secret = cur[i].secret
      /\ \A t \in TokenIds : t # id => tokens'[t] = tokens[t]
      /\ pc'[i] = "audit" /\ \A j \in Instances : j # i => pc'[j] = pc[j]
      /\ UNCHANGED <<cur, minted, req>>
  BY ApplyRow
<1>2. tokens'[id].revoked = tokens[id].revoked /\ ~tokens[id].revoked
  <2>1. tokens[id] \in Row /\ tokens' = [tokens EXCEPT ![id] =
           [tokens[id] EXCEPT !.secret = cur[i].secret, !.expires = cur[i].expires]]
    BY <1>1 DEF Apply, Rotated, Has, RotateInv, StoreInv, StoreTypeOK
  <2>. QED  BY <1>1, <2>1 DEF Rotatable, Row, RotateInv, StoreInv, StoreTypeOK
<1>3. PICK old \in AllSecrets, new \in AllSecrets :
        /\ old = tokens[id].secret /\ new = cur[i].secret
        /\ old \in Secrets /\ new \in Secrets /\ minted[old] = minted[new]
  BY <1>1 DEF SecretsKnown, RotateInv, StoreInv, IdentityCorrect, SecretsUnique, InHandIsFresh
<1>4. IsLive(old) /\ InHand(new) /\ ~IsLive(new)
  BY <1>1, <1>2, <1>3, InHandNotLive DEF IsLive, InHand
<1>5. IsLive(new)'
  BY <1>1, <1>2, <1>3 DEF IsLive, Has
<1>6. ~IsLive(old)'
  BY <1>1, <1>3, <1>4 DEF IsLive, Has, RotateInv, StoreInv, IdentityCorrect, SecretsUnique
<1>7. \A s \in AllSecrets \ {old, new} : IsLive(s)' = IsLive(s)
  BY <1>1, <1>3 DEF IsLive, Has
<1>8. \A s : s # new => InHand(s)' = InHand(s)
  BY <1>1, <1>3 DEF InHand
<1>9. ~InHand(old)
  BY <1>4, InHandNotLive
<1>10. RotateCred!Replace(old, new)
  BY <1>1, <1>3, <1>4, <1>5, <1>6, <1>7, <1>8, <1>9
  DEF RotateCred!Replace, OwnerOf, AnswerOf, LifeOf, Secrets
<1>. QED  BY <1>10 DEF RotateCred!CredNext

\* The other steps of the loops keep, or drop, what they have in hand.
LEMMA LoopFades ==
  ASSUME RotateInv, NEW i \in Instances, Poll(i) \/ PassStep(i) \/ FaultStep(i),
         ~Take(i), ~(Apply(i) /\ Rotatable(cur[i].id, cur[i].expected))
  PROVE  Fades /\ \A s \in AllSecrets : InHand(s)' => InHand(s)
<1>0. RotateTypeOK
  BY DEF RotateInv, RotateTypes
<1>. USE DEF Goto, RotateTypeOK
<1>1. UNCHANGED <<tokens, minted, req>>
  BY DEF Poll, PassStep, FaultStep, GetLock, ReleaseLock, List, SkipZero, PassDone, Email, Apply,
         AuditRotation, PassFails, ReleaseFails, SessionDies, Crash, storeVars, dbVars
<1>2. Fades
  BY <1>1 DEF Fades, IsLive, Has
<1>3. \A j \in Instances : pc'[j] \in {"email", "apply"} =>
        pc[j] \in {"email", "apply"} /\ cur'[j].secret = cur[j].secret
  <2>1. CASE Email(i)
    <3>1. PICK sent \in BOOLEAN : cur' = [cur EXCEPT ![i] = [cur[i] EXCEPT !.emailed = sent]]
      BY <2>1 DEF Email
    <3>2. cur[i] \in Rotation
      BY <1>0, <2>1 DEF Email
    <3>. QED  BY <1>0, <2>1, <3>1, <3>2 DEF Email, Rotation
  <2>2. CASE Poll(i) \/ FaultStep(i)
    BY <1>0, <2>2 DEF Poll, FaultStep, GetLock, PassFails, ReleaseFails, SessionDies, Crash, Forget
  <2>3. CASE PassStep(i) /\ ~Email(i)
    BY <1>0, <2>3
    DEF PassStep, ReleaseLock, List, SkipZero, PassDone, Apply, AuditRotation
  <2>. QED  BY <2>1, <2>2, <2>3
<1>. QED  BY <1>2, <1>3 DEF InHand

LEMMA RotateStepMaps ==
  ASSUME RotateInv, SecretsKnown, [Next]_vars
  PROVE  SecretsKnown' /\ RotateCred!CredNext
<1>1. CASE StoreStep \/ UNCHANGED vars
  <2>1. [StoreNext]_storeVars /\ UNCHANGED <<pc, cur>>
    BY <1>1 DEF StoreStep, vars, rotVars
  <2>. QED  BY <2>1, StoreCredEffect, RotateEffectMaps DEF RotateInv
<1>2. ASSUME NEW i \in Instances, Poll(i) \/ PassStep(i) \/ FaultStep(i)
      PROVE  SecretsKnown' /\ RotateCred!CredNext
  <2>1. CASE Take(i)
    BY <2>1, TakeMaps
  <2>2. CASE Apply(i) /\ Rotatable(cur[i].id, cur[i].expected)
    BY <2>2, ApplyMaps, ApplyRow DEF SecretsKnown, Secrets
  <2>3. CASE ~Take(i) /\ ~(Apply(i) /\ Rotatable(cur[i].id, cur[i].expected))
    BY <1>2, <2>3, LoopFades, FadesMaps DEF Fades, SecretsKnown, Secrets
  <2>. QED  BY <2>1, <2>2, <2>3
<1>. QED  BY <1>1, <1>2 DEF Next

LEMMA RotateCredInit == Init => SecretsKnown /\ RotateCred!CredInit
<1>. SUFFICES ASSUME Init PROVE SecretsKnown /\ RotateCred!CredInit
  OBVIOUS
<1>1. SecretsKnown /\ StoreCred!CredInit
  BY StoreCredInit DEF Init
<1>2. \A s : ~InHand(s)
  BY DEF Init, InHand
<1>. QED  BY <1>1, <1>2 DEF StoreCred!CredInit, RotateCred!CredInit, LifeOf

\* Whatever admins, verifications and any number of loops do at the same time, with
\* lost locks, dead sessions, crashes and stale lists, they keep Credential's promise.
THEOREM RotateImplementsCredential == Spec => RotateKeepsCredentials
<1>1. Init => RotateInv /\ SecretsKnown /\ RotateCred!CredInit
  BY RotateInitInv, RotateCredInit
<1>2. RotateInv /\ SecretsKnown /\ [Next]_vars
        => RotateInv' /\ SecretsKnown' /\ RotateCred!CredNext
  BY RotateNextInv, RotateStepMaps
<1>. QED  BY <1>1, <1>2, PTL DEF Spec, RotateKeepsCredentials, RotateCred!CredSpec
=============================================================================
