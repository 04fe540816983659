---------------------------- MODULE AuditProofs -----------------------------
(***************************************************************************)
(* Proofs about the audit log of TokenStore: that it records a revocation  *)
(* or a deletion once, never one that did not happen, and every change as  *)
(* long as nothing fails.  None of the three is inductive: that a new row  *)
(* is in no entry yet needs AUTO_INCREMENT to be ahead of every id logged. *)
(***************************************************************************)
EXTENDS TokenRotateProofs

Revoked(id)    == <<"revoke_token", id>>
Deleted(id)    == <<"delete_token", id>>
Created(login) == <<"create_token", login>>
Removed(login) == <<"remove_user", login>>

\* No entry is about an id that AUTO_INCREMENT has still to give.
LoggedIds ==
  \A id \in TokenIds : Revoked(id) \in Logged \/ Deleted(id) \in Logged => id < nextId

AuditParts == LoggedIds /\ AuditTruthful /\ AuditOnce /\ AuditComplete

AuditInv == StoreInv /\ AuditParts

\* An id that was given is one of the ids of the bound.
LEMMA GivenIds == StoreTypeOK => 1 .. nextId - 1 \subseteq TokenIds /\ nextId \in Nat \ {0}
BY StoreAssumption DEF StoreTypeOK, TokenIds

\* A call that has its effect owes one entry more.
LEMMA Owes ==
  ASSUME StoreTypeOK, NEW a \in Admins, NEW e \in Entry, call[a] = NULL,
         call' = [call EXCEPT ![a] = e], UNCHANGED audit
  PROVE  Logged' = Logged \cup {e}
<1>1. e # NULL
  BY NullAssumption
<1>. QED  BY <1>1 DEF Logged, StoreTypeOK

\* The entry a call will write, if it is about one token, is new.
LEMMA OwesOnce ==
  ASSUME StoreTypeOK, AuditOnce, NEW a \in Admins, NEW e \in Entry, call[a] = NULL,
         call' = [call EXCEPT ![a] = e], UNCHANGED audit,
         e \in {"revoke_token", "delete_token"} \X TokenIds => e \notin Logged
  PROVE  AuditOnce'
<1>1. e # NULL
  BY NullAssumption
<1>. QED  BY <1>1 DEF AuditOnce, Logged, StoreTypeOK

\* Rows that only go or become revoked keep the log true, when whatever is new
\* in it is true afterwards.
LEMMA StaysTrue ==
  ASSUME AuditInv, UNCHANGED nextId,
         \A id \in TokenIds :
           /\ Has(id)' => Has(id)
           /\ Has(id)' /\ tokens[id].revoked => tokens'[id].revoked
           /\ Revoked(id) \in Logged' => Revoked(id) \in Logged \/ (Has(id) /\ ~Revocable(id)')
           /\ Deleted(id) \in Logged' => Deleted(id) \in Logged \/ (Has(id) /\ ~Has(id)')
  PROVE  LoggedIds' /\ AuditTruthful'
<1>1. \A id \in TokenIds : Has(id) => id < nextId
  BY DEF AuditInv, StoreInv, IdsInUse
<1>2. LoggedIds'
  BY <1>1 DEF AuditInv, AuditParts, LoggedIds
<1>3. \A id \in TokenIds : ~Revocable(id) => ~Revocable(id)'
  BY DEF Revocable
<1>4. AuditTruthful'
  BY <1>3 DEF AuditInv, AuditParts, AuditTruthful, Revoked, Deleted
<1>. QED  BY <1>2, <1>4

\* The log accounts for every row when it gains what the step did to the rows.
LEMMA StaysComplete ==
  ASSUME AuditInv, UNCHANGED nextId, faults' = 0 => faults = 0, Logged \subseteq Logged',
         \A id \in TokenIds :
           /\ Has(id)' => Has(id) /\ tokens'[id].login = tokens[id].login
           /\ Has(id)' /\ tokens'[id].revoked => tokens[id].revoked \/ Revoked(id) \in Logged'
           /\ Has(id) /\ ~Has(id)' /\ faults' = 0 =>
                \/ {Revoked(id), Deleted(id)} \subseteq Logged'
                \/ \E login \in Logins : Removed(login) \in Logged'
  PROVE  AuditComplete'
<1>. SUFFICES ASSUME faults' = 0, NEW id \in 1 .. nextId - 1
              PROVE  /\ Has(id)' => Created(tokens'[id].login) \in Logged'
                     /\ Has(id)' /\ tokens'[id].revoked => Revoked(id) \in Logged'
                     /\ ~Has(id)' =>
                          \/ {Revoked(id), Deleted(id)} \subseteq Logged'
                          \/ \E login \in Logins : Removed(login) \in Logged'
  BY DEF AuditComplete, Created, Revoked, Deleted, Removed
<1>1. id \in TokenIds
  BY GivenIds DEF AuditInv, StoreInv
<1>2. /\ Has(id) => Created(tokens[id].login) \in Logged
      /\ Has(id) /\ tokens[id].revoked => Revoked(id) \in Logged
      /\ ~Has(id) => \/ {Revoked(id), Deleted(id)} \subseteq Logged
                     \/ \E login \in Logins : Removed(login) \in Logged
  BY DEF AuditInv, AuditParts, AuditComplete, Created, Revoked, Deleted, Removed
<1>. QED  BY <1>1, <1>2

\* With the same entries written and owed, and rows that are what they were.
LEMMA AuditQuiet ==
  ASSUME AuditInv, UNCHANGED <<audit, call, nextId>>, faults' = 0 => faults = 0,
         \A id \in TokenIds :
           /\ Has(id)' <=> Has(id)
           /\ Has(id) => /\ tokens'[id].login = tokens[id].login
                         /\ tokens'[id].revoked = tokens[id].revoked
  PROVE  AuditParts'
<1>1. Logged' = Logged
  BY DEF Logged
<1>2. AuditOnce'
  BY DEF AuditInv, AuditParts, AuditOnce
<1>. QED  BY <1>1, <1>2, StaysTrue, StaysComplete DEF AuditParts

\* create_token: its id is in no entry, and its own entry is about its login.
LEMMA AuditCreate ==
  ASSUME AuditInv, NEW a \in Admins, NEW login \in Logins, NEW term \in Terms,
         NEW auto \in BOOLEAN, NEW days \in RotationDays, CreateToken(a, login, term, auto, days)
  PROVE  AuditParts'
<1>. DEFINE row == NewRow(login, Len(minted) + 1, term, auto, days)
<1>1. StoreTypeOK /\ Len(minted) + 1 \in Nat \ {0}
  BY MintAppends DEF CreateToken, AuditInv, StoreInv, StoreTypeOK
<1>2. row \in Row
  BY <1>1, NewRowType DEF StoreTypeOK
<1>3. row # NULL /\ row.login = login /\ row.revoked = FALSE
  BY <1>2, NullAssumption DEF NewRow
<1>4. tokens' = [tokens EXCEPT ![nextId] = row]
  BY DEF CreateToken
<1>. HIDE DEF row
<1>5. /\ nextId \in TokenIds /\ nextId' = nextId + 1 /\ call[a] = NULL
      /\ call' = [call EXCEPT ![a] = Created(login)] /\ UNCHANGED <<audit, faults>>
  BY DEF CreateToken, Created
<1>6. Created(login) \in Entry
  BY DEF Created, Entry, LoginEntry
<1>7. Logged' = Logged \cup {Created(login)}
  BY <1>1, <1>5, <1>6, Owes
<1>8. \A id \in TokenIds : Revoked(id) # Created(login) /\ Deleted(id) # Created(login)
  BY DEF Revoked, Deleted, Created
<1>9. tokens'[nextId] = row /\ \A id \in TokenIds : id # nextId => tokens'[id] = tokens[id]
  BY <1>1, <1>4, <1>5 DEF StoreTypeOK
<1>10. Revoked(nextId) \notin Logged /\ Deleted(nextId) \notin Logged
  BY <1>5, <1>1, GivenIds DEF AuditInv, AuditParts, LoggedIds
<1>11. LoggedIds'
  BY <1>1, <1>5, <1>7, <1>8, GivenIds DEF AuditInv, AuditParts, LoggedIds, TokenIds
<1>12. AuditTruthful'
  <2>. SUFFICES ASSUME NEW id \in TokenIds
                PROVE  /\ Revoked(id) \in Logged' => ~Revocable(id)'
                       /\ Deleted(id) \in Logged' => ~Has(id)'
    BY DEF AuditTruthful, Revoked, Deleted
  <2>1. Revoked(id) \in Logged' \/ Deleted(id) \in Logged' => tokens'[id] = tokens[id]
    BY <1>7, <1>8, <1>9, <1>10
  <2>2. /\ Revoked(id) \in Logged => ~Revocable(id)
        /\ Deleted(id) \in Logged => ~Has(id)
    BY DEF AuditInv, AuditParts, AuditTruthful, Revoked, Deleted
  <2>. QED  BY <1>7, <1>8, <2>1, <2>2 DEF Revocable, Has
<1>13. AuditOnce'
  <2>1. Created(login) \notin {"revoke_token", "delete_token"} \X TokenIds
    BY DEF Created
  <2>. QED  BY <1>1, <1>5, <1>6, <2>1, OwesOnce DEF AuditInv, AuditParts
<1>14. AuditComplete'
  <2>. SUFFICES ASSUME faults = 0, NEW id \in 1 .. nextId
                PROVE  /\ Has(id)' => Created(tokens'[id].login) \in Logged'
                       /\ Has(id)' /\ tokens'[id].revoked => Revoked(id) \in Logged'
                       /\ ~Has(id)' =>
                            \/ {Revoked(id), Deleted(id)} \subseteq Logged'
                            \/ \E l \in Logins : Removed(l) \in Logged'
    <3>1. 1 .. nextId' - 1 = 1 .. nextId /\ faults' = faults
      BY <1>1, <1>5, GivenIds
    <3>. QED  BY <3>1 DEF AuditComplete, Created, Revoked, Deleted, Removed
  <2>1. CASE id = nextId
    BY <1>3, <1>7, <1>9, <2>1 DEF Has
  <2>2. CASE id # nextId
    <3>1. id \in 1 .. nextId - 1 /\ id \in TokenIds
      BY <1>1, <2>2, GivenIds
    <3>2. tokens'[id] = tokens[id]
      BY <1>9, <2>2, <3>1
    <3>3. /\ Has(id) => Created(tokens[id].login) \in Logged
          /\ Has(id) /\ tokens[id].revoked => Revoked(id) \in Logged
          /\ ~Has(id) => \/ {Revoked(id), Deleted(id)} \subseteq Logged
                         \/ \E l \in Logins : Removed(l) \in Logged
      BY <3>1 DEF AuditInv, AuditParts, AuditComplete, Created, Revoked, Deleted, Removed
    <3>. QED  BY <1>7, <3>2, <3>3 DEF Has
  <2>. QED  BY <2>1, <2>2
<1>. QED  BY <1>11, <1>12, <1>13, <1>14 DEF AuditParts

\* revoke_token: the row was not revoked, so no entry says that it was.
LEMMA AuditRevoke ==
  ASSUME AuditInv, NEW a \in Admins, NEW id \in TokenIds, RevokeToken(a, id)
  PROVE  AuditParts'
<1>. DEFINE row == [tokens[id] EXCEPT !.revoked = TRUE]
<1>1. StoreTypeOK /\ Revocable(id) /\ Has(id)
  BY DEF RevokeToken, Revocable, AuditInv, StoreInv
<1>2. /\ tokens' = [tokens EXCEPT ![id] = row] /\ call[a] = NULL
      /\ call' = [call EXCEPT ![a] = Revoked(id)] /\ UNCHANGED <<audit, faults, nextId>>
  BY DEF RevokeToken, Revoked
<1>3. tokens[id] \in Row
  BY <1>1 DEF StoreTypeOK, Has
<1>4. row \in Row /\ row.revoked = TRUE /\ row.login = tokens[id].login
  BY <1>3 DEF Row
<1>5. row # NULL
  BY <1>4, NullAssumption
<1>. HIDE DEF row
<1>6. tokens'[id] = row /\ \A t \in TokenIds : t # id => tokens'[t] = tokens[t]
  BY <1>1, <1>2 DEF StoreTypeOK
<1>7. Revoked(id) \in Entry
  BY DEF Revoked, Entry, TokenEntry
<1>8. Logged' = Logged \cup {Revoked(id)}
  BY <1>1, <1>2, <1>7, Owes
<1>9. \A t \in TokenIds : (Revoked(t) = Revoked(id) <=> t = id) /\ Deleted(t) # Revoked(id)
  BY DEF Revoked, Deleted
<1>10. \A t \in TokenIds : Has(t)' <=> Has(t)
  BY <1>1, <1>5, <1>6 DEF Has
<1>11. ~Revocable(id)'
  BY <1>4, <1>6 DEF Revocable
<1>12. LoggedIds' /\ AuditTruthful'
  BY <1>1, <1>2, <1>4, <1>6, <1>8, <1>9, <1>10, <1>11, StaysTrue
<1>13. AuditComplete'
  BY <1>2, <1>4, <1>6, <1>8, <1>10, StaysComplete
<1>14. AuditOnce'
  <2>1. Revoked(id) \notin Logged
    BY <1>1 DEF AuditInv, AuditParts, AuditTruthful, Revoked
  <2>. QED  BY <1>1, <1>2, <1>7, <2>1, OwesOnce DEF AuditInv, AuditParts
<1>. QED  BY <1>12, <1>13, <1>14 DEF AuditParts

\* delete_token: only a revoked row goes, and its revocation is in the log.
LEMMA AuditDelete ==
  ASSUME AuditInv, NEW a \in Admins, NEW id \in TokenIds, DeleteToken(a, id)
  PROVE  AuditParts'
<1>1. StoreTypeOK /\ Has(id) /\ tokens[id].revoked
  BY DEF DeleteToken, Deletable, AuditInv, StoreInv
<1>2. /\ tokens' = [tokens EXCEPT ![id] = NULL] /\ call[a] = NULL
      /\ call' = [call EXCEPT ![a] = Deleted(id)] /\ UNCHANGED <<audit, faults, nextId>>
  BY DEF DeleteToken, Deleted
<1>3. ~Has(id)' /\ \A t \in TokenIds : t # id => tokens'[t] = tokens[t]
  BY <1>1, <1>2 DEF StoreTypeOK, Has
<1>4. Deleted(id) \in Entry
  BY DEF Deleted, Entry, TokenEntry
<1>5. Logged' = Logged \cup {Deleted(id)}
  BY <1>1, <1>2, <1>4, Owes
<1>6. \A t \in TokenIds : (Deleted(t) = Deleted(id) <=> t = id) /\ Revoked(t) # Deleted(id)
  BY DEF Revoked, Deleted
<1>7. \A t \in TokenIds : t # id => (Has(t)' <=> Has(t))
  BY <1>3 DEF Has
<1>8. LoggedIds' /\ AuditTruthful'
  BY <1>1, <1>2, <1>3, <1>5, <1>6, <1>7, StaysTrue
<1>9. faults = 0 => Revoked(id) \in Logged
  <2>1. id \in 1 .. nextId - 1
    BY <1>1, GivenIds DEF AuditInv, StoreInv, IdsInUse, TokenIds
  <2>. QED  BY <1>1, <2>1 DEF AuditInv, AuditParts, AuditComplete, Revoked
<1>10. AuditComplete'
  BY <1>2, <1>3, <1>5, <1>7, <1>9, StaysComplete
<1>11. AuditOnce'
  <2>1. Deleted(id) \notin Logged
    BY <1>1 DEF AuditInv, AuditParts, AuditTruthful, Deleted
  <2>. QED  BY <1>1, <1>2, <1>4, <2>1, OwesOnce DEF AuditInv, AuditParts
<1>. QED  BY <1>8, <1>10, <1>11 DEF AuditParts

\* add_user and remove_user: rows only go, and only with the user.
LEMMA AuditUsers ==
  ASSUME AuditInv, NEW a \in Admins, NEW login \in Logins,
         AddUser(a, login) \/ RemoveUser(a, login)
  PROVE  AuditParts'
<1>1. StoreTypeOK
  BY DEF AuditInv, StoreInv
<1>2. PICK e \in {<<"add_user", login>>, Removed(login)} :
        /\ call[a] = NULL /\ call' = [call EXCEPT ![a] = e]
        /\ UNCHANGED <<audit, faults, nextId>>
        /\ e = Removed(login) \/ UNCHANGED tokens
        /\ \A t \in TokenIds : tokens'[t] \in {tokens[t], NULL}
  <2>1. CASE AddUser(a, login)
    BY <2>1 DEF AddUser
  <2>2. CASE RemoveUser(a, login)
    BY <2>2 DEF RemoveUser, Cascade, Removed
  <2>. QED  BY <2>1, <2>2
<1>3. e \in Entry
  BY <1>2 DEF Removed, Entry, LoginEntry
<1>4. Logged' = Logged \cup {e}
  BY <1>1, <1>2, <1>3, Owes
<1>5. /\ e \notin {"revoke_token", "delete_token"} \X TokenIds
      /\ \A t \in TokenIds : Revoked(t) # e /\ Deleted(t) # e
  BY <1>2 DEF Revoked, Deleted, Removed
<1>6. \A t \in TokenIds : Has(t)' => Has(t) /\ tokens'[t] = tokens[t]
  BY <1>2 DEF Has
<1>7. LoggedIds' /\ AuditTruthful'
  BY <1>2, <1>4, <1>5, <1>6, StaysTrue
<1>8. \A t \in TokenIds : Has(t) /\ ~Has(t)' => Removed(login) \in Logged'
  BY <1>2, <1>4 DEF Has
<1>9. AuditComplete'
  BY <1>2, <1>4, <1>6, <1>8, StaysComplete
<1>10. AuditOnce'
  BY <1>1, <1>2, <1>3, <1>5, OwesOnce DEF AuditInv, AuditParts
<1>. QED  BY <1>7, <1>9, <1>10 DEF AuditParts

\* The entry that was owed is written: the log is what it was.
LEMMA AuditWrite ==
  ASSUME AuditInv, NEW a \in Admins, WriteAudit(a)
  PROVE  AuditParts'
<1>1. StoreTypeOK /\ AuditOnce
  BY DEF AuditInv, AuditParts, StoreInv
<1>2. /\ call[a] # NULL /\ call' = [call EXCEPT ![a] = NULL]
      /\ audit' = audit \cup {call[a]} /\ UNCHANGED <<tokens, nextId, faults>>
  BY DEF WriteAudit
<1>3. Logged' = Logged
  BY <1>1, <1>2 DEF Logged, StoreTypeOK
<1>4. \A t \in TokenIds : Has(t)' <=> Has(t)
  BY <1>2 DEF Has
<1>5. LoggedIds' /\ AuditTruthful' /\ AuditComplete'
  BY <1>2, <1>3, <1>4, StaysTrue, StaysComplete
<1>6. ASSUME NEW b \in Admins, call'[b] \in {"revoke_token", "delete_token"} \X TokenIds
      PROVE  call'[b] \notin audit' /\ \A c \in Admins : call'[c] = call'[b] => c = b
  <2>1. call'[b] # NULL
    BY <1>6, NullAssumption DEF Entry, TokenEntry
  <2>2. b # a /\ call'[b] = call[b]
    BY <1>1, <1>2, <2>1 DEF StoreTypeOK
  <2>. QED  BY <1>1, <1>2, <1>6, <2>1, <2>2 DEF AuditOnce, StoreTypeOK
<1>7. AuditOnce'
  BY <1>6 DEF AuditOnce
<1>. QED  BY <1>5, <1>7 DEF AuditParts

\* A call that fails loses its entry, and what is left stays true.
LEMMA AuditFails ==
  ASSUME AuditInv, NEW a \in Admins, CallFails(a)
  PROVE  AuditParts'
<1>1. StoreTypeOK /\ AuditOnce
  BY DEF AuditInv, AuditParts, StoreInv
<1>2. /\ call[a] # NULL /\ call' = [call EXCEPT ![a] = NULL]
      /\ UNCHANGED <<audit, tokens, nextId>> /\ faults' # 0
  BY <1>1 DEF CallFails, Fault, dbVars, StoreTypeOK
<1>3. Logged' \subseteq Logged
  BY <1>1, <1>2 DEF Logged, StoreTypeOK
<1>4. \A t \in TokenIds : Has(t)' <=> Has(t)
  BY <1>2 DEF Has
<1>5. LoggedIds' /\ AuditTruthful'
  BY <1>2, <1>3, <1>4, StaysTrue
<1>6. AuditComplete'
  BY <1>2 DEF AuditComplete
<1>7. ASSUME NEW b \in Admins, call'[b] \in {"revoke_token", "delete_token"} \X TokenIds
      PROVE  call'[b] \notin audit' /\ \A c \in Admins : call'[c] = call'[b] => c = b
  <2>1. call'[b] # NULL
    BY <1>7, NullAssumption DEF Entry, TokenEntry
  <2>2. b # a /\ call'[b] = call[b]
    BY <1>1, <1>2, <2>1 DEF StoreTypeOK
  <2>. QED  BY <1>1, <1>2, <1>7, <2>1, <2>2 DEF AuditOnce, StoreTypeOK
<1>8. AuditOnce'
  BY <1>7 DEF AuditOnce
<1>. QED  BY <1>5, <1>6, <1>8 DEF AuditParts

\* The log a server starts on says that the rows it starts on were created.
LEMMA AuditInit == StoreInit => AuditParts
<1>. SUFFICES ASSUME StoreInit PROVE AuditParts
  OBVIOUS
<1>. USE StoreAssumption
<1>1. PICK term \in [1 .. Existing -> Terms], auto \in [1 .. Existing -> BOOLEAN],
           days \in [1 .. Existing -> RotationDays] :
        tokens = [id \in TokenIds |->
                    IF id <= Existing
                    THEN NewRow(minted[id], id, term[id], auto[id], days[id])
                    ELSE NULL]
  BY DEF StoreInit
<1>2. Logged = {Created(minted[id]) : id \in 1 .. Existing}
  BY DEF StoreInit, Logged, Created
<1>3. LoggedIds /\ AuditTruthful
  BY <1>2 DEF LoggedIds, AuditTruthful, Revoked, Deleted, Created
<1>4. AuditOnce
  <2>1. ASSUME NEW a \in Admins
        PROVE  call[a] \notin {"revoke_token", "delete_token"} \X TokenIds
    BY NullAssumption DEF StoreInit, Entry, TokenEntry
  <2>. QED  BY <2>1 DEF AuditOnce
<1>5. AuditComplete
  <2>. SUFFICES ASSUME NEW id \in 1 .. Existing
                PROVE  /\ Has(id)
                       /\ Created(tokens[id].login) \in Logged
                       /\ tokens[id].revoked = FALSE
    <3>1. 1 .. nextId - 1 = 1 .. Existing
      BY DEF StoreInit
    <3>. QED  BY <3>1 DEF AuditComplete, Created
  <2>. DEFINE row == NewRow(minted[id], id, term[id], auto[id], days[id])
  <2>1. id \in TokenIds /\ id \in Nat \ {0}
    BY DEF TokenIds
  <2>2. minted[id] \in Logins /\ now \in Nat
    BY DEF StoreInit
  <2>3. row \in Row
    <3>1. term[id] \in Terms /\ auto[id] \in BOOLEAN /\ days[id] \in RotationDays
      OBVIOUS
    <3>. QED  BY <2>1, <2>2, <3>1, NewRowType
  <2>4. row # NULL /\ row.login = minted[id] /\ row.revoked = FALSE
    BY <2>3, NullAssumption DEF NewRow
  <2>5. tokens[id] = row
    BY <1>1, <2>1
  <2>. HIDE DEF row
  <2>. QED  BY <1>2, <2>4, <2>5 DEF Has
<1>. QED  BY <1>3, <1>4, <1>5 DEF AuditParts

\* Every step of the store keeps the invariant.
LEMMA AuditNext == AuditInv /\ [StoreNext]_storeVars => AuditInv'
<1>. SUFFICES ASSUME AuditInv, [StoreNext]_storeVars PROVE AuditInv'
  OBVIOUS
<1>1. StoreInv'
  BY StoreNextType, StoreNextIdentity DEF AuditInv, StoreInv
<1>2. CASE UNCHANGED storeVars
  BY <1>1, <1>2, AuditQuiet DEF storeVars, Has, AuditInv
<1>3. ASSUME NEW a \in Admins, AdminStep(a)
      PROVE  AuditParts'
  BY <1>3, AuditCreate, AuditRevoke, AuditDelete, AuditUsers, AuditWrite, AuditFails
  DEF AdminStep
<1>4. ASSUME NEW r \in Requests, VerifyStep(r)
      PROVE  AuditParts'
  <2>1. CASE \E secret \in Secrets : VerifySelect(r, secret)
    BY <2>1, AuditQuiet DEF VerifySelect, dbVars, Has
  <2>2. CASE VerifyTouch(r)
    <3>1. UNCHANGED <<audit, call, nextId, faults>>
      BY <2>2 DEF VerifyTouch
    <3>2. ASSUME NEW id \in TokenIds
          PROVE  /\ Has(id)' <=> Has(id)
                 /\ Has(id) => /\ tokens'[id].login = tokens[id].login
                               /\ tokens'[id].revoked = tokens[id].revoked
      <4>1. \/ tokens'[id] = tokens[id]
            \/ Has(id) /\ tokens'[id] = [tokens[id] EXCEPT !.used = TRUE]
        BY <2>2 DEF VerifyTouch
      <4>2. Has(id) => tokens[id] \in Row
        BY DEF Has, AuditInv, StoreInv, StoreTypeOK
      <4>3. CASE tokens'[id] = tokens[id]
        BY <4>3 DEF Has
      <4>4. CASE Has(id) /\ tokens'[id] = [tokens[id] EXCEPT !.used = TRUE]
        <5>1. tokens'[id] \in Row /\ tokens'[id].login = tokens[id].login
              /\ tokens'[id].revoked = tokens[id].revoked
          BY <4>2, <4>4 DEF Row
        <5>. QED  BY <4>4, <5>1, NullAssumption DEF Has
      <4>. QED  BY <4>1, <4>3, <4>4
    <3>. QED  BY <3>1, <3>2, AuditQuiet
  <2>3. CASE VerifyFails(r)
    <3>1. faults' # 0
      BY <2>3 DEF VerifyFails, Fault, AuditInv, StoreInv, StoreTypeOK
    <3>. QED  BY <2>3, <3>1, AuditQuiet DEF VerifyFails, dbVars, Has
  <2>. QED  BY <1>4, <2>1, <2>2, <2>3 DEF VerifyStep
<1>5. CASE Tick
  BY <1>1, <1>5, AuditQuiet DEF Tick, dbVars, Has, AuditInv
<1>. QED  BY <1>1, <1>2, <1>3, <1>4, <1>5 DEF StoreNext, AuditInv

\* Whatever the calls and faults, the log has the three properties together.
LEMMA AuditAlways == StoreSpec => []AuditInv
<1>1. StoreInit => AuditInv
  BY StoreInitType, StoreInitIdentity, AuditInit DEF AuditInv, StoreInv
<1>. QED  BY <1>1, AuditNext, PTL DEF StoreSpec

\* However many callers revoke or delete a token at the same time, one of them
\* records it (revoke_token and delete_token audit by rowcount).
THEOREM StoreAuditOnce == StoreSpec => []AuditOnce
<1>1. AuditInv => AuditOnce
  BY DEF AuditInv, AuditParts
<1>. QED  BY <1>1, AuditAlways, PTL

\* The log never says that a token was revoked or deleted when it was not, though
\* the row and the entry are two statements and either may fail.
THEOREM StoreAuditTruthful == StoreSpec => []AuditTruthful
<1>1. AuditInv => AuditTruthful
  BY DEF AuditInv, AuditParts
<1>. QED  BY <1>1, AuditAlways, PTL

\* As long as no statement fails the log accounts for every row created, revoked
\* or gone, counting what the calls in progress have still to write.
THEOREM StoreAuditComplete == StoreSpec => []AuditComplete
<1>1. AuditInv => AuditComplete
  BY DEF AuditInv, AuditParts
<1>. QED  BY <1>1, AuditAlways, PTL

-----------------------------------------------------------------------------
(***************************************************************************)
(* The same with the loops running.  A pass writes to the rows and to the  *)
(* log on sessions of its own, between any two statements of the calls: a  *)
(* rotation keeps the row's login and revoked, and its entry is none that  *)
(* the three properties speak of.                                          *)
(***************************************************************************)

RotateAuditInv == RotateInv /\ AuditParts /\ RowsHaveUser

\* A step of a loop keeps the rows' logins and revocations, whatever it rotates.
LEMMA LoopRows ==
  ASSUME RotateInv, NEW i \in Instances, Poll(i) \/ PassStep(i) \/ FaultStep(i)
  PROVE  /\ UNCHANGED <<users, call, nextId>>
         /\ faults' = 0 => faults = 0
         /\ \A id \in TokenIds :
              /\ Has(id)' <=> Has(id)
              /\ Has(id) => /\ tokens'[id].login = tokens[id].login
                            /\ tokens'[id].revoked = tokens[id].revoked
<1>1. UNCHANGED <<users, call, nextId>>
  BY DEF Poll, PassStep, FaultStep, GetLock, ReleaseLock, List, SkipZero, Take, PassDone,
         Email, Apply, AuditRotation, PassFails, ReleaseFails, SessionDies, Crash,
         storeVars, dbVars
<1>2. faults' = 0 => faults = 0
  <2>1. CASE Poll(i) \/ PassStep(i)
    BY <2>1 DEF Poll, PassStep, GetLock, ReleaseLock, List, SkipZero, Take, PassDone, Email,
                Apply, AuditRotation, storeVars
  <2>2. CASE FaultStep(i)
    BY <2>2 DEF FaultStep, PassFails, ReleaseFails, SessionDies, Crash, Fault,
                RotateInv, StoreInv, StoreTypeOK
  <2>. QED  BY <2>1, <2>2
<1>3. CASE Apply(i) /\ Rotatable(cur[i].id, cur[i].expected)
  BY <1>1, <1>2, <1>3, ApplyRow DEF Has
<1>4. CASE ~(Apply(i) /\ Rotatable(cur[i].id, cur[i].expected))
  <2>1. UNCHANGED tokens
    BY <1>4
    DEF Poll, PassStep, FaultStep, GetLock, ReleaseLock, List, SkipZero, Take, PassDone,
        Email, Apply, AuditRotation, PassFails, ReleaseFails, SessionDies, Crash,
        storeVars, dbVars
  <2>. QED  BY <1>1, <1>2, <2>1 DEF Has
<1>. QED  BY <1>3, <1>4

\* apply_rotation's entry is about a rotation.
LEMMA LoopAudit ==
  ASSUME RotateInv, AuditParts, NEW i \in Instances, AuditRotation(i)
  PROVE  AuditParts'
<1>1. AuditInv
  BY DEF RotateInv, AuditInv
<1>2. /\ audit' = audit \cup {<<"rotate_token", cur[i].id>>} /\ UNCHANGED call
  BY DEF AuditRotation
<1>3. Logged' = Logged \cup {<<"rotate_token", cur[i].id>>}
  BY <1>2 DEF Logged
<1>4. \A id \in TokenIds : /\ Revoked(id) # <<"rotate_token", cur[i].id>>
                           /\ Deleted(id) # <<"rotate_token", cur[i].id>>
  BY DEF Revoked, Deleted
<1>5. AuditOnce'
  BY <1>2 DEF AuditParts, AuditOnce
<1>6. PassStep(i)
  BY DEF PassStep
<1>7. LoggedIds' /\ AuditTruthful'
  BY <1>1, <1>3, <1>4, <1>6, LoopRows, StaysTrue
<1>8. AuditComplete'
  BY <1>1, <1>3, <1>6, LoopRows, StaysComplete
<1>. QED  BY <1>5, <1>7, <1>8 DEF AuditParts

\* Every step of the system keeps the log and the rows' users.
LEMMA RotateAuditNext == RotateAuditInv /\ [Next]_vars => RotateAuditInv'
<1>. SUFFICES ASSUME RotateAuditInv, [Next]_vars PROVE RotateAuditInv'
  OBVIOUS
<1>1. RotateInv /\ RotateInv' /\ AuditInv /\ StoreInv
  BY RotateNextInv DEF RotateAuditInv, RotateInv, AuditInv
<1>2. CASE [StoreNext]_storeVars
  BY <1>1, <1>2, AuditNext, StoreNextRows DEF RotateAuditInv, AuditInv
<1>3. ASSUME NEW i \in Instances, Poll(i) \/ PassStep(i) \/ FaultStep(i)
      PROVE  AuditParts' /\ RowsHaveUser'
  <2>1. RowsHaveUser'
    BY <1>1, <1>3, LoopRows DEF RotateAuditInv, RowsHaveUser
  <2>2. CASE AuditRotation(i)
    BY <1>1, <2>1, <2>2, LoopAudit DEF RotateAuditInv
  <2>3. CASE ~AuditRotation(i)
    <3>1. UNCHANGED audit
      BY <1>3, <2>3
      DEF Poll, PassStep, FaultStep, GetLock, ReleaseLock, List, SkipZero, Take, PassDone,
          Email, Apply, PassFails, ReleaseFails, SessionDies, Crash, storeVars, dbVars
    <3>. QED  BY <1>1, <1>3, <2>1, <3>1, LoopRows, AuditQuiet
  <2>. QED  BY <2>2, <2>3
<1>. QED
  BY <1>1, <1>2, <1>3 DEF Next, StoreStep, vars, RotateAuditInv

\* The invariant of the store, the loops and the log together.
LEMMA RotateAuditAlways == Spec => []RotateAuditInv
<1>1. Init => RotateAuditInv
  BY RotateInitInv, AuditInit, StoreInitRows DEF Init, RotateAuditInv
<1>. QED  BY <1>1, RotateAuditNext, PTL DEF Spec

\* With the loops running, however many callers revoke or delete a token while it
\* is being rotated, one of them records it.
THEOREM RotateAuditOnce == Spec => []AuditOnce
<1>1. RotateAuditInv => AuditOnce
  BY DEF RotateAuditInv, AuditParts
<1>. QED  BY <1>1, RotateAuditAlways, PTL

\* A rotation between a call's row and its entry makes no entry false.
THEOREM RotateAuditTruthful == Spec => []AuditTruthful
<1>1. RotateAuditInv => AuditTruthful
  BY DEF RotateAuditInv, AuditParts
<1>. QED  BY <1>1, RotateAuditAlways, PTL

\* Rotations take no row and no entry away: until a statement fails, the log still
\* accounts for every row created, revoked or gone.
THEOREM RotateAuditComplete == Spec => []AuditComplete
<1>1. RotateAuditInv => AuditComplete
  BY DEF RotateAuditInv, AuditParts
<1>. QED  BY <1>1, RotateAuditAlways, PTL

\* A rotation, which reads no users, brings no row back for a user who was removed
\* while it was in hand.
THEOREM RotateRowsHaveUser == Spec => []RowsHaveUser
<1>1. RotateAuditInv => RowsHaveUser
  BY DEF RotateAuditInv
<1>. QED  BY <1>1, RotateAuditAlways, PTL
=============================================================================
