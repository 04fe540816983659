------------------------- MODULE TokenRotateProofs --------------------------
(***************************************************************************)
(* Proofs about TokenRotate for every number of instances, sessions, users *)
(* and tokens, every lead, batch limit and clock: types, that one instance *)
(* rotates at a time until something fails, that a secret opens its        *)
(* owner's account only, that a rotation meets a due row, that no rotation *)
(* brings a revoked token back, and what the LIMIT of a pass leaves out.   *)
(***************************************************************************)
EXTENDS RotatePool, TokenStoreProofs, FiniteSetTheorems, WellFoundedInduction

Labels == {"sleep", "list", "next", "email", "apply", "audit", "release"}

\* The session that holds the lock has got it at least once.
DepthMatches == owner # NULL => depth >= 1

RotateTypes == RotateTypeOK /\ DepthMatches

\* The loops sleep when the servers start.
LEMMA RotateInitType == Init => RotateTypes
BY StoreInitType DEF Init, RotateTypes, RotateTypeOK, DepthMatches

\* The rows due have the types of what list_due_for_rotation returns.
LEMMA DueRowsType ==
  ASSUME StoreTypeOK
  PROVE  /\ DueRows \subseteq Snapshot
         /\ \A b \in Batch(DueRows) : b \subseteq DueRows
<1>1. ASSUME NEW id \in TokenIds, DueForRotation(id, LeadDays)
      PROVE  SnapshotOf(id) \in Snapshot
  BY <1>1 DEF DueForRotation, SnapshotOf, Snapshot, StoreTypeOK, Has, Row
<1>2. DueRows \subseteq Snapshot
  BY <1>1 DEF DueRows
<1>. QED  BY <1>2 DEF Batch

\* Every step keeps the types.
LEMMA RotateNextType == RotateTypes /\ [Next]_vars => RotateTypes'
<1>. SUFFICES ASSUME RotateTypes, [Next]_vars PROVE RotateTypes'
  OBVIOUS
<1>. USE StoreAssumption, RotateAssumption
<1>0. RotateTypeOK /\ StoreTypeOK /\ DepthMatches
  BY DEF RotateTypes, RotateTypeOK
<1>1. ASSUME StoreTypeOK', UNCHANGED rotVars PROVE RotateTypes'
  BY <1>0, <1>1 DEF rotVars, RotateTypes, RotateTypeOK, DepthMatches
<1>2. CASE UNCHANGED vars
  BY <1>0, <1>1, <1>2, StoreNextType DEF vars
<1>3. CASE StoreStep
  BY <1>0, <1>1, <1>3, StoreNextType DEF StoreStep
<1>4. ASSUME UNCHANGED storeVars PROVE StoreTypeOK'
  BY <1>0, <1>4, StoreNextType
<1>5. ASSUME NEW i \in Instances, NEW k \in Conns, GetLock(i, k) PROVE RotateTypes'
  <2>1. StoreTypeOK'
    BY <1>4, <1>5 DEF GetLock
  <2>2. owner' \in Session \cup {NULL} /\ depth' \in Nat /\ depth' >= 1
    BY <1>0, <1>5 DEF GetLock, Session, RotateTypeOK, DepthMatches
  <2>. QED  BY <1>0, <1>5, <2>1, <2>2 DEF GetLock, Goto, RotateTypes, RotateTypeOK, DepthMatches
<1>6. ASSUME NEW i \in Instances, NEW k \in Conns, ReleaseLock(i, k) PROVE RotateTypes'
  <2>1. StoreTypeOK'
    BY <1>4, <1>6 DEF ReleaseLock
  <2>2. <<i, k>> # NULL
    BY DEF Session
  <2>3. owner' \in Session \cup {NULL} /\ depth' \in Nat /\ (owner' # NULL => depth' >= 1)
    BY <1>0, <1>6, <2>2 DEF ReleaseLock, Released, Session, RotateTypeOK, DepthMatches
  <2>. QED  BY <1>0, <1>6, <2>1, <2>3 DEF ReleaseLock, Goto, RotateTypes, RotateTypeOK, DepthMatches
<1>7. ASSUME NEW i \in Instances, List(i) PROVE RotateTypes'
  <2>1. StoreTypeOK'
    BY <1>4, <1>7 DEF List
  <2>2. due' \in [Instances -> SUBSET Snapshot]
    BY <1>0, <1>7, DueRowsType DEF List, RotateTypeOK
  <2>. QED  BY <1>0, <1>7, <2>1, <2>2 DEF List, Goto, RotateTypes, RotateTypeOK, DepthMatches
<1>8. ASSUME NEW i \in Instances, SkipZero(i) PROVE RotateTypes'
  <2>1. StoreTypeOK'
    BY <1>4, <1>8 DEF SkipZero
  <2>2. due' \in [Instances -> SUBSET Snapshot]
    BY <1>0, <1>8 DEF SkipZero, RotateTypeOK
  <2>. QED  BY <1>0, <1>8, <2>1, <2>2 DEF SkipZero, RotateTypes, RotateTypeOK, DepthMatches
<1>9. ASSUME NEW i \in Instances, Take(i) PROVE RotateTypes'
  <2>1. PICK t \in due[i] :
          /\ Mint(t.login)
          /\ due' = [due EXCEPT ![i] = @ \ {t}]
          /\ cur' = [cur EXCEPT ![i] =
                       [id |-> t.id, login |-> t.login, expected |-> t.expires,
                        secret |-> Len(minted) + 1, expires |-> now + t.days,
                        emailed |-> FALSE]]
    BY <1>9 DEF Take, Heads
  <2>2. t \in Snapshot
    BY <1>0 DEF RotateTypeOK
  <2>3. minted' \in Seq(Logins) /\ Len(minted) + 1 \in Nat \ {0}
    BY <1>0, <2>1, <2>2, MintAppends DEF Snapshot, StoreTypeOK
  <2>4. StoreTypeOK'
    BY <1>0, <1>9, <2>3 DEF Take, StoreTypeOK, Has
  <2>. DEFINE c == [id |-> t.id, login |-> t.login, expected |-> t.expires,
                    secret |-> Len(minted) + 1, expires |-> now + t.days,
                    emailed |-> FALSE]
  <2>5. c \in Rotation /\ c # NULL
    <3>1. /\ t.id \in TokenIds /\ t.login \in Logins /\ t.expires \in Int
          /\ now + t.days \in Int
      BY <1>0, <2>2 DEF Snapshot, StoreTypeOK
    <3>2. c \in Rotation
      BY <2>3, <3>1 DEF Rotation
    <3>. QED  BY <3>2
  <2>6. cur' = [cur EXCEPT ![i] = c]
    BY <2>1
  <2>. HIDE DEF c
  <2>7. cur' \in [Instances -> Rotation \cup {NULL}] /\ due' \in [Instances -> SUBSET Snapshot]
    BY <1>0, <2>1, <2>5, <2>6 DEF RotateTypeOK
  <2>8. pc' = [pc EXCEPT ![i] = "email"] /\ UNCHANGED <<owner, depth>>
    BY <1>9 DEF Take, Goto
  <2>9. \A j \in Instances : cur'[j] # NULL <=> pc'[j] \in {"email", "apply", "audit"}
    BY <1>0, <2>5, <2>6, <2>8 DEF RotateTypeOK
  <2>. QED  BY <1>0, <2>4, <2>7, <2>8, <2>9 DEF RotateTypes, RotateTypeOK, DepthMatches
<1>10. ASSUME NEW i \in Instances, PassDone(i) PROVE RotateTypes'
  <2>1. StoreTypeOK'
    BY <1>4, <1>10 DEF PassDone
  <2>. QED  BY <1>0, <1>10, <2>1 DEF PassDone, Goto, RotateTypes, RotateTypeOK, DepthMatches
<1>11. ASSUME NEW i \in Instances, Email(i) PROVE RotateTypes'
  <2>1. StoreTypeOK'
    BY <1>4, <1>11 DEF Email
  <2>2. PICK sent \in BOOLEAN : cur' = [cur EXCEPT ![i] = [cur[i] EXCEPT !.emailed = sent]]
    BY <1>11 DEF Email
  <2>3. cur[i] \in Rotation
    BY <1>0, <1>11 DEF Email, RotateTypeOK
  <2>4. [cur[i] EXCEPT !.emailed = sent] \in Rotation
    BY <2>3 DEF Rotation
  <2>5. [cur[i] EXCEPT !.emailed = sent] # NULL
    BY <2>4
  <2>6. pc' = [pc EXCEPT ![i] = "apply"] /\ pc[i] = "email" /\ UNCHANGED <<due, owner, depth>>
    BY <1>11 DEF Email, Goto
  <2>. QED  BY <1>0, <2>1, <2>2, <2>4, <2>5, <2>6 DEF RotateTypes, RotateTypeOK, DepthMatches
<1>12. ASSUME NEW i \in Instances, Apply(i) PROVE RotateTypes'
  <2>1. cur[i] \in Rotation /\ cur[i] # NULL
    BY <1>0, <1>12 DEF Apply, RotateTypeOK
  <2>2. CASE Rotatable(cur[i].id, cur[i].expected)
    <3>. DEFINE id == cur[i].id
                row == [tokens[id] EXCEPT !.secret = cur[i].secret, !.expires = cur[i].expires]
    <3>1. tokens' = [tokens EXCEPT ![id] = row] /\ UNCHANGED <<cur, due, owner, depth>>
      BY <1>12, <2>2 DEF Apply, Rotated
    <3>2. id \in TokenIds /\ tokens[id] \in Row
      BY <1>0, <2>1, <2>2 DEF Rotatable, Has, StoreTypeOK, Rotation
    <3>3. row \in Row /\ row.auto = tokens[id].auto /\ row.days = tokens[id].days
      BY <2>1, <3>2 DEF Row, Rotation
    <3>4. ~row.auto => row.days = NULL
      BY <1>0, <2>2, <3>2, <3>3 DEF Rotatable, StoreTypeOK
    <3>. HIDE DEF row
    <3>5. StoreTypeOK'
      BY <1>0, <1>12, <3>1, <3>2, <3>3, <3>4 DEF Apply, Rotated, StoreTypeOK, Has
    <3>6. pc' = [pc EXCEPT ![i] = "audit"] /\ pc[i] = "apply"
      BY <1>12, <2>2 DEF Apply, Goto
    <3>. QED  BY <1>0, <2>1, <3>1, <3>5, <3>6 DEF RotateTypes, RotateTypeOK, DepthMatches
  <2>3. CASE ~Rotatable(cur[i].id, cur[i].expected)
    <3>1. UNCHANGED storeVars
      BY <1>12, <2>3 DEF Apply, storeVars
    <3>2. StoreTypeOK'
      BY <1>4, <3>1
    <3>. QED  BY <1>0, <1>12, <2>3, <3>2 DEF Apply, Goto, RotateTypes, RotateTypeOK, DepthMatches
  <2>. QED  BY <2>2, <2>3
<1>13. ASSUME NEW i \in Instances, AuditRotation(i) PROVE RotateTypes'
  <2>1. cur[i] \in Rotation
    BY <1>0, <1>13 DEF AuditRotation, RotateTypeOK
  <2>2. audit' \in SUBSET Entry
    BY <1>0, <1>13, <2>1 DEF AuditRotation, StoreTypeOK, Rotation, Entry, TokenEntry
  <2>3. StoreTypeOK'
    BY <1>0, <1>13, <2>2 DEF AuditRotation, StoreTypeOK, Has
  <2>. QED  BY <1>0, <1>13, <2>3 DEF AuditRotation, Goto, RotateTypes, RotateTypeOK, DepthMatches
<1>14. ASSUME NEW i \in Instances, FaultStep(i) PROVE RotateTypes'
  <2>1. StoreTypeOK'
    BY <1>0, <1>14
    DEF FaultStep, PassFails, ReleaseFails, SessionDies, Crash, Fault, dbVars, StoreTypeOK, Has
  <2>2. CASE PassFails(i)
    BY <1>0, <2>1, <2>2 DEF PassFails, Forget, Goto, RotateTypes, RotateTypeOK, DepthMatches
  <2>3. CASE ReleaseFails(i)
    BY <1>0, <2>1, <2>3 DEF ReleaseFails, Goto, RotateTypes, RotateTypeOK, DepthMatches
  <2>4. CASE \E k \in Conns : SessionDies(i, k)
    BY <1>0, <2>1, <2>4 DEF SessionDies, RotateTypes, RotateTypeOK, DepthMatches
  <2>5. CASE Crash(i)
    BY <1>0, <2>1, <2>5 DEF Crash, Forget, Goto, RotateTypes, RotateTypeOK, DepthMatches
  <2>. QED  BY <1>14, <2>2, <2>3, <2>4, <2>5 DEF FaultStep
<1>. QED
  BY <1>2, <1>3, <1>5, <1>6, <1>7, <1>8, <1>9, <1>10, <1>11, <1>12, <1>13, <1>14
  DEF Next, Poll, PassStep

\* The variables of the store and of the loops always have their types.
THEOREM RotateTypeCorrect == Spec => []RotateTypeOK
<1>1. RotateTypes => RotateTypeOK
  BY DEF RotateTypes
<1>. QED  BY <1>1, RotateInitType, RotateNextType, PTL DEF Spec

-----------------------------------------------------------------------------
(***************************************************************************)
(* One rotator at a time.  While nothing has failed, an instance that is   *)
(* in a pass has the lock on one of its own sessions, whichever sessions   *)
(* the releases of earlier passes ran on.                                  *)
(***************************************************************************)

LockGuards ==
  faults = 0 => \A i \in Instances : pc[i] # "sleep" => owner \in {i} \X Conns

LockInv == RotateTypes /\ LockGuards

\* A step of the store leaves the lock and the loops alone.
LEMMA StoreNextFaults ==
  ASSUME StoreTypeOK, [StoreNext]_storeVars
  PROVE  faults' = 0 => faults = 0
BY DEF StoreNext, AdminStep, VerifyStep, CreateToken, RevokeToken, DeleteToken, AddUser,
       RemoveUser, WriteAudit, CallFails, VerifySelect, VerifyTouch, VerifyFails, Tick,
       Fault, StoreTypeOK, storeVars

\* Only a granted GET_LOCK starts a pass, and only the end of a pass releases.
LEMMA LockStep ==
  ASSUME LockInv, [Next]_vars
  PROVE  LockGuards'
<1>. USE NullAssumption
<1>0. RotateTypeOK /\ StoreTypeOK
  BY DEF LockInv, RotateTypes, RotateTypeOK
<1>1. CASE UNCHANGED rotVars /\ [StoreNext]_storeVars
  BY <1>0, <1>1, StoreNextFaults DEF LockInv, LockGuards, rotVars
<1>2. ASSUME NEW i \in Instances, NEW k \in Conns, GetLock(i, k) PROVE LockGuards'
  <2>1. /\ owner' = <<i, k>> /\ owner \in {NULL, <<i, k>>}
        /\ pc' = [pc EXCEPT ![i] = "list"] /\ faults' = faults
    BY <1>2 DEF GetLock, Grantable, Goto, storeVars
  <2>2. NULL \notin Session
    BY RotateAssumption
  <2>3. ASSUME faults = 0, NEW j \in Instances, j # i PROVE pc[j] = "sleep"
    BY <2>1, <2>2, <2>3 DEF LockInv, LockGuards, Session
  <2>. QED  BY <1>0, <2>1, <2>3 DEF LockGuards, RotateTypeOK
<1>3. ASSUME NEW i \in Instances, NEW k \in Conns, ReleaseLock(i, k) PROVE LockGuards'
  <2>1. /\ pc' = [pc EXCEPT ![i] = "sleep"] /\ pc[i] = "release" /\ faults' = faults
        /\ owner # <<i, k>> => owner' = owner
    BY <1>3 DEF ReleaseLock, Goto, storeVars
  <2>2. ASSUME faults = 0, NEW j \in Instances, j # i PROVE pc[j] = "sleep"
    BY <2>1, <2>2 DEF LockInv, LockGuards
  <2>. QED  BY <1>0, <2>1, <2>2 DEF LockGuards, RotateTypeOK
<1>4. ASSUME NEW i \in Instances, pc[i] # "sleep",
             \A j \in Instances : j # i => pc'[j] = pc[j],
             UNCHANGED <<owner, faults>>
      PROVE  LockGuards'
  BY <1>4 DEF LockInv, LockGuards
<1>5. ASSUME NEW i \in Instances, PassStep(i), ~ \E k \in Conns : ReleaseLock(i, k)
      PROVE  LockGuards'
  <2>1. List(i) \/ SkipZero(i) \/ Take(i) \/ PassDone(i) \/ Email(i) \/ Apply(i) \/ AuditRotation(i)
    BY <1>5 DEF PassStep
  <2>. QED
    BY <1>0, <1>4, <2>1
    DEF List, SkipZero, Take, PassDone, Email, Apply, AuditRotation, Goto, RotateTypeOK, storeVars
<1>6. ASSUME NEW i \in Instances, FaultStep(i) PROVE LockGuards'
  <2>1. faults' # 0
    BY <1>0, <1>6
    DEF FaultStep, PassFails, ReleaseFails, SessionDies, Crash, Fault, StoreTypeOK
  <2>. QED  BY <2>1 DEF LockGuards
<1>. QED
  BY <1>1, <1>2, <1>3, <1>5, <1>6 DEF Next, StoreStep, Poll, PassStep, vars

\* Until a session, a statement or a process fails, the advisory lock lets one
\* instance rotate at a time.
THEOREM RotateOneRotator == Spec => []OneRotator
<1>1. Init => LockInv
  BY RotateInitType DEF Init, LockInv, LockGuards
<1>2. LockInv /\ [Next]_vars => LockInv'
  BY RotateNextType, LockStep DEF LockInv
<1>3. LockInv => OneRotator
  BY DEF LockInv, LockGuards, OneRotator
<1>. QED  BY <1>1, <1>2, <1>3, PTL DEF Spec

-----------------------------------------------------------------------------
(***************************************************************************)
(* What the loops remember of the table while others change it: a listed   *)
(* row was due and stays due unless somebody rotates it, its id stays the  *)
(* same user's, and its new expiry was computed from the row's own         *)
(* rotation_days.                                                          *)
(***************************************************************************)

ListsMatch ==
  \A i \in Instances : \A t \in due[i] :
    /\ t.id < nextId
    /\ t.expires <= SqlNow + LeadDays
    /\ Has(t.id) => tokens[t.id].login = t.login /\ tokens[t.id].days = t.days

HandMatches ==
  \A i \in Instances : cur[i] # NULL =>
    /\ cur[i].id < nextId
    /\ cur[i].expected <= SqlNow + LeadDays
    /\ Has(cur[i].id) =>
         /\ tokens[cur[i].id].days # NULL
         /\ tokens[cur[i].id].days > LeadDays + Zone => cur[i].expires > cur[i].expected

RotateInv == RotateTypes /\ StoreInv /\ InHandIsFresh /\ ListsMatch /\ HandMatches

Kept == IdentityCorrect /\ IdsInUse /\ InHandIsFresh /\ ListsMatch /\ HandMatches

LEMMA RotateInitInv == Init => RotateInv
BY RotateInitType, StoreInitType, StoreInitIdentity
DEF Init, RotateInv, StoreInv, InHandIsFresh, ListsMatch, HandMatches

\* A step that changes no table but the log, and in the loops only drops rows or
\* rotations or moves on with the same one, keeps the invariant.
LEMMA LoopMovesOn ==
  ASSUME RotateInv, UNCHANGED <<tokens, minted, nextId, req, now>>,
         \A i \in Instances : due'[i] \subseteq due[i],
         \A i \in Instances : cur'[i] # NULL =>
           /\ cur[i] # NULL
           /\ cur'[i].id = cur[i].id /\ cur'[i].login = cur[i].login
           /\ cur'[i].secret = cur[i].secret
           /\ cur'[i].expected = cur[i].expected /\ cur'[i].expires = cur[i].expires
           /\ pc[i] = "audit" => pc'[i] = "audit"
  PROVE  Kept'
<1>1. IdentityCorrect' /\ IdsInUse'
  BY RowsOnlyGo DEF RotateInv, Has
<1>2. InHandIsFresh'
  BY DEF RotateInv, InHandIsFresh, Secrets, Has
<1>3. ListsMatch'
  BY DEF RotateInv, ListsMatch, SqlNow, Has
<1>4. HandMatches'
  BY DEF RotateInv, HandMatches, SqlNow, Has
<1>. QED  BY <1>1, <1>2, <1>3, <1>4 DEF Kept

\* Whatever the store does meanwhile, the loops' rows and rotations stay sound.
LEMMA StoreMovesOn ==
  ASSUME RotateInv, [StoreNext]_storeVars, UNCHANGED rotVars
  PROVE  Kept'
<1>. USE StoreAssumption, RotateAssumption
<1>1. StoreInv /\ StoreEffect /\ RotateTypeOK /\ StoreTypeOK
  BY StoreNextEffect DEF RotateInv, RotateTypes, StoreInv
<1>2. IdentityCorrect' /\ IdsInUse'
  BY <1>1, StoreNextIdentity
<1>3. UNCHANGED <<due, cur, pc>> /\ now' >= now /\ now \in Int /\ now' \in Int
  BY <1>1, StoreNextType DEF rotVars, StoreEffect, StoreTypeOK
<1>4. nextId \in Int /\ nextId' \in Int /\ nextId' >= nextId
  BY <1>1, StoreNextType DEF StoreEffect, StoreTypeOK
<1>5. \A id \in TokenIds : id < nextId /\ Has(id)' => SameToken(id)
  BY <1>1, <1>4 DEF StoreEffect, FreshToken, TokenIds
<1>6. ASSUME NEW i \in Instances, cur[i] # NULL
      PROVE  cur[i].id \in TokenIds /\ cur[i].expected \in Int /\ cur[i].id < nextId
  BY <1>1, <1>6 DEF RotateTypeOK, Rotation, RotateInv, HandMatches
<1>7. InHandIsFresh'
  <2>. SUFFICES ASSUME NEW i \in Instances, cur[i] # NULL
                PROVE  /\ cur[i].secret \in Secrets'
                       /\ minted'[cur[i].secret] = cur[i].login
                       /\ tokens'[cur[i].id] # NULL => tokens'[cur[i].id].login = cur[i].login
                       /\ \A id \in TokenIds :
                            Has(id)' /\ tokens'[id].secret = cur[i].secret
                              => pc[i] = "audit" /\ id = cur[i].id
                       /\ \A j \in Instances :
                            cur[j] # NULL /\ cur[j].secret = cur[i].secret => j = i
    BY <1>3 DEF InHandIsFresh, Has
  <2>1. cur[i].secret \in Secrets /\ minted[cur[i].secret] = cur[i].login
    BY DEF RotateInv, InHandIsFresh
  <2>2. cur[i].secret # Len(minted) + 1
    BY <1>1, <2>1 DEF Secrets, StoreTypeOK
  <2>3. tokens'[cur[i].id] # NULL => tokens'[cur[i].id].login = cur[i].login
    BY <1>5, <1>6 DEF SameToken, RotateInv, InHandIsFresh, Has
  <2>4. ASSUME NEW id \in TokenIds, Has(id)', tokens'[id].secret = cur[i].secret
        PROVE  pc[i] = "audit" /\ id = cur[i].id
    BY <1>1, <2>2, <2>4 DEF StoreEffect, SameToken, FreshToken, RotateInv, InHandIsFresh
  <2>5. cur[i].secret \in Secrets' /\ minted'[cur[i].secret] = cur[i].login
    BY <1>1, <2>1 DEF StoreEffect
  <2>. QED  BY <2>3, <2>4, <2>5 DEF RotateInv, InHandIsFresh
<1>8. ListsMatch'
  <2>. SUFFICES ASSUME NEW i \in Instances, NEW t \in due[i]
                PROVE  /\ t.id < nextId'
                       /\ t.expires <= SqlNow' + LeadDays
                       /\ Has(t.id)' => tokens'[t.id].login = t.login /\ tokens'[t.id].days = t.days
    BY <1>3 DEF ListsMatch
  <2>1. t.id \in TokenIds /\ t.expires \in Int
    BY <1>1 DEF RotateTypeOK, Snapshot
  <2>2. /\ t.id < nextId /\ t.expires <= SqlNow + LeadDays
        /\ Has(t.id) => tokens[t.id].login = t.login /\ tokens[t.id].days = t.days
    BY DEF RotateInv, ListsMatch
  <2>3. t.id < nextId' /\ t.expires <= SqlNow' + LeadDays
    BY <1>3, <1>4, <2>1, <2>2 DEF SqlNow, TokenIds
  <2>. QED  BY <1>5, <2>1, <2>2, <2>3 DEF SameToken
<1>9. HandMatches'
  <2>. SUFFICES ASSUME NEW i \in Instances, cur[i] # NULL
                PROVE  /\ cur[i].id < nextId'
                       /\ cur[i].expected <= SqlNow' + LeadDays
                       /\ tokens'[cur[i].id] # NULL =>
                            /\ tokens'[cur[i].id].days # NULL
                            /\ tokens'[cur[i].id].days > LeadDays + Zone
                                 => cur[i].expires > cur[i].expected
    BY <1>3 DEF HandMatches, Has
  <2>1. cur[i].expected <= SqlNow + LeadDays
    BY DEF RotateInv, HandMatches
  <2>2. cur[i].id < nextId' /\ cur[i].expected <= SqlNow' + LeadDays
    BY <1>3, <1>4, <1>6, <2>1 DEF SqlNow, TokenIds
  <2>3. ASSUME tokens'[cur[i].id] # NULL
        PROVE  Has(cur[i].id) /\ tokens'[cur[i].id].days = tokens[cur[i].id].days
    BY <1>5, <1>6, <2>3 DEF SameToken, Has
  <2>. QED  BY <2>2, <2>3 DEF RotateInv, HandMatches
<1>. QED  BY <1>2, <1>7, <1>8, <1>9 DEF Kept

\* list_due_for_rotation lists rows as they are, and due.
LEMMA ListKeeps ==
  ASSUME RotateInv, NEW i \in Instances, List(i)
  PROVE  Kept'
<1>1. RotateTypeOK /\ StoreTypeOK
  BY DEF RotateInv, RotateTypes, RotateTypeOK
<1>2. /\ UNCHANGED <<storeVars, cur>>
      /\ pc[i] = "list" /\ \A j \in Instances : j # i => pc'[j] = pc[j]
      /\ due' \in [Instances -> SUBSET Snapshot]
      /\ \A j \in Instances : due'[j] \subseteq due[j] \cup DueRows
  BY <1>1, DueRowsType DEF List, Goto, RotateTypeOK
<1>3. UNCHANGED <<tokens, minted, nextId, req, now, cur>>
  BY <1>2 DEF storeVars
<1>4. IdentityCorrect' /\ IdsInUse'
  BY <1>3, RowsOnlyGo DEF RotateInv, Has
<1>5. cur[i] = NULL
  BY <1>1, <1>2 DEF RotateTypeOK
<1>6. InHandIsFresh'
  BY <1>2, <1>3, <1>5 DEF RotateInv, InHandIsFresh, Secrets, Has
<1>7. ASSUME NEW t \in DueRows
      PROVE  /\ t.id < nextId /\ t.expires <= SqlNow + LeadDays
             /\ tokens[t.id].login = t.login /\ tokens[t.id].days = t.days
  BY DEF DueRows, SnapshotOf, DueForRotation, RotateInv, StoreInv, IdsInUse
<1>8. ListsMatch'
  BY <1>2, <1>3, <1>7 DEF RotateInv, ListsMatch, SqlNow, Has
<1>9. HandMatches'
  BY <1>3 DEF RotateInv, HandMatches, SqlNow, Has
<1>. QED  BY <1>4, <1>6, <1>8, <1>9 DEF Kept

\* A row taken gets a secret that nobody has, and its own new expiry.
LEMMA TakeKeeps ==
  ASSUME RotateInv, NEW i \in Instances, Take(i)
  PROVE  Kept'
<1>. USE StoreAssumption, RotateAssumption
<1>1. RotateTypeOK /\ StoreTypeOK
  BY DEF RotateInv, RotateTypes, RotateTypeOK
<1>2. PICK t \in due[i] :
        /\ Mint(t.login)
        /\ due' = [due EXCEPT ![i] = @ \ {t}]
        /\ cur' = [cur EXCEPT ![i] =
                     [id |-> t.id, login |-> t.login, expected |-> t.expires,
                      secret |-> Len(minted) + 1, expires |-> now + t.days,
                      emailed |-> FALSE]]
  BY DEF Take, Heads
<1>3. /\ t.id \in TokenIds /\ t.login \in Logins /\ t.expires \in Int /\ t.days \in Int
      /\ now \in Int
  BY <1>1 DEF RotateTypeOK, Snapshot, StoreTypeOK
<1>4. /\ t.id < nextId /\ t.expires <= SqlNow + LeadDays
      /\ Has(t.id) => tokens[t.id].login = t.login /\ tokens[t.id].days = t.days
  BY DEF RotateInv, ListsMatch
<1>5. /\ UNCHANGED <<tokens, nextId, req, now>>
      /\ pc' = [pc EXCEPT ![i] = "email"] /\ pc[i] = "next"
  BY DEF Take, Goto
<1>6. /\ Len(minted) \in Nat
      /\ Len(minted') = Len(minted) + 1
      /\ \A s \in Secrets : minted'[s] = minted[s]
      /\ minted'[Len(minted) + 1] = t.login
  BY <1>1, <1>2, <1>3, MintAppends DEF StoreTypeOK
<1>7. Secrets' = Secrets \cup {Len(minted) + 1} /\ Len(minted) + 1 \notin Secrets
  BY <1>6 DEF Secrets
<1>8. IdentityCorrect' /\ IdsInUse'
  <2>1. SecretsUnique'
    BY <1>5, <1>6, <1>7 DEF RotateInv, StoreInv, IdentityCorrect, SecretsUnique, Has
  <2>2. VerifiedIsOwner'
    BY <1>5, <1>6, <1>7 DEF RotateInv, StoreInv, IdentityCorrect, VerifiedIsOwner, Has
  <2>3. IdsInUse'
    BY <1>5 DEF RotateInv, StoreInv, IdsInUse, Has
  <2>. QED  BY <2>1, <2>2, <2>3 DEF IdentityCorrect
<1>. DEFINE c == [id |-> t.id, login |-> t.login, expected |-> t.expires,
                  secret |-> Len(minted) + 1, expires |-> now + t.days, emailed |-> FALSE]
<1>9. /\ c.id = t.id /\ c.login = t.login /\ c.expected = t.expires
      /\ c.secret = Len(minted) + 1 /\ c.expires = now + t.days
  OBVIOUS
<1>10. cur' = [cur EXCEPT ![i] = c]
  BY <1>2
<1>. HIDE DEF c
<1>11. cur'[i] = c /\ \A j \in Instances : j # i => cur'[j] = cur[j] /\ pc'[j] = pc[j]
  BY <1>1, <1>5, <1>10 DEF RotateTypeOK
<1>12. \A id \in TokenIds : Has(id) => tokens[id].secret \in Secrets
  BY DEF RotateInv, StoreInv, IdentityCorrect, SecretsUnique
<1>13. \A j \in Instances : cur[j] # NULL => cur[j].secret \in Secrets
  BY DEF RotateInv, InHandIsFresh
<1>14. InHandIsFresh'
  <2>. SUFFICES ASSUME NEW j \in Instances, cur'[j] # NULL
                PROVE  /\ cur'[j].secret \in Secrets'
                       /\ minted'[cur'[j].secret] = cur'[j].login
                       /\ tokens[cur'[j].id] # NULL => tokens[cur'[j].id].login = cur'[j].login
                       /\ \A id \in TokenIds :
                            Has(id) /\ tokens[id].secret = cur'[j].secret
                              => pc'[j] = "audit" /\ id = cur'[j].id
                       /\ \A k \in Instances :
                            cur'[k] # NULL /\ cur'[k].secret = cur'[j].secret => k = j
    BY <1>5 DEF InHandIsFresh, Has
  <2>1. CASE j = i
    BY <1>4, <1>6, <1>7, <1>9, <1>11, <1>12, <1>13, <2>1 DEF Has
  <2>2. CASE j # i
    <3>1. cur'[j] = cur[j] /\ pc'[j] = pc[j] /\ cur[j] # NULL
      BY <1>11, <2>2
    <3>2. cur[j].secret \in Secrets /\ cur[j].secret # c.secret
      BY <1>7, <1>9, <1>13, <3>1
    <3>3. /\ minted[cur[j].secret] = cur[j].login
          /\ Has(cur[j].id) => tokens[cur[j].id].login = cur[j].login
          /\ \A id \in TokenIds :
               Has(id) /\ tokens[id].secret = cur[j].secret => pc[j] = "audit" /\ id = cur[j].id
          /\ \A k \in Instances : cur[k] # NULL /\ cur[k].secret = cur[j].secret => k = j
      BY <3>1 DEF RotateInv, InHandIsFresh
    <3>. QED  BY <1>6, <1>7, <1>11, <3>1, <3>2, <3>3 DEF Has
  <2>. QED  BY <2>1, <2>2
<1>15. ListsMatch'
  <2>1. \A j \in Instances : due'[j] \subseteq due[j]
    BY <1>1, <1>2 DEF RotateTypeOK
  <2>. QED  BY <1>5, <2>1 DEF RotateInv, ListsMatch, SqlNow, Has
<1>16. HandMatches'
  <2>1. t.days > LeadDays + Zone => now + t.days > t.expires
    BY <1>3, <1>4 DEF SqlNow
  <2>2. Has(t.id) => tokens[t.id].days # NULL /\ tokens[t.id].days = t.days
    BY <1>3, <1>4, NullAssumption
  <2>. QED
    BY <1>4, <1>5, <1>9, <1>11, <2>1, <2>2 DEF RotateInv, HandMatches, SqlNow, Has
<1>. QED  BY <1>8, <1>14, <1>15, <1>16 DEF Kept

\* What an UPDATE of apply_rotation that affects its row does.
LEMMA ApplyRow ==
  ASSUME RotateInv, NEW i \in Instances, Apply(i),
         Rotatable(cur[i].id, cur[i].expected)
  PROVE  /\ cur[i] # NULL /\ cur[i].id \in TokenIds /\ Has(cur[i].id) /\ pc[i] = "apply"
         /\ tokens'[cur[i].id] # NULL
         /\ tokens'[cur[i].id].secret = cur[i].secret
         /\ tokens'[cur[i].id].expires = cur[i].expires
         /\ tokens'[cur[i].id].login = tokens[cur[i].id].login
         /\ tokens'[cur[i].id].days = tokens[cur[i].id].days
         /\ tokens'[cur[i].id].revoked = tokens[cur[i].id].revoked
         /\ \A id \in TokenIds : id # cur[i].id => tokens'[id] = tokens[id]
         /\ pc'[i] = "audit" /\ \A j \in Instances : j # i => pc'[j] = pc[j]
         /\ UNCHANGED <<cur, due, users, minted, nextId, req, now>>
<1>1. RotateTypeOK /\ StoreTypeOK
  BY DEF RotateInv, RotateTypes, RotateTypeOK
<1>2. cur[i] \in Rotation /\ cur[i] # NULL
  BY <1>1 DEF Apply, RotateTypeOK
<1>. DEFINE id == cur[i].id
            row == [tokens[id] EXCEPT !.secret = cur[i].secret, !.expires = cur[i].expires]
<1>3. tokens' = [tokens EXCEPT ![id] = row]
  BY DEF Apply, Rotated
<1>4. id \in TokenIds /\ Has(id) /\ tokens[id] \in Row
  BY <1>1, <1>2 DEF Rotatable, Has, StoreTypeOK, Rotation
<1>5. /\ row \in Row /\ row.secret = cur[i].secret /\ row.expires = cur[i].expires
      /\ row.login = tokens[id].login /\ row.days = tokens[id].days
      /\ row.revoked = tokens[id].revoked
  BY <1>2, <1>4 DEF Row, Rotation
<1>6. row # NULL
  BY <1>5, NullAssumption
<1>. HIDE DEF row
<1>7. tokens'[id] = row /\ \A t \in TokenIds : t # id => tokens'[t] = tokens[t]
  BY <1>1, <1>3, <1>4 DEF StoreTypeOK
<1>8. pc' = [pc EXCEPT ![i] = "audit"] /\ pc[i] = "apply"
      /\ UNCHANGED <<cur, due, users, minted, nextId, req, now>>
  BY DEF Apply, Goto
<1>. QED  BY <1>1, <1>2, <1>4, <1>5, <1>6, <1>7, <1>8 DEF RotateTypeOK

\* An applied rotation puts the secret in hand into its owner's row.
LEMMA ApplyKeeps ==
  ASSUME RotateInv, NEW i \in Instances, Apply(i)
  PROVE  Kept'
<1>1. RotateTypeOK /\ StoreTypeOK
  BY DEF RotateInv, RotateTypes, RotateTypeOK
<1>2. CASE Rotatable(cur[i].id, cur[i].expected)
  <2>. DEFINE id == cur[i].id
  <2>1. /\ cur[i] # NULL /\ id \in TokenIds /\ Has(id) /\ pc[i] = "apply"
        /\ tokens'[id].secret = cur[i].secret
        /\ tokens'[id].login = tokens[id].login /\ tokens'[id].days = tokens[id].days
        /\ \A t \in TokenIds : t # id => tokens'[t] = tokens[t]
        /\ pc'[i] = "audit" /\ \A j \in Instances : j # i => pc'[j] = pc[j]
        /\ UNCHANGED <<cur, due, users, minted, nextId, req, now>>
    BY <1>2, ApplyRow
  <2>2. /\ cur[i].secret \in Secrets /\ minted[cur[i].secret] = cur[i].login
        /\ tokens[id].login = cur[i].login
        /\ \A t \in TokenIds : Has(t) => tokens[t].secret # cur[i].secret
        /\ \A j \in Instances : cur[j] # NULL /\ cur[j].secret = cur[i].secret => j = i
    BY <2>1 DEF RotateInv, InHandIsFresh
  <2>3. \A t \in TokenIds : tokens'[t] # NULL => Has(t)
    BY <2>1 DEF Has
  <2>4. \A r \in Requests : req[r] # NULL => req[r].id \in TokenIds
    BY <1>1 DEF StoreTypeOK, Selected
  <2>5. SecretsUnique'
    BY <2>1, <2>2 DEF RotateInv, StoreInv, IdentityCorrect, SecretsUnique, Secrets, Has
  <2>6. VerifiedIsOwner'
    BY <2>1, <2>3, <2>4 DEF RotateInv, StoreInv, IdentityCorrect, VerifiedIsOwner, Secrets, Has
  <2>7. IdsInUse'
    BY <2>1, <2>3 DEF RotateInv, StoreInv, IdsInUse, Has
  <2>8. \A j \in Instances : cur[j] # NULL => cur[j].id \in TokenIds
    BY <1>1 DEF RotateTypeOK, Rotation
  <2>9. InHandIsFresh'
    BY <2>1, <2>2, <2>3, <2>8 DEF RotateInv, InHandIsFresh, Secrets, Has
  <2>10. \A j \in Instances : \A t \in due[j] : t.id \in TokenIds
    BY <1>1 DEF RotateTypeOK, Snapshot
  <2>11. ListsMatch'
    BY <2>1, <2>3, <2>10 DEF RotateInv, ListsMatch, SqlNow, Has
  <2>12. HandMatches'
    BY <2>1, <2>3, <2>8 DEF RotateInv, HandMatches, SqlNow, Has
  <2>. QED  BY <2>5, <2>6, <2>7, <2>9, <2>11, <2>12 DEF Kept, IdentityCorrect
<1>3. CASE ~Rotatable(cur[i].id, cur[i].expected)
  BY <1>1, <1>3, LoopMovesOn DEF Apply, Goto, RotateTypeOK
<1>. QED  BY <1>2, <1>3

\* Every step of the system keeps the invariant.
LEMMA RotateNextInv == RotateInv /\ [Next]_vars => RotateInv'
<1>. SUFFICES ASSUME RotateInv, [Next]_vars PROVE RotateInv'
  OBVIOUS
<1>1. RotateTypes'
  BY RotateNextType DEF RotateInv
<1>2. RotateTypeOK /\ StoreTypeOK
  BY DEF RotateInv, RotateTypes, RotateTypeOK
<1>3. Kept'
  <2>1. CASE UNCHANGED vars \/ StoreStep
    BY <2>1, StoreMovesOn DEF vars, StoreStep
  <2>2. ASSUME NEW i \in Instances, Poll(i) \/ SkipZero(i) \/ PassDone(i)
                 \/ \E k \in Conns : ReleaseLock(i, k)
        PROVE  Kept'
    BY <1>2, <2>2, LoopMovesOn
    DEF Poll, GetLock, ReleaseLock, SkipZero, PassDone, Goto, storeVars, RotateTypeOK
  <2>3. ASSUME NEW i \in Instances, Email(i) PROVE Kept'
    <3>1. PICK sent : cur' = [cur EXCEPT ![i] = [cur[i] EXCEPT !.emailed = sent]]
      BY <2>3 DEF Email
    <3>2. cur[i] \in Rotation /\ pc[i] = "email"
      BY <1>2, <2>3 DEF Email, RotateTypeOK
    <3>3. /\ cur'[i].id = cur[i].id /\ cur'[i].login = cur[i].login
          /\ cur'[i].secret = cur[i].secret
          /\ cur'[i].expected = cur[i].expected /\ cur'[i].expires = cur[i].expires
      BY <1>2, <3>1, <3>2 DEF RotateTypeOK, Rotation
    <3>4. cur[i] # NULL /\ \A j \in Instances : j # i => cur'[j] = cur[j] /\ pc'[j] = pc[j]
      BY <1>2, <2>3, <3>1, <3>2 DEF Email, Goto, RotateTypeOK
    <3>. QED  BY <2>3, <3>2, <3>3, <3>4, LoopMovesOn DEF Email, storeVars
  <2>4. ASSUME NEW i \in Instances, AuditRotation(i) PROVE Kept'
    BY <1>2, <2>4, LoopMovesOn DEF AuditRotation, Goto, RotateTypeOK
  <2>5. ASSUME NEW i \in Instances, FaultStep(i) PROVE Kept'
    BY <1>2, <2>5, LoopMovesOn
    DEF FaultStep, PassFails, ReleaseFails, SessionDies, Crash, Forget, Goto, dbVars, RotateTypeOK
  <2>. QED
    BY <2>1, <2>2, <2>3, <2>4, <2>5, ListKeeps, TakeKeeps, ApplyKeeps DEF Next, PassStep
<1>4. StoreTypeOK'
  BY <1>1 DEF RotateTypes, RotateTypeOK
<1>. QED  BY <1>1, <1>3, <1>4 DEF RotateInv, StoreInv, Kept

\* With the loops running, whatever fails, a secret opens its owner's account
\* only, and a secret in hand is nobody else's.
THEOREM RotateIdentityCorrect == Spec => []RotateIdentity
<1>1. RotateInv => RotateIdentity
  BY DEF RotateInv, StoreInv, RotateIdentity
<1>. QED  BY <1>1, RotateInitInv, RotateNextInv, PTL DEF Spec

-----------------------------------------------------------------------------
(***************************************************************************)
(* What a step may do to a row.                                            *)
(***************************************************************************)

WhenDue(id) ==
  Has(id) /\ Has(id)' /\ tokens'[id].secret # tokens[id].secret =>
    /\ DueForRotation(id, LeadDays)
    /\ tokens'[id].login = tokens[id].login
    /\ tokens[id].days > LeadDays + Zone => tokens'[id].expires > tokens[id].expires

Final(id) ==
  Has(id) =>
    IF Has(id)'
    THEN tokens[id].revoked => /\ tokens'[id].revoked
                               /\ tokens'[id].secret = tokens[id].secret
    ELSE tokens[id].revoked \/ tokens[id].login \notin users'

LEMMA RowStep ==
  ASSUME RotateInv, [Next]_vars, NEW id \in TokenIds
  PROVE  WhenDue(id) /\ Final(id)
<1>1. RotateTypeOK /\ StoreTypeOK /\ StoreInv
  BY DEF RotateInv, RotateTypes, RotateTypeOK
<1>2. CASE UNCHANGED tokens
  BY <1>2 DEF WhenDue, Final, Has
<1>3. CASE [StoreNext]_storeVars
  <2>1. StoreEffect
    BY <1>1, <1>3, StoreNextEffect
  <2>2. Has(id) /\ Has(id)' => SameToken(id)
    BY <1>1, <2>1 DEF StoreEffect, FreshToken, StoreInv, IdsInUse, StoreTypeOK, TokenIds
  <2>. QED  BY <2>1, <2>2 DEF StoreEffect, SameToken, WhenDue, Final
<1>4. ASSUME NEW i \in Instances, Apply(i), ~ UNCHANGED tokens
      PROVE  WhenDue(id) /\ Final(id)
  <2>1. Rotatable(cur[i].id, cur[i].expected)
    BY <1>4 DEF Apply, Rotated
  <2>2. /\ cur[i] # NULL /\ tokens'[cur[i].id] # NULL
        /\ tokens'[cur[i].id].expires = cur[i].expires
        /\ tokens'[cur[i].id].login = tokens[cur[i].id].login
        /\ \A t \in TokenIds : t # cur[i].id => tokens'[t] = tokens[t]
    BY <1>4, <2>1, ApplyRow
  <2>3. CASE id # cur[i].id
    BY <2>2, <2>3 DEF WhenDue, Final, Has
  <2>4. CASE id = cur[i].id
    <3>1. /\ Has(id) /\ tokens[id].auto /\ ~tokens[id].revoked
          /\ tokens[id].expires = cur[i].expected
      BY <2>1, <2>4 DEF Rotatable
    <3>2. /\ cur[i].expected <= SqlNow + LeadDays
          /\ tokens[id].days # NULL
          /\ tokens[id].days > LeadDays + Zone => cur[i].expires > cur[i].expected
      BY <2>2, <2>4, <3>1 DEF RotateInv, HandMatches
    <3>3. cur[i].expected \in Int
      BY <1>1, <2>2 DEF RotateTypeOK, Rotation
    <3>4. DueForRotation(id, LeadDays)
      BY <3>1, <3>2, <3>3, NullAssumption DEF DueForRotation
    <3>. QED  BY <2>2, <2>4, <3>1, <3>2, <3>4 DEF WhenDue, Final, Has
  <2>. QED  BY <2>3, <2>4
<1>. QED
  <2>1. ASSUME NEW i \in Instances, Poll(i) \/ PassStep(i) \/ FaultStep(i), ~Apply(i)
        PROVE  UNCHANGED tokens
    BY <2>1
    DEF Poll, PassStep, FaultStep, GetLock, ReleaseLock, List, SkipZero, Take, PassDone, Email,
        AuditRotation, PassFails, ReleaseFails, SessionDies, Crash, storeVars, dbVars
  <2>. QED  BY <1>2, <1>3, <1>4, <2>1 DEF Next, StoreStep, PassStep, vars, storeVars

\* Two passes at once, stale lists, faults: a row gets a new secret only while it
\* is due, keeps its owner, and lives longer if rotation_days exceeds the lead.
THEOREM RotatesWhenDue == Spec => RotationWhenDue
<1>1. RotateInv /\ [Next]_vars => [\A id \in TokenIds : WhenDue(id)]_vars
  BY RowStep
<1>. QED  BY <1>1, RotateInitInv, RotateNextInv, PTL DEF Spec, RotationWhenDue, WhenDue

\* With the loops running too, nothing brings a revoked token back, and only a
\* revoked token, or one whose user is removed, disappears.
THEOREM RotateRevokedIsFinal == Spec => RevokedIsFinal
<1>1. RotateInv /\ [Next]_vars => [\A id \in TokenIds : Final(id)]_storeVars
  BY RowStep
<1>. QED  BY <1>1, RotateInitInv, RotateNextInv, PTL DEF Spec, RevokedIsFinal, Final
-----------------------------------------------------------------------------
(***************************************************************************)
(* What ORDER BY and LIMIT leave of the due rows.                          *)
(***************************************************************************)

\* The due rows that expire no later than r, r among them.
NoLater(r) == {s \in DueRows : s.expires <= r.expires}

\* A set of numbers has a least one, which is how the inductions below go.
LEMMA LeastNat ==
  ASSUME NEW T, T \subseteq Nat, T # {}
  PROVE  \E n \in T : \A m \in T : n <= m
<1>1. PICK n \in T : \A m \in T : ~(<<m, n>> \in OpToRel(<, Nat))
  BY WFMin, NatLessThanWellFounded
<1>2. \A m \in T : ~(m < n)
  BY <1>1 DEF OpToRel
<1>. QED  BY <1>2

LEMMA DueRowsFinite == ASSUME StoreTypeOK PROVE IsFiniteSet(DueRows)
<1>. DEFINE ids == {t \in TokenIds : DueForRotation(t, LeadDays)}
            f == [r \in DueRows |-> r.id]
<1>1. IsFiniteSet(TokenIds)
  BY FS_Interval, StoreAssumption DEF TokenIds
<1>2. f \in Injection(DueRows, TokenIds)
  <2>1. \A r \in DueRows : r.id \in TokenIds /\ r = SnapshotOf(r.id)
    BY DEF DueRows, SnapshotOf
  <2>. QED  BY <2>1 DEF Injection, IsInjective
<1>. QED  BY <1>1, <1>2, FS_Injection

\* Some row of a set expires first: the one that the fewest expire no later than.
LEMMA FirstExists ==
  ASSUME NEW R, IsFiniteSet(R), R # {}, \A r \in R : r.expires \in Int
  PROVE  \E r \in R : \A s \in R : r.expires <= s.expires
<1>. DEFINE upTo(r) == {s \in R : s.expires <= r.expires}
            counts == {Cardinality(upTo(r)) : r \in R}
<1>1. \A r \in R : IsFiniteSet(upTo(r)) /\ Cardinality(upTo(r)) \in Nat
  BY FS_Subset, FS_CardinalityType
<1>2. PICK r \in R : \A s \in R : Cardinality(upTo(r)) <= Cardinality(upTo(s))
  <2>1. counts \subseteq Nat /\ counts # {}
    BY <1>1
  <2>2. PICK n \in counts : \A m \in counts : n <= m
    BY <2>1, LeastNat
  <2>. QED  BY <2>2
<1>3. ASSUME NEW s \in R, s.expires < r.expires PROVE FALSE
  <2>1. upTo(s) \in SUBSET upTo(r) /\ r \in upTo(r) /\ r \notin upTo(s)
    BY <1>3
  <2>2. Cardinality(upTo(s)) <= Cardinality(upTo(r)) /\ Cardinality(upTo(s)) # Cardinality(upTo(r))
    BY <1>1, <2>1, FS_Subset
  <2>3. Cardinality(upTo(r)) <= Cardinality(upTo(s))
    BY <1>2
  <2>. DEFINE m == Cardinality(upTo(r))
              n == Cardinality(upTo(s))
  <2>4. m \in Nat /\ n \in Nat /\ n <= m /\ n # m /\ m <= n
    BY <1>1, <2>2, <2>3
  <2>. HIDE DEF m, n
  <2>. QED  BY <2>4
<1>. QED  BY <1>3

\* The first k rows, in some order of those that expire at the same time.
FirstRows(rows, b, k) ==
  /\ b \in SUBSET rows /\ Cardinality(b) = k
  /\ \A in \in b, out \in rows \ b : in.expires <= out.expires

LEMMA FirstRowsExist ==
  ASSUME NEW rows, IsFiniteSet(rows), \A r \in rows : r.expires \in Int,
         NEW n \in 0 .. Cardinality(rows)
  PROVE  \E b : FirstRows(rows, b, n)
<1>. DEFINE None == {k \in 0 .. n : ~\E b : FirstRows(rows, b, k)}
<1>0. Cardinality(rows) \in Nat /\ None \subseteq Nat /\ n \in 0 .. n
  <2>1. Cardinality(rows) \in Nat
    BY FS_CardinalityType
  <2>. QED  BY <2>1
<1>. SUFFICES ASSUME None # {} PROVE FALSE
  BY <1>0
<1>1. PICK k \in None : \A m \in None : k <= m
  <2>. HIDE DEF None
  <2>. QED  BY <1>0, LeastNat
<1>2. k # 0
  <2>1. FirstRows(rows, {}, 0)
    BY FS_EmptySet DEF FirstRows
  <2>. QED  BY <2>1
<1>3. k - 1 \in 0 .. n /\ k - 1 \notin None
  BY <1>0, <1>1, <1>2
<1>4. PICK b : FirstRows(rows, b, k - 1)
  BY <1>3
<1>5. IsFiniteSet(b) /\ b # rows
  BY <1>0, <1>4, FS_Subset DEF FirstRows
<1>6. PICK r \in rows \ b : \A s \in rows \ b : r.expires <= s.expires
  <2>1. IsFiniteSet(rows \ b) /\ rows \ b # {}
    BY <1>4, <1>5, FS_Subset DEF FirstRows
  <2>. QED  BY <2>1, FirstExists
<1>7. FirstRows(rows, b \cup {r}, k)
  <2>1. r \notin b /\ Cardinality(b) = k - 1 /\ k \in Int
    BY <1>4, <1>0 DEF FirstRows
  <2>. HIDE DEF None
  <2>2. Cardinality(b \cup {r}) = Cardinality(b) + 1
    BY <1>5, <2>1, FS_AddElement
  <2>3. Cardinality(b \cup {r}) = k
    BY <2>1, <2>2
  <2>. QED  BY <1>4, <1>6, <2>3 DEF FirstRows
<1>. QED  BY <1>7

LEMMA BatchServes ==
  ASSUME StoreTypeOK, NEW b \in Batch(DueRows)
  PROVE  /\ b = {} => DueRows = {}
         /\ \A r \in DueRows : Cardinality(NoLater(r)) <= BatchLimit => r \in b
<1>1. /\ b \in SUBSET DueRows /\ (b # DueRows => Cardinality(b) = BatchLimit)
      /\ \A in \in b, out \in DueRows \ b : in.expires <= out.expires
  BY DEF Batch
<1>2. b = {} => DueRows = {}
  BY <1>1, FS_EmptySet, RotateAssumption
<1>3. ASSUME NEW r \in DueRows, Cardinality(NoLater(r)) <= BatchLimit, r \notin b
      PROVE  FALSE
  <2>1. r.expires \in Int
    BY DueRowsType DEF Snapshot
  <2>2. NoLater(r) \in SUBSET DueRows /\ b \cup {r} \in SUBSET NoLater(r)
    BY <1>1, <1>3, <2>1 DEF NoLater
  <2>3. IsFiniteSet(b) /\ IsFiniteSet(NoLater(r)) /\ Cardinality(NoLater(r)) \in Nat
    BY <1>1, <2>2, DueRowsFinite, FS_Subset, FS_CardinalityType
  <2>4. Cardinality(b \cup {r}) = BatchLimit + 1
    BY <1>1, <1>3, <2>3, FS_AddElement
  <2>5. Cardinality(b \cup {r}) <= Cardinality(NoLater(r))
    BY <2>2, <2>3, FS_Subset
  <2>. QED  BY <1>3, <2>3, <2>4, <2>5, RotateAssumption
<1>. QED  BY <1>2, <1>3

LEMMA BatchExists == ASSUME StoreTypeOK PROVE Batch(DueRows) # {}
<1>0. /\ IsFiniteSet(DueRows) /\ Cardinality(DueRows) \in Nat
      /\ \A r \in DueRows : r.expires \in Int
  BY DueRowsFinite, FS_CardinalityType, DueRowsType DEF Snapshot
<1>1. CASE Cardinality(DueRows) <= BatchLimit
  <2>1. DueRows \in Batch(DueRows)
    BY <1>1 DEF Batch
  <2>. QED  BY <2>1
<1>2. CASE ~(Cardinality(DueRows) <= BatchLimit)
  <2>1. BatchLimit \in 0 .. Cardinality(DueRows)
    BY <1>0, <1>2, RotateAssumption
  <2>2. PICK b : FirstRows(DueRows, b, BatchLimit)
    BY <1>0, <2>1, FirstRowsExist
  <2>3. b \in Batch(DueRows)
    BY <2>2, RotateAssumption DEF FirstRows, Batch
  <2>. QED  BY <2>3
<1>. QED  BY <1>1, <1>2

\* A pass can always list, lists nothing only when nothing is due, and a due row is
\* left out only if more rows than the LIMIT expire no later (token.py:184-185): it
\* is no row's rotation but theirs that it waits for.
THEOREM EarliestAreListed ==
  Spec => [](/\ Batch(DueRows) # {}
             /\ \A b \in Batch(DueRows) :
                  /\ b = {} => DueRows = {}
                  /\ \A r \in DueRows : Cardinality(NoLater(r)) <= BatchLimit => r \in b)
<1>. DEFINE Listed == /\ Batch(DueRows) # {}
                      /\ \A b \in Batch(DueRows) :
                           /\ b = {} => DueRows = {}
                           /\ \A r \in DueRows :
                                Cardinality(NoLater(r)) <= BatchLimit => r \in b
<1>1. RotateTypeOK => Listed
  BY BatchServes, BatchExists DEF RotateTypeOK
<1>. QED  BY <1>1, RotateTypeCorrect, PTL

-----------------------------------------------------------------------------
(***************************************************************************)
(* The pools.  What was shown of the loops on any sessions holds on the    *)
(* sessions that the queues hand out.                                      *)
(***************************************************************************)

Elems(q) == {q[n] : n \in DOMAIN q}

\* A queue of sessions beside the sessions l that are out.
Lone(q, l) ==
  /\ q \in Seq(Conns) /\ l \in SUBSET Conns
  /\ \A m, n \in DOMAIN q : q[m] = q[n] => m = n
  /\ Elems(q) \cap l = {}

LEMMA HeadLeaves ==
  ASSUME NEW q, NEW l, Lone(q, l), q # <<>>
  PROVE  /\ Head(q) \in Conns /\ Head(q) \notin l
         /\ Lone(Tail(q), l \cup {Head(q)})
         /\ Elems(q) = Elems(Tail(q)) \cup {Head(q)}
<1>1. q \in Seq(Conns) /\ Len(q) \in Nat \ {0} /\ DOMAIN q = 1 .. Len(q)
  BY DEF Lone
<1>2. /\ Tail(q) \in Seq(Conns) /\ Head(q) = q[1] /\ Head(q) \in Conns
      /\ DOMAIN Tail(q) = 1 .. Len(q) - 1
      /\ \A n \in 1 .. Len(q) - 1 : Tail(q)[n] = q[n + 1] /\ n + 1 \in DOMAIN q
  BY <1>1
<1>3. 1 \in DOMAIN q /\ Head(q) \in Elems(q)
  BY <1>1, <1>2 DEF Elems
<1>4. \A n \in DOMAIN Tail(q) : Tail(q)[n] \in Elems(q) /\ Tail(q)[n] # Head(q)
  BY <1>1, <1>2, <1>3 DEF Lone, Elems
<1>5. \A m, n \in DOMAIN Tail(q) : Tail(q)[m] = Tail(q)[n] => m = n
  BY <1>1, <1>2 DEF Lone
<1>6. Elems(q) \subseteq Elems(Tail(q)) \cup {Head(q)}
  <2>1. ASSUME NEW n \in DOMAIN q, n # 1 PROVE n - 1 \in 1 .. Len(q) - 1 /\ q[n] = Tail(q)[n - 1]
    BY <1>1, <1>2, <2>1
  <2>2. ASSUME NEW n \in DOMAIN q PROVE q[n] \in Elems(Tail(q)) \cup {Head(q)}
    BY <1>2, <2>1 DEF Elems
  <2>. QED  BY <2>2 DEF Elems
<1>7. Elems(Tail(q)) \subseteq Elems(q) \ {Head(q)}
  BY <1>4 DEF Elems
<1>. QED  BY <1>2, <1>3, <1>5, <1>6, <1>7 DEF Lone

LEMMA TailGrows ==
  ASSUME NEW q, NEW l, Lone(q, l), NEW k \in Conns, k \notin Elems(q)
  PROVE  /\ Lone(Append(q, k), l \ {k})
         /\ Elems(Append(q, k)) = Elems(q) \cup {k}
<1>1. q \in Seq(Conns) /\ Len(q) \in Nat /\ DOMAIN q = 1 .. Len(q)
  BY DEF Lone
<1>2. /\ Append(q, k) \in Seq(Conns) /\ DOMAIN Append(q, k) = 1 .. Len(q) + 1
      /\ Append(q, k)[Len(q) + 1] = k
      /\ \A n \in 1 .. Len(q) : Append(q, k)[n] = q[n]
  BY <1>1
<1>3. Elems(Append(q, k)) = Elems(q) \cup {k}
  BY <1>1, <1>2 DEF Elems
<1>4. ASSUME NEW m \in 1 .. Len(q) + 1, NEW n \in 1 .. Len(q) + 1,
             Append(q, k)[m] = Append(q, k)[n]
      PROVE  m = n
  BY <1>1, <1>2, <1>4 DEF Lone, Elems
<1>. QED  BY <1>2, <1>3, <1>4 DEF Lone

LEMMA JoinIsSeq ==
  ASSUME NEW S, NEW a \in Seq(S), NEW b \in Seq(S)
  PROVE  a \o b \in Seq(S) /\ Len(a \o b) = Len(a) + Len(b)
OBVIOUS

LEMMA OneTakenOut ==
  ASSUME NEW q, NEW l, Lone(q, l), NEW n \in DOMAIN q
  PROVE  LET r == SubSeq(q, 1, n - 1) \o SubSeq(q, n + 1, Len(q)) IN
         Lone(r, l) /\ Elems(r) = Elems(q) \ {q[n]}
<1>. DEFINE r == SubSeq(q, 1, n - 1) \o SubSeq(q, n + 1, Len(q))
            at(m) == IF m < n THEN m ELSE m + 1
<1>1. q \in Seq(Conns) /\ Len(q) \in Nat /\ DOMAIN q = 1 .. Len(q) /\ n \in 1 .. Len(q)
  BY DEF Lone
<1>2. /\ r \in Seq(Conns) /\ DOMAIN r = 1 .. Len(q) - 1
      /\ \A m \in 1 .. Len(q) - 1 : r[m] = q[at(m)]
  <2>. DEFINE a == SubSeq(q, 1, n - 1)
              b == SubSeq(q, n + 1, Len(q))
  <2>1. a \in Seq(Conns) /\ Len(a) = n - 1 /\ \A m \in 1 .. n - 1 : a[m] = q[m]
    BY <1>1
  <2>2. b \in Seq(Conns) /\ Len(b) = Len(q) - n /\ \A m \in 1 .. Len(q) - n : b[m] = q[m + n]
    BY <1>1
  <2>. HIDE DEF a, b
  <2>3. /\ a \o b \in Seq(Conns) /\ DOMAIN (a \o b) = 1 .. Len(q) - 1
        /\ \A m \in 1 .. Len(q) - 1 : (a \o b)[m] = IF m < n THEN a[m] ELSE b[m - (n - 1)]
    <3>1. a \o b \in Seq(Conns) /\ Len(a \o b) = Len(a) + Len(b)
      BY <2>1, <2>2, JoinIsSeq
    <3>2. Len(a) + Len(b) = Len(q) - 1
      BY <1>1, <2>1, <2>2
    <3>3. DOMAIN (a \o b) = 1 .. Len(q) - 1
      BY <3>1, <3>2
    <3>4. \A m \in 1 .. Len(a) + Len(b) :
            (a \o b)[m] = IF m <= Len(a) THEN a[m] ELSE b[m - Len(a)]
      BY <2>1, <2>2
    <3>5. \A m \in 1 .. Len(q) - 1 : m <= Len(a) <=> m < n
      BY <1>1, <2>1
    <3>6. \A m \in 1 .. Len(q) - 1 : (a \o b)[m] = IF m < n THEN a[m] ELSE b[m - Len(a)]
      BY <3>2, <3>4, <3>5
    <3>. QED  BY <2>1, <3>1, <3>3, <3>6
  <2>4. \A m \in 1 .. Len(q) - 1 : (a \o b)[m] = q[at(m)]
    <3>1. ASSUME NEW m \in 1 .. Len(q) - 1 PROVE (a \o b)[m] = q[at(m)]
      <4>1. CASE m < n
        <5>1. m \in 1 .. n - 1
          BY <1>1, <4>1
        <5>. QED  BY <2>1, <2>3, <4>1, <5>1
      <4>2. CASE ~(m < n)
        <5>1. m - (n - 1) \in 1 .. Len(q) - n /\ m - (n - 1) + n = m + 1
          BY <1>1, <4>2
        <5>. QED  BY <2>2, <2>3, <4>2, <5>1
      <4>. QED  BY <4>1, <4>2
    <3>. QED  BY <3>1
  <2>. QED  BY <2>3, <2>4 DEF a, b
<1>3. \A m \in 1 .. Len(q) - 1 : at(m) \in DOMAIN q /\ at(m) # n
  BY <1>1
<1>4. \A m, o \in 1 .. Len(q) - 1 : at(m) = at(o) => m = o
  BY <1>1
<1>5. \A m \in DOMAIN q : m # n => \E o \in 1 .. Len(q) - 1 : at(o) = m
  <2>1. ASSUME NEW m \in DOMAIN q, m # n PROVE \E o \in 1 .. Len(q) - 1 : at(o) = m
    <3>1. CASE m < n
      BY <1>1, <3>1
    <3>2. CASE m > n
      <4>1. m - 1 \in 1 .. Len(q) - 1 /\ at(m - 1) = m
        BY <1>1, <3>2
      <4>. QED  BY <4>1
    <3>. QED  BY <1>1, <2>1, <3>1, <3>2
  <2>. QED  BY <2>1
<1>. HIDE DEF r, at
<1>6. \A m, o \in DOMAIN r : r[m] = r[o] => m = o
  BY <1>2, <1>3, <1>4 DEF Lone
<1>7. Elems(r) = Elems(q) \ {q[n]}
  <2>1. Elems(r) \subseteq Elems(q) \ {q[n]}
    BY <1>2, <1>3 DEF Lone, Elems
  <2>2. Elems(q) \ {q[n]} \subseteq Elems(r)
    BY <1>2, <1>5 DEF Elems
  <2>. QED  BY <2>1, <2>2
<1>. QED  BY <1>2, <1>6, <1>7 DEF Lone, r

PoolShape ==
  /\ free \in [Instances -> Seq(Conns)] /\ lent \in [Instances -> SUBSET Conns]
  /\ \A i \in Instances : Lone(free[i], lent[i])

LEMMA ShapeIsType ==
  PoolTypeOK <=> /\ PoolShape
                 /\ \A i \in Instances, k \in Conns : owner = <<i, k>> => k \in Open(i)
BY DEF PoolTypeOK, PoolShape, Lone, Elems, Queued, Open

\* The sessions an acquire returns are the pool's, and nobody else has them.
LEMMA HandedIsFree ==
  ASSUME PoolShape, NEW i \in Instances, NEW k \in Handed(i)
  PROVE  /\ k \in Conns /\ k \notin lent[i] /\ k \notin Elems(Rest(i))
         /\ Lone(Rest(i), lent[i] \cup {k})
         /\ Elems(Rest(i)) \cup {k} = Elems(free[i]) \cup {k}
<1>1. Lone(free[i], lent[i]) /\ lent[i] \in SUBSET Conns
  BY DEF PoolShape
<1>2. CASE free[i] # <<>>
  <2>1. k = Head(free[i]) /\ Rest(i) = Tail(free[i])
    BY <1>2 DEF Handed, Rest
  <2>2. /\ Head(free[i]) \in Conns /\ Head(free[i]) \notin lent[i]
        /\ Lone(Tail(free[i]), lent[i] \cup {Head(free[i])})
        /\ Elems(free[i]) = Elems(Tail(free[i])) \cup {Head(free[i])}
    <3>. DEFINE q == free[i]
                l == lent[i]
    <3>1. Lone(q, l) /\ q # <<>>
      BY <1>1, <1>2
    <3>. HIDE DEF q, l
    <3>2. /\ Head(q) \in Conns /\ Head(q) \notin l
          /\ Lone(Tail(q), l \cup {Head(q)})
          /\ Elems(q) = Elems(Tail(q)) \cup {Head(q)}
      BY <3>1, HeadLeaves
    <3>. QED  BY <3>2 DEF q, l
  <2>3. /\ k \in Conns /\ k \notin lent[i] /\ Lone(Rest(i), lent[i] \cup {k})
        /\ Elems(free[i]) = Elems(Rest(i)) \cup {k}
    BY <2>1, <2>2 DEF Lone, Elems
  <2>. QED  BY <2>3 DEF Lone
<1>3. CASE free[i] = <<>>
  BY <1>1, <1>3 DEF Handed, Rest, Lone, Elems
<1>. QED  BY <1>2, <1>3

\* What a step of a pool does to who has which session.
Moves(i, k) ==
  /\ PoolShape'
  /\ k \in Open(i)'
  /\ \A j \in Instances : Open(j) \subseteq Open(j)'

LEMMA TurnMoves ==
  ASSUME PoolShape, NEW i \in Instances, NEW k, Turn(i, k)
  PROVE  k \in Conns /\ Moves(i, k)
<1>1. /\ k \in Handed(i) /\ lent' = lent
      /\ free' = [free EXCEPT ![i] = Append(Rest(i), k)]
  BY DEF Turn
<1>2. /\ k \in Conns /\ k \notin lent[i] /\ k \notin Elems(Rest(i))
      /\ Lone(Rest(i), lent[i] \cup {k})
      /\ Elems(Rest(i)) \cup {k} = Elems(free[i]) \cup {k}
  BY <1>1, HandedIsFree
<1>3. /\ Lone(Append(Rest(i), k), (lent[i] \cup {k}) \ {k})
      /\ Elems(Append(Rest(i), k)) = Elems(Rest(i)) \cup {k}
  BY <1>2, TailGrows
<1>4. (lent[i] \cup {k}) \ {k} = lent[i]
  BY <1>2
<1>5. PoolShape'
  BY <1>1, <1>3, <1>4 DEF PoolShape, Lone
<1>6. free'[i] = Append(Rest(i), k) /\ \A j \in Instances : j # i => free'[j] = free[j]
  BY <1>1 DEF PoolShape
<1>. QED  BY <1>1, <1>2, <1>3, <1>5, <1>6 DEF Moves, Open, Queued, Elems

LEMMA BorrowMoves ==
  ASSUME PoolShape, NEW i \in Instances, Borrow(i)
  PROVE  PoolShape' /\ \A j \in Instances : Open(j) \subseteq Open(j)'
<1>1. PICK k \in Handed(i) : lent' = [lent EXCEPT ![i] = @ \cup {k}]
  BY DEF Borrow
<1>2. free' = [free EXCEPT ![i] = Rest(i)]
  BY DEF Borrow
<1>3. /\ k \in Conns /\ Lone(Rest(i), lent[i] \cup {k})
      /\ Elems(Rest(i)) \cup {k} = Elems(free[i]) \cup {k}
  BY HandedIsFree
<1>4. PoolShape'
  BY <1>1, <1>2, <1>3 DEF PoolShape, Lone
<1>5. /\ free'[i] = Rest(i) /\ lent'[i] = lent[i] \cup {k}
      /\ \A j \in Instances : j # i => free'[j] = free[j] /\ lent'[j] = lent[j]
  BY <1>1, <1>2 DEF PoolShape
<1>. QED  BY <1>3, <1>4, <1>5 DEF Open, Queued, Elems

LEMMA ReturnMoves ==
  ASSUME PoolShape, NEW i \in Instances, Return(i)
  PROVE  PoolShape' /\ \A j \in Instances : Open(j) \subseteq Open(j)'
<1>1. PICK k \in lent[i] : /\ lent' = [lent EXCEPT ![i] = @ \ {k}]
                           /\ free' = [free EXCEPT ![i] = Append(@, k)]
  BY DEF Return
<1>2. Lone(free[i], lent[i]) /\ k \in Conns /\ k \notin Elems(free[i])
  BY <1>1 DEF PoolShape, Lone
<1>3. /\ Lone(Append(free[i], k), lent[i] \ {k})
      /\ Elems(Append(free[i], k)) = Elems(free[i]) \cup {k}
  BY <1>2, TailGrows
<1>4. PoolShape'
  BY <1>1, <1>3 DEF PoolShape, Lone
<1>5. /\ free'[i] = Append(free[i], k) /\ lent'[i] = lent[i] \ {k}
      /\ \A j \in Instances : j # i => free'[j] = free[j] /\ lent'[j] = lent[j]
  BY <1>1 DEF PoolShape
<1>. QED  BY <1>3, <1>4, <1>5 DEF Open, Queued, Elems

LEMMA DeathKeepsShape ==
  ASSUME PoolShape, NEW i \in Instances, NEW k \in Conns, PoolSessionDies(i, k)
  PROVE  PoolShape'
<1>1. PICK left \in Without(i, k) :
        \/ free' = [free EXCEPT ![i] = left]
        \/ \E new \in Conns \ (Open(i) \ {k}) : free' = [free EXCEPT ![i] = Append(left, new)]
  BY DEF PoolSessionDies
<1>2. lent' = [lent EXCEPT ![i] = @ \ {k}] /\ Lone(free[i], lent[i])
  BY DEF PoolSessionDies, PoolShape
<1>3. Lone(left, lent[i] \ {k}) /\ Elems(left) \subseteq Elems(free[i]) \ {k}
  <2>1. CASE k \in lent[i]
    BY <1>1, <1>2, <2>1 DEF Without, Lone
  <2>2. CASE k \notin lent[i]
    <3>1. PICK n \in DOMAIN free[i] :
            /\ free[i][n] = k
            /\ left = SubSeq(free[i], 1, n - 1) \o SubSeq(free[i], n + 1, Len(free[i]))
      BY <1>1, <2>2 DEF Without
    <3>2. Lone(left, lent[i]) /\ Elems(left) = Elems(free[i]) \ {k}
      BY <1>2, <3>1, OneTakenOut
    <3>. QED  BY <3>2 DEF Lone
  <2>. QED  BY <2>1, <2>2
<1>4. CASE free' = [free EXCEPT ![i] = left]
  BY <1>2, <1>3, <1>4 DEF PoolShape, Lone
<1>5. ASSUME NEW new \in Conns \ (Open(i) \ {k}), free' = [free EXCEPT ![i] = Append(left, new)]
      PROVE  PoolShape'
  <2>1. new \notin Elems(left) /\ new \notin lent[i] \ {k}
    BY <1>3 DEF Open, Queued, Elems
  <2>2. Lone(Append(left, new), (lent[i] \ {k}) \ {new})
    BY <1>3, <2>1, TailGrows
  <2>3. (lent[i] \ {k}) \ {new} = lent[i] \ {k}
    BY <2>1
  <2>. QED  BY <1>2, <1>5, <2>2, <2>3 DEF PoolShape, Lone
<1>. QED  BY <1>1, <1>4, <1>5

LEMMA PoolInitType == PoolInit => PoolTypeOK
<1>. USE PoolAssumption, RotateAssumption
<1>1. Lone(FirstSessions, {})
  BY DEF Lone
<1>. QED  BY <1>1, ShapeIsType DEF PoolInit, Init, PoolShape, Lone, Session

\* Only a poll gives the lock to somebody, and then to the session it is on.
LEMMA PoolNextType == PoolTypeOK /\ [PoolNext]_allVars => PoolTypeOK'
<1>. SUFFICES ASSUME PoolTypeOK, [PoolNext]_allVars PROVE PoolTypeOK'
  OBVIOUS
<1>. USE RotateAssumption
<1>0. PoolShape /\ \A i \in Instances, k \in Conns : owner = <<i, k>> => k \in Open(i)
  BY ShapeIsType
<1>1. ASSUME PoolShape', owner' \in {owner, NULL},
             \A j \in Instances : Open(j) \subseteq Open(j)'
      PROVE  PoolTypeOK'
  BY <1>0, <1>1, ShapeIsType DEF Session, PoolTypeOK, PoolShape, Lone, Elems, Queued, Open
<1>2. ASSUME UNCHANGED poolVars, owner' \in {owner, NULL} PROVE PoolTypeOK'
  BY <1>0, <1>1, <1>2 DEF poolVars, PoolShape, Open, Queued
<1>3. ASSUME NEW i \in Instances, TakesTurn(i), owner' \in {owner, NULL} PROVE PoolTypeOK'
  BY <1>0, <1>1, <1>3, TurnMoves DEF TakesTurn, Moves
<1>4. ASSUME NEW i \in Instances, PoolPoll(i) PROVE PoolTypeOK'
  <2>1. PICK k : Turn(i, k) /\ (GetLock(i, k) \/ UNCHANGED vars)
    BY <1>4 DEF PoolPoll, PollOn
  <2>2. CASE GetLock(i, k)
    <3>1. owner' = <<i, k>> /\ k \in Conns /\ Moves(i, k)
      BY <1>0, <2>1, <2>2, TurnMoves DEF GetLock
    <3>. QED  BY <3>1 DEF Moves, PoolTypeOK, PoolShape, Lone, Elems, Queued, Open
  <2>3. CASE UNCHANGED vars
    BY <1>0, <1>1, <2>1, <2>3, TurnMoves DEF Moves, vars, rotVars
  <2>. QED  BY <2>1, <2>2, <2>3
<1>5. ASSUME NEW i \in Instances, PoolPassStep(i) PROVE PoolTypeOK'
  <2>1. CASE (List(i) \/ Apply(i)) /\ TakesTurn(i)
    BY <1>3, <2>1 DEF List, Apply
  <2>2. CASE Email(i) /\ (TakesTurn(i) \/ UNCHANGED poolVars)
    BY <1>2, <1>3, <2>2 DEF Email
  <2>3. CASE LocalStep(i) /\ UNCHANGED poolVars
    BY <1>2, <2>3 DEF LocalStep, SkipZero, Take, PassDone, AuditRotation
  <2>4. CASE \E k \in Handed(i) : ReleaseLock(i, k) /\ Turn(i, k)
    BY <1>3, <2>4 DEF TakesTurn, ReleaseLock
  <2>. QED  BY <1>5, <2>1, <2>2, <2>3, <2>4 DEF PoolPassStep
<1>6. ASSUME NEW i \in Instances, PoolStatementFails(i) PROVE PoolTypeOK'
  BY <1>2, <1>3, <1>6 DEF PoolStatementFails, PassFails, ReleaseFails
<1>7. ASSUME NEW i \in Instances, NEW k \in Conns, PoolSessionDies(i, k) PROVE PoolTypeOK'
  <2>1. PoolShape' /\ owner' = NULL
    BY <1>0, <1>7, DeathKeepsShape DEF PoolSessionDies, SessionDies
  <2>. QED  BY <2>1 DEF Session, PoolTypeOK, PoolShape, Lone, Elems, Queued, Open
<1>8. ASSUME NEW i \in Instances, PoolCrash(i) PROVE PoolTypeOK'
  <2>1. /\ free' = [free EXCEPT ![i] = FirstSessions] /\ lent' = [lent EXCEPT ![i] = {}]
        /\ owner' \in {owner, NULL} /\ (owner \in {i} \X Conns => owner' = NULL)
    BY <1>8 DEF PoolCrash, Crash
  <2>2. Lone(FirstSessions, {})
    BY PoolAssumption DEF Lone
  <2>3. PoolShape'
    BY <1>0, <2>1, <2>2 DEF PoolShape, Lone
  <2>4. ASSUME NEW j \in Instances, NEW k \in Conns, owner' = <<j, k>> PROVE k \in Open(j)'
    <3>1. owner = <<j, k>> /\ j # i
      BY <2>1, <2>4 DEF Session
    <3>. QED  BY <1>0, <2>1, <3>1 DEF PoolShape, Open, Queued
  <2>. QED  BY <2>3, <2>4 DEF PoolTypeOK, PoolShape, Lone, Elems, Queued, Open
<1>9. ASSUME NEW i \in Instances, Borrow(i) \/ Return(i) PROVE PoolTypeOK'
  BY <1>0, <1>1, <1>9, BorrowMoves, ReturnMoves DEF Borrow, Return, vars, rotVars
<1>10. CASE StoreStep /\ UNCHANGED poolVars
  BY <1>2, <1>10 DEF StoreStep, rotVars
<1>11. CASE UNCHANGED allVars
  BY <1>2, <1>11 DEF allVars, vars, rotVars
<1>. QED
  BY <1>4, <1>5, <1>6, <1>7, <1>8, <1>9, <1>10, <1>11 DEF PoolNext, PoolFaultStep

\* Whatever requests, faults and restarts do to the pools, a session is in a queue
\* once or with one user, and the lock's holder is a session that a pool has.
THEOREM PoolTypeCorrect == PoolSpec => []PoolTypeOK
BY PoolInitType, PoolNextType, PTL DEF PoolSpec

\* A step of the loops on their pools is a step of the loops.
LEMMA PoolStepIsStep ==
  ASSUME PoolTypeOK, [PoolNext]_allVars
  PROVE  [Next]_vars
<1>0. \A i \in Instances : \A k \in Handed(i) : k \in Conns
  BY ShapeIsType, HandedIsFree
<1>1. ASSUME NEW i \in Instances, PoolPoll(i) PROVE [Next]_vars
  BY <1>0, <1>1 DEF PoolPoll, PollOn, Next, Poll
<1>2. ASSUME NEW i \in Instances, PoolPassStep(i) PROVE [Next]_vars
  BY <1>0, <1>2 DEF PoolPassStep, LocalStep, Next, PassStep
<1>3. ASSUME NEW i \in Instances, PoolFaultStep(i) PROVE [Next]_vars
  BY <1>3
  DEF PoolFaultStep, PoolStatementFails, PoolSessionDies, PoolCrash, Next, FaultStep
<1>. QED  BY <1>1, <1>2, <1>3 DEF PoolNext, Borrow, Return, Next, allVars

\* The loops on aiomysql's queues implement the loops on sessions that anybody
\* chooses, so that all that is proved of those holds here.
THEOREM PoolImplementsLoops == PoolSpec => Spec
<1>1. PoolInit => Init
  BY DEF PoolInit
<1>. QED  BY <1>1, PoolTypeCorrect, PoolStepIsStep, PTL DEF PoolSpec, Spec
=============================================================================
