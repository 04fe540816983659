---------------------------- MODULE ScopeProofs ----------------------------
(***************************************************************************)
(* What normalize_oauth_scopes computes for every list of scopes.  It is a *)
(* fold, so the lemmas go by induction on how much of the list is folded:  *)
(* a least counterexample, which LeastNat gives, is refuted.               *)
(***************************************************************************)
EXTENDS AuthProvider, Integers, TLAPS, WellFoundedInduction

LEMMA LeastNat ==
  ASSUME NEW T, T \subseteq Nat, T # {}
  PROVE  \E n \in T : \A m \in T : n <= m
<1>1. PICK n \in T : \A m \in T : ~(<<m, n>> \in OpToRel(<, Nat))
  BY WFMin, NatLessThanWellFounded
<1>2. \A m \in T : ~(m < n)
  BY <1>1 DEF OpToRel
<1>3. QED BY <1>2

-----------------------------------------------------------------------------
(***************************************************************************)
(* The fold's equation.                                                    *)
(***************************************************************************)

\* One turn of the loop.
Turn(result, s) ==
  IF Contains(result, Parent(s)) THEN result ELSE Append(result, Parent(s))

\* f is the fold's function on the sets of indices D, whose last index is folded last.
IsFold(f, scopes, D) ==
  f = [s \in SUBSET D |-> IF s = {} THEN <<>> ELSE Turn(f[s \ {Max(s)}], scopes[Max(s)])]

LEMMA NormalizeIsFold ==
  ASSUME NEW scopes
  PROVE  Normalize(scopes) = (CHOOSE f : IsFold(f, scopes, DOMAIN scopes))[DOMAIN scopes]
BY DEF Normalize, FoldLeft, MapThenFoldSet, IsFold, Turn

LEMMA MaxLast ==
  ASSUME NEW n \in Nat, NEW s \in SUBSET (1 .. n + 1), n + 1 \in s
  PROVE  Max(s) = n + 1
<1>1. \A x \in s : (\A y \in s : x >= y) <=> x = n + 1
  OBVIOUS
<1>2. QED BY <1>1 DEF Max

\* Recursion on the indices defines a function.
LEMMA FoldExists ==
  ASSUME NEW scopes, NEW n \in Nat
  PROVE  \E f : IsFold(f, scopes, 1 .. n)
<1> DEFINE None == {m \in Nat : ~\E f : IsFold(f, scopes, 1 .. m)}
<1> SUFFICES ASSUME None # {} PROVE FALSE
  OBVIOUS
<1>1. PICK m \in None : \A k \in None : m <= k
  BY LeastNat
<1>2. CASE m = 0
  <2>1. IsFold([s \in SUBSET (1 .. 0) |-> <<>>], scopes, 1 .. 0)
    <3>1. SUBSET (1 .. 0) = {{}} OBVIOUS
    <3>2. QED BY <3>1 DEF IsFold
  <2>2. QED BY <1>2, <2>1
<1>3. CASE m # 0
  <2> DEFINE k == m - 1
  <2>1. k \in Nat /\ m = k + 1 /\ k \notin None
    BY <1>1, <1>3
  <2>2. PICK f : IsFold(f, scopes, 1 .. k)
    BY <2>1
  <2> HIDE DEF k
  <2> DEFINE Next(s) == IF s = {} THEN <<>> ELSE Turn(f[s \ {Max(s)}], scopes[Max(s)])
             g == [s \in SUBSET (1 .. k + 1) |-> Next(s)]
  <2>3. \A s \in SUBSET (1 .. k) : g[s] = f[s]
    <3>1. 1 .. k \subseteq 1 .. k + 1 BY <2>1
    <3>2. QED BY <2>2, <3>1 DEF IsFold
  <2>4. ASSUME NEW s \in SUBSET (1 .. k + 1), s # {}
        PROVE  f[s \ {Max(s)}] = g[s \ {Max(s)}]
    <3>1. s \ {Max(s)} \in SUBSET (1 .. k)
      <4>1. \A x \in s : x = k + 1 \/ x \in 1 .. k
        BY <2>1
      <4>2. k + 1 \in s => Max(s) = k + 1
        BY <2>1, MaxLast
      <4>3. QED BY <4>1, <4>2
    <3>2. QED BY <2>3, <3>1
  <2>5. IsFold(g, scopes, 1 .. k + 1)
    <3>1. \A s \in SUBSET (1 .. k + 1) :
            Next(s) = IF s = {} THEN <<>> ELSE Turn(g[s \ {Max(s)}], scopes[Max(s)])
      BY <2>4
    <3> HIDE DEF Next
    <3>2. g = [s \in SUBSET (1 .. k + 1) |-> IF s = {} THEN <<>> ELSE Turn(g[s \ {Max(s)}], scopes[Max(s)])]
      BY <3>1
    <3>3. QED BY <3>2 DEF IsFold
  <2>6. QED BY <2>1, <2>5, <1>1
<1>4. QED BY <1>2, <1>3

\* The result after k turns, for a list that has them.
LEMMA NormalizeTurns ==
  ASSUME NEW scopes \in Seq(Scopes)
  PROVE  \E r : /\ r[0] = <<>>
                /\ \A k \in 1 .. Len(scopes) : r[k] = Turn(r[k - 1], scopes[k])
                /\ Normalize(scopes) = r[Len(scopes)]
<1> DEFINE n == Len(scopes)
<1>0. n \in Nat /\ DOMAIN scopes = 1 .. n
  OBVIOUS
<1> HIDE DEF n
<1> DEFINE f == CHOOSE g : IsFold(g, scopes, 1 .. n)
<1>1. IsFold(f, scopes, 1 .. n)
  BY <1>0, FoldExists
<1>2. Normalize(scopes) = f[1 .. n]
  BY <1>0, NormalizeIsFold
<1> HIDE DEF f
<1> DEFINE r == [k \in 0 .. n |-> f[1 .. k]]
<1>3. f[{}] = <<>>
  BY <1>1 DEF IsFold
<1>4. r[0] = <<>>
  BY <1>0, <1>3
<1>5. ASSUME NEW k \in 1 .. n PROVE r[k] = Turn(r[k - 1], scopes[k])
  <2>1. (k - 1) \in Nat /\ k = (k - 1) + 1 BY <1>0
  <2>2. Max(1 .. k) = k BY <2>1, MaxLast
  <2>3. 1 .. k \in SUBSET (1 .. n) /\ 1 .. k # {} BY <1>0
  <2>4. f[1 .. k] = Turn(f[(1 .. k) \ {k}], scopes[k])
    BY <1>1, <2>2, <2>3 DEF IsFold
  <2>5. (1 .. k) \ {k} = 1 .. (k - 1) BY <2>1
  <2>6. QED BY <1>0, <2>4, <2>5
<1>6. Normalize(scopes) = r[n]
  BY <1>0, <1>2
<1>7. QED BY <1>4, <1>5, <1>6 DEF n

-----------------------------------------------------------------------------
(***************************************************************************)
(* What a turn keeps true, and with it the whole loop.                     *)
(***************************************************************************)

\* The parents of the first k scopes, each once.
Collected(result, scopes, k) ==
  /\ result \in Seq(Scopes)
  /\ ToSet(result) = {Parent(scopes[i]) : i \in 1 .. k}
  /\ IsInjective(result)

LEMMA ParentType == \A s \in Scopes : Parent(s) \in Scopes
BY AuthAssumption DEF Parent

LEMMA TurnCollects ==
  ASSUME NEW scopes \in Seq(Scopes), NEW k \in 1 .. Len(scopes),
         NEW result, Collected(result, scopes, k - 1)
  PROVE  Collected(Turn(result, scopes[k]), scopes, k)
<1> DEFINE p == Parent(scopes[k])
           next == Turn(result, scopes[k])
<1>0. p \in Scopes /\ result \in Seq(Scopes)
  BY ParentType DEF Collected
<1>1. {Parent(scopes[i]) : i \in 1 .. k} = {Parent(scopes[i]) : i \in 1 .. (k - 1)} \cup {p}
  <2>1. 1 .. k = 1 .. (k - 1) \cup {k} OBVIOUS
  <2>2. QED BY <2>1
<1> HIDE DEF p
<1>2. CASE Contains(result, p)
  <2>1. next = result BY <1>2 DEF Turn, p
  <2>2. p \in ToSet(result) BY <1>2 DEF Contains, ToSet
  <2>3. QED BY <1>1, <2>1, <2>2 DEF Collected
<1>3. CASE ~Contains(result, p)
  <2>1. next = Append(result, p) BY <1>3 DEF Turn, p
  <2>2. p \notin ToSet(result) BY <1>3 DEF Contains, ToSet
  <2> DEFINE n == Len(result)
  <2>3. /\ n \in Nat /\ DOMAIN result = 1 .. n
        /\ next \in Seq(Scopes) /\ DOMAIN next = 1 .. n + 1
        /\ \A i \in 1 .. n : next[i] = result[i]
        /\ next[n + 1] = p
    BY <1>0, <2>1
  <2>4. ToSet(next) = ToSet(result) \cup {p}
    <3>1. \A i \in 1 .. n + 1 : i \in 1 .. n \/ i = n + 1 BY <2>3
    <3>2. \A i \in 1 .. n : i \in 1 .. n + 1 BY <2>3
    <3>3. QED BY <2>3, <3>1, <3>2 DEF ToSet
  <2>5. IsInjective(next)
    <3>1. \A i \in 1 .. n : result[i] # p BY <2>2, <2>3 DEF ToSet
    <3>2. \A i, j \in 1 .. n : result[i] = result[j] => i = j
      BY <2>3 DEF Collected, IsInjective
    <3>3. \A i, j \in 1 .. n + 1 : next[i] = next[j] => i = j
      BY <2>3, <3>1, <3>2
    <3>4. QED BY <2>3, <3>3 DEF IsInjective
  <2>6. QED BY <1>1, <2>3, <2>4, <2>5 DEF Collected
<1>4. QED BY <1>2, <1>3

LEMMA NormalizeCollects ==
  ASSUME NEW scopes \in Seq(Scopes)
  PROVE  Collected(Normalize(scopes), scopes, Len(scopes))
<1> DEFINE n == Len(scopes)
<1>1. PICK r : /\ r[0] = <<>>
               /\ \A k \in 1 .. n : r[k] = Turn(r[k - 1], scopes[k])
               /\ Normalize(scopes) = r[n]
  BY NormalizeTurns
<1>2. n \in Nat OBVIOUS
<1> HIDE DEF n
<1> DEFINE Bad == {k \in 0 .. n : ~Collected(r[k], scopes, k)}
<1> SUFFICES ASSUME Bad # {} PROVE FALSE
  BY <1>1, <1>2 DEF n
<1>3. PICK k \in Bad : \A m \in Bad : k <= m
  <2>1. Bad \subseteq Nat BY <1>2
  <2> HIDE DEF Bad
  <2>2. QED BY <2>1, LeastNat
<1>4. Collected(<<>>, scopes, 0)
  BY DEF Collected, ToSet, IsInjective
<1>5. k # 0 BY <1>1, <1>4
<1>6. k \in 1 .. n /\ k - 1 \in 0 .. n /\ k - 1 \notin Bad
  BY <1>2, <1>3, <1>5
<1>7. Collected(r[k - 1], scopes, k - 1) BY <1>6
<1>8. Collected(r[k], scopes, k)
  BY <1>1, <1>6, <1>7, TurnCollects DEF n
<1>9. QED BY <1>8

-----------------------------------------------------------------------------
\* oauth.py:36-46: of any list of scopes normalize_oauth_scopes requires what one step
\* of the table makes of them, all of it and each once.
THEOREM ScopesAreMappedOnce ==
  ASSUME NEW scopes \in Seq(Scopes)
  PROVE  ScopesMappedOnce(scopes)
<1>1. ToSet(scopes) = {scopes[i] : i \in 1 .. Len(scopes)}
  BY DEF ToSet
<1>2. QED BY <1>1, NormalizeCollects DEF Collected, ScopesMappedOnce

\* No parent in the table is a child there.
NoChains == \A s \in DOMAIN ParentScope : ParentScope[s] \notin DOMAIN ParentScope

\* With a table without chains, so that one step is enough, no child is left: the rows
\* of oauth.py:31-32 are all that keeps its comment at 15-18 from being true.
THEOREM NoChildIsLeft ==
  ASSUME NoChains, NEW scopes \in Seq(Scopes)
  PROVE  ToSet(Normalize(scopes)) \cap DOMAIN ParentScope = {}
<1>1. \A s \in Scopes : Parent(s) \notin DOMAIN ParentScope
  BY DEF NoChains, Parent
<1>2. ToSet(scopes) \subseteq Scopes
  BY DEF ToSet
<1>3. QED BY <1>1, <1>2, ScopesAreMappedOnce DEF ScopesMappedOnce
=============================================================================
