---------------------------- MODULE SecondFactor ----------------------------
(***************************************************************************)
(* What backup codes promise an administrator, without tables, sessions    *)
(* and transactions: a code is good for one login, from the moment its     *)
(* batch is made to the moment it lets somebody in or the next batch, or a *)
(* withdrawal, takes its place; then it never is again.  And the second    *)
(* factor goes on only in the step that makes a new batch.                 *)
(***************************************************************************)
EXTENDS Naturals

CONSTANTS Code, Login

VARIABLES
  on,     \* the logins that are asked for a second factor
  good,   \* the codes that would let each login in
  made,   \* the codes there have been
  letIn   \* how often a code has let somebody in

factorVars == <<on, good, made, letIn>>

FactorInit ==
  /\ on = {}
  /\ good = [l \in Login |-> {}]
  /\ made = {}
  /\ letIn = 0

\* A new batch takes the place of the old one, of this login only.
Issue(l, batch) ==
  /\ batch # {}
  /\ made' = made \cup batch
  /\ good' = [good EXCEPT ![l] = batch]
  /\ on' \in {on, on \cup {l}}
  /\ UNCHANGED letIn

\* The second factor and its codes are taken away.
Withdraw(l) ==
  /\ good' = [good EXCEPT ![l] = {}]
  /\ on' = on \ {l}
  /\ UNCHANGED <<made, letIn>>

\* The second factor is switched off; its codes are kept, for the next set-up
\* to replace.
SwitchOff(l) ==
  /\ on' = on \ {l}
  /\ UNCHANGED <<good, made, letIn>>

\* A good code lets somebody in, and is no longer good.
Spend(l, code) ==
  /\ code \in good[l]
  /\ good' = [good EXCEPT ![l] = @ \ {code}]
  /\ letIn' = letIn + 1
  /\ UNCHANGED <<on, made>>

FactorNext ==
  \E l \in Login :
    \/ \E batch \in SUBSET (Code \ made) : Issue(l, batch)
    \/ Withdraw(l)
    \/ SwitchOff(l)
    \/ \E code \in Code : Spend(l, code)

FactorSpec == FactorInit /\ [][FactorNext]_factorVars
=============================================================================
