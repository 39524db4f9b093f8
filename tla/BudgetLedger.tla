----------------------------- MODULE BudgetLedger -----------------------------
(***************************************************************************)
(* What the run budget promises (packages/coding-agent/src/core/           *)
(* run-budget): one ledger per task, on which calls of a model are         *)
(* admitted and settled one at a time, whatever processes work on the task *)
(* and wherever one of them ends.  RunBudget is shown to implement it.     *)
(***************************************************************************)
EXTENDS Integers

CONSTANTS
  Calls,      \* calls of a model
  Metered,    \* calls whose adapter reports tokens
  Priced,     \* calls whose cost is reported or follows from known rates
  Policies,   \* policies a user may choose
  Usages,     \* usages a call may report: tokens, and usd or Unknown
  MaxSafe     \* the largest amount that is counted exactly

Unknown == -1
Unlimited == [unit |-> "none", limit |-> 0]

Fresh(policy) ==
  [policy |-> policy, requests |-> 0, tokens |-> 0, usd |-> 0, pending |-> {},
   uncertainTokens |-> FALSE, uncertainUsd |-> FALSE]

-----------------------------------------------------------------------------
Amount(l) ==
  CASE l.policy.unit = "requests" -> l.requests
    [] l.policy.unit = "tokens" -> l.tokens
    [] l.policy.unit = "usd" -> l.usd

Exhausted(l) == l.policy # Unlimited /\ Amount(l) >= l.policy.limit

(* mutant: calls that are under way do not matter *)
BugIgnorePending(l) ==
  \/ l.policy.unit = "tokens" /\ l.uncertainTokens
  \/ l.policy.unit = "usd" /\ l.uncertainUsd

Uncertain(l) ==
  \/ l.policy.unit = "tokens" /\ (l.uncertainTokens \/ l.pending # {})
  \/ l.policy.unit = "usd" /\ (l.uncertainUsd \/ l.pending # {})

(* The conditions on which admit does not throw. *)
Admissible(l, c) ==
  /\ ~Exhausted(l) /\ ~Uncertain(l)
  /\ l.policy.unit = "tokens" => c \in Metered
  /\ l.policy.unit = "usd" => c \in Priced
  /\ l.requests + 1 <= MaxSafe

Admitted(l, c) == [l EXCEPT !.requests = @ + 1, !.pending = @ \cup {c}]

(* The tokens of a usage count when they are positive and the sum is exact, its
   cost when it is known; else the ledger is uncertain from then on. *)
Settled(l, c, u) ==
  LET counts == c \in Metered /\ u.tokens > 0 /\ l.tokens + u.tokens <= MaxSafe
      costs == c \in Priced /\ u.usd # Unknown
  IN  [l EXCEPT !.pending = @ \ {c},
                !.tokens = IF counts THEN @ + u.tokens ELSE @,
                !.uncertainTokens = @ \/ ~counts,
                !.usd = IF costs THEN @ + u.usd ELSE @,
                !.uncertainUsd = @ \/ ~costs]

-----------------------------------------------------------------------------
VARIABLE ledger

Init == \E policy \in Policies : ledger = Fresh(policy)

Admit(c) == c \notin ledger.pending /\ Admissible(ledger, c) /\ ledger' = Admitted(ledger, c)

Settle(c, u) == c \in ledger.pending /\ ledger' = Settled(ledger, c, u)

SetPolicy(policy) == ledger' = [ledger EXCEPT !.policy = policy]

Next ==
  \/ \E c \in Calls : Admit(c) \/ \E u \in Usages : Settle(c, u)
  \/ \E policy \in Policies : SetPolicy(policy)

Spec == Init /\ [][Next]_ledger
=============================================================================
