------------------------------ MODULE RunBudget ------------------------------
(***************************************************************************)
(* RunBudgetLedger over RunBudgetStorage (packages/coding-agent/src/core/  *)
(* run-budget): several processes keep the budget of one task in one file. *)
(* An update takes the lock of the file, reads, computes the next state,   *)
(* looks once more whether the file is the one it read, renames a new file *)
(* over it and reads it back.  Each process is synchronous; the steps of   *)
(* two processes interleave, and a process may end between any two.        *)
(***************************************************************************)
EXTENDS Integers, FiniteSets

CONSTANTS
  Procs, Calls, Metered, Priced, Policies, Usages, MaxSafe,
  MaxPolicies,  \* changes of the policy
  MaxFaults,    \* file operations that fail, and processes that end in the
                \* middle of an update or of a call
  none          \* nobody

VARIABLES
  file,       \* the record in the file; a file that is not there has the first one
  lock,       \* holder of the lock
  known,      \* state: the record a process read or wrote last
  persisted,  \* processes that have seen the file, the one that made it included
  failed,     \* processes whose storageFailed is set
  job,        \* the update a process is in
  owner,      \* the process a call was admitted for
  used,       \* usage a call has reported, none before
  alive,      \* processes that run
  policies, faults

vars == <<file, lock, known, persisted, failed, job, owner, used, alive,
          policies, faults>>
counts == <<policies, faults>>

L == INSTANCE BudgetLedger WITH ledger <- file

(* An amount of dollars is a whole number of some small unit. *)
ASSUME BudgetAssumption ==
  /\ none \notin Procs \cup Calls \cup Usages
  /\ IsFiniteSet(Calls)
  /\ Policies \subseteq {L!Unlimited} \cup [unit : {"requests", "tokens", "usd"}, limit : Nat]
  /\ Usages \subseteq [tokens : Nat, usd : Nat \cup {L!Unknown}]
  /\ MaxSafe \in Nat

Empty == L!Fresh(L!Unlimited)
Idle == [op |-> "none", step |-> "none", call |-> none, seen |-> Empty, next |-> Empty]

-----------------------------------------------------------------------------
Init ==
  /\ \E policy \in Policies : file = L!Fresh(policy)
  /\ lock = none
  /\ known = [p \in Procs |-> file]
  /\ persisted = {} /\ failed = {}
  /\ job = [p \in Procs |-> Idle]
  /\ owner = [c \in Calls |-> none]
  /\ used = [c \in Calls |-> none]
  /\ alive = Procs
  /\ policies = 0 /\ faults = 0

At(p, step) == p \in alive /\ job[p].step = step

-----------------------------------------------------------------------------
(* RunBudgetStorage.read *)

(* mutant: an unresolved call that is gone counts as a roll-back *)
BugRollback(p) ==
  p \in persisted => file.requests >= known[p].requests /\ known[p].pending \subseteq file.pending

(* The file may not say less than this process knows: no amount is smaller, no
   doubt is gone, and no call is resolved without its tokens or a doubt. *)
Consistent(p) ==
  p \in persisted =>
    /\ file.requests >= known[p].requests
    /\ file.tokens >= known[p].tokens /\ file.usd >= known[p].usd
    /\ known[p].uncertainTokens => file.uncertainTokens
    /\ known[p].uncertainUsd => file.uncertainUsd
    /\ \/ known[p].pending \subseteq file.pending
       \/ file.tokens # known[p].tokens \/ file.uncertainTokens

Sees(p) ==
  /\ known' = [known EXCEPT ![p] = file]
  /\ persisted' = IF persisted = {} THEN {} ELSE persisted \cup {p}

(* policy, snapshot: a read without the lock.  An admission that is refused, for
   its policy or because the lock is taken, does no more than this. *)
read(p) ==
  /\ At(p, "none") /\ Consistent(p)
  /\ Sees(p)
  /\ UNCHANGED <<file, lock, failed, job, owner, used, alive, counts>>

-----------------------------------------------------------------------------
(* RunBudgetStorage.update *)

(* A lock whose holder has ended is stale and is taken over. *)
Free == lock = none \/ lock \notin alive

(* mutant: the change is made to the state this process knows *)
BugBase(p) == known[p]

(* The state that is changed. *)
Base(p) == file

(* The lock is taken, the file read, and the next state computed and written to
   a temporary file. *)
update(p, op, c, next) ==
  /\ Free /\ Consistent(p)
  /\ lock' = p
  /\ Sees(p)
  /\ job' = [job EXCEPT ![p] =
               [op |-> op, step |-> "rename", call |-> c, seen |-> file, next |-> next]]

(* A call has an id of its own, which no other attempt has put into the file. *)
admit(p, c) ==
  /\ At(p, "none") /\ p \notin failed
  /\ owner[c] = none /\ c \notin file.pending /\ \A q \in Procs : job[q].call # c
  /\ L!Admissible(Base(p), c)
  /\ update(p, "admit", c, L!Admitted(Base(p), c))
  /\ UNCHANGED <<file, failed, owner, used, alive, counts>>

(* The receipt of a call is settled once, by the process that made the call.  A
   receipt that cannot be saved, here because another process holds the lock,
   stops this ledger. *)
settle(p, c, u) ==
  /\ At(p, "none") /\ owner[c] = p /\ used[c] = none
  /\ used' = [used EXCEPT ![c] = u]
  /\ \/ /\ update(p, "settle", c,
                  IF c \in Base(p).pending THEN L!Settled(Base(p), c, u) ELSE Base(p))
        /\ UNCHANGED failed
     \/ /\ ~Free /\ failed' = failed \cup {p}
        /\ UNCHANGED <<lock, known, persisted, job>>
  /\ UNCHANGED <<file, owner, alive, counts>>

setPolicy(p, policy) ==
  /\ At(p, "none") /\ policies < MaxPolicies /\ policies' = policies + 1
  /\ update(p, "policy", none, [Base(p) EXCEPT !.policy = policy])
  /\ UNCHANGED <<file, failed, owner, used, alive, faults>>

(* The file is still the one that was read: it always is, for the lock of a
   process that runs is not taken over.  The new file takes its place. *)
rename(p) ==
  /\ At(p, "rename") /\ file = job[p].seen
  /\ file' = job[p].next
  /\ persisted' = persisted \cup {p}
  /\ job' = [job EXCEPT ![p].step = "verify"]
  /\ UNCHANGED <<lock, known, failed, owner, used, alive, counts>>

(* The directory is synced, the file is read back, and the update returns. *)
verify(p) ==
  /\ At(p, "verify") /\ file = job[p].next
  /\ known' = [known EXCEPT ![p] = job[p].next]
  /\ owner' = IF job[p].op = "admit" THEN [owner EXCEPT ![job[p].call] = p] ELSE owner
  /\ failed' = IF job[p].op = "policy" THEN failed \ {p} ELSE failed
  /\ lock' = none
  /\ job' = [job EXCEPT ![p] = Idle]
  /\ UNCHANGED <<file, persisted, used, alive, counts>>

(* An operation on the file, or the sync of its directory, fails: the call is not
   admitted; after a failed settlement the ledger admits nothing more. *)
storageError(p) ==
  /\ At(p, "rename") \/ At(p, "verify")
  /\ faults < MaxFaults /\ faults' = faults + 1
  /\ failed' = IF job[p].op = "settle" THEN failed \cup {p} ELSE failed
  /\ lock' = none
  /\ job' = [job EXCEPT ![p] = Idle]
  /\ UNCHANGED <<file, known, persisted, owner, used, alive, policies>>

(* A process ends.  One that has not read the file yet may take its place. *)
Crash(p) ==
  /\ p \in alive /\ faults < MaxFaults /\ faults' = faults + 1
  /\ job[p] # Idle \/ \E c \in Calls : owner[c] = p /\ used[c] = none
  /\ alive' = alive \ {p}
  /\ job' = [job EXCEPT ![p] = Idle]
  /\ UNCHANGED <<file, lock, known, persisted, failed, owner, used, policies>>

Next ==
  \E p \in Procs :
    \/ \E c \in Calls : admit(p, c) \/ \E u \in Usages : settle(p, c, u)
    \/ \E policy \in Policies : setPolicy(p, policy)
    \/ read(p) \/ rename(p) \/ verify(p) \/ storageError(p) \/ Crash(p)

Spec == Init /\ [][Next]_vars

-----------------------------------------------------------------------------
(* The file is a ledger that changes one whole update at a time: no update of
   one process is computed from a record another has replaced, none is done
   twice, none is half done when a process ends (RunBudgetStorage.update). *)
LedgerIsAtomic == L!Spec

(* A call goes out only after it is counted: every admitted call is among the
   requests in the file, and among the pending ones until its usage has been
   added, whatever process asked and whichever ended (admit). *)
Counted == {c \in Calls : owner[c] # none}

AdmittedIsCounted ==
  /\ Cardinality(Counted) <= file.requests
  /\ \A c \in Counted : used[c] = none => c \in file.pending

(* Under a token or dollar limit a call goes out only when the usage of every
   earlier one is known and the sum is below the limit, so that one call at
   most overruns it; under a request limit none does (problem, admit). *)
AdmissionWithinLimit ==
  [][\A c \in Calls : owner[c] = none /\ owner'[c] # none =>
       /\ file'.policy.unit = "requests" => file'.requests <= file'.policy.limit
       /\ file'.policy.unit = "tokens" =>
            file'.pending = {c} /\ ~file'.uncertainTokens /\ file'.tokens < file'.policy.limit
       /\ file'.policy.unit = "usd" =>
            file'.pending = {c} /\ ~file'.uncertainUsd /\ file'.usd < file'.policy.limit]_vars

(* The check against rolled-back accounting has no false alarm: whatever other
   processes have done to the ledger since, a process accepts it (read). *)
HistoryAccepted == \A p \in alive : Consistent(p)
-----------------------------------------------------------------------------
(* The inductive invariant of RunBudgetProofs. *)

Ledgers ==
  [policy : Policies \cup {L!Unlimited}, requests : Nat, tokens : Nat, usd : Nat,
   pending : SUBSET Calls, uncertainTokens : BOOLEAN, uncertainUsd : BOOLEAN]

Jobs ==
  [op : {"none", "admit", "settle", "policy"}, step : {"none", "rename", "verify"},
   call : Calls \cup {none}, seen : Ledgers, next : Ledgers]

TypeOK ==
  /\ file \in Ledgers
  /\ lock \in Procs \cup {none}
  /\ known \in [Procs -> Ledgers]
  /\ persisted \subseteq Procs /\ failed \subseteq Procs /\ alive \subseteq Procs
  /\ job \in [Procs -> Jobs]
  /\ owner \in [Calls -> Procs \cup {none}]
  /\ used \in [Calls -> Usages \cup {none}]

(* The update a process is in is one step of the ledger. *)
OneStep(j) ==
  \/ /\ j.op = "admit" /\ j.call \in Calls /\ j.call \notin j.seen.pending
     /\ L!Admissible(j.seen, j.call) /\ j.next = L!Admitted(j.seen, j.call)
  \/ /\ j.op = "settle" /\ j.call \in Calls /\ used[j.call] # none
     /\ \/ j.next = j.seen
        \/ j.call \in j.seen.pending /\ j.next = L!Settled(j.seen, j.call, used[j.call])
  \/ /\ j.op = "policy"
     /\ \E policy \in Policies : j.next = [j.seen EXCEPT !.policy = policy]

(* A process in an update holds the lock, so that what it has read is still
   the file until it renames, and what it renamed until it has read it back. *)
LockInv ==
  \A p \in Procs : job[p].step # "none" =>
    /\ p \in alive /\ lock = p
    /\ OneStep(job[p])
    /\ job[p].step = "rename" => file = job[p].seen /\ known[p] = file
    /\ job[p].step = "verify" => file = job[p].next /\ p \in persisted

(* Calls that are admitted, and one that is counted and not yet told so. *)
Charged ==
  Counted \cup {c \in Calls : \E p \in Procs :
                 job[p].op = "admit" /\ job[p].step = "verify" /\ job[p].call = c}

ChargedInv ==
  /\ Cardinality(Charged) <= file.requests
  /\ \A c \in Counted : used[c] = none => c \in file.pending

HistoryInv == \A p \in persisted : Consistent(p)

BudgetInv == TypeOK /\ LockInv /\ ChargedInv /\ HistoryInv
=============================================================================
