--------------------------- MODULE RunBudgetProofs ---------------------------
(***************************************************************************)
(* Proofs about RunBudget, for any number of processes, calls, policies    *)
(* and usages, and any number of faults.  The argument: a process in an    *)
(* update holds the lock, and the lock of a process that runs is not taken *)
(* over; so the record it computed its change from is still the file when  *)
(* it renames, and the rename is one step of the abstract ledger.          *)
(***************************************************************************)
EXTENDS RunBudget, FiniteSetTheorems, TLAPS

(* A leaf that names no prover is Zenon's. *)
USE Zenon

(* b may follow a in the history of one file. *)
Grows(a, b) ==
  /\ b.requests >= a.requests /\ b.tokens >= a.tokens /\ b.usd >= a.usd
  /\ a.uncertainTokens => b.uncertainTokens
  /\ a.uncertainUsd => b.uncertainUsd
  /\ a.pending \subseteq b.pending \/ b.tokens # a.tokens \/ b.uncertainTokens

-----------------------------------------------------------------------------
(* What a ledger holds after a call is admitted (admit). *)
LEMMA AdmittedFields ==
  ASSUME NEW l \in Ledgers, NEW c \in Calls
  PROVE  LET s == L!Admitted(l, c) IN
         /\ s \in Ledgers
         /\ s.policy = l.policy /\ s.requests = l.requests + 1
         /\ s.pending = l.pending \cup {c}
         /\ s.tokens = l.tokens /\ s.uncertainTokens = l.uncertainTokens
         /\ s.usd = l.usd /\ s.uncertainUsd = l.uncertainUsd
<1> DEFINE one == [l EXCEPT !.requests = @ + 1]
           two == [one EXCEPT !.pending = @ \cup {c}]
<1>1. one \in Ledgers
  BY SMTT(30) DEF Ledgers
<1>2. two \in Ledgers
  BY <1>1 DEF Ledgers
<1>3. L!Admitted(l, c) = two
  BY <1>1 DEF Ledgers, L!Admitted
<1>4. /\ two.policy = l.policy /\ two.requests = l.requests + 1
      /\ two.pending = l.pending \cup {c} /\ two.tokens = l.tokens /\ two.usd = l.usd
  BY DEF Ledgers
<1>5. two.uncertainTokens = l.uncertainTokens
  BY DEF Ledgers
<1>6. two.uncertainUsd = l.uncertainUsd
  BY DEF Ledgers
<1> QED
  BY <1>2, <1>3, <1>4, <1>5, <1>6

(* What a ledger holds after a call is settled: tokens are added, or the
   ledger is uncertain about them (settle). *)
LEMMA SettledFields ==
  ASSUME NEW l \in Ledgers, NEW c \in Calls, NEW u \in Usages
  PROVE  LET s == L!Settled(l, c, u) IN
         /\ s \in Ledgers
         /\ s.policy = l.policy /\ s.requests = l.requests
         /\ s.pending = l.pending \ {c}
         /\ s.tokens >= l.tokens /\ s.usd >= l.usd
         /\ l.uncertainTokens => s.uncertainTokens
         /\ l.uncertainUsd => s.uncertainUsd
         /\ s.tokens # l.tokens \/ s.uncertainTokens
<1> DEFINE counted == c \in Metered /\ u.tokens > 0 /\ l.tokens + u.tokens <= MaxSafe
           costs == c \in Priced /\ u.usd # L!Unknown
           t == IF counted THEN l.tokens + u.tokens ELSE l.tokens
           d == IF costs THEN l.usd + u.usd ELSE l.usd
           ut == l.uncertainTokens \/ ~counted
           ud == l.uncertainUsd \/ ~costs
           P == l.pending \ {c}
           s == L!Settled(l, c, u)
<1>1. u.tokens \in Nat /\ u.usd \in Nat \cup {L!Unknown}
  BY BudgetAssumption
<1>2. /\ t \in Nat /\ d \in Nat
      /\ t >= l.tokens /\ d >= l.usd /\ (t # l.tokens \/ ~counted)
  BY <1>1, SMTT(30) DEF Ledgers
<1>3. P \in SUBSET Calls
  BY DEF Ledgers
<1>4. ut \in BOOLEAN /\ ud \in BOOLEAN
  OBVIOUS
<1>5. /\ l.uncertainTokens => ut
      /\ l.uncertainUsd => ud
      /\ ~counted => ut
  OBVIOUS
<1>6. s = [l EXCEPT !.pending = P, !.tokens = t, !.uncertainTokens = ut,
                    !.usd = d, !.uncertainUsd = ud]
  BY DEF L!Settled
<1> HIDE DEF counted, costs, t, d, ut, ud, P, s
<1>7. s \in Ledgers
  BY <1>2, <1>3, <1>4, <1>6 DEF Ledgers
<1>8. s.policy = l.policy /\ s.requests = l.requests /\ s.pending = P /\ s.tokens = t
  BY <1>6 DEF Ledgers
<1>9. s.usd = d
  BY <1>6 DEF Ledgers
<1>10. s.uncertainTokens = ut
  BY <1>6 DEF Ledgers
<1>11. s.uncertainUsd = ud
  BY <1>6 DEF Ledgers
<1>12. s.tokens >= l.tokens /\ s.usd >= l.usd
  BY <1>2, <1>8, <1>9
<1> QED
  BY <1>2, <1>5, <1>7, <1>8, <1>10, <1>11, <1>12 DEF s, P

(* What a ledger holds after its policy is set (setPolicy). *)
LEMMA PolicyFields ==
  ASSUME NEW l \in Ledgers, NEW policy \in Policies
  PROVE  LET s == [l EXCEPT !.policy = policy] IN
         /\ s \in Ledgers
         /\ s.requests = l.requests /\ s.pending = l.pending
         /\ s.tokens = l.tokens /\ s.uncertainTokens = l.uncertainTokens
         /\ s.usd = l.usd /\ s.uncertainUsd = l.uncertainUsd
<1> DEFINE s == [l EXCEPT !.policy = policy]
<1>1. s \in Ledgers
  BY DEF Ledgers
<1>2. /\ s.requests = l.requests /\ s.pending = l.pending
      /\ s.tokens = l.tokens /\ s.usd = l.usd
  BY DEF Ledgers
<1>3. s.uncertainTokens = l.uncertainTokens
  BY DEF Ledgers
<1>4. s.uncertainUsd = l.uncertainUsd
  BY DEF Ledgers
<1> QED
  BY <1>1, <1>2, <1>3, <1>4

(* A ledger follows itself. *)
LEMMA GrowthReflexive ==
  ASSUME NEW a \in Ledgers
  PROVE  Grows(a, a)
BY SMTT(30) DEF Ledgers, Grows

(* An update is one step of the ledger: what it makes is a ledger, and follows
   all that the ledger before it followed (the check of RunBudgetStorage.read
   raises no alarm). *)
LEMMA StepGrows ==
  ASSUME NEW j \in Jobs, OneStep(j), NEW a \in Ledgers, Grows(a, j.seen),
         used \in [Calls -> Usages \cup {none}]
  PROVE  Grows(a, j.next)
<1>1. j.seen \in Ledgers
  BY DEF Jobs
<1>2. CASE j.call \in Calls /\ j.next = L!Admitted(j.seen, j.call)
  BY <1>1, <1>2, AdmittedFields, SMTT(30) DEF Ledgers, Grows
<1>3. CASE j.next = j.seen
  BY <1>3
<1>4. CASE /\ j.call \in Calls /\ used[j.call] # none
           /\ j.next = L!Settled(j.seen, j.call, used[j.call])
  <2>1. used[j.call] \in Usages
    BY <1>4
  <2> DEFINE n == L!Settled(j.seen, j.call, used[j.call])
  <2>2. /\ n \in Ledgers /\ n.requests = j.seen.requests
        /\ n.tokens >= j.seen.tokens /\ n.usd >= j.seen.usd
        /\ j.seen.uncertainTokens => n.uncertainTokens
        /\ j.seen.uncertainUsd => n.uncertainUsd
        /\ n.tokens # j.seen.tokens \/ n.uncertainTokens
    BY <1>1, <1>4, <2>1, SettledFields, SMTT(30)
  <2> HIDE DEF n
  <2>3. n.requests >= a.requests /\ n.tokens >= a.tokens /\ n.usd >= a.usd
    BY <1>1, <2>2, SMTT(30) DEF Ledgers, Grows
  <2>4. n.tokens # a.tokens \/ n.uncertainTokens
    BY <1>1, <2>2, SMTT(30) DEF Ledgers, Grows
  <2>5. /\ a.uncertainTokens => n.uncertainTokens
        /\ a.uncertainUsd => n.uncertainUsd
    BY <2>2 DEF Grows
  <2>6. Grows(a, n)
    BY <2>3, <2>4, <2>5 DEF Grows
  <2> QED
    BY <1>4, <2>6 DEF n
<1>5. CASE \E policy \in Policies : j.next = [j.seen EXCEPT !.policy = policy]
  BY <1>1, <1>5, PolicyFields, SMTT(30) DEF Ledgers, Grows
<1> QED
  BY <1>2, <1>3, <1>4, <1>5 DEF OneStep
-----------------------------------------------------------------------------
(* A process gets the lock only while no other one is in an update (Free). *)
LEMMA FreeMeansIdle ==
  ASSUME LockInv, Free, NEW q \in Procs
  PROVE  job[q].step = "none"
BY BudgetAssumption DEF LockInv, Free

(* Two processes are never in an update at the same time. *)
LEMMA OneUpdate ==
  ASSUME LockInv, NEW p \in Procs, NEW q \in Procs,
         job[p].step # "none", job[q].step # "none"
  PROVE  p = q
BY DEF LockInv

(* The start of an update keeps the types, whatever its next state is. *)
LEMMA UpdateTypes ==
  ASSUME TypeOK, NEW p \in Procs, NEW op \in {"admit", "settle", "policy"},
         NEW c \in Calls \cup {none}, NEW next \in Ledgers, update(p, op, c, next)
  PROVE  /\ lock' \in Procs \cup {none} /\ known' \in [Procs -> Ledgers]
         /\ persisted' \subseteq Procs /\ job' \in [Procs -> Jobs]
<1> DEFINE j == [op |-> op, step |-> "rename", call |-> c, seen |-> file, next |-> next]
<1>1. j \in Jobs
  BY DEF TypeOK, Jobs
<1>2. job' = [job EXCEPT ![p] = j]
  BY DEF update
<1> HIDE DEF j
<1>3. job' \in [Procs -> Jobs]
  BY <1>1, <1>2 DEF TypeOK
<1> QED
  BY <1>3 DEF TypeOK, update, Sees

(* Idle is a job, and so is one that moves on to verify. *)
LEMMA JobTypes ==
  /\ Idle \in Jobs
  /\ \A j \in Jobs : [j EXCEPT !.step = "verify"] \in Jobs
<1>1. Empty \in Ledgers
  BY DEF Empty, L!Fresh, Ledgers
<1> QED
  BY <1>1 DEF Idle, Jobs

(* Every step keeps the types. *)
LEMMA TypeStep == TypeOK /\ [Next]_vars => TypeOK'
<1> SUFFICES ASSUME TypeOK, [Next]_vars PROVE TypeOK'
  OBVIOUS
<1>0. file \in Ledgers
  BY DEF TypeOK
<1>1. ASSUME NEW p \in Procs, NEW c \in Calls, admit(p, c) PROVE TypeOK'
  <2>1. L!Admitted(file, c) \in Ledgers
    BY <1>0, AdmittedFields
  <2>2. update(p, "admit", c, L!Admitted(file, c))
    BY <1>1 DEF admit, Base
  <2>3. /\ lock' \in Procs \cup {none} /\ known' \in [Procs -> Ledgers]
        /\ persisted' \subseteq Procs /\ job' \in [Procs -> Jobs]
    BY <2>1, <2>2, UpdateTypes
  <2> QED
    BY <1>1, <2>3 DEF TypeOK, admit
<1>2. ASSUME NEW p \in Procs, NEW c \in Calls, NEW u \in Usages, settle(p, c, u) PROVE TypeOK'
  <2> DEFINE next == IF c \in file.pending THEN L!Settled(file, c, u) ELSE file
  <2>1. next \in Ledgers
    BY <1>0, SettledFields
  <2>2. used' \in [Calls -> Usages \cup {none}]
    BY <1>2 DEF settle, TypeOK
  <2>3. CASE update(p, "settle", c, next) /\ UNCHANGED failed
    <3>1. /\ lock' \in Procs \cup {none} /\ known' \in [Procs -> Ledgers]
          /\ persisted' \subseteq Procs /\ job' \in [Procs -> Jobs]
      BY <2>1, <2>3, UpdateTypes
    <3> QED
      BY <1>2, <2>2, <2>3, <3>1 DEF TypeOK, settle
  <2>4. CASE failed' = failed \cup {p} /\ UNCHANGED <<lock, known, persisted, job>>
    BY <1>2, <2>2, <2>4 DEF TypeOK, settle
  <2> QED
    BY <1>2, <2>3, <2>4 DEF settle, Base
<1>3. ASSUME NEW p \in Procs, NEW policy \in Policies, setPolicy(p, policy) PROVE TypeOK'
  <2>1. [file EXCEPT !.policy = policy] \in Ledgers
    BY <1>0, PolicyFields
  <2>2. update(p, "policy", none, [file EXCEPT !.policy = policy])
    BY <1>3 DEF setPolicy, Base
  <2>3. /\ lock' \in Procs \cup {none} /\ known' \in [Procs -> Ledgers]
        /\ persisted' \subseteq Procs /\ job' \in [Procs -> Jobs]
    BY <2>1, <2>2, UpdateTypes
  <2> QED
    BY <1>3, <2>3 DEF TypeOK, setPolicy
<1>4. ASSUME NEW p \in Procs, read(p) PROVE TypeOK'
  BY <1>4 DEF TypeOK, read, Sees
<1>5. ASSUME NEW p \in Procs, rename(p) PROVE TypeOK'
  <2>1. job[p].next \in Ledgers /\ [job[p] EXCEPT !.step = "verify"] \in Jobs
    BY JobTypes DEF TypeOK, Jobs
  <2> QED
    BY <1>5, <2>1 DEF TypeOK, rename
<1>6. ASSUME NEW p \in Procs, verify(p) PROVE TypeOK'
  <2>1. job[p].next \in Ledgers
    BY DEF TypeOK, Jobs
  <2> QED
    BY <1>6, <2>1, JobTypes DEF TypeOK, verify
<1>7. ASSUME NEW p \in Procs, storageError(p) PROVE TypeOK'
  BY <1>7, JobTypes DEF TypeOK, storageError
<1>8. ASSUME NEW p \in Procs, Crash(p) PROVE TypeOK'
  BY <1>8, JobTypes DEF TypeOK, Crash
<1>9. CASE UNCHANGED vars
  BY <1>9 DEF TypeOK, vars
<1> QED
  BY <1>1, <1>2, <1>3, <1>4, <1>5, <1>6, <1>7, <1>8, <1>9 DEF Next
-----------------------------------------------------------------------------
(* An update that starts from the file, with a next state one step away, holds
   the lock alone. *)
LEMMA UpdateLocks ==
  ASSUME TypeOK, LockInv, NEW p \in Procs, NEW op, NEW c, NEW next,
         p \in alive, update(p, op, c, next), UNCHANGED <<file, alive>>,
         LET j == [op |-> op, step |-> "rename", call |-> c, seen |-> file, next |-> next]
         IN  job'[p] = j => OneStep(job[p])'
  PROVE  LockInv'
<1> DEFINE j == [op |-> op, step |-> "rename", call |-> c, seen |-> file, next |-> next]
<1>1. job' = [job EXCEPT ![p] = j] /\ lock' = p /\ known' = [known EXCEPT ![p] = file] /\ Free
  BY DEF update, Sees
<1>2. job'[p] = j
  BY <1>1 DEF TypeOK
<1>3. j.step = "rename" /\ j.seen = file
  OBVIOUS
<1> HIDE DEF j
<1>4. OneStep(job[p])'
  BY <1>2 DEF j
<1>5. \A q \in Procs : q # p => job'[q].step = "none"
  BY <1>1, FreeMeansIdle DEF TypeOK
<1>6. known'[p] = file
  BY <1>1 DEF TypeOK
<1> QED
  BY <1>1, <1>2, <1>3, <1>4, <1>5, <1>6 DEF LockInv

(* Every step keeps the lock with the process in the update. *)
LEMMA LockStep == TypeOK /\ LockInv /\ [Next]_vars => LockInv'
<1> SUFFICES ASSUME TypeOK, LockInv, [Next]_vars PROVE LockInv'
  OBVIOUS
<1>1. ASSUME NEW p \in Procs, NEW c \in Calls, admit(p, c) PROVE LockInv'
  <2>1. /\ p \in alive /\ update(p, "admit", c, L!Admitted(file, c)) /\ UNCHANGED <<file, alive>>
        /\ c \notin file.pending /\ L!Admissible(file, c)
    BY <1>1 DEF admit, Base, At
  <2>2. ASSUME job'[p] = [op |-> "admit", step |-> "rename", call |-> c, seen |-> file,
                          next |-> L!Admitted(file, c)]
        PROVE  OneStep(job[p])'
    BY <2>1, <2>2, SMTT(30) DEF OneStep
  <2> QED
    BY <2>1, <2>2, UpdateLocks
<1>2. ASSUME NEW p \in Procs, NEW c \in Calls, NEW u \in Usages, settle(p, c, u) PROVE LockInv'
  <2> DEFINE next == IF c \in file.pending THEN L!Settled(file, c, u) ELSE file
  <2>1. /\ p \in alive /\ UNCHANGED <<file, alive>>
        /\ used' = [used EXCEPT ![c] = u] /\ used[c] = none
    BY <1>2 DEF settle, At
  <2>2. used'[c] = u /\ u # none
    BY <2>1, BudgetAssumption DEF TypeOK
  <2>3. CASE update(p, "settle", c, next)
    <3>1. ASSUME job'[p] = [op |-> "settle", step |-> "rename", call |-> c, seen |-> file,
                            next |-> next]
          PROVE  OneStep(job[p])'
      BY <2>2, <3>1, SMTT(30) DEF OneStep
    <3> QED
      BY <2>1, <2>3, <3>1, UpdateLocks
  <2>4. CASE UNCHANGED <<lock, known, persisted, job>>
    <3>1. ASSUME NEW q \in Procs, job[q].step # "none" PROVE OneStep(job[q])'
      <4>1. OneStep(job[q])
        BY <3>1 DEF LockInv
      <4>2. \A b \in Calls : used[b] # none => used'[b] = used[b]
        BY <2>1 DEF TypeOK
      <4> QED
        BY <2>4, <4>1, <4>2 DEF OneStep
    <3> QED
      BY <2>1, <2>4, <3>1 DEF LockInv
  <2> QED
    BY <1>2, <2>3, <2>4 DEF settle, Base
<1>3. ASSUME NEW p \in Procs, NEW policy \in Policies, setPolicy(p, policy) PROVE LockInv'
  <2>1. /\ p \in alive /\ UNCHANGED <<file, alive>>
        /\ update(p, "policy", none, [file EXCEPT !.policy = policy])
    BY <1>3 DEF setPolicy, Base, At
  <2>2. ASSUME job'[p] = [op |-> "policy", step |-> "rename", call |-> none, seen |-> file,
                          next |-> [file EXCEPT !.policy = policy]]
        PROVE  OneStep(job[p])'
    BY <2>2, SMTT(30) DEF OneStep
  <2> QED
    BY <2>1, <2>2, UpdateLocks
<1>4. ASSUME NEW p \in Procs, read(p) PROVE LockInv'
  <2>1. \A q \in Procs : job[q].step # "none" => q # p
    BY <1>4 DEF read, At
  <2>2. \A q \in Procs : q # p => known'[q] = known[q]
    BY <1>4 DEF read, Sees, TypeOK
  <2>3. persisted \subseteq persisted'
    BY <1>4 DEF read, Sees
  <2> QED
    BY <1>4, <2>1, <2>2, <2>3, SMTT(30) DEF read, LockInv, OneStep
<1>5. ASSUME NEW p \in Procs, rename(p) PROVE LockInv'
  <2>1. /\ job[p].step = "rename" /\ file' = job[p].next /\ persisted' = persisted \cup {p}
        /\ job' = [job EXCEPT ![p].step = "verify"]
        /\ UNCHANGED <<lock, known, used, alive>>
    BY <1>5 DEF rename, At
  <2>2. /\ p \in alive /\ lock = p /\ OneStep(job[p])
    BY <2>1 DEF LockInv
  <2>3. \A q \in Procs : q # p => job'[q] = job[q] /\ job[q].step = "none"
    BY <2>1, OneUpdate DEF TypeOK
  <2>4. /\ job'[p].step = "verify" /\ job'[p].op = job[p].op /\ job'[p].call = job[p].call
        /\ job'[p].seen = job[p].seen /\ job'[p].next = job[p].next
    BY <2>1 DEF TypeOK, Jobs
  <2>5. OneStep(job[p])'
    BY <2>1, <2>2, <2>4 DEF OneStep
  <2> QED
    BY <2>1, <2>2, <2>3, <2>4, <2>5 DEF LockInv
<1>6. ASSUME NEW p \in Procs, job' = [job EXCEPT ![p] = Idle],
             job[p].step # "none"
      PROVE  LockInv'
  <2>1. job'[p].step = "none"
    BY <1>6 DEF TypeOK, Idle
  <2>2. \A q \in Procs : q # p => job'[q].step = "none"
    BY <1>6, OneUpdate DEF TypeOK
  <2> QED
    BY <2>1, <2>2 DEF LockInv
<1>7. ASSUME NEW p \in Procs, verify(p) PROVE LockInv'
  BY <1>6, <1>7 DEF verify, At
<1>8. ASSUME NEW p \in Procs, storageError(p) PROVE LockInv'
  BY <1>6, <1>8 DEF storageError, At
<1>9. ASSUME NEW p \in Procs, Crash(p) PROVE LockInv'
  <2>1. CASE job[p].step # "none"
    BY <1>6, <1>9, <2>1 DEF Crash
  <2>2. CASE job[p].step = "none"
    <3> SUFFICES ASSUME NEW q \in Procs, job'[q].step # "none"
                 PROVE  /\ q \in alive' /\ lock' = q /\ OneStep(job[q])'
                        /\ job'[q].step = "rename" => file' = job'[q].seen /\ known'[q] = file'
                        /\ job'[q].step = "verify" => file' = job'[q].next /\ q \in persisted'
      BY DEF LockInv
    <3>1. job'[q] = job[q] /\ q # p
      BY <1>9, <2>2 DEF Crash, TypeOK, Idle
    <3>2. UNCHANGED <<file, lock, known, persisted, used>> /\ alive' = alive \ {p}
      BY <1>9 DEF Crash
    <3>3. /\ q \in alive /\ lock = q /\ OneStep(job[q])
          /\ job[q].step = "rename" => file = job[q].seen /\ known[q] = file
          /\ job[q].step = "verify" => file = job[q].next /\ q \in persisted
      BY <3>1 DEF LockInv
    <3>4. OneStep(job[q])'
      BY <3>1, <3>2, <3>3 DEF OneStep
    <3> QED
      BY <3>1, <3>2, <3>3, <3>4
  <2> QED
    BY <2>1, <2>2
<1>10. CASE UNCHANGED vars
  BY <1>10, SMTT(30) DEF vars, LockInv, OneStep
<1> QED
  BY <1>1, <1>2, <1>3, <1>4, <1>5, <1>7, <1>8, <1>9, <1>10 DEF Next
-----------------------------------------------------------------------------
(* A rename puts one step of the ledger into the file. *)
LEMMA RenameFacts ==
  ASSUME LockInv, NEW p \in Procs, rename(p)
  PROVE  /\ file = job[p].seen /\ file' = job[p].next /\ OneStep(job[p])
         /\ known[p] = file
BY DEF rename, At, LockInv

(* The file changes by renames only. *)
LEMMA OnlyRenames ==
  ASSUME [Next]_vars
  PROVE  UNCHANGED file \/ \E p \in Procs : rename(p)
BY ZenonT(40) DEF Next, vars, admit, settle, setPolicy, read, verify, storageError, Crash

(* Every step keeps the file ahead of what any process knows. *)
LEMMA HistoryStep == TypeOK /\ LockInv /\ HistoryInv /\ [Next]_vars => HistoryInv'
<1> SUFFICES ASSUME TypeOK, LockInv, HistoryInv, [Next]_vars,
                    NEW q \in Procs, q \in persisted'
             PROVE  Consistent(q)'
  BY TypeStep DEF HistoryInv, TypeOK
<1> SUFFICES Grows(known'[q], file')
  BY DEF Consistent, Grows
<1>0. file \in Ledgers /\ known[q] \in Ledgers
  BY DEF TypeOK
<1>1. q \in persisted => Grows(known[q], file)
  BY DEF HistoryInv, Consistent, Grows
<1>2. Grows(file, file)
  BY <1>0, GrowthReflexive
<1>3. CASE \E p \in Procs : rename(p)
  <2>1. PICK p \in Procs : rename(p)
    BY <1>3
  <2>2. /\ file = job[p].seen /\ file' = job[p].next /\ OneStep(job[p])
        /\ known[p] = file
    BY <2>1, RenameFacts
  <2>3. known' = known /\ persisted' = persisted \cup {p}
    BY <2>1 DEF rename
  <2>4. Grows(known[q], file)
    BY <1>1, <1>2, <2>2, <2>3
  <2>5. job[p] \in Jobs /\ used \in [Calls -> Usages \cup {none}]
    BY DEF TypeOK
  <2>6. Grows(known[q], job[p].next)
    BY <1>0, <2>2, <2>4, <2>5, StepGrows
  <2> QED
    BY <2>2, <2>3, <2>6
<1>4. ASSUME NEW p \in Procs, Sees(p), UNCHANGED file PROVE Grows(known'[q], file')
  <2>1. known' = [known EXCEPT ![p] = file] /\ persisted' \subseteq persisted \cup {p}
    BY <1>4 DEF Sees
  <2>2. CASE q = p
    BY <1>2, <1>4, <2>1, <2>2 DEF TypeOK
  <2>3. CASE q # p
    BY <1>1, <1>4, <2>1, <2>3 DEF TypeOK
  <2> QED
    BY <2>2, <2>3
<1>5. CASE UNCHANGED <<file, known, persisted>>
  BY <1>1, <1>5
<1>6. ASSUME NEW p \in Procs, verify(p) PROVE Grows(known'[q], file')
  <2>1. /\ file = job[p].next /\ known' = [known EXCEPT ![p] = job[p].next]
        /\ UNCHANGED <<file, persisted>>
    BY <1>6 DEF verify
  <2> QED
    BY <1>1, <1>2, <2>1 DEF TypeOK
<1>7. ASSUME NEW p \in Procs, NEW c \in Calls, admit(p, c) PROVE Grows(known'[q], file')
  BY <1>4, <1>7 DEF admit, update
<1>8. ASSUME NEW p \in Procs, NEW c \in Calls, NEW u \in Usages, settle(p, c, u)
      PROVE  Grows(known'[q], file')
  BY <1>4, <1>5, <1>8 DEF settle, update
<1>9. ASSUME NEW p \in Procs, NEW policy \in Policies, setPolicy(p, policy)
      PROVE  Grows(known'[q], file')
  BY <1>4, <1>9 DEF setPolicy, update
<1>10. ASSUME NEW p \in Procs, read(p) PROVE Grows(known'[q], file')
  BY <1>4, <1>10 DEF read
<1>11. ASSUME NEW p \in Procs, storageError(p) \/ Crash(p) PROVE Grows(known'[q], file')
  BY <1>5, <1>11 DEF storageError, Crash
<1>12. CASE UNCHANGED vars
  BY <1>5, <1>12 DEF vars
<1> QED
  BY <1>3, <1>6, <1>7, <1>8, <1>9, <1>10, <1>11, <1>12 DEF Next
-----------------------------------------------------------------------------
(* What a rename does to the requests and to the unresolved calls: a request is
   counted before its call goes out, and a call leaves the unresolved ones
   only with its usage. *)
LEMMA RenameCounts ==
  ASSUME TypeOK, LockInv, NEW p \in Procs, rename(p)
  PROVE  /\ file'.requests \in Nat /\ file'.requests >= file.requests
         /\ job[p].op = "admit" => job[p].call \in Calls /\ file'.requests = file.requests + 1
         /\ \A c \in file.pending : used[c] = none => c \in file'.pending
<1> DEFINE j == job[p]
<1>1. file = j.seen /\ file' = j.next /\ OneStep(j)
  BY RenameFacts
<1>2. file \in Ledgers /\ file.requests \in Nat
  BY DEF TypeOK, Ledgers
<1>3. CASE j.op = "admit" /\ j.call \in Calls /\ j.next = L!Admitted(j.seen, j.call)
  BY <1>1, <1>2, <1>3, AdmittedFields, SMTT(30)
<1>4. CASE j.op # "admit" /\ j.next = j.seen
  BY <1>1, <1>2, <1>4, SMTT(30)
<1>5. CASE /\ j.op # "admit" /\ j.call \in Calls /\ used[j.call] # none
           /\ j.next = L!Settled(j.seen, j.call, used[j.call])
  <2>1. used[j.call] \in Usages
    BY <1>5 DEF TypeOK
  <2>2. j.next.requests = file.requests /\ j.next.pending = file.pending \ {j.call}
    BY <1>1, <1>2, <1>5, <2>1, SettledFields, SMTT(30)
  <2> QED
    BY <1>1, <1>2, <1>5, <2>2, SMTT(30)
<1>6. CASE j.op # "admit" /\ \E policy \in Policies : j.next = [j.seen EXCEPT !.policy = policy]
  BY <1>1, <1>2, <1>6, PolicyFields, SMTT(30)
<1> QED
  BY <1>1, <1>3, <1>4, <1>5, <1>6 DEF OneStep

(* The count of requests bounds the calls as long as no call is added. *)
LEMMA FewerCharged ==
  ASSUME TypeOK, ChargedInv, Charged' \subseteq Charged,
         file'.requests \in Nat, file'.requests >= file.requests
  PROVE  Cardinality(Charged') <= file'.requests
<1>1. IsFiniteSet(Charged)
  BY BudgetAssumption, FS_Subset DEF Charged, Counted
<1>2. IsFiniteSet(Charged') /\ Cardinality(Charged') <= Cardinality(Charged)
  BY <1>1, FS_Subset
<1>3. Cardinality(Charged) \in Nat /\ Cardinality(Charged') \in Nat
  BY <1>1, <1>2, FS_CardinalityType
<1>4. file.requests \in Nat
  BY DEF TypeOK, Ledgers
<1> QED
  BY <1>2, <1>3, <1>4, SMTT(30) DEF ChargedInv

(* A call is charged only in the update that admits it. *)
LEMMA ChargedByRename ==
  ASSUME TypeOK, LockInv, NEW p \in Procs, rename(p)
  PROVE  /\ Counted' = Counted
         /\ Charged' \subseteq Charged \cup {job[p].call}
         /\ job[p].op # "admit" => Charged' \subseteq Charged
<1>1. UNCHANGED <<owner, used>> /\ job' = [job EXCEPT ![p].step = "verify"]
  BY DEF rename
<1>2. \A q \in Procs : q # p => job'[q] = job[q]
  BY <1>1 DEF TypeOK
<1>3. job'[p].op = job[p].op /\ job'[p].call = job[p].call
  BY <1>1 DEF TypeOK, Jobs
<1>4. Counted' = Counted
  BY <1>1 DEF Counted
<1> QED
  BY <1>2, <1>3, <1>4 DEF Charged
(* Every step keeps every admitted call counted. *)
LEMMA ChargedStep == TypeOK /\ LockInv /\ ChargedInv /\ [Next]_vars => ChargedInv'
<1> SUFFICES ASSUME TypeOK, LockInv, ChargedInv, [Next]_vars PROVE ChargedInv'
  OBVIOUS
<1>0. file.requests \in Nat
  BY DEF TypeOK, Ledgers
<1>1. ASSUME UNCHANGED <<file, owner>>, \A c \in Calls : used'[c] = none => used[c] = none,
             Charged' \subseteq Charged
      PROVE  ChargedInv'
  <2>1. Cardinality(Charged') <= file'.requests
    BY <1>0, <1>1, FewerCharged, SMTT(30)
  <2> QED
    BY <1>1, <2>1 DEF ChargedInv, Counted
<1>3. ASSUME UNCHANGED owner, \A q \in Procs : job'[q].step = "verify" => job'[q] = job[q]
      PROVE  Charged' \subseteq Charged
  BY <1>3 DEF Charged, Counted
<1>4. ASSUME NEW p \in Procs, NEW op, NEW c, NEW next, update(p, op, c, next)
      PROVE  \A q \in Procs : job'[q].step = "verify" => job'[q] = job[q]
  BY <1>4 DEF update, TypeOK
<1>5. ASSUME NEW p \in Procs, NEW c \in Calls, admit(p, c) PROVE ChargedInv'
  <2>1. update(p, "admit", c, L!Admitted(file, c)) /\ UNCHANGED <<file, owner, used>>
    BY <1>5 DEF admit, Base
  <2> QED
    BY <1>1, <1>3, <1>4, <2>1
<1>6. ASSUME NEW p \in Procs, NEW c \in Calls, NEW u \in Usages, settle(p, c, u)
      PROVE  ChargedInv'
  <2>1. UNCHANGED <<file, owner>> /\ used' = [used EXCEPT ![c] = u]
    BY <1>6 DEF settle
  <2>2. \A b \in Calls : used'[b] = none => used[b] = none
    BY <2>1, BudgetAssumption DEF TypeOK
  <2>3. \A q \in Procs : job'[q].step = "verify" => job'[q] = job[q]
    BY <1>4, <1>6 DEF settle
  <2> QED
    BY <1>1, <1>3, <2>1, <2>2, <2>3
<1>7. ASSUME NEW p \in Procs, NEW policy \in Policies, setPolicy(p, policy) PROVE ChargedInv'
  <2>1. /\ update(p, "policy", none, [file EXCEPT !.policy = policy])
        /\ UNCHANGED <<file, owner, used>>
    BY <1>7 DEF setPolicy, Base
  <2> QED
    BY <1>1, <1>3, <1>4, <2>1
<1>8. ASSUME NEW p \in Procs, rename(p) PROVE ChargedInv'
  <2>1. /\ file'.requests \in Nat /\ file'.requests >= file.requests
        /\ job[p].op = "admit" => job[p].call \in Calls /\ file'.requests = file.requests + 1
        /\ \A c \in file.pending : used[c] = none => c \in file'.pending
    BY <1>8, RenameCounts
  <2>2. /\ Counted' = Counted /\ Charged' \subseteq Charged \cup {job[p].call}
        /\ job[p].op # "admit" => Charged' \subseteq Charged
    BY <1>8, ChargedByRename
  <2>3. UNCHANGED used
    BY <1>8 DEF rename
  <2>4. Cardinality(Charged') <= file'.requests
    <3>1. CASE job[p].op # "admit"
      BY <2>1, <2>2, <3>1, FewerCharged
    <3>2. CASE job[p].op = "admit"
      <4> DEFINE S == Charged \cup {job[p].call}
      <4>1. IsFiniteSet(Charged)
        BY BudgetAssumption, FS_Subset DEF Charged, Counted
      <4>2. IsFiniteSet(S) /\ Cardinality(S) <= Cardinality(Charged) + 1
        BY <4>1, FS_AddElement, FS_CardinalityType, SMTT(30)
      <4>3. IsFiniteSet(Charged') /\ Cardinality(Charged') <= Cardinality(S)
        BY <2>2, <4>2, FS_Subset
      <4>4. Cardinality(Charged) \in Nat /\ Cardinality(S) \in Nat /\ Cardinality(Charged') \in Nat
        BY <4>1, <4>2, <4>3, FS_CardinalityType
      <4> HIDE DEF S
      <4> QED
        BY <1>0, <2>1, <3>2, <4>2, <4>3, <4>4, SMTT(30) DEF ChargedInv
    <3> QED
      BY <3>1, <3>2
  <2> QED
    BY <2>1, <2>2, <2>3, <2>4 DEF ChargedInv
<1>9. ASSUME NEW p \in Procs, verify(p) PROVE ChargedInv'
  <2>1. /\ job[p].step = "verify" /\ file = job[p].next /\ UNCHANGED <<file, used>>
        /\ job' = [job EXCEPT ![p] = Idle] /\ OneStep(job[p])
        /\ owner' = IF job[p].op = "admit" THEN [owner EXCEPT ![job[p].call] = p] ELSE owner
    BY <1>9 DEF verify, At, LockInv
  <2>2. \A q \in Procs : job'[q].step = "verify" => job'[q] = job[q]
    BY <2>1 DEF TypeOK, Idle
  <2>3. CASE job[p].op # "admit"
    BY <1>1, <1>3, <2>1, <2>2, <2>3
  <2>4. CASE job[p].op = "admit"
    <3>1. job[p].call \in Calls /\ job[p].next = L!Admitted(job[p].seen, job[p].call)
      BY <2>1, <2>4 DEF OneStep
    <3>2. job[p].seen \in Ledgers
      BY DEF TypeOK, Jobs
    <3>3. job[p].call \in file.pending
      BY <2>1, <3>1, <3>2, AdmittedFields
    <3>4. Counted' \subseteq Counted \cup {job[p].call}
      BY <2>1, <2>4, <3>1 DEF Counted, TypeOK
    <3>5. job[p].call \in Charged
      BY <2>1, <2>4, <3>1 DEF Charged
    <3>6. Charged' \subseteq Charged
      BY <2>2, <3>4, <3>5 DEF Charged
    <3>7. Cardinality(Charged') <= file'.requests
      BY <1>0, <2>1, <3>6, FewerCharged, SMTT(30)
    <3> QED
      BY <2>1, <3>3, <3>4, <3>7 DEF ChargedInv
  <2> QED
    BY <2>3, <2>4
<1>10. ASSUME NEW p \in Procs, storageError(p) \/ Crash(p) PROVE ChargedInv'
  <2>1. UNCHANGED <<file, owner, used>> /\ job' = [job EXCEPT ![p] = Idle]
    BY <1>10 DEF storageError, Crash
  <2>2. \A q \in Procs : job'[q].step = "verify" => job'[q] = job[q]
    BY <2>1 DEF TypeOK, Idle
  <2> QED
    BY <1>1, <1>3, <2>1, <2>2
<1>11. ASSUME NEW p \in Procs, read(p) PROVE ChargedInv'
  BY <1>1, <1>3, <1>11 DEF read
<1>12. CASE UNCHANGED vars
  BY <1>1, <1>3, <1>12 DEF vars
<1> QED
  BY <1>5, <1>6, <1>7, <1>8, <1>9, <1>10, <1>11, <1>12 DEF Next
-----------------------------------------------------------------------------
(* The inductive invariant holds at the start: nobody is in an update, no call
   is admitted, and nobody has seen a file. *)
LEMMA InvariantInitially == Init => BudgetInv
<1> SUFFICES ASSUME Init PROVE BudgetInv
  OBVIOUS
<1>1. PICK policy \in Policies : file = L!Fresh(policy)
  BY DEF Init
<1>2. file \in Ledgers
  BY <1>1 DEF L!Fresh, Ledgers
<1>3. TypeOK
  BY <1>2, JobTypes DEF Init, TypeOK
<1>4. \A p \in Procs : job[p].step = "none"
  BY DEF Init, Idle
<1>5. Charged = {}
  BY <1>4 DEF Charged, Counted, Init
<1>6. Cardinality(Charged) = 0 /\ file.requests \in Nat /\ Counted = {}
  BY <1>2, <1>5, FS_EmptySet DEF Ledgers, Charged
<1> QED
  BY <1>3, <1>4, <1>6, SMTT(30) DEF BudgetInv, LockInv, ChargedInv, HistoryInv, Init

(* The invariant behind the theorems below: a process in an update holds the
   lock, what it does is one step from the file as it is, every admitted call
   is counted, and the file is ahead of what any process knows
   (RunBudgetStorage.update). *)
THEOREM BudgetInvariant == Spec => []BudgetInv
<1>1. BudgetInv /\ [Next]_vars => BudgetInv'
  BY TypeStep, LockStep, ChargedStep, HistoryStep DEF BudgetInv
<1> QED
  BY <1>1, InvariantInitially, PTL DEF Spec

(* RunBudgetStorage.update makes an atomic ledger of the file, for any number
   of processes, wherever one of them ends: every step is a step of
   BudgetLedger or leaves the ledger alone. *)
THEOREM LedgerImplemented == Spec => LedgerIsAtomic
<1>1. Init => L!Init
  BY DEF Init, L!Init
<1>2. BudgetInv /\ [Next]_vars => [L!Next]_file
  <2> SUFFICES ASSUME BudgetInv, NEW p \in Procs, rename(p) PROVE L!Next \/ UNCHANGED file
    BY OnlyRenames
  <2>1. TypeOK /\ LockInv
    BY DEF BudgetInv
  <2>2. file = job[p].seen /\ file' = job[p].next /\ OneStep(job[p])
    BY <2>1, RenameFacts
  <2>3. CASE /\ job[p].call \in Calls /\ job[p].call \notin job[p].seen.pending
             /\ L!Admissible(job[p].seen, job[p].call)
             /\ job[p].next = L!Admitted(job[p].seen, job[p].call)
    BY <2>2, <2>3 DEF L!Next, L!Admit
  <2>4. CASE job[p].next = job[p].seen
    BY <2>2, <2>4
  <2>5. CASE /\ job[p].call \in Calls /\ used[job[p].call] # none
             /\ job[p].call \in job[p].seen.pending
             /\ job[p].next = L!Settled(job[p].seen, job[p].call, used[job[p].call])
    <3>1. used[job[p].call] \in Usages
      BY <2>1, <2>5 DEF TypeOK
    <3> QED
      BY <2>2, <2>5, <3>1 DEF L!Next, L!Settle
  <2>6. CASE \E policy \in Policies : job[p].next = [job[p].seen EXCEPT !.policy = policy]
    BY <2>2, <2>6 DEF L!Next, L!SetPolicy
  <2> QED
    BY <2>2, <2>3, <2>4, <2>5, <2>6 DEF OneStep
<1> QED
  BY <1>1, <1>2, BudgetInvariant, PTL DEF Spec, LedgerIsAtomic, L!Spec

(* A call goes out only after it is counted (admit). *)
THEOREM AdmittedCounted == Spec => []AdmittedIsCounted
<1>1. BudgetInv => AdmittedIsCounted
  <2> SUFFICES ASSUME BudgetInv PROVE AdmittedIsCounted
    OBVIOUS
  <2>1. IsFiniteSet(Charged)
    BY BudgetAssumption, FS_Subset DEF Charged, Counted
  <2>2. IsFiniteSet(Counted) /\ Cardinality(Counted) <= Cardinality(Charged)
    BY <2>1, FS_Subset, SMTT(30) DEF Charged
  <2>3. Cardinality(Counted) \in Nat /\ Cardinality(Charged) \in Nat
    BY <2>1, <2>2, FS_CardinalityType
  <2>4. file.requests \in Nat
    BY DEF BudgetInv, TypeOK, Ledgers
  <2> QED
    BY <2>2, <2>3, <2>4, SMTT(30) DEF BudgetInv, ChargedInv, AdmittedIsCounted
<1> QED
  BY <1>1, BudgetInvariant, PTL

(* No process mistakes the work of the others for a roll-back (read). *)
THEOREM HistoryIsAccepted == Spec => []HistoryAccepted
<1>1. BudgetInv => HistoryAccepted
  BY DEF BudgetInv, HistoryInv, HistoryAccepted, Consistent
<1> QED
  BY <1>1, BudgetInvariant, PTL

(* A call goes out only below the limit, and under a limit of tokens or dollars
   only when the usage of every earlier call is known (problem, admit). *)
THEOREM AdmissionLimited == Spec => AdmissionWithinLimit
<1> DEFINE A == \A c \in Calls : owner[c] = none /\ owner'[c] # none =>
       /\ file'.policy.unit = "requests" => file'.requests <= file'.policy.limit
       /\ file'.policy.unit = "tokens" =>
            file'.pending = {c} /\ ~file'.uncertainTokens /\ file'.tokens < file'.policy.limit
       /\ file'.policy.unit = "usd" =>
            file'.pending = {c} /\ ~file'.uncertainUsd /\ file'.usd < file'.policy.limit
<1>1. BudgetInv /\ [Next]_vars => [A]_vars
  <2> SUFFICES ASSUME BudgetInv, Next, NEW c \in Calls, owner[c] = none, owner'[c] # none
               PROVE  /\ file'.policy.unit = "requests" => file'.requests <= file'.policy.limit
                      /\ file'.policy.unit = "tokens" =>
                           /\ file'.pending = {c} /\ ~file'.uncertainTokens
                           /\ file'.tokens < file'.policy.limit
                      /\ file'.policy.unit = "usd" =>
                           /\ file'.pending = {c} /\ ~file'.uncertainUsd
                           /\ file'.usd < file'.policy.limit
    OBVIOUS
  <2>1. PICK p \in Procs : verify(p)
    BY ZenonT(40) DEF Next, admit, settle, setPolicy, read, rename, storageError, Crash
  <2>2. job[p].op = "admit" /\ c = job[p].call
    BY <2>1 DEF verify, BudgetInv, TypeOK
  <2> DEFINE l == job[p].seen
  <2>3. l \in Ledgers
    BY DEF BudgetInv, TypeOK, Jobs
  <2>4. file' = L!Admitted(l, c) /\ L!Admissible(l, c)
    BY <2>1, <2>2 DEF verify, At, BudgetInv, LockInv, OneStep
  <2> HIDE DEF l
  <2>5. /\ file'.policy = l.policy /\ file'.requests = l.requests + 1
        /\ file'.pending = l.pending \cup {c}
        /\ file'.tokens = l.tokens /\ file'.uncertainTokens = l.uncertainTokens
        /\ file'.usd = l.usd /\ file'.uncertainUsd = l.uncertainUsd
    BY <2>3, <2>4, AdmittedFields
  <2>6. /\ l.requests \in Nat /\ l.tokens \in Nat /\ l.usd \in Nat
        /\ l.policy \in Policies \cup {L!Unlimited}
    BY <2>3 DEF Ledgers
  <2>7. l.policy.unit \in {"requests", "tokens", "usd"} =>
          l.policy # L!Unlimited /\ l.policy.limit \in Nat
    BY <2>6, BudgetAssumption, SMTT(30) DEF L!Unlimited
  <2>8. ~L!Exhausted(l) /\ ~L!Uncertain(l)
    BY <2>4 DEF L!Admissible
  <2>9. /\ l.policy.unit = "requests" => l.requests < l.policy.limit
        /\ l.policy.unit = "tokens" => l.tokens < l.policy.limit
        /\ l.policy.unit = "usd" => l.usd < l.policy.limit
    BY <2>6, <2>7, <2>8, SMTT(30) DEF L!Exhausted, L!Amount
  <2>10. /\ l.policy.unit = "tokens" => l.pending = {} /\ ~l.uncertainTokens
         /\ l.policy.unit = "usd" => l.pending = {} /\ ~l.uncertainUsd
    BY <2>8 DEF L!Uncertain
  <2>11. file'.policy.unit = "requests" => file'.requests <= file'.policy.limit
    BY <2>5, <2>6, <2>7, <2>9, SMTT(30)
  <2>12. file'.policy.unit = "tokens" =>
           file'.pending = {c} /\ ~file'.uncertainTokens /\ file'.tokens < file'.policy.limit
    BY <2>5, <2>9, <2>10
  <2>13. file'.policy.unit = "usd" =>
           file'.pending = {c} /\ ~file'.uncertainUsd /\ file'.usd < file'.policy.limit
    BY <2>5, <2>9, <2>10
  <2> QED
    BY <2>11, <2>12, <2>13
<1> QED
  BY <1>1, BudgetInvariant, PTL DEF Spec, AdmissionWithinLimit
=============================================================================
