----------------------- MODULE FileMutationQueueProofs -----------------------
(***************************************************************************)
(* For any number of calls, paths and files: what FileMutationQueue        *)
(* promises.                                                               *)
(***************************************************************************)
EXTENDS FileMutationQueue, TLAPS

(* A leaf that names no prover is Zenon's. *)
USE Zenon

(* The specification keeps its types. *)
THEOREM TypeCorrect == Spec => []TypeOK
<1>1. Init => TypeOK
  BY PathAssumption, SMTT(30) DEF Init, TypeOK, Stages
<1>2. TypeOK /\ [Next]_vars => TypeOK'
  <2> SUFFICES ASSUME TypeOK, [Next]_vars PROVE TypeOK'
    OBVIOUS
  <2> USE PathAssumption DEF TypeOK, Stages
  <2>1. ASSUME NEW c \in Calls, Call(c) PROVE TypeOK'
    BY <2>1, SMTT(30) DEF Call
  <2>2. ASSUME NEW c \in Calls, Resolve(c) PROVE TypeOK'
    BY <2>2 DEF Resolve, getMutationQueueKey
  <2>3. ASSUME NEW c \in Calls, ResolveFails(c) PROVE TypeOK'
    BY <2>3, SMTT(30) DEF ResolveFails
  <2>4. ASSUME NEW c \in Calls, Register(c) PROVE TypeOK'
    BY <2>4, SMTT(30) DEF Register
  <2>5. ASSUME NEW c \in Calls, Start(c) PROVE TypeOK'
    BY <2>5 DEF Start
  <2>6. ASSUME NEW c \in Calls, Finish(c) PROVE TypeOK'
    BY <2>6 DEF Finish
  <2>7. ASSUME NEW c \in Calls, Create(c) PROVE TypeOK'
    BY <2>7 DEF Create
  <2>8. ASSUME NEW f \in Volatile, Delete(f) PROVE TypeOK'
    BY <2>8 DEF Delete
  <2>9. CASE UNCHANGED vars
    BY <2>9 DEF vars
  <2> QED
    BY <2>1, <2>2, <2>3, <2>4, <2>5, <2>6, <2>7, <2>8, <2>9 DEF Next, Step
<1> QED
  BY <1>1, <1>2, PTL DEF Spec
-----------------------------------------------------------------------------
(* The steps that no part of QueueInv looks at *)
LEMMA FilesOnly ==
  ASSUME QueueInv, UNCHANGED <<pc, path, ticket, tickets, serving, key, prev, queues>>
  PROVE  QueueInv'
  BY DEF QueueInv, TicketInv, BegunInv, PrevInv, MapInv, Earlier, Registered, Begun

(* A call that is not registered yet is in no queue: the queues do not change
   when it is made, resolves its key or is rejected. *)
LEMMA Unregistered ==
  ASSUME TypeOK, QueueInv, NEW c \in Calls, Call(c) \/ Resolve(c) \/ ResolveFails(c)
  PROVE  BegunInv' /\ PrevInv' /\ MapInv'
<1> USE DEF TypeOK, Stages, QueueInv, TicketInv, Call, Resolve, ResolveFails
<1>1. ~Registered(c) /\ ~Registered(c)'
  BY DEF Registered
<1>2. \A d \in Calls \ {c} :
        pc'[d] = pc[d] /\ ticket'[d] = ticket[d] /\ key'[d] = key[d]
  OBVIOUS
<1>3. prev' = prev /\ queues' = queues
  OBVIOUS
<1> HIDE DEF TicketInv, Call, Resolve, ResolveFails
<1>4. BegunInv'
  BY <1>1, <1>2 DEF BegunInv, Earlier, Registered, Begun
<1>5. PrevInv'
  <2> SUFFICES ASSUME NEW d \in Calls, pc'[d] = "queued"
      PROVE  /\ prev'[d] # none => Registered(prev[d])' /\ key'[prev'[d]] = key'[d]
             /\ \A e \in Calls : Earlier(e, d)' =>
                  IF prev'[d] = none THEN pc'[e] = "done"
                  ELSE e = prev'[d] \/ ticket'[e] < ticket'[prev'[d]]
    BY DEF PrevInv
  <2>1. d # c /\ pc[d] = "queued"
    BY <1>1, <1>2 DEF Registered
  <2>2. prev[d] # none => prev[d] \in Calls \ {c} /\ Registered(prev[d])
    BY <1>1, <2>1 DEF PrevInv
  <2>3. \A e \in Calls : Earlier(e, d)' => e # c /\ Earlier(e, d)
    BY <1>1, <1>2, <2>1 DEF Earlier, Registered
  <2> QED
    BY <1>2, <1>3, <2>1, <2>2, <2>3, SMTT(30) DEF PrevInv, Registered
<1>6. MapInv'
  BY <1>1, <1>2, <1>3, SMTT(30) DEF MapInv, Registered
<1> QED
  BY <1>4, <1>5, <1>6

LEMMA TicketStep ==
  ASSUME TypeOK, TicketInv, [Next]_vars
  PROVE  TicketInv'
<1> USE DEF TypeOK, Stages, TicketInv, Registered
<1>1. ASSUME NEW c \in Calls, Call(c) PROVE TicketInv'
  BY <1>1, SMTT(30) DEF Call
<1>2. ASSUME NEW c \in Calls, Resolve(c) PROVE TicketInv'
  BY <1>2 DEF Resolve
<1>3. ASSUME NEW c \in Calls, ResolveFails(c) PROVE TicketInv'
  BY <1>3, SMTT(30) DEF ResolveFails
<1>4. ASSUME NEW c \in Calls, Register(c) PROVE TicketInv'
  <2>1. pc[c] = "resolved" /\ ticket[c] = serving /\ ticket[c] < tickets
    BY <1>4 DEF Register
  <2>2. \A d \in Calls \ {c} : pc[d] # "idle" => ticket[d] # serving
    BY <2>1
  <2>3. /\ serving' = serving + 1 /\ tickets' = tickets /\ ticket' = ticket
        /\ pc'[c] = "queued" /\ \A d \in Calls \ {c} : pc'[d] = pc[d]
    BY <1>4 DEF Register
  <2>4. serving' <= tickets' /\ \A d \in Calls : pc'[d] # "idle" => ticket'[d] < tickets'
    BY <2>1, <2>3, SMTT(30)
  <2>5. \A d, e \in Calls :
          pc'[d] # "idle" /\ pc'[e] # "idle" /\ ticket'[d] = ticket'[e] => d = e
    BY <2>1, <2>3, ZenonT(40)
  <2>6. \A d \in Calls : pc'[d] = "registering" => ticket'[d] >= serving'
    BY <2>2, <2>3, SMTT(30)
  <2>7. \A d \in Calls : pc'[d] = "resolved" => ticket'[d] = serving'
    BY <2>2, <2>3
  <2>8. \A d \in Calls : Registered(d)' => ticket'[d] < serving'
    BY <2>1, <2>3, SMTT(30)
  <2> QED
    BY <2>4, <2>5, <2>6, <2>7, <2>8
<1>5. ASSUME NEW c \in Calls, Start(c) PROVE TicketInv'
  BY <1>5, ZenonT(40) DEF Start
<1>6. ASSUME NEW c \in Calls, Finish(c) PROVE TicketInv'
  BY <1>6 DEF Finish
<1>7. ASSUME NEW c \in Calls, Create(c) PROVE TicketInv'
  BY <1>7 DEF Create
<1>8. ASSUME NEW f \in Volatile, Delete(f) PROVE TicketInv'
  BY <1>8 DEF Delete
<1>9. CASE UNCHANGED vars
  BY <1>9 DEF vars
<1> QED
  BY <1>1, <1>2, <1>3, <1>4, <1>5, <1>6, <1>7, <1>8, <1>9 DEF Next, Step

(* A call joins the end of its queue: all that are registered came before it. *)
LEMMA RegisterStep ==
  ASSUME TypeOK, QueueInv, NEW c \in Calls, Register(c)
  PROVE  BegunInv' /\ PrevInv' /\ MapInv'
<1> USE PathAssumption DEF TypeOK, QueueInv
<1>1. /\ pc[c] = "resolved" /\ pc'[c] = "queued" /\ ~Registered(c)
      /\ \A d \in Calls \ {c} : pc'[d] = pc[d] /\ prev'[d] = prev[d]
      /\ ticket' = ticket /\ key' = key
      /\ prev'[c] = queues[key[c]] /\ queues' = [queues EXCEPT ![key[c]] = c]
  BY DEF Register, Registered
<1>2. \A d \in Calls : Registered(d) => ticket[d] < ticket[c]
  BY <1>1 DEF TicketInv
<1>3. \A d \in Calls \ {c} : ~Earlier(c, d)' \/ ~Registered(d)
  BY <1>1, <1>2, SMTT(30) DEF Earlier
<1>4. \A d \in Calls, e \in Calls \ {c} : Earlier(e, d)' => Registered(e)
  BY <1>1 DEF Earlier, Registered
<1>5. BegunInv'
  BY <1>1, <1>3, <1>4, ZenonT(40) DEF BegunInv, Begun, Registered, Earlier
<1>6. PrevInv'
  <2> SUFFICES ASSUME NEW d \in Calls, pc'[d] = "queued"
      PROVE  /\ prev'[d] # none => Registered(prev[d])' /\ key'[prev'[d]] = key'[d]
             /\ \A e \in Calls : Earlier(e, d)' =>
                  IF prev'[d] = none THEN pc'[e] = "done"
                  ELSE e = prev'[d] \/ ticket'[e] < ticket'[prev'[d]]
    BY DEF PrevInv
  <2>1. CASE d = c
    <3>1. \A e \in Calls : Earlier(e, c)' => e # c /\ Registered(e) /\ key[e] = key[c]
      BY <1>1, <1>4, SMTT(30) DEF Earlier, TicketInv
    <3> QED
      BY <1>1, <2>1, <3>1, SMTT(30) DEF MapInv, Registered
  <2>2. CASE d # c
    <3>1. pc[d] = "queued" /\ Registered(d)
      BY <1>1, <2>2 DEF Registered
    <3>2. \A e \in Calls : Earlier(e, d)' => e # c /\ Earlier(e, d)
      BY <1>1, <1>3, <1>4, <2>2, <3>1 DEF Earlier
    <3>3. prev[d] # none => prev[d] \in Calls \ {c} /\ Registered(prev[d])
      BY <1>1, <3>1 DEF PrevInv
    <3> QED
      BY <1>1, <2>2, <3>1, <3>2, <3>3, SMTT(30) DEF PrevInv, Registered
  <2> QED
    BY <2>1, <2>2
<1>7. MapInv'
  <2> SUFFICES ASSUME NEW k \in Paths
      PROVE  IF queues'[k] = none
             THEN \A d \in Calls : Registered(d)' /\ key'[d] = k => pc'[d] = "done"
             ELSE /\ pc'[queues'[k]] \in {"queued", "running"} /\ key'[queues'[k]] = k
                  /\ \A d \in Calls : Registered(d)' /\ key'[d] = k =>
                       d = queues'[k] \/ ticket'[d] < ticket'[queues'[k]]
    BY DEF MapInv
  <2>1. CASE k = key[c]
    BY <1>1, <1>2, <2>1 DEF Registered
  <2>2. CASE k # key[c]
    <3>1. queues'[k] = queues[k] /\ queues[k] # c
      BY <1>1, <2>2, SMTT(30) DEF MapInv
    <3> QED
      BY <1>1, <2>2, <3>1, SMTT(30) DEF MapInv, Registered
  <2> QED
    BY <2>1, <2>2
<1> QED
  BY <1>5, <1>6, <1>7

(* A call starts when the one it waits for is done, and with it all in front. *)
LEMMA StartStep ==
  ASSUME TypeOK, QueueInv, NEW c \in Calls, Start(c)
  PROVE  BegunInv' /\ PrevInv' /\ MapInv'
<1> USE PathAssumption DEF TypeOK, QueueInv
<1>1. /\ pc[c] = "queued" /\ pc'[c] = "running"
      /\ \A d \in Calls \ {c} : pc'[d] = pc[d]
      /\ UNCHANGED <<ticket, key, prev, queues>>
      /\ prev[c] # none => pc[prev[c]] = "done"
  BY DEF Start
<1>2. \A d \in Calls : Registered(d)' <=> Registered(d)
  BY <1>1 DEF Registered
<1>3. \A d \in Calls : Earlier(d, c) => pc[d] = "done"
  <2> SUFFICES ASSUME NEW d \in Calls, Earlier(d, c) PROVE pc[d] = "done"
    OBVIOUS
  <2>1. CASE prev[c] = none
    BY <1>1, <2>1 DEF PrevInv
  <2>2. CASE prev[c] # none
    <3>1. prev[c] \in Calls /\ key[prev[c]] = key[c] /\ Begun(prev[c])
      BY <1>1, <2>2 DEF PrevInv, Begun
    <3>2. d = prev[c] \/ Earlier(d, prev[c])
      BY <1>1, <2>2, <3>1 DEF PrevInv, Earlier
    <3> QED
      BY <1>1, <2>2, <3>1, <3>2 DEF BegunInv
  <2> QED
    BY <2>1, <2>2
<1>4. BegunInv'
  BY <1>1, <1>2, <1>3, SMTT(30) DEF BegunInv, Begun, Earlier, TicketInv
<1>5. PrevInv'
  BY <1>1, <1>2, SMTT(30) DEF PrevInv, Earlier
<1>6. MapInv'
  BY <1>1, <1>2, SMTT(30) DEF MapInv
<1> QED
  BY <1>4, <1>5, <1>6

(* The last of a queue leaves the map when it is done. *)
LEMMA FinishStep ==
  ASSUME TypeOK, QueueInv, NEW c \in Calls, Finish(c)
  PROVE  BegunInv' /\ PrevInv' /\ MapInv'
<1> USE PathAssumption DEF TypeOK, QueueInv
<1>1. /\ pc[c] = "running" /\ pc'[c] = "done"
      /\ \A d \in Calls \ {c} : pc'[d] = pc[d]
      /\ UNCHANGED <<ticket, key, prev>>
      /\ queues' = IF queues[key[c]] = c THEN [queues EXCEPT ![key[c]] = none] ELSE queues
  BY DEF Finish
<1>2. \A d \in Calls : (Registered(d)' <=> Registered(d)) /\ (Begun(d)' <=> Begun(d))
  BY <1>1 DEF Registered, Begun
<1>3. BegunInv'
  BY <1>1, <1>2 DEF BegunInv, Earlier
<1>4. PrevInv'
  BY <1>1, <1>2, SMTT(30) DEF PrevInv, Earlier
<1>5. MapInv'
  <2> SUFFICES ASSUME NEW k \in Paths
      PROVE  IF queues'[k] = none
             THEN \A d \in Calls : Registered(d)' /\ key'[d] = k => pc'[d] = "done"
             ELSE /\ pc'[queues'[k]] \in {"queued", "running"} /\ key'[queues'[k]] = k
                  /\ \A d \in Calls : Registered(d)' /\ key'[d] = k =>
                       d = queues'[k] \/ ticket'[d] < ticket'[queues'[k]]
    BY DEF MapInv
  <2>1. CASE queues[k] = c
    <3>1. key[c] = k /\ queues'[k] = none
      BY <1>1, <2>1 DEF MapInv
    <3>2. \A d \in Calls : Registered(d) /\ key[d] = k => d = c \/ Earlier(d, c)
      BY <1>1, <2>1, <3>1 DEF MapInv, Earlier
    <3> QED
      BY <1>1, <1>2, <3>1, <3>2 DEF BegunInv, Begun
  <2>2. CASE queues[k] # c
    BY <1>1, <1>2, <2>2, SMTT(30) DEF MapInv
  <2> QED
    BY <2>1, <2>2
<1> QED
  BY <1>3, <1>4, <1>5

(* Whatever the paths, calls with one key run in the order of their tickets and
   the map holds the unfinished queues. *)
THEOREM QueuesCorrect == Spec => []QueueInv
<1>1. Init => QueueInv
  BY SMTT(30) DEF Init, QueueInv, TicketInv, BegunInv, PrevInv, MapInv, Earlier, Registered, Begun
<1>2. TypeOK /\ QueueInv /\ [Next]_vars => QueueInv'
  <2> SUFFICES ASSUME TypeOK, QueueInv, [Next]_vars PROVE QueueInv'
    OBVIOUS
  <2>1. TicketInv'
    BY TicketStep DEF QueueInv
  <2>2. ASSUME NEW c \in Calls, Call(c) \/ Resolve(c) \/ ResolveFails(c) PROVE QueueInv'
    BY <2>1, <2>2, Unregistered DEF QueueInv
  <2>3. ASSUME NEW c \in Calls, Register(c) PROVE QueueInv'
    BY <2>1, <2>3, RegisterStep DEF QueueInv
  <2>4. ASSUME NEW c \in Calls, Start(c) PROVE QueueInv'
    BY <2>1, <2>4, StartStep DEF QueueInv
  <2>5. ASSUME NEW c \in Calls, Finish(c) PROVE QueueInv'
    BY <2>1, <2>5, FinishStep DEF QueueInv
  <2>6. ASSUME NEW c \in Calls, Create(c) PROVE QueueInv'
    BY <2>6, FilesOnly DEF Create
  <2>7. ASSUME NEW f \in Volatile, Delete(f) PROVE QueueInv'
    BY <2>7, FilesOnly DEF Delete
  <2>8. CASE UNCHANGED vars
    BY <2>8, FilesOnly DEF vars
  <2> QED
    BY <2>2, <2>3, <2>4, <2>5, <2>6, <2>7, <2>8 DEF Next, Step
<1> QED
  BY <1>1, <1>2, TypeCorrect, PTL DEF Spec

(* MapEmptied for any number of calls: the map of queues does not leak. *)
THEOREM MapEmptiedHolds == Spec => []MapEmptied
<1>1. TypeOK /\ QueueInv => MapEmptied
  BY SMTT(30) DEF TypeOK, QueueInv, MapInv, MapEmptied
<1> QED
  BY <1>1, TypeCorrect, QueuesCorrect, PTL
-----------------------------------------------------------------------------
(* Without a second path to a file that comes and goes, the key of a call is
   the real path of its file, whenever it was looked up. *)
THEOREM KeyIsFile == NoVolatileAlias => (Spec => []KeyInv)
<1> SUFFICES ASSUME NoVolatileAlias PROVE Spec => []KeyInv
  OBVIOUS
<1> USE PathAssumption DEF TypeOK, KeyInv, Registered
<1>1. Init => KeyInv
  BY DEF Init
<1>2. TypeOK /\ KeyInv /\ [Next]_vars => KeyInv'
  <2> SUFFICES ASSUME TypeOK, KeyInv, [Next]_vars PROVE KeyInv'
    OBVIOUS
  <2>1. ASSUME NEW c \in Calls, Call(c) PROVE KeyInv'
    BY <2>1 DEF Call
  <2>2. ASSUME NEW c \in Calls, Resolve(c) PROVE KeyInv'
    <3>1. getMutationQueueKey(path[c]) = File[path[c]]
      BY DEF getMutationQueueKey, NoVolatileAlias
    <3> QED
      BY <2>2, <3>1 DEF Resolve
  <2>3. ASSUME NEW c \in Calls, ResolveFails(c) PROVE KeyInv'
    BY <2>3 DEF ResolveFails
  <2>4. ASSUME NEW c \in Calls, Register(c) PROVE KeyInv'
    BY <2>4 DEF Register
  <2>5. ASSUME NEW c \in Calls, Start(c) PROVE KeyInv'
    BY <2>5 DEF Start
  <2>6. ASSUME NEW c \in Calls, Finish(c) PROVE KeyInv'
    BY <2>6 DEF Finish
  <2>7. ASSUME NEW c \in Calls, Create(c) PROVE KeyInv'
    BY <2>7 DEF Create
  <2>8. ASSUME NEW f \in Volatile, Delete(f) PROVE KeyInv'
    BY <2>8 DEF Delete
  <2>9. CASE UNCHANGED vars
    BY <2>9 DEF vars
  <2> QED
    BY <2>1, <2>2, <2>3, <2>4, <2>5, <2>6, <2>7, <2>8, <2>9 DEF Next, Step
<1> QED
  BY <1>1, <1>2, TypeCorrect, PTL DEF Spec

(* ExclusivePerFile for any number of calls: mutations of one file never
   overlap, through whatever paths they reach it. *)
THEOREM ExclusiveHolds == NoVolatileAlias => (Spec => []ExclusivePerFile)
<1>1. TypeOK /\ QueueInv /\ KeyInv => ExclusivePerFile
  BY SMTT(30) DEF TypeOK, QueueInv, TicketInv, BegunInv, KeyInv, ExclusivePerFile, Registered,
         Begun, Earlier
<1> QED
  BY <1>1, TypeCorrect, QueuesCorrect, KeyIsFile, PTL

(* FirstComeFirstServed for any number of calls: mutations of one file run in
   the order of the calls. *)
THEOREM OrderHolds == NoVolatileAlias => (Spec => []FirstComeFirstServed)
<1>1. ASSUME TypeOK, QueueInv, KeyInv PROVE FirstComeFirstServed
  <2> SUFFICES ASSUME NEW c \in Calls, NEW d \in Calls, Begun(d), pc[c] # "idle",
                      ticket[c] < ticket[d], File[path[c]] = File[path[d]]
      PROVE  pc[c] \in {"done", "rejected"}
    BY DEF FirstComeFirstServed
  <2>1. Registered(d) /\ ticket[d] < serving
    BY <1>1 DEF Registered, Begun, QueueInv, TicketInv
  <2>2. pc[c] # "registering" /\ pc[c] # "resolved"
    BY <1>1, <2>1, SMTT(30) DEF QueueInv, TicketInv, TypeOK
  <2>3. CASE Registered(c)
    BY <1>1, <2>1, <2>3 DEF KeyInv, QueueInv, BegunInv, Earlier
  <2>4. CASE ~Registered(c)
    BY <1>1, <2>2, <2>4 DEF Registered, TypeOK, Stages
  <2> QED
    BY <2>3, <2>4
<1> QED
  BY <1>1, TypeCorrect, QueuesCorrect, KeyIsFile, PTL
=============================================================================
