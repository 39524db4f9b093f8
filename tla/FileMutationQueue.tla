-------------------------- MODULE FileMutationQueue --------------------------
(***************************************************************************)
(* withFileMutationQueue (packages/coding-agent/src/core/tools/            *)
(* file-mutation-queue.ts): the edit, write and image tools run their      *)
(* mutation of a file in a queue of that file.  A queue is a chain of      *)
(* promises found under the real path of the file, or under the path as it *)
(* was given when the file does not exist.                                 *)
(***************************************************************************)
EXTENDS Integers

CONSTANTS
  Calls,      \* calls of withFileMutationQueue
  Paths,      \* paths they may name, the real paths included
  File,       \* the real path of the file that a path leads to
  Volatile,   \* files that mutations create and others delete
  none        \* stands for a promise that is resolved from the start

ASSUME PathAssumption ==
  /\ File \in [Paths -> Paths]
  /\ \A p \in Paths : File[File[p]] = File[p]
  /\ Volatile \subseteq Paths
  /\ none \notin Calls

VARIABLES
  pc,        \* how far each call is
  path,      \* the path it was given
  ticket,    \* its place in the chain registrationQueue
  tickets,   \* the places handed out
  serving,   \* the place whose registration is next or under way
  key,       \* key
  prev,      \* the call whose chainedQueue is this call's currentQueue
  queues,    \* fileMutationQueues: the call whose chainedQueue is the last
  exists     \* the files that exist

vars == <<pc, path, ticket, tickets, serving, key, prev, queues, exists>>

Stages == {"idle", "registering", "resolved", "queued", "running", "done", "rejected"}

-----------------------------------------------------------------------------
Init ==
  /\ pc = [c \in Calls |-> "idle"]
  /\ path \in [Calls -> Paths]
  /\ ticket = [c \in Calls |-> 0]
  /\ tickets = 0 /\ serving = 0
  /\ key = path
  /\ prev = [c \in Calls |-> none]
  /\ queues = [k \in Paths |-> none]
  /\ \E s \in SUBSET Volatile : exists = {File[p] : p \in Paths} \ s

(* registrationQueue.then(...): registrations run one after the other, in the
   order of the calls. *)
Call(c) ==
  /\ pc[c] = "idle"
  /\ pc' = [pc EXCEPT ![c] = "registering"]
  /\ ticket' = [ticket EXCEPT ![c] = tickets]
  /\ tickets' = tickets + 1
  /\ UNCHANGED <<path, serving, key, prev, queues, exists>>

(* mutant: the path is the key as it was given *)
BugPathIsKey(p) == p

(* mutant: a file that does not exist has no key *)
BugMissingUnkeyed(p) == IF File[p] \in exists THEN File[p] ELSE none

getMutationQueueKey(p) == IF File[p] \in exists THEN File[p] ELSE p

(* mutant: the key is looked up before the registrations in front are through *)
BugResolveAtOnce(c) ==
  /\ pc[c] = "registering"
  /\ pc' = [pc EXCEPT ![c] = "resolved"]
  /\ key' = [key EXCEPT ![c] = getMutationQueueKey(path[c])]
  /\ UNCHANGED <<path, ticket, tickets, serving, prev, queues, exists>>

Resolve(c) ==
  /\ pc[c] = "registering" /\ ticket[c] = serving
  /\ pc' = [pc EXCEPT ![c] = "resolved"]
  /\ key' = [key EXCEPT ![c] = getMutationQueueKey(path[c])]
  /\ UNCHANGED <<path, ticket, tickets, serving, prev, queues, exists>>

(* mutant: the registrations behind a rejected one never run *)
BugRejectBlocks(c) ==
  /\ pc[c] = "registering" /\ ticket[c] = serving
  /\ pc' = [pc EXCEPT ![c] = "rejected"]
  /\ UNCHANGED <<path, ticket, tickets, serving, key, prev, queues, exists>>

(* realpath fails otherwise: the call rejects, the registrations go on. *)
ResolveFails(c) ==
  /\ pc[c] = "registering" /\ ticket[c] = serving
  /\ pc' = [pc EXCEPT ![c] = "rejected"]
  /\ serving' = serving + 1
  /\ UNCHANGED <<path, ticket, tickets, key, prev, queues, exists>>

Register(c) ==
  /\ pc[c] = "resolved"
  /\ pc' = [pc EXCEPT ![c] = "queued"]
  /\ prev' = [prev EXCEPT ![c] = queues[key[c]]]
  /\ queues' = [queues EXCEPT ![key[c]] = c]
  /\ serving' = serving + 1
  /\ UNCHANGED <<path, ticket, tickets, key, exists>>

(* await currentQueue.  The chainedQueue of a call resolves once its own
   currentQueue has and the call has released it; a call that is done has
   waited for the first already. *)
Start(c) ==
  /\ pc[c] = "queued"
  /\ prev[c] # none => pc[prev[c]] = "done"
  /\ pc' = [pc EXCEPT ![c] = "running"]
  /\ UNCHANGED <<path, ticket, tickets, serving, key, prev, queues, exists>>

(* fn creates the file. *)
Create(c) ==
  /\ pc[c] = "running" /\ File[path[c]] \in Volatile
  /\ exists' = exists \cup {File[path[c]]}
  /\ UNCHANGED <<pc, path, ticket, tickets, serving, key, prev, queues>>

(* Somebody else removes it. *)
Delete(f) ==
  /\ f \in exists \cap Volatile
  /\ exists' = exists \ {f}
  /\ UNCHANGED <<pc, path, ticket, tickets, serving, key, prev, queues>>

(* mutant: the queue is never forgotten *)
BugNeverDelete(c) ==
  /\ pc[c] = "running"
  /\ pc' = [pc EXCEPT ![c] = "done"]
  /\ UNCHANGED <<path, ticket, tickets, serving, key, prev, queues, exists>>

(* fn has resolved or rejected: the finally block. *)
Finish(c) ==
  /\ pc[c] = "running"
  /\ pc' = [pc EXCEPT ![c] = "done"]
  /\ queues' = IF queues[key[c]] = c THEN [queues EXCEPT ![key[c]] = none] ELSE queues
  /\ UNCHANGED <<path, ticket, tickets, serving, key, prev, exists>>

Step(c) == Resolve(c) \/ ResolveFails(c) \/ Register(c) \/ Start(c) \/ Finish(c)

Next ==
  \/ \E c \in Calls : Call(c) \/ Step(c) \/ Create(c)
  \/ \E f \in Volatile : Delete(f)

Spec == Init /\ [][Next]_vars

(* realpath and fn settle, and the event loop runs what is ready. *)
FairSpec == Spec /\ \A c \in Calls : WF_vars(Step(c))
-----------------------------------------------------------------------------
(* Properties *)

(* Every variable has its type: each call is at a stage of its own and each
   queue is empty or ends with a call. *)
TypeOK ==
  /\ pc \in [Calls -> Stages]
  /\ path \in [Calls -> Paths] /\ key \in [Calls -> Paths]
  /\ ticket \in [Calls -> Nat] /\ tickets \in Nat /\ serving \in Nat
  /\ prev \in [Calls -> Calls \cup {none}]
  /\ queues \in [Paths -> Calls \cup {none}]
  /\ exists \subseteq Paths

(* No file that comes and goes is reached by a second path. *)
NoVolatileAlias == \A p \in Paths : File[p] \in Volatile => File[p] = p

(* "Serialize file mutation operations targeting the same file"
   (file-mutation-queue.ts:29): two mutations of one file never run at the same
   time, whichever of its paths they were given.  It holds under
   NoVolatileAlias. *)
ExclusivePerFile ==
  \A c, d \in Calls :
    pc[c] = "running" /\ pc[d] = "running" /\ File[path[c]] = File[path[d]] => c = d

Begun(c) == pc[c] \in {"running", "done"}

(* Mutations of one file run in the order in which the tools asked for them:
   when one has begun, all that were asked for before it are over.  It holds
   under NoVolatileAlias. *)
FirstComeFirstServed ==
  \A c, d \in Calls :
    /\ Begun(d) /\ pc[c] # "idle" /\ ticket[c] < ticket[d]
    /\ File[path[c]] = File[path[d]]
    => pc[c] \in {"done", "rejected"}

(* Nothing is left in the map once all calls are settled: it does not grow with
   the number of files that were ever touched. *)
MapEmptied ==
  (\A c \in Calls : pc[c] \in {"idle", "done", "rejected"}) =>
    \A k \in Paths : queues[k] = none

(* Every call is settled, whatever realpath and fn do for the calls in front. *)
CallsSettle == \A c \in Calls : pc[c] = "registering" ~> pc[c] \in {"done", "rejected"}
-----------------------------------------------------------------------------
(* The inductive invariant *)

Registered(c) == pc[c] \in {"queued", "running", "done"}

TicketInv ==
  /\ serving <= tickets
  /\ \A c \in Calls : pc[c] # "idle" => ticket[c] < tickets
  /\ \A c, d \in Calls :
       pc[c] # "idle" /\ pc[d] # "idle" /\ ticket[c] = ticket[d] => c = d
  /\ \A c \in Calls : pc[c] = "registering" => ticket[c] >= serving
  /\ \A c \in Calls : pc[c] = "resolved" => ticket[c] = serving
  /\ \A c \in Calls : Registered(c) => ticket[c] < serving

KeyInv ==
  /\ \A p \in Paths : File[p] \notin Volatile => File[p] \in exists
  /\ \A c \in Calls : Registered(c) \/ pc[c] = "resolved" => key[c] = File[path[c]]

Earlier(c, d) == Registered(c) /\ key[c] = key[d] /\ ticket[c] < ticket[d]

(* A call begins when all in front of it in its queue are done. *)
BegunInv == \A c, d \in Calls : Begun(d) /\ Earlier(c, d) => pc[c] = "done"

(* A call waits for the last of those in front of it, or for nobody when they
   were all done. *)
PrevInv ==
  \A d \in Calls : pc[d] = "queued" =>
    /\ prev[d] # none => Registered(prev[d]) /\ key[prev[d]] = key[d]
    /\ \A c \in Calls : Earlier(c, d) =>
         IF prev[d] = none THEN pc[c] = "done"
         ELSE c = prev[d] \/ ticket[c] < ticket[prev[d]]

(* The map holds the last call of every queue that is not done. *)
MapInv ==
  \A k \in Paths :
    IF queues[k] = none
    THEN \A c \in Calls : Registered(c) /\ key[c] = k => pc[c] = "done"
    ELSE /\ pc[queues[k]] \in {"queued", "running"} /\ key[queues[k]] = k
         /\ \A c \in Calls : Registered(c) /\ key[c] = k =>
              c = queues[k] \/ ticket[c] < ticket[queues[k]]

QueueInv == TicketInv /\ BegunInv /\ PrevInv /\ MapInv
=============================================================================
